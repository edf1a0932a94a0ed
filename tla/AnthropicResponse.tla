-------------------------- MODULE AnthropicResponse --------------------------
(***************************************************************************)
(* The answer a client of /v1/messages gets that asked for no stream: the  *)
(* aggregated events as content blocks, the blocks of a web search before  *)
(* them, and their encoding.                                               *)
(***************************************************************************)
EXTENDS StreamAggregate
INSTANCE ContentBlocks

\* A block of the collected pieces, if there are any.
Collected(type, pieces) == IF pieces = <<>> THEN <<>> ELSE <<Block(type, Empty, pieces)>>

\* Mutant of Finalize: the calls in the order in which they ended.
FinalizeReversed(s) ==
  Collected("thinking", s.thinking) \o Collected("text", s.text)
    \o Reverse([i \in DOMAIN s.toolCalls |->
                  Block("tool_call", s.toolCalls[i].id, Arguments(s.toolCalls[i].args))])

\* StreamAggregateState.Finalize
Finalize(s) ==
  Collected("thinking", s.thinking) \o Collected("text", s.text)
    \o [i \in DOMAIN s.toolCalls |->
          Block("tool_call", s.toolCalls[i].id, Arguments(s.toolCalls[i].args))]

\* The usage of a whole response: nil is left out, and so is a cached 0.
EncodeUsage(usage) ==
  IF usage # NoUsage /\ usage.cached = 0 THEN [usage EXCEPT !.cached = NotCounted] ELSE usage

\* EncodeAnthropicClientResponse, of what aggregateStream has collected.
EncodeAnthropicClientResponse(s, hasWebSearch) ==
  LET content == InjectWebSearchBlocks(Finalize(s), hasWebSearch, s.webSearchResults)
  IN  [content     |-> FlattenSeq([i \in DOMAIN content |-> EncodeBlock(content[i])]),
       stop_reason |-> s.stopReason,
       usage       |-> EncodeUsage(s.usage)]

=============================================================================
