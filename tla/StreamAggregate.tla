--------------------------- MODULE StreamAggregate ---------------------------
(***************************************************************************)
(* StreamAggregateState: the events of a stream that the gateway collects  *)
(* into one response, for a client that asked for no stream from a         *)
(* provider that only streams.  The operators take a state and return the  *)
(* next one.  A text is the sequence of its pieces.                        *)
(***************************************************************************)
EXTENDS StreamEvents

CONSTANTS
  Objects,  \* the argument texts that are JSON
  Reparsed, \* what is left of one that is read into an any and written again
  Null      \* a nil any

ASSUME AggregateAssumption ==
  /\ NotCounted \notin Counts
  /\ Usages \subseteq [tokens : Counts, cached : Counts \cup {NotCounted}]
  /\ NoUsage \notin [tokens : Counts, cached : Counts \cup {NotCounted}]
  /\ Objects \subseteq Seq(Pieces)
  /\ Reparsed \in [Objects -> Seq(Pieces)]
  /\ Null \notin Pieces

NewAggregate ==
  [text |-> <<>>, thinking |-> <<>>, toolCalls |-> <<>>, stopReason |-> Empty,
   usage |-> NoUsage, webSearchResults |-> NoResults, failed |-> FALSE]

\* Mutant of MergeUsage: the first report stays.
MergeUsageOnce(u, v) == IF u = NoUsage THEN v ELSE u

\* Every report has its own counts of prompt and completion; the others stay
\* from an earlier one.
MergeUsage(u, v) ==
  IF u = NoUsage \/ v.cached # NotCounted THEN v ELSE [v EXCEPT !.cached = u.cached]

StartCall(s, index, id) ==
  [s EXCEPT !.toolCalls = Append(@, [index |-> index, id |-> id, args |-> <<>>])]

\* Mutant of ExtendCall: the arguments go to the call that started last.
ExtendCallLast(s, index, args) ==
  IF s.toolCalls = <<>> THEN s
  ELSE [s EXCEPT !.toolCalls[Len(s.toolCalls)].args = Append(@, args)]

\* The last call with this index, if there is one.
ExtendCall(s, index, args) ==
  LET n == SelectLastInSeq(s.toolCalls, LAMBDA call : call.index = index)
  IN  IF n = 0 THEN s ELSE [s EXCEPT !.toolCalls[n].args = Append(@, args)]

\* StreamAggregateState.Apply; a signature has no case.
Apply(s, ev) ==
  CASE ev.type = "text_delta"         -> [s EXCEPT !.text = Append(@, ev.val)]
    [] ev.type = "thinking_delta"     -> [s EXCEPT !.thinking = Append(@, ev.val)]
    [] ev.type = "thinking_signature" -> s
    [] ev.type = "tool_call_start"    -> StartCall(s, ev.index, ev.val)
    [] ev.type = "tool_call_delta"    -> ExtendCall(s, ev.index, ev.val)
    [] ev.type = "message_stop"       -> [s EXCEPT !.stopReason = ev.val]
    [] ev.type = "usage_final"        -> [s EXCEPT !.usage = MergeUsage(@, ev.val)]

\* Once a line was malformed, aggregateStream has returned.
AggregateEvent(s, ev) == IF s.failed THEN s ELSE Apply(s, ev)

AggregateSources(s, results) ==
  IF s.failed THEN s ELSE [s EXCEPT !.webSearchResults = results]

AggregateFails(s) == [s EXCEPT !.failed = TRUE]

\* Finalize unmarshals the arguments and the response encoder marshals them:
\* the order of keys and the white space are lost on the way, and a long integer
\* is rounded to a float64.  What is no JSON, and what is empty, stays nil, which
\* /v1/chat/completions writes as "null" and /v1/messages leaves out.
Arguments(args) == IF args \in Objects THEN Reparsed[args] ELSE <<Null>>

\* Finalize, appendWebSearchFooter and EncodeOpenAIClientResponse: the answer a
\* client of /v1/chat/completions gets.  The footer goes behind the only text
\* block there is, or becomes it; the results stand for their footer.
Answer(s, hasWebSearch) ==
  [text      |-> s.text \o (IF hasWebSearch /\ s.webSearchResults # NoResults
                            THEN <<s.webSearchResults>> ELSE <<>>),
   reasoning |-> s.thinking,
   calls     |-> [i \in DOMAIN s.toolCalls |->
                    [id |-> s.toolCalls[i].id, args |-> Arguments(s.toolCalls[i].args)]],
   finish    |-> s.stopReason,
   usage     |-> s.usage]

=============================================================================
