----------------------------- MODULE StreamModes -----------------------------
(***************************************************************************)
(* One upstream stream, and the two ways /v1/chat/completions may deal     *)
(* with it: passed through to a client that streams, or aggregated for one *)
(* that does not.  Both read the same lines; the question is whether both  *)
(* clients are told the same.                                              *)
(***************************************************************************)
EXTENDS StreamAggregate, OpenAIStream, FiniteSets

CONSTANTS
  Chunks,      \* the chunks an upstream sends that conforms, or does not
  MaxLines     \* bound on the lines of its stream

ASSUME ModesAssumption ==
  /\ Chunks \in [BOOLEAN -> SUBSET Chunk]
  /\ MaxLines \in [BOOLEAN -> Nat]
  /\ Results \cap Pieces = {}

VARIABLES
  hasWebSearch,  \* the request has the web_search tool
  status,        \* "reading", "ended" by [DONE], "eof" without it, "broken"
  lines,         \* number of lines read
  pending,       \* events of the line at hand that both are still to take
  stream,        \* the state of streamOpenAIToOpenAIClient
  aggregate,     \* the state of aggregateStream
  upstream       \* whether it keeps to the order of the API, its phase, its tool calls

vars == <<hasWebSearch, status, lines, pending, stream, aggregate, upstream>>

Init ==
  /\ hasWebSearch \in BOOLEAN
  /\ status = "reading"
  /\ lines = 0
  /\ pending = <<>>
  /\ stream = NewStream
  /\ aggregate = NewAggregate
  /\ upstream \in [conforming : BOOLEAN, phase : {"content"}, tools : {0}]

(* ---------------------------- the upstream ----------------------------- *)

Starts(c, n) == Cardinality({i \in 1..n : c.tools[i].id # Empty})

\* The order of the OpenAI streaming API: tool calls are numbered in the order
\* they start in, and a fragment belongs to one that has started; after the
\* finish reason there is at most one usage report.
InOrder(c) ==
  \/ /\ upstream.phase = "content"
     /\ \A i \in DOMAIN c.tools :
          LET started == upstream.tools + Starts(c, i)
          IN  IF c.tools[i].id # Empty THEN c.tools[i].index = started - 1
                                       ELSE c.tools[i].index < started
     /\ c.usage # NoUsage => c.finish # Empty
  \/ /\ upstream.phase = "finished"
     /\ c = [NoChunk EXCEPT !.usage = c.usage]
     /\ c.usage # NoUsage

Sent(c) ==
  [upstream EXCEPT
     !.phase = IF c.usage # NoUsage THEN "reported"
               ELSE IF c.finish # Empty THEN "finished" ELSE @,
     !.tools = upstream.tools + Starts(c, Len(c.tools))]

(* ------------------------------- actions ------------------------------- *)

Reading ==
  /\ status = "reading" /\ pending = <<>>
  /\ lines < MaxLines[upstream.conforming] /\ lines' = lines + 1

ReadChunk(c) ==
  /\ Reading
  /\ upstream.conforming => InOrder(c)
  /\ pending' = DecodeOpenAIStreamLine(c)
  /\ upstream' = Sent(c)
  /\ UNCHANGED <<hasWebSearch, status, stream, aggregate>>

\* One turn of the loop over the events of a line, in either mode.
TakeNext ==
  /\ pending # <<>>
  /\ stream' = TakeEvent(stream, Head(pending))
  /\ aggregate' = AggregateEvent(aggregate, Head(pending))
  /\ pending' = Tail(pending)
  /\ UNCHANGED <<hasWebSearch, status, lines, upstream>>

\* A conforming OpenWebUI sends its sources before the answer is finished.  Their
\* line has no choices: the aggregate would skip them, and the stream would
\* where it captures the sources, after a web search only.
ReadSources(results) ==
  /\ Reading
  /\ upstream.conforming => upstream.phase = "content"
  /\ stream' = StreamSources(stream, hasWebSearch, results)
  /\ aggregate' = AggregateSources(aggregate, results)
  /\ UNCHANGED <<hasWebSearch, status, pending, upstream>>

\* The stream goes on behind a line that does not decode, the aggregate fails.
ReadMalformed ==
  /\ Reading
  /\ ~upstream.conforming
  /\ aggregate' = AggregateFails(aggregate)
  /\ UNCHANGED <<hasWebSearch, status, pending, stream, upstream>>

ReadDone ==
  /\ Reading
  /\ upstream.conforming => upstream.phase # "content"
  /\ status' = "ended"
  /\ stream' = StreamDone(stream)
  /\ UNCHANGED <<hasWebSearch, pending, aggregate, upstream>>

\* The stream ends without [DONE]: neither takes it for an error.
ReadEOF ==
  /\ status = "reading" /\ pending = <<>>
  /\ status' = "eof"
  /\ UNCHANGED <<hasWebSearch, lines, pending, stream, aggregate, upstream>>

\* Reading fails; only the aggregate has an error to return.
ReadFails ==
  /\ status = "reading" /\ pending = <<>>
  /\ status' = "broken"
  /\ aggregate' = AggregateFails(aggregate)
  /\ UNCHANGED <<hasWebSearch, lines, pending, stream, upstream>>

Returned == status # "reading" /\ UNCHANGED vars

Next ==
  \/ \E c \in Chunks[upstream.conforming] : ReadChunk(c)
  \/ \E results \in Results : ReadSources(results)
  \/ TakeNext \/ ReadMalformed \/ ReadDone \/ ReadEOF \/ ReadFails \/ Returned

Spec == Init /\ [][Next]_vars

(* -------------------- what a streaming client makes of it --------------- *)

\* The positions of the chunks of a kind.
Of(kind) == {i \in DOMAIN stream.out : stream.out[i].kind = kind}

\* Those of the tool call with an index.
OfCall(kind, index) == {i \in Of(kind) : stream.out[i].index = index}

\* How many of a set of positions are not after n.
Rank(positions, n) == Cardinality({m \in positions : m <= n})

\* The chunks at these positions hold these values, in their order.
Tell(positions, vals) ==
  /\ Cardinality(positions) = Len(vals)
  /\ \A i \in positions : stream.out[i].val = vals[Rank(positions, i)]

(* ----------------------------- properties ------------------------------ *)

\* The types, and the two states side by side: they differ in nothing but what
\* they keep.
TypeOK ==
  /\ hasWebSearch \in BOOLEAN
  /\ status \in {"reading", "ended", "eof", "broken"}
  /\ lines \in 0..MaxLines[upstream.conforming]
  /\ pending \in Seq(StreamEvent)
  /\ stream.started \in BOOLEAN
  /\ stream.usageResult \in Usages \cup {NoUsage}
  /\ stream.webSearchResults \in Results \cup {NoResults}
  /\ aggregate.text \in Seq(Pieces)
  /\ aggregate.thinking \in Seq(Pieces)
  /\ aggregate.toolCalls \in
       Seq([index : ToolIndices, id : ToolIDs, args : Seq(Pieces)])
  /\ aggregate.stopReason \in Reasons \cup {Empty}
  /\ aggregate.usage \in
       [tokens : Counts, cached : Counts \cup {NotCounted}] \cup {NoUsage}
  /\ aggregate.failed \in BOOLEAN
  /\ stream.started <=> \E i \in DOMAIN stream.out : stream.out[i].role

\* The client learns the role of the message exactly once, with or before its
\* first text, reasoning or tool call, whatever comes first.
RoleComesFirst ==
  \A i \in DOMAIN stream.out :
    /\ stream.out[i].role => \A j \in 1..(i - 1) : ~stream.out[j].role
    /\ stream.out[i].kind \in {"text", "reasoning", "call"} =>
         \E j \in 1..i : stream.out[j].role

\* Whatever the upstream sends, if the aggregate does not fail then both
\* clients read the same text and the same reasoning, footers aside.
SameContent ==
  ~aggregate.failed =>
    /\ Tell({i \in Of("text") : stream.out[i].val \notin Results}, aggregate.text)
    /\ Tell(Of("reasoning"), aggregate.thinking)

\* Whatever the upstream sends, both modes charge the client for the same
\* prompt and completion, the last ones reported.
SameTokens ==
  ~aggregate.failed =>
    /\ stream.usageResult = NoUsage <=> aggregate.usage = NoUsage
    /\ stream.usageResult # NoUsage => stream.usageResult.tokens = aggregate.usage.tokens

\* With an upstream that keeps to the API, the answer that was finished is the
\* same in both modes: the text with its sources, all of it before the finish
\* reason, that reason, the usage that is told and the usage that is recorded.
SameAnswer ==
  upstream.conforming /\ status = "ended" =>
    LET answer == Answer(aggregate, hasWebSearch)
    IN  /\ Tell(Of("text"), answer.text)
        /\ Tell(Of("finish"), <<answer.finish>>)
        /\ Tell(Of("usage"), IF answer.usage = NoUsage THEN <<>> ELSE <<answer.usage>>)
        /\ stream.usageResult = answer.usage
        /\ \A i \in Of("finish"), j \in Of("text") : j < i

\* With such an upstream, parallel tool calls come out the same, each with its
\* own arguments: where these are JSON, the stream passes them on as they are,
\* and the whole response has what Reparsed leaves of them, with long integers
\* rounded.
SameCalls ==
  upstream.conforming /\ status = "ended" =>
    LET calls == Answer(aggregate, hasWebSearch).calls
    IN  /\ Len(calls) = upstream.tools
        /\ \A i \in DOMAIN calls :
             /\ Tell(OfCall("call", i - 1), <<calls[i].id>>)
             /\ \A args \in Objects :
                  Tell(OfCall("args", i - 1), args) => calls[i].args = Reparsed[args]

=============================================================================
