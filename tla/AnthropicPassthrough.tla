------------------------ MODULE AnthropicPassthrough ------------------------
(***************************************************************************)
(* streamOpenAIToClient: the loop that reads the lines of an upstream's    *)
(* stream, encodes their events for an Anthropic client, and puts the      *)
(* blocks of a web search before the first text.  The upstream chooses the *)
(* lines; the other end, the client, sees enc.out.                         *)
(*                                                                         *)
(* A client that asks for no stream is answered by AnthropicResponse, from *)
(* the same events where the provider only streams.                        *)
(***************************************************************************)
EXTENDS AnthropicEncoder, AnthropicResponse

CONSTANTS
  Chunks,      \* the chunks an upstream sends that conforms, or does not
  MaxLines     \* bound on the lines of its stream

ASSUME PassthroughAssumption ==
  /\ Chunks \in [BOOLEAN -> SUBSET Chunk]
  /\ MaxLines \in [BOOLEAN -> Nat]

VARIABLES
  hasWebSearch,  \* the request has the web_search tool
  status,        \* "reading", "ended" by [DONE], "broken" by EOF or an error
  lines,         \* number of lines read
  pending,       \* events of the line at hand that are still to be encoded
  enc,           \* the encoder, with the frames written
  injected,      \* webSearchInjected
  results,       \* webSearchResults
  usageResult,   \* the usage the handler will record
  received,      \* the events encoded so far
  upstream       \* whether it keeps to the order of the API, its phase, its tool calls

vars == <<hasWebSearch, status, lines, pending, enc, injected, results,
          usageResult, received, upstream>>

Init ==
  /\ hasWebSearch \in BOOLEAN
  /\ status = "reading"
  /\ lines = 0
  /\ pending = <<>>
  /\ enc = NewEncoder
  /\ injected = FALSE
  /\ results = NoResults
  /\ usageResult = NoUsage
  /\ received = <<>>
  /\ upstream \in [conforming : BOOLEAN, phase : {"content"}, tools : {0}]

(* ---------------------------- the upstream ----------------------------- *)

\* The order of the OpenAI streaming API: reasoning and text, then tool calls
\* numbered from 0 whose fragments are contiguous, a finish reason, and one
\* usage report with or after it.
InOrder(c) ==
  \/ /\ upstream.phase = "content"
     /\ c.thinking # Empty \/ c.signature # Empty \/ c.text # Empty => upstream.tools = 0
     /\ Len(c.tools) <= 1
     /\ \A i \in DOMAIN c.tools :
          IF c.tools[i].id # Empty THEN c.tools[i].index = upstream.tools
                                   ELSE c.tools[i].index = upstream.tools - 1
     /\ c.usage # NoUsage => c.finish # Empty
  \/ /\ upstream.phase = "finished"
     /\ c = [NoChunk EXCEPT !.usage = c.usage]
     /\ c.usage # NoUsage

\* The upstream moves on with the chunk it sent.
Sent(c) ==
  [upstream EXCEPT
     !.phase = IF c.usage # NoUsage THEN "reported"
               ELSE IF c.finish # Empty THEN "finished" ELSE @,
     !.tools = IF \E i \in DOMAIN c.tools : c.tools[i].id # Empty
               THEN @ + 1 ELSE @]

(* ------------------------------- actions ------------------------------- *)

Reading == status = "reading" /\ pending = <<>> /\ lines < MaxLines[upstream.conforming]

ReadChunk(c) ==
  /\ Reading
  /\ upstream.conforming => InOrder(c)
  /\ lines' = lines + 1
  /\ pending' = DecodeOpenAIStreamLine(c)
  /\ upstream' = Sent(c)
  /\ UNCHANGED <<hasWebSearch, status, enc, injected, results, usageResult, received>>

\* Mutant of ReadSources: results are captured after the injection, too.
ReadSourcesLate(found) ==
  /\ Reading
  /\ lines' = lines + 1
  /\ results' = IF hasWebSearch THEN found ELSE results
  /\ UNCHANGED <<hasWebSearch, status, pending, enc, injected, usageResult,
                 received, upstream>>

\* A sources event of OpenWebUI.  It is captured until the blocks are injected,
\* and decodes to nothing otherwise.  It has no choices: the loop would skip
\* them where it captures the sources.
ReadSources(found) ==
  /\ Reading
  /\ lines' = lines + 1
  /\ results' = IF hasWebSearch /\ ~injected THEN found ELSE results
  /\ UNCHANGED <<hasWebSearch, status, pending, enc, injected, usageResult,
                 received, upstream>>

\* A keep-alive, a comment, foreign JSON, or a line that does not decode: the
\* last is logged, and all are skipped.
SkipLine ==
  /\ Reading
  /\ lines' = lines + 1
  /\ UNCHANGED <<hasWebSearch, status, pending, enc, injected, results, usageResult,
                 received, upstream>>

\* Mutant of Inject: the blocks go out before message_start.
InjectUnstarted(e) ==
  EmitStandaloneBlock(
    EmitStandaloneBlock(CloseBlock(e), "server_tool_use", Empty),
    "web_search_tool_result", results)

\* The blocks of the web search, after message_start.
Inject(e) == EncodeWebSearch(EncodeText(e, Empty), results)

\* Mutant of EncodeEvent: the synthetic blocks take the place of the event.
EncodeEventReplaced ==
  /\ pending # <<>>
  /\ LET ev == Head(pending)
         first == hasWebSearch /\ ~injected /\ ev.type = "text_delta"
     IN  /\ enc' = IF first THEN Inject(enc) ELSE Encode(enc, ev)
         /\ injected' = (injected \/ first)
         /\ usageResult' = IF ev.type = "usage_final" THEN ev.val ELSE usageResult
         /\ received' = Append(received, ev)
  /\ pending' = Tail(pending)
  /\ UNCHANGED <<hasWebSearch, status, lines, results, upstream>>

\* One turn of the loop over the events of a line.
EncodeEvent ==
  /\ pending # <<>>
  /\ LET ev == Head(pending)
         first == hasWebSearch /\ ~injected /\ ev.type = "text_delta"
     IN  /\ enc' = Encode(IF first THEN Inject(enc) ELSE enc, ev)
         /\ injected' = (injected \/ first)
         /\ usageResult' = IF ev.type = "usage_final" THEN ev.val ELSE usageResult
         /\ received' = Append(received, ev)
  /\ pending' = Tail(pending)
  /\ UNCHANGED <<hasWebSearch, status, lines, results, upstream>>

ReadDone ==
  /\ Reading
  /\ upstream.conforming => upstream.phase # "content"
  /\ lines' = lines + 1
  /\ enc' = Done(enc)
  /\ status' = "ended"
  /\ UNCHANGED <<hasWebSearch, pending, injected, results, usageResult, received,
                 upstream>>

\* The upstream's stream ends without [DONE], or reading it fails: the timeout,
\* a client that is gone, a connection that breaks, a line that is too long.
StreamBreaks ==
  /\ status = "reading"
  /\ pending = <<>>
  /\ status' = "broken"
  /\ UNCHANGED <<hasWebSearch, lines, pending, enc, injected, results, usageResult,
                 received, upstream>>

\* The handler has returned.
Returned == status # "reading" /\ UNCHANGED vars

Next ==
  \/ \E c \in Chunks[upstream.conforming] : ReadChunk(c)
  \/ \E found \in Results : ReadSources(found)
  \/ SkipLine \/ EncodeEvent \/ ReadDone \/ StreamBreaks \/ Returned

Spec == Init /\ [][Next]_vars


(* ----------------------------- properties ------------------------------ *)

out == enc.out

\* The types, and the encoder's bookkeeping: only an open block has a type, no
\* tool is mapped to a block that was not started.
TypeOK ==
  /\ hasWebSearch \in BOOLEAN
  /\ status \in {"reading", "ended", "broken"}
  /\ lines \in 0..MaxLines[upstream.conforming]
  /\ pending \in Seq(StreamEvent)
  /\ received \in Seq(StreamEvent)
  /\ enc.messageStarted \in BOOLEAN /\ enc.messageDeltaEmitted \in BOOLEAN
  /\ enc.blockIdx \in Nat /\ enc.blockOpen \in BOOLEAN
  /\ enc.blockType \in {NoType, "text", "thinking"}
  /\ enc.blockType # NoType => enc.blockOpen
  /\ enc.stopReason \in Reasons \cup {NoReason}
  /\ enc.usage \in Usages \cup {NoUsage}
  /\ DOMAIN enc.toolCallBlocks \subseteq ToolIndices
  /\ \A t \in DOMAIN enc.toolCallBlocks : enc.toolCallBlocks[t] \in 0..enc.blockIdx
  /\ injected \in BOOLEAN
  /\ results \in Results \cup {NoResults}
  /\ usageResult \in Usages \cup {NoUsage}

\* Frame j opens block k, and no frame between j and i closes it.
OpensFor(frames, j, i, k) ==
  /\ j < i
  /\ frames[j].kind = "block_start" /\ frames[j].index = k
  /\ \A m \in (j + 1)..(i - 1) : frames[m].kind = "block_stop" => frames[m].index # k

\* The block types a delta may stand in.
Holds(block, delta) ==
  \/ block = delta
  \/ block = "thinking" /\ delta = "signature"
  \/ block = "tool_use" /\ delta = "input_json"

\* The block that frame i starts is the next one, and no other is open.
StartsNext(frames, i) ==
  /\ frames[i].index > 0 =>
       \E j \in 1..(i - 1) :
         frames[j].kind = "block_start" /\ frames[j].index = frames[i].index - 1
  /\ \A j \in 1..(i - 1) : frames[j].kind = "block_start" =>
       /\ frames[j].index < frames[i].index
       /\ ~OpensFor(frames, j, i, frames[j].index)

\* Frame i stands where a client that has read the frames before it expects it.
FitsIn(frames, i) ==
  /\ frames[i].kind = "block_start" => StartsNext(frames, i)
  /\ frames[i].kind = "block_stop" =>
       \E j \in 1..(i - 1) : OpensFor(frames, j, i, frames[i].index)
  /\ frames[i].kind = "delta" /\ frames[i].block # "input_json" =>
       \E j \in 1..(i - 1) :
         OpensFor(frames, j, i, frames[i].index) /\ Holds(frames[j].block, frames[i].block)

\* Whatever the upstream sends, the client can follow the blocks: they are
\* numbered without a gap, one is stopped before the next starts, only an open
\* block is stopped, and text, reasoning and signatures stand inside an open
\* block of their type (ensureBlockStart and closeBlock in every order).
BlocksWellFormed == \A i \in DOMAIN out : FitsIn(out, i)

\* Whatever the upstream sends, a message starts before anything else, has at
\* most one message_delta, and ends at most once, with its last frame.
MessageFraming ==
  \A i \in DOMAIN out :
    /\ out[i].kind = "message_start" <=> i = 1 /\ out[i].kind # "message_stop"
    /\ out[i].kind = "message_delta" =>
         \A j \in 1..(i - 1) : out[j].kind # "message_delta"
    /\ out[i].kind = "message_stop" => i = Len(out) /\ ~enc.blockOpen

Content(f) ==
  \/ f.kind = "delta"
  \/ f.kind = "block_start" /\ f.block = "tool_use"

Payload(ev) == ev.type \notin {"message_stop", "usage_final"}

\* How many of a set of positions are not after n.
Rank(positions, n) == Cardinality({m \in positions : m <= n})

\* The pieces the client gets are those the upstream sent, in their order: the
\* n-th frame with content has the value of the n-th event with a payload.  None
\* is lost or repeated where blocks change or where the web search is put in.
NothingLost ==
  LET frames == {i \in DOMAIN out : Content(out[i])}
      events == {k \in DOMAIN received : Payload(received[k])}
  IN  /\ Cardinality(frames) = Cardinality(events)
      /\ \A i \in frames, k \in events :
           Rank(frames, i) = Rank(events, k) => out[i].val = received[k].val

\* A client that asked for a web search gets its blocks exactly once, before
\* any text, with the last results the upstream had sent by then; another
\* client never gets them.
SearchBeforeText ==
  LET found == {i \in DOMAIN out : out[i].kind = "block_start"
                                     /\ out[i].block = "web_search_tool_result"}
  IN  /\ found # {} => hasWebSearch
      /\ \A i, j \in found : i = j
      /\ \A i \in found : out[i].val = results
      /\ \A t \in DOMAIN out : hasWebSearch /\ out[t].kind = "delta" /\ out[t].block = "text"
           => \E i \in found : i < t

\* With an upstream that keeps to the order of the API, the arguments of a tool
\* call reach the open block of that call.
ToolDeltasLand ==
  upstream.conforming =>
    \A i \in DOMAIN out : out[i].kind = "delta" /\ out[i].block = "input_json" =>
      \E j \in 1..(i - 1) :
        OpensFor(out, j, i, out[i].index) /\ out[j].block = "tool_use"

\* With such an upstream, a stream that ended closes with the finish reason and
\* with the usage the gateway records, zeros if there is none: what the client
\* is told is what it is charged for.
EndsAsRecorded ==
  upstream.conforming /\ status = "ended" =>
    LET n == Len(out)
        finished == CHOOSE i \in DOMAIN received : received[i].type = "message_stop"
    IN  /\ out[n].kind = "message_stop"
        /\ out[n - 1] = Frame("message_delta", 0, received[finished].val,
                              UsagePayload(usageResult))

\* The values of the frames in which a client finds a kind of content.
Vals(frames) == [i \in DOMAIN frames |-> frames[i].val]

\* The elements of s that pass the test, in their order.
Where(Test(_), s) == FlattenSeq([i \in DOMAIN s |-> IF Test(s[i]) THEN <<s[i]>> ELSE <<>>])

\* What a client that streams finds in the frames.
Streamed(block) == Vals(Where(LAMBDA f : f.kind = "delta" /\ f.block = block, out))
StreamedCalls == Where(LAMBDA f : f.kind = "block_start" /\ f.block = "tool_use", out)
StreamedArgs(call) ==
  Vals(Where(LAMBDA f : f.kind = "delta" /\ f.block = "input_json" /\ f.index = call.index, out))

\* The answer to a client that does not stream, and its blocks of a type.
Whole ==
  EncodeAnthropicClientResponse(FoldLeft(Apply, NewAggregate, received), hasWebSearch)
WholeBlocks(type) == Where(LAMBDA b : b.type = type, Whole.content)

\* A usage as a client reads it that takes a count it is not told for 0.
AsRead(usage) ==
  [tokens |-> usage.tokens, cached |-> IF usage.cached = NotCounted THEN 0 ELSE usage.cached]

\* With such an upstream, a client that streams is told what one is told that
\* does not stream and gets the same events aggregated: the same text, the same
\* reasoning, the same tool calls, the same finish reason, the same counts.  The
\* whole response differs in two things: arguments that are JSON come as Reparsed
\* leaves them, where the stream passes them on as they are, and a usage that no
\* chunk reported is missing, where the stream tells zeros
\* (AnthropicStreamEncoder and EncodeAnthropicClientResponse).
SameMessage ==
  upstream.conforming /\ status = "ended" =>
    LET calls == WholeBlocks("tool_use")
        starts == StreamedCalls
        delta == out[Len(out) - 1]
    IN  /\ Streamed("text") = FlattenSeq(Vals(WholeBlocks("text")))
        /\ Streamed("thinking") = FlattenSeq(Vals(WholeBlocks("thinking")))
        /\ Len(calls) = Len(starts)
        /\ \A i \in DOMAIN calls :
             /\ calls[i].id = starts[i].val
             /\ StreamedArgs(starts[i]) \in Objects =>
                  calls[i].val = Reparsed[StreamedArgs(starts[i])]
        /\ delta = Frame("message_delta", 0, Whole.stop_reason, delta.val)
        /\ IF Whole.usage = NoUsage THEN delta.val = NoTokens
           ELSE AsRead(delta.val) = AsRead(Whole.usage)

=============================================================================
