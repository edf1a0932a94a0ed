-------------------------- MODULE AnthropicEncoder --------------------------
(***************************************************************************)
(* AnthropicStreamEncoder: the state of the encoder and what each kind of  *)
(* event does to it.  The operators take an encoder and return the next    *)
(* one; "out" is the sequence of SSE frames written so far.                *)
(***************************************************************************)
EXTENDS StreamEvents

CONSTANT NoReason  \* an empty stop reason
CONSTANT EndTurn   \* the stop reason of a message that has none

\* normalizeOpenAIStopReason makes no reason empty.
ASSUME EncoderAssumption == NoReason \notin Reasons

Frame(kind, index, block, val) ==
  [kind |-> kind, index |-> index, block |-> block, val |-> val]

\* The blockType of no block, and of the block of a tool call; the frames that
\* are of no block have it, too.
NoType == ""

NewEncoder ==
  [messageStarted |-> FALSE, blockIdx |-> 0, blockOpen |-> FALSE, blockType |-> NoType,
   stopReason |-> NoReason, usage |-> NoUsage, messageDeltaEmitted |-> FALSE,
   toolCallBlocks |-> [t \in {} |-> 0], out |-> <<>>]

Emit(e, frame) == [e EXCEPT !.out = Append(@, frame)]

\* Mutant of CloseBlock: the type of the block is not reset.
CloseBlockTyped(e) ==
  IF e.blockOpen
  THEN [Emit(e, Frame("block_stop", e.blockIdx, e.blockType, Empty)) EXCEPT
          !.blockOpen = FALSE, !.blockIdx = @ + 1]
  ELSE e

CloseBlock(e) ==
  IF e.blockOpen
  THEN [Emit(e, Frame("block_stop", e.blockIdx, e.blockType, Empty)) EXCEPT
          !.blockOpen = FALSE, !.blockType = NoType, !.blockIdx = @ + 1]
  ELSE e

\* Opens a block where none is open.
OpenBlock(e, block, val, type) ==
  [Emit(e, Frame("block_start", e.blockIdx, block, val)) EXCEPT
     !.blockOpen = TRUE, !.blockType = type]

\* Mutant of EnsureBlockStart: an open block of another type is not closed.
EnsureBlockStartUnclosed(e, type) ==
  IF e.blockOpen /\ e.blockType = type THEN e
  ELSE OpenBlock(e, type, Empty, type)

EnsureBlockStart(e, type) ==
  IF e.blockOpen /\ e.blockType = type THEN e
  ELSE OpenBlock(CloseBlock(e), type, Empty, type)

\* anthropicUsagePayload: a usage that is not there is told as zeros.
NoTokens == [tokens |-> 0, cached |-> NotCounted]

UsagePayload(usage) == IF usage = NoUsage THEN NoTokens ELSE usage

\* message_start goes out with the first event, whatever it is.
StartMessage(e) ==
  IF e.messageStarted THEN e
  ELSE [Emit(e, Frame("message_start", 0, NoType, UsagePayload(e.usage)))
          EXCEPT !.messageStarted = TRUE]

EmitMessageDelta(e) ==
  [Emit(e, Frame("message_delta", 0,
                 IF e.stopReason = NoReason THEN EndTurn ELSE e.stopReason,
                 UsagePayload(e.usage)))
     EXCEPT !.messageDeltaEmitted = TRUE]

\* A whole block in two frames.
EmitStandaloneBlock(e, block, val) ==
  CloseBlock(OpenBlock(CloseBlock(e), block, val, block))

EncodeText(e, val) ==
  LET s == StartMessage(e)
      b == EnsureBlockStart(s, "text")
  IN  IF val = Empty THEN s ELSE Emit(b, Frame("delta", b.blockIdx, "text", val))

EncodeThinking(e, val) ==
  LET b == EnsureBlockStart(StartMessage(e), "thinking")
  IN  Emit(b, Frame("delta", b.blockIdx, "thinking", val))

\* A signature belongs to a thinking block, too.
EncodeSignature(e, val) ==
  LET b == EnsureBlockStart(StartMessage(e), "thinking")
  IN  IF val = Empty THEN b ELSE Emit(b, Frame("delta", b.blockIdx, "signature", val))

\* Mutant of EncodeToolCallStart: the index is taken before the block closes.
EncodeToolCallStartEarly(e, index, id) ==
  LET s == StartMessage(e)
      mapped == [t \in DOMAIN s.toolCallBlocks \cup {index} |->
                   IF t = index THEN s.blockIdx ELSE s.toolCallBlocks[t]]
  IN  OpenBlock([CloseBlock(s) EXCEPT !.toolCallBlocks = mapped], "tool_use", id, NoType)

\* The block of a tool call has no blockType, so that every other content
\* closes it.
EncodeToolCallStart(e, index, id) ==
  LET c == CloseBlock(StartMessage(e))
      mapped == [t \in DOMAIN c.toolCallBlocks \cup {index} |->
                   IF t = index THEN c.blockIdx ELSE c.toolCallBlocks[t]]
  IN  OpenBlock([c EXCEPT !.toolCallBlocks = mapped], "tool_use", id, NoType)

EncodeToolCallDelta(e, index, val) ==
  LET s == StartMessage(e)
      block == IF index \in DOMAIN s.toolCallBlocks
               THEN s.toolCallBlocks[index] ELSE s.blockIdx
  IN  Emit(s, Frame("delta", block, "input_json", val))

EncodeWebSearch(e, results) ==
  EmitStandaloneBlock(
    EmitStandaloneBlock(CloseBlock(StartMessage(e)), "server_tool_use", Empty),
    "web_search_tool_result", results)

\* Mutant of EncodeMessageStop: message_delta does not wait for the usage.
EncodeMessageStopAtOnce(e, reason) ==
  LET s == [CloseBlock(StartMessage(e)) EXCEPT !.stopReason = reason]
  IN  IF ~s.messageDeltaEmitted THEN EmitMessageDelta(s) ELSE s

EncodeMessageStop(e, reason) ==
  LET s == [CloseBlock(StartMessage(e)) EXCEPT !.stopReason = reason]
  IN  IF s.usage # NoUsage /\ ~s.messageDeltaEmitted THEN EmitMessageDelta(s) ELSE s

EncodeUsageFinal(e, usage) ==
  LET s == StartMessage([e EXCEPT !.usage = usage])
  IN  IF s.stopReason # NoReason /\ ~s.messageDeltaEmitted THEN EmitMessageDelta(s) ELSE s

\* The switch of AnthropicStreamEncoder.Encode.
Encode(e, ev) ==
  CASE ev.type = "text_delta"         -> EncodeText(e, ev.val)
    [] ev.type = "thinking_delta"     -> EncodeThinking(e, ev.val)
    [] ev.type = "thinking_signature" -> EncodeSignature(e, ev.val)
    [] ev.type = "tool_call_start"    -> EncodeToolCallStart(e, ev.index, ev.val)
    [] ev.type = "tool_call_delta"    -> EncodeToolCallDelta(e, ev.index, ev.val)
    [] ev.type = "message_stop"       -> EncodeMessageStop(e, ev.val)
    [] ev.type = "usage_final"        -> EncodeUsageFinal(e, ev.val)

\* The frames after [DONE].
Done(e) ==
  LET c == CloseBlock(e)
      d == IF ~c.messageDeltaEmitted /\ (c.stopReason # NoReason \/ c.usage # NoUsage)
           THEN EmitMessageDelta(c) ELSE c
  IN  Emit(d, Frame("message_stop", 0, NoType, Empty))

=============================================================================
