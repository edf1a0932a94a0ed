--------------------- MODULE AnthropicPassthrough_proofs ---------------------
(***************************************************************************)
(* What a client of /v1/messages that streams can rely on, for every       *)
(* upstream.                                                               *)
(***************************************************************************)
EXTENDS AnthropicPassthrough, StreamEvents_proofs, FiniteSetTheorems

(* ------------------------------- types --------------------------------- *)

BlockNames == {NoType, "text", "thinking", "tool_use", "server_tool_use",
               "web_search_tool_result", "signature", "input_json"}

FrameSet ==
  [kind  : {"message_start", "message_delta", "message_stop",
            "block_start", "block_stop", "delta"},
   index : Nat,
   block : BlockNames \cup Reasons \cup {EndTurn},
   val   : Pieces \cup ToolIDs \cup Usages \cup Reasons \cup Results
             \cup {Empty, NoTokens, NoResults, EndTurn}]

\* The blocks of tool calls, by their indices.
ToolBlocks == UNION {[D -> Nat] : D \in SUBSET ToolIndices}

Encoder ==
  [messageStarted : BOOLEAN, blockIdx : Nat, blockOpen : BOOLEAN, blockType : BlockNames,
   stopReason : Reasons \cup {NoReason}, usage : Usages \cup {NoUsage},
   messageDeltaEmitted : BOOLEAN, toolCallBlocks : ToolBlocks, out : Seq(FrameSet)]

(* -------------------- what the encoder keeps in mind ------------------- *)

IsStart(f) == f.kind = "block_start"

\* The name of the block that is open: tool calls leave the type empty.
OpenName(e) == IF e.blockType = NoType THEN "tool_use" ELSE e.blockType

\* The number of the next block to start.
NextBlock(e) == IF e.blockOpen THEN e.blockIdx + 1 ELSE e.blockIdx

\* The encoder's block fields tell which blocks its frames have started, and
\* which of them is open.
Tracks(e) ==
  /\ \A i \in DOMAIN e.out : FitsIn(e.out, i)
  /\ \A i \in DOMAIN e.out : IsStart(e.out[i]) => e.out[i].index < NextBlock(e)
  /\ \A k \in 0..(NextBlock(e) - 1) : \E j \in DOMAIN e.out :
       IsStart(e.out[j]) /\ e.out[j].index = k
  /\ \A j \in DOMAIN e.out : IsStart(e.out[j]) /\ e.out[j].index < e.blockIdx =>
       ~OpensFor(e.out, j, Len(e.out) + 1, e.out[j].index)
  /\ e.blockOpen => \E j \in DOMAIN e.out :
       OpensFor(e.out, j, Len(e.out) + 1, e.blockIdx) /\ e.out[j].block = OpenName(e)

\* Its message fields tell whether a message has started, and has had its delta.
Framed(e) ==
  /\ e.messageStarted <=> e.out # <<>>
  /\ ~e.messageStarted => ~e.blockOpen /\ ~e.messageDeltaEmitted
  /\ \A i \in DOMAIN e.out :
       /\ e.out[i].kind = "message_start" <=> i = 1
       /\ e.out[i].kind = "message_delta" =>
            /\ e.messageDeltaEmitted
            /\ \A j \in 1..(i - 1) : e.out[j].kind # "message_delta"
       /\ e.out[i].kind # "message_stop"

\* No message ends that has not started.
NothingToEnd(e) == ~e.messageStarted => e.stopReason = NoReason /\ e.usage = NoUsage

\* Only an open block has a type, and calls are mapped to blocks that exist.
Mapped(e) ==
  /\ e.blockType # NoType => e.blockOpen
  /\ \A t \in DOMAIN e.toolCallBlocks : e.toolCallBlocks[t] \in 0..e.blockIdx

\* The encoder between two of its steps.
Good(e) == e \in Encoder /\ Mapped(e) /\ Tracks(e) /\ Framed(e)

(* ---------------------- an upstream that conforms ---------------------- *)

\* The number of tool calls the encoder has seen start.
Started == IF Has(pending, "tool_call_start") THEN upstream.tools - 1 ELSE upstream.tools

\* What is still to be encoded is in turn, and belongs to the last call.
PendingInTurn ==
  /\ \A i, j \in DOMAIN pending : i < j => Turn(pending[i]) < Turn(pending[j])
  /\ \A i \in DOMAIN pending :
       /\ Turn(pending[i]) \in {4, 5} => pending[i].index = upstream.tools - 1
       /\ Turn(pending[i]) \in 1..3 => Started = 0

\* The calls are numbered as they start, and the last one stays open until the
\* finish reason.
CallsInTurn ==
  /\ Started \in Nat
  /\ DOMAIN enc.toolCallBlocks = 0..(Started - 1)
  /\ Started > 0 /\ ~Has(received, "message_stop") =>
       /\ enc.blockOpen /\ enc.blockType = NoType
       /\ enc.toolCallBlocks[Started - 1] = enc.blockIdx

\* The finish reason comes once, then the usage, then nothing.
EndInTurn ==
  /\ upstream.phase = "content" =>
       ~Has(received, "message_stop") /\ ~Has(pending, "message_stop")
  /\ upstream.phase # "content" =>
       (Has(received, "message_stop") <=> ~Has(pending, "message_stop"))
  /\ \A i, j \in DOMAIN received :
       received[i].type = "message_stop" /\ received[j].type = "message_stop" => i = j
  /\ Has(pending, "usage_final") => upstream.phase = "reported" /\ usageResult = NoUsage
  /\ Has(received, "message_stop") =>
       \A i \in DOMAIN pending : pending[i].type = "usage_final"
  /\ usageResult # NoUsage => upstream.phase = "reported" /\ Has(received, "message_stop")

\* What the encoder has of the end is what the handler records.
EndAgrees ==
  /\ enc.usage = usageResult
  /\ ~Has(received, "message_stop") => enc.stopReason = NoReason
  /\ \A i \in DOMAIN received :
       received[i].type = "message_stop" => enc.stopReason = received[i].val
  /\ Has(received, "message_stop") => ~enc.blockOpen
  /\ enc.messageDeltaEmitted <=> Has(received, "message_stop") /\ usageResult # NoUsage
  /\ enc.messageDeltaEmitted =>
       enc.out[Len(enc.out)] = Frame("message_delta", 0, enc.stopReason, UsagePayload(enc.usage))

Conforms == PendingInTurn /\ CallsInTurn /\ EndInTurn /\ EndAgrees

ConformingInv == upstream.conforming /\ status # "ended" => Conforms

(* --------------------------- kinds of frames --------------------------- *)

IsResult(f) == f.kind = "block_start" /\ f.block = "web_search_tool_result"
IsText(f) == f.kind = "delta" /\ f.block = "text"

(* ------------------------------ the types ------------------------------ *)

TypeInv ==
  /\ hasWebSearch \in BOOLEAN
  /\ status \in {"reading", "ended", "broken"}
  /\ upstream \in [conforming : BOOLEAN, phase : {"content", "finished", "reported"},
                   tools : Nat]
  /\ lines \in 0..MaxLines[upstream.conforming]
  /\ pending \in Seq(DecodedEvent)
  /\ received \in Seq(DecodedEvent)
  /\ status # "reading" => pending = <<>>
  /\ enc \in Encoder /\ Mapped(enc)
  /\ enc.blockType \in {NoType, "text", "thinking"}
  /\ injected \in BOOLEAN
  /\ results \in Results \cup {NoResults}
  /\ usageResult \in Usages \cup {NoUsage}

EncoderInv == status # "ended" => Tracks(enc) /\ Framed(enc) /\ NothingToEnd(enc)

(* ------------------------------- frames -------------------------------- *)

LEMMA BlockNamesFacts ==
  /\ NoType \in BlockNames
  /\ {"text", "thinking", "tool_use", "server_tool_use", "web_search_tool_result",
      "signature", "input_json"} \subseteq BlockNames
  /\ NoType \notin {"text", "thinking", "tool_use", "server_tool_use",
                   "web_search_tool_result", "signature", "input_json"}
BY DEF BlockNames, NoType

LEMMA FrameType ==
  ASSUME NEW kind \in {"message_start", "message_delta", "message_stop",
                       "block_start", "block_stop", "delta"},
         NEW index \in Nat, NEW block \in BlockNames \cup Reasons \cup {EndTurn},
         NEW val \in Pieces \cup ToolIDs \cup Usages \cup Reasons \cup Results
                       \cup {Empty, NoTokens, NoResults, EndTurn}
  PROVE  /\ Frame(kind, index, block, val) \in FrameSet
         /\ Frame(kind, index, block, val).kind = kind
         /\ Frame(kind, index, block, val).index = index
         /\ Frame(kind, index, block, val).block = block
         /\ Frame(kind, index, block, val).val = val
BY DEF Frame, FrameSet

LEMMA AppendFacts ==
  ASSUME NEW S, NEW s \in Seq(S), NEW f \in S
  PROVE  /\ Append(s, f) \in Seq(S)
         /\ Len(s) \in Nat /\ Len(Append(s, f)) = Len(s) + 1
         /\ DOMAIN s = 1..Len(s) /\ DOMAIN Append(s, f) = 1..(Len(s) + 1)
         /\ \A i \in 1..Len(s) : Append(s, f)[i] = s[i]
         /\ Append(s, f)[Len(s) + 1] = f
OBVIOUS

\* Whether a block is open before a frame does not depend on what follows.
LEMMA OpensForPrefix ==
  ASSUME NEW s \in Seq(FrameSet), NEW f \in FrameSet,
         NEW i \in 1..(Len(s) + 1), NEW j \in 1..(i - 1), NEW k
  PROVE  OpensFor(Append(s, f), j, i, k) <=> OpensFor(s, j, i, k)
<1>1. \A m \in 1..Len(s) : Append(s, f)[m] = s[m]
  BY AppendFacts
<1>2. j \in 1..Len(s) /\ \A m \in (j + 1)..(i - 1) : m \in 1..Len(s)
  BY AppendFacts
<1> DEFINE t == Append(s, f)
<1> HIDE DEF t
<1> QED BY <1>1, <1>2 DEF OpensFor, t

LEMMA FitsInPrefix ==
  ASSUME NEW s \in Seq(FrameSet), NEW f \in FrameSet, NEW i \in 1..Len(s)
  PROVE  FitsIn(Append(s, f), i) <=> FitsIn(s, i)
<1> DEFINE t == Append(s, f)
<1>1. \A j \in 1..(i - 1) : \A k : OpensFor(t, j, i, k) <=> OpensFor(s, j, i, k)
  BY OpensForPrefix, AppendFacts
<1>2. t[i] = s[i] /\ \A j \in 1..(i - 1) : t[j] = s[j]
  BY AppendFacts
<1> HIDE DEF t
<1>3. StartsNext(t, i) <=> StartsNext(s, i)
  BY <1>1, <1>2 DEF StartsNext
<1>4. FitsIn(t, i) <=> FitsIn(s, i)
  BY <1>1, <1>2, <1>3 DEF FitsIn
<1> QED BY <1>4 DEF t

\* A frame closes the block it stops, and no other.
LEMMA OpensForAppend ==
  ASSUME NEW s \in Seq(FrameSet), NEW f \in FrameSet,
         NEW j \in 1..Len(s), NEW k
  PROVE  OpensFor(Append(s, f), j, Len(Append(s, f)) + 1, k)
           <=> OpensFor(s, j, Len(s) + 1, k) /\ ~(f.kind = "block_stop" /\ f.index = k)
<1> DEFINE t == Append(s, f)
           n == Len(s)
<1>1. n \in Nat /\ Len(t) = n + 1 /\ t[n + 1] = f /\ \A m \in 1..n : t[m] = s[m]
  BY AppendFacts
<1> HIDE DEF t, n
<1>2. j \in 1..n
  BY DEF n
<1>3. (j + 1)..(n + 1) = ((j + 1)..n) \cup {n + 1}
  BY <1>1, <1>2
<1>4. OpensFor(t, j, n + 2, k)
        <=> OpensFor(s, j, n + 1, k) /\ ~(f.kind = "block_stop" /\ f.index = k)
  <2>1. OpensFor(t, j, n + 2, k) <=>
          /\ t[j].kind = "block_start" /\ t[j].index = k
          /\ \A m \in (j + 1)..(n + 1) : t[m].kind = "block_stop" => t[m].index # k
    <3>1. (j + 1)..(n + 2 - 1) = (j + 1)..(n + 1) /\ j < n + 2
      BY <1>1, <1>2
    <3> QED BY <1>1, <1>2, <3>1 DEF OpensFor
  <2>2. OpensFor(s, j, n + 1, k) <=>
          /\ t[j].kind = "block_start" /\ t[j].index = k
          /\ \A m \in (j + 1)..n : t[m].kind = "block_stop" => t[m].index # k
    <3>1. (j + 1)..(n + 1 - 1) = (j + 1)..n /\ j < n + 1 /\ t[j] = s[j]
      BY <1>1, <1>2
    <3>2. \A m \in (j + 1)..n : m \in 1..n /\ t[m] = s[m]
      <4>1. \A m \in (j + 1)..n : m \in 1..n
        BY <1>1, <1>2
      <4> QED BY <4>1, <1>1
    <3>3. OpensFor(s, j, n + 1, k) <=>
            /\ s[j].kind = "block_start" /\ s[j].index = k
            /\ \A m \in (j + 1)..n : s[m].kind = "block_stop" => s[m].index # k
      BY <1>1, <1>2, <3>1 DEF OpensFor
    <3> QED BY <3>1, <3>2, <3>3
  <2> QED BY <1>1, <1>3, <2>1, <2>2
<1>5. Len(t) + 1 = n + 2
  BY <1>1
<1> QED BY <1>4, <1>5 DEF t, n

\* What holds of a sequence of frames after one more.
Appended(s, f, t) ==
  LET n == Len(s)
  IN  /\ n \in Nat /\ Len(t) = n + 1 /\ Len(t) + 1 = n + 2
      /\ DOMAIN s = 1..n /\ DOMAIN t = 1..(n + 1)
      /\ t[n + 1] = f /\ \A i \in 1..n : t[i] = s[i] /\ s[i] \in FrameSet
      /\ \A i \in 1..n : FitsIn(t, i) <=> FitsIn(s, i)
      /\ \A j \in 1..n : \A k : OpensFor(t, j, n + 1, k) <=> OpensFor(s, j, n + 1, k)
      /\ \A j \in 1..n : \A k : OpensFor(t, j, n + 2, k)
           <=> OpensFor(s, j, n + 1, k) /\ ~(f.kind = "block_stop" /\ f.index = k)

LEMMA FrameAppended ==
  ASSUME NEW s \in Seq(FrameSet), NEW f \in FrameSet, NEW t, t = Append(s, f)
  PROVE  Appended(s, f, t)
<1> DEFINE n == Len(s)
<1>1. n \in Nat /\ Len(t) = n + 1 /\ Len(t) + 1 = n + 2
      /\ DOMAIN s = 1..n /\ DOMAIN t = 1..(n + 1)
      /\ t[n + 1] = f /\ \A i \in 1..n : t[i] = s[i] /\ s[i] \in FrameSet
  BY AppendFacts
<1>2. \A i \in 1..n : FitsIn(t, i) <=> FitsIn(s, i)
  BY FitsInPrefix
<1>3. \A j \in 1..n : \A k : OpensFor(t, j, n + 1, k) <=> OpensFor(s, j, n + 1, k)
  <2>1. n + 1 \in 1..(n + 1)
    BY <1>1
  <2> TAKE j \in 1..n
  <2> TAKE k
  <2>3. j \in 1..((n + 1) - 1)
    BY <1>1
  <2> QED BY <2>1, <2>3, OpensForPrefix
<1>4. \A j \in 1..n : \A k : OpensFor(t, j, n + 2, k)
        <=> OpensFor(s, j, n + 1, k) /\ ~(f.kind = "block_stop" /\ f.index = k)
  <2> TAKE j \in 1..n
  <2> TAKE k
  <2>2. OpensFor(t, j, Len(t) + 1, k)
          <=> OpensFor(s, j, n + 1, k) /\ ~(f.kind = "block_stop" /\ f.index = k)
    BY OpensForAppend
  <2>3. Len(t) + 1 = n + 2
    BY <1>1
  <2> QED BY <2>2, <2>3
<1> QED BY <1>1, <1>2, <1>3, <1>4 DEF Appended

(* ------------------------ the encoder's small steps -------------------- *)

SameBlocks(e, d) ==
  /\ d.blockIdx = e.blockIdx /\ d.blockOpen = e.blockOpen
  /\ d.blockType = e.blockType /\ d.toolCallBlocks = e.toolCallBlocks

SameEnd(e, d) ==
  /\ d.messageStarted = e.messageStarted /\ d.stopReason = e.stopReason
  /\ d.usage = e.usage /\ d.messageDeltaEmitted = e.messageDeltaEmitted

SameLast(e, d) ==
  /\ d.stopReason = e.stopReason /\ d.usage = e.usage
  /\ d.messageDeltaEmitted = e.messageDeltaEmitted

LEMMA NewEncoderType == NewEncoder \in Encoder /\ NewEncoder.out = <<>>
<1>1. [t \in {} |-> 0] \in [{} -> Nat]
  OBVIOUS
<1> DEFINE m == [t \in {} |-> 0]
<1>2. m \in ToolBlocks
  BY <1>1 DEF ToolBlocks
<1>3. NewEncoder =
        [messageStarted |-> FALSE, blockIdx |-> 0, blockOpen |-> FALSE, blockType |-> NoType,
         stopReason |-> NoReason, usage |-> NoUsage, messageDeltaEmitted |-> FALSE,
         toolCallBlocks |-> m, out |-> <<>>]
  BY DEF NewEncoder
<1> HIDE DEF m
<1>4. <<>> \in Seq(FrameSet)
  OBVIOUS
<1> DEFINE none == <<>>
<1> HIDE DEF m, none
<1>5. NewEncoder.out = <<>>
  BY <1>3
<1> QED BY <1>2, <1>3, <1>4, <1>5, BlockNamesFacts DEF Encoder, none

LEMMA EmitFields ==
  ASSUME NEW e \in Encoder, NEW f \in FrameSet
  PROVE  /\ Emit(e, f) \in Encoder
         /\ Emit(e, f).out = Append(e.out, f)
         /\ SameBlocks(e, Emit(e, f)) /\ SameEnd(e, Emit(e, f))
BY DEF Emit, Encoder, SameBlocks, SameEnd

LEMMA CloseBlockFields ==
  ASSUME NEW e \in Encoder
  PROVE  /\ CloseBlock(e) \in Encoder
         /\ SameEnd(e, CloseBlock(e))
         /\ ~CloseBlock(e).blockOpen
         /\ ~e.blockOpen => CloseBlock(e) = e
         /\ e.blockOpen =>
              LET f == Frame("block_stop", e.blockIdx, e.blockType, Empty)
              IN  /\ f \in FrameSet
                  /\ CloseBlock(e).out = Append(e.out, f)
                  /\ CloseBlock(e).blockIdx = e.blockIdx + 1
                  /\ CloseBlock(e).blockType = NoType
                  /\ CloseBlock(e).toolCallBlocks = e.toolCallBlocks
<1>1. CASE ~e.blockOpen
  BY <1>1 DEF CloseBlock, SameEnd
<1>2. CASE e.blockOpen
  <2> DEFINE f == Frame("block_stop", e.blockIdx, e.blockType, Empty)
  <2>1. f \in FrameSet
    BY FrameType, BlockNamesFacts DEF Encoder
  <2> HIDE DEF f
  <2>2. Emit(e, f) \in Encoder /\ Emit(e, f).out = Append(e.out, f)
        /\ SameBlocks(e, Emit(e, f)) /\ SameEnd(e, Emit(e, f))
    BY <2>1, EmitFields
  <2>3. CloseBlock(e) = [Emit(e, f) EXCEPT !.blockOpen = FALSE, !.blockType = NoType,
                                           !.blockIdx = @ + 1]
    BY <1>2 DEF CloseBlock, f
  <2> DEFINE d == Emit(e, f)
             c == CloseBlock(e)
  <2> HIDE DEF d
  <2>4. d \in Encoder /\ c = [d EXCEPT !.blockOpen = FALSE, !.blockType = NoType,
                                       !.blockIdx = @ + 1]
    BY <2>2, <2>3 DEF d
  <2> HIDE DEF c
  <2>5. c \in Encoder
    <3>1. NoType \in BlockNames
      BY BlockNamesFacts
    <3>2. d.blockIdx + 1 \in Nat
      BY <2>4 DEF Encoder
    <3>3. c = [d EXCEPT !.blockOpen = FALSE, !.blockType = NoType, !.blockIdx = d.blockIdx + 1]
      BY <2>4
    <3> DEFINE k == d.blockIdx + 1
    <3> HIDE DEF k
    <3>4. c = [d EXCEPT !.blockOpen = FALSE, !.blockType = NoType, !.blockIdx = k] /\ k \in Nat
      BY <3>2, <3>3 DEF k
    <3> QED BY <2>4, <3>1, <3>4 DEF Encoder
  <2>6. ~c.blockOpen /\ c.blockType = NoType /\ c.blockIdx = d.blockIdx + 1
        /\ c.toolCallBlocks = d.toolCallBlocks /\ c.out = d.out /\ SameEnd(d, c)
    BY <2>4 DEF Encoder, SameEnd
  <2> QED BY <1>2, <2>1, <2>2, <2>5, <2>6 DEF SameBlocks, SameEnd, d, c, f
<1> QED BY <1>1, <1>2 DEF Encoder

LEMMA OpenBlockFields ==
  ASSUME NEW e \in Encoder, NEW block \in BlockNames, NEW type \in BlockNames,
         NEW val \in ToolIDs \cup Results \cup {Empty, NoResults}
  PROVE  LET d == OpenBlock(e, block, val, type)
             f == Frame("block_start", e.blockIdx, block, val)
         IN  /\ f \in FrameSet
             /\ d \in Encoder
             /\ d.out = Append(e.out, f)
             /\ d.blockOpen /\ d.blockType = type /\ d.blockIdx = e.blockIdx
             /\ d.toolCallBlocks = e.toolCallBlocks
             /\ SameEnd(e, d)
<1> DEFINE f == Frame("block_start", e.blockIdx, block, val)
<1>1. f \in FrameSet
  BY FrameType, BlockNamesFacts DEF Encoder
<1> HIDE DEF f
<1>2. Emit(e, f) \in Encoder /\ Emit(e, f).out = Append(e.out, f)
      /\ SameBlocks(e, Emit(e, f)) /\ SameEnd(e, Emit(e, f))
  BY <1>1, EmitFields
<1>3. OpenBlock(e, block, val, type) = [Emit(e, f) EXCEPT !.blockOpen = TRUE, !.blockType = type]
  BY DEF OpenBlock, f
<1> DEFINE d == Emit(e, f)
<1> HIDE DEF d
<1> QED BY <1>1, <1>2, <1>3 DEF Encoder, SameBlocks, SameEnd, d, f

LEMMA PayloadType ==
  ASSUME NEW u \in Usages \cup {NoUsage}
  PROVE  UsagePayload(u) \in Usages \cup {NoTokens}
BY DEF UsagePayload

LEMMA StartMessageFields ==
  ASSUME NEW e \in Encoder
  PROVE  LET d == StartMessage(e)
             f == Frame("message_start", 0, NoType, UsagePayload(e.usage))
         IN  /\ f \in FrameSet
             /\ d \in Encoder
             /\ SameBlocks(e, d)
             /\ d.messageStarted
             /\ d.stopReason = e.stopReason /\ d.usage = e.usage
             /\ d.messageDeltaEmitted = e.messageDeltaEmitted
             /\ e.messageStarted => d = e
             /\ ~e.messageStarted => d.out = Append(e.out, f)
<1> DEFINE f == Frame("message_start", 0, NoType, UsagePayload(e.usage))
<1>1. f \in FrameSet
  <2>1. UsagePayload(e.usage) \in Usages \cup {NoTokens}
    BY PayloadType DEF Encoder
  <2> QED BY <2>1, FrameType, BlockNamesFacts
<1>2. CASE e.messageStarted
  BY <1>1, <1>2 DEF StartMessage, SameBlocks
<1>3. CASE ~e.messageStarted
  <2> HIDE DEF f
  <2>2. Emit(e, f) \in Encoder /\ Emit(e, f).out = Append(e.out, f)
        /\ SameBlocks(e, Emit(e, f)) /\ SameEnd(e, Emit(e, f))
    BY <1>1, EmitFields
  <2>3. StartMessage(e) = [Emit(e, f) EXCEPT !.messageStarted = TRUE]
    BY <1>3 DEF StartMessage, f
  <2> DEFINE d == Emit(e, f)
  <2> HIDE DEF d
  <2> QED BY <1>1, <1>3, <2>2, <2>3 DEF Encoder, SameBlocks, SameEnd, d, f
<1> QED BY <1>2, <1>3 DEF Encoder, BlockNames

LEMMA MessageDeltaFields ==
  ASSUME NEW e \in Encoder
  PROVE  LET d == EmitMessageDelta(e)
             f == Frame("message_delta", 0,
                        IF e.stopReason = NoReason THEN EndTurn ELSE e.stopReason, UsagePayload(e.usage))
         IN  /\ f \in FrameSet
             /\ d \in Encoder
             /\ SameBlocks(e, d)
             /\ d.messageDeltaEmitted
             /\ d.stopReason = e.stopReason /\ d.usage = e.usage
             /\ d.messageStarted = e.messageStarted
             /\ d.out = Append(e.out, f)
<1> DEFINE reason == IF e.stopReason = NoReason THEN EndTurn ELSE e.stopReason
           f == Frame("message_delta", 0, reason, UsagePayload(e.usage))
<1>1. f \in FrameSet
  <2>1. UsagePayload(e.usage) \in Usages \cup {NoTokens}
    BY PayloadType DEF Encoder
  <2>2. reason \in BlockNames \cup Reasons \cup {EndTurn}
    BY DEF Encoder
  <2> HIDE DEF reason
  <2> QED BY <2>1, <2>2, FrameType
<1> HIDE DEF f
<1>2. Emit(e, f) \in Encoder /\ Emit(e, f).out = Append(e.out, f)
      /\ SameBlocks(e, Emit(e, f)) /\ SameEnd(e, Emit(e, f))
  BY <1>1, EmitFields
<1>3. EmitMessageDelta(e) = [Emit(e, f) EXCEPT !.messageDeltaEmitted = TRUE]
  BY DEF EmitMessageDelta, f
<1> DEFINE d == Emit(e, f)
<1> HIDE DEF d
<1> QED BY <1>1, <1>2, <1>3 DEF Encoder, SameBlocks, SameEnd, d, f

(* ----------------------- the blocks are tracked ------------------------ *)

\* Tracks depends on the frames and on the fields of the open block.
LEMMA TracksSame ==
  ASSUME NEW e \in Encoder, NEW d \in Encoder, Tracks(e), d.out = e.out,
         d.blockIdx = e.blockIdx, d.blockOpen = e.blockOpen, d.blockType = e.blockType
  PROVE  Tracks(d)
BY DEF Tracks, NextBlock, OpenName

\* A delta of the open block, or a frame that is of no block.
LEMMA TracksEmit ==
  ASSUME NEW e \in Encoder, NEW d \in Encoder, NEW f \in FrameSet,
         Tracks(e), SameBlocks(e, d), d.out = Append(e.out, f),
         f.kind \notin {"block_start", "block_stop"},
         f.kind = "delta" /\ f.block # "input_json" =>
           e.blockOpen /\ f.index = e.blockIdx /\ Holds(OpenName(e), f.block)
  PROVE  Tracks(d)
<1> DEFINE s == e.out
           t == d.out
           n == Len(e.out)
<1>0. s \in Seq(FrameSet) /\ e.blockIdx \in Nat /\ e.blockOpen \in BOOLEAN
  BY DEF Encoder
<1>a. Appended(s, f, t)
  BY <1>0, FrameAppended
<1>1. n \in Nat /\ Len(t) + 1 = n + 2 /\ DOMAIN s = 1..n /\ DOMAIN t = 1..(n + 1)
      /\ t[n + 1] = f /\ \A i \in 1..n : t[i] = s[i] /\ s[i] \in FrameSet
  BY <1>a DEF Appended
<1>2. d.blockIdx = e.blockIdx /\ d.blockOpen = e.blockOpen
      /\ NextBlock(d) = NextBlock(e) /\ OpenName(d) = OpenName(e)
  BY DEF SameBlocks, NextBlock, OpenName
<1>3. \A j \in 1..n : \A k : OpensFor(t, j, n + 2, k) <=> OpensFor(s, j, n + 1, k)
  BY <1>a DEF Appended
<1>4. \A j \in 1..n : \A k : OpensFor(t, j, n + 1, k) <=> OpensFor(s, j, n + 1, k)
  BY <1>a DEF Appended
<1>5. ASSUME NEW i \in DOMAIN t PROVE FitsIn(t, i)
  <2>1. CASE i \in 1..n
    BY <1>a, <1>1, <2>1 DEF Tracks, Appended
  <2>2. CASE i = n + 1
    <3>1. CASE f.kind = "delta" /\ f.block # "input_json"
      <4>1. PICK j \in 1..n : OpensFor(s, j, n + 1, e.blockIdx) /\ s[j].block = OpenName(e)
        BY <1>1, <3>1 DEF Tracks
      <4>2. OpensFor(t, j, n + 1, f.index) /\ t[j].block = OpenName(e)
        BY <1>1, <1>4, <3>1, <4>1
      <4>3. Holds(t[j].block, f.block) /\ j \in 1..((n + 1) - 1)
        BY <1>1, <3>1, <4>2
      <4> HIDE DEF s, t, n
      <4> QED BY <1>1, <2>2, <3>1, <4>2, <4>3 DEF FitsIn
    <3>2. CASE ~(f.kind = "delta" /\ f.block # "input_json")
      BY <1>1, <2>2, <3>2 DEF FitsIn
    <3> QED BY <3>1, <3>2
  <2> QED BY <1>1, <2>1, <2>2
<1>6. \A i \in DOMAIN t : IsStart(t[i]) => i \in 1..n /\ IsStart(s[i]) /\ s[i] = t[i]
  <2> HIDE DEF s, t, n
  <2> QED BY <1>1 DEF IsStart
<1>7. \A i \in DOMAIN t : IsStart(t[i]) => t[i].index < NextBlock(d)
  BY <1>1, <1>2, <1>6 DEF Tracks
<1>8. \A k \in 0..(NextBlock(d) - 1) : \E j \in DOMAIN t : IsStart(t[j]) /\ t[j].index = k
  <2>1. SUFFICES ASSUME NEW k \in 0..(NextBlock(e) - 1)
                 PROVE  \E j \in DOMAIN t : IsStart(t[j]) /\ t[j].index = k
    BY <1>2
  <2>2. PICK j \in DOMAIN s : IsStart(s[j]) /\ s[j].index = k
    BY DEF Tracks
  <2>3. j \in DOMAIN t /\ t[j] = s[j]
    BY <1>1
  <2> HIDE DEF s, t
  <2> QED BY <2>2, <2>3
<1>9. \A j \in DOMAIN t : IsStart(t[j]) /\ t[j].index < d.blockIdx =>
        ~OpensFor(t, j, n + 2, t[j].index)
  BY <1>1, <1>2, <1>3, <1>6 DEF Tracks
<1>10. ASSUME d.blockOpen
       PROVE  \E j \in DOMAIN t : OpensFor(t, j, n + 2, d.blockIdx) /\ t[j].block = OpenName(d)
  <2>1. PICK j \in 1..n : OpensFor(s, j, n + 1, e.blockIdx) /\ s[j].block = OpenName(e)
    BY <1>1, <1>2, <1>10 DEF Tracks
  <2>2. j \in DOMAIN t /\ t[j] = s[j]
    BY <1>1
  <2> HIDE DEF s, t, n
  <2> QED BY <1>2, <1>3, <2>1, <2>2
<1> HIDE DEF s, n
<1> QED BY <1>1, <1>5, <1>7, <1>8, <1>9, <1>10 DEF Tracks

\* The open block is stopped.
LEMMA TracksClose ==
  ASSUME NEW e \in Encoder, Tracks(e)
  PROVE  Tracks(CloseBlock(e))
<1>1. CASE ~e.blockOpen
  BY <1>1, CloseBlockFields
<1>2. CASE e.blockOpen
  <2> DEFINE d == CloseBlock(e)
             f == Frame("block_stop", e.blockIdx, e.blockType, Empty)
             s == e.out
             t == d.out
             n == Len(e.out)
  <2>0. s \in Seq(FrameSet) /\ e.blockIdx \in Nat
    BY DEF Encoder
  <2>1. d \in Encoder /\ f \in FrameSet /\ t = Append(s, f)
        /\ d.blockIdx = e.blockIdx + 1 /\ ~d.blockOpen
    BY <1>2, CloseBlockFields
  <2>2. f.kind = "block_stop" /\ f.index = e.blockIdx
    BY DEF Frame
  <2> HIDE DEF d, f, s, t, n
  <2>a. Appended(s, f, t)
    BY <2>0, <2>1, FrameAppended
  <2>3. n \in Nat /\ Len(t) + 1 = n + 2 /\ DOMAIN s = 1..n /\ DOMAIN t = 1..(n + 1)
        /\ t[n + 1] = f /\ \A i \in 1..n : t[i] = s[i] /\ s[i] \in FrameSet
    BY <2>a DEF Appended, n, s
  <2>4. \A j \in 1..n : \A k :
          /\ OpensFor(t, j, n + 1, k) <=> OpensFor(s, j, n + 1, k)
          /\ OpensFor(t, j, n + 2, k) <=> OpensFor(s, j, n + 1, k) /\ k # e.blockIdx
    BY <2>2, <2>a DEF Appended, n, s
  <2>5. NextBlock(e) = e.blockIdx + 1 /\ NextBlock(d) = e.blockIdx + 1
    BY <1>2, <2>1 DEF NextBlock
  <2>6. ASSUME NEW i \in DOMAIN t PROVE FitsIn(t, i)
    <3>1. CASE i \in 1..n
      BY <2>3, <2>a, <3>1 DEF Tracks, Appended, s, n
    <3>2. CASE i = n + 1
      <4>1. PICK j \in 1..n : OpensFor(s, j, n + 1, e.blockIdx)
        BY <1>2, <2>3 DEF Tracks, s, n
      <4>2. OpensFor(t, j, n + 1, f.index) /\ j \in 1..((n + 1) - 1)
        BY <2>2, <2>3, <2>4, <4>1
      <4> QED BY <2>2, <2>3, <3>2, <4>2 DEF FitsIn
    <3> QED BY <2>3, <3>1, <3>2
  <2>7. \A i \in DOMAIN t : IsStart(t[i]) => i \in 1..n /\ IsStart(s[i]) /\ s[i] = t[i]
    BY <2>2, <2>3 DEF IsStart
  <2>8. \A i \in DOMAIN t : IsStart(t[i]) => t[i].index < NextBlock(d)
    BY <2>3, <2>5, <2>7 DEF Tracks, s
  <2>9. \A k \in 0..(NextBlock(d) - 1) : \E j \in DOMAIN t : IsStart(t[j]) /\ t[j].index = k
    <3>1. SUFFICES ASSUME NEW k \in 0..(NextBlock(e) - 1)
                   PROVE  \E j \in DOMAIN t : IsStart(t[j]) /\ t[j].index = k
      BY <2>5
    <3>2. PICK j \in DOMAIN s : IsStart(s[j]) /\ s[j].index = k
      BY DEF Tracks, s
    <3>3. j \in DOMAIN t /\ t[j] = s[j]
      BY <2>3
    <3> QED BY <3>2, <3>3
  <2>10. ASSUME NEW j \in DOMAIN t, IsStart(t[j]), t[j].index < d.blockIdx
         PROVE  ~OpensFor(t, j, n + 2, t[j].index)
    <3>1. j \in 1..n /\ IsStart(s[j]) /\ s[j] = t[j] /\ s[j] \in FrameSet /\ s[j].index \in Nat
      BY <2>0, <2>3, <2>7, <2>10 DEF FrameSet
    <3>2. CASE s[j].index = e.blockIdx
      BY <2>4, <3>1, <3>2
    <3>3. CASE s[j].index # e.blockIdx
      <4>1. s[j].index < e.blockIdx
        BY <2>0, <2>1, <2>10, <3>1, <3>3
      <4>2. ~OpensFor(s, j, n + 1, s[j].index)
        BY <2>3, <3>1, <4>1 DEF Tracks, s, n
      <4> QED BY <2>4, <3>1, <4>2
    <3> QED BY <3>2, <3>3
  <2>11. Tracks(d)
    BY <2>1, <2>3, <2>6, <2>8, <2>9, <2>10 DEF Tracks, t
  <2> QED BY <2>11 DEF d
<1> QED BY <1>1, <1>2 DEF Encoder

\* A block is opened where none is.
LEMMA TracksOpen ==
  ASSUME NEW e \in Encoder, Tracks(e), ~e.blockOpen,
         NEW block \in BlockNames, NEW name \in BlockNames,
         name = NoType => block = "tool_use", name # NoType => block = name,
         NEW v \in ToolIDs \cup Results \cup {Empty, NoResults}
  PROVE  Tracks(OpenBlock(e, block, v, name))
<1> DEFINE d == OpenBlock(e, block, v, name)
           f == Frame("block_start", e.blockIdx, block, v)
           s == e.out
           t == d.out
           n == Len(e.out)
<1>0. s \in Seq(FrameSet) /\ e.blockIdx \in Nat
  BY DEF Encoder
<1>1. d \in Encoder /\ f \in FrameSet /\ t = Append(s, f)
      /\ d.blockIdx = e.blockIdx /\ d.blockOpen /\ d.blockType = name
  BY OpenBlockFields
<1>2. f.kind = "block_start" /\ f.index = e.blockIdx /\ f.block = block
  BY DEF Frame
<1> HIDE DEF d, f, s, t, n
<1>a. Appended(s, f, t)
  BY <1>0, <1>1, FrameAppended
<1>3. n \in Nat /\ Len(t) + 1 = n + 2 /\ DOMAIN s = 1..n /\ DOMAIN t = 1..(n + 1)
      /\ t[n + 1] = f /\ \A i \in 1..n : t[i] = s[i] /\ s[i] \in FrameSet
  BY <1>a DEF Appended, n, s
<1>4. \A j \in 1..n : \A k :
        /\ OpensFor(t, j, n + 1, k) <=> OpensFor(s, j, n + 1, k)
        /\ OpensFor(t, j, n + 2, k) <=> OpensFor(s, j, n + 1, k)
  BY <1>2, <1>a DEF Appended, n, s
<1>5. NextBlock(e) = e.blockIdx /\ NextBlock(d) = e.blockIdx + 1 /\ OpenName(d) = block
  BY <1>1 DEF NextBlock, OpenName
<1>6. \A j \in 1..n : IsStart(s[j]) =>
        s[j].index \in Nat /\ s[j].index < e.blockIdx /\ ~OpensFor(s, j, n + 1, s[j].index)
  <2>1. \A j \in 1..n : s[j] \in FrameSet /\ s[j].index \in Nat
    BY <1>0, <1>3 DEF FrameSet
  <2> QED BY <1>3, <1>5, <2>1 DEF Tracks, s, n
<1>7. ASSUME NEW i \in DOMAIN t PROVE FitsIn(t, i)
  <2>1. CASE i \in 1..n
    BY <1>3, <1>a, <2>1 DEF Tracks, Appended, s, n
  <2>2. CASE i = n + 1
    <3>1. ASSUME f.index > 0
          PROVE  \E j \in 1..n : t[j].kind = "block_start" /\ t[j].index = f.index - 1
      <4>1. e.blockIdx - 1 \in 0..(NextBlock(e) - 1)
        BY <1>0, <1>2, <1>5, <3>1
      <4>2. PICK j \in DOMAIN s : IsStart(s[j]) /\ s[j].index = e.blockIdx - 1
        BY <4>1 DEF Tracks, s
      <4> QED BY <1>2, <1>3, <4>2 DEF IsStart
    <3>2. \A j \in 1..n : t[j].kind = "block_start" =>
            t[j].index < f.index /\ ~OpensFor(t, j, n + 1, t[j].index)
      BY <1>2, <1>3, <1>4, <1>6 DEF IsStart
    <3>3. 1..(i - 1) = 1..n /\ t[i] = f
      BY <1>3, <2>2
    <3>4. StartsNext(t, i)
      BY <2>2, <3>1, <3>2, <3>3 DEF StartsNext
    <3> QED BY <1>2, <3>3, <3>4 DEF FitsIn
  <2> QED BY <1>3, <2>1, <2>2
<1>8. ASSUME NEW i \in DOMAIN t, IsStart(t[i])
      PROVE  /\ t[i].index < NextBlock(d)
             /\ t[i].index < d.blockIdx => ~OpensFor(t, i, n + 2, t[i].index)
  <2>1. CASE i \in 1..n
    BY <1>0, <1>1, <1>3, <1>4, <1>5, <1>6, <1>8, <2>1
  <2>2. CASE i = n + 1
    BY <1>0, <1>1, <1>2, <1>3, <1>5, <2>2
  <2> QED BY <1>3, <2>1, <2>2
<1>9. ASSUME NEW k \in 0..(NextBlock(d) - 1)
      PROVE  \E j \in DOMAIN t : IsStart(t[j]) /\ t[j].index = k
  <2>1. CASE k = e.blockIdx
    BY <1>2, <1>3, <2>1 DEF IsStart
  <2>2. CASE k # e.blockIdx
    <3>1. k \in 0..(NextBlock(e) - 1)
      BY <1>0, <1>5, <2>2
    <3>2. PICK j \in DOMAIN s : IsStart(s[j]) /\ s[j].index = k
      BY <3>1 DEF Tracks, s
    <3>3. j \in DOMAIN t /\ t[j] = s[j]
      BY <1>3
    <3> QED BY <3>2, <3>3
  <2> QED BY <2>1, <2>2
<1>10. OpensFor(t, n + 1, n + 2, d.blockIdx) /\ t[n + 1].block = OpenName(d) /\ n + 1 \in DOMAIN t
  <2>1. \A m \in ((n + 1) + 1)..((n + 2) - 1) : FALSE
    BY <1>3
  <2> QED BY <1>1, <1>2, <1>3, <1>5, <2>1 DEF OpensFor
<1>11. Tracks(d)
  BY <1>1, <1>3, <1>7, <1>8, <1>9, <1>10 DEF Tracks, t
<1> QED BY <1>11 DEF d

(* ------------------------ the message is framed ------------------------ *)

\* A frame of a block, in a message that has started.
LEMMA FramedEmit ==
  ASSUME NEW e \in Encoder, NEW d \in Encoder, NEW f \in FrameSet,
         Framed(e), e.messageStarted, d.messageStarted, d.out = Append(e.out, f),
         d.messageDeltaEmitted = e.messageDeltaEmitted,
         f.kind \in {"block_start", "block_stop", "delta"}
  PROVE  Framed(d)
<1> DEFINE n == Len(e.out)
<1>0. e.out \in Seq(FrameSet)
  BY DEF Encoder
<1>1. n \in Nat /\ n > 0 /\ DOMAIN e.out = 1..n /\ DOMAIN d.out = 1..(n + 1)
      /\ d.out[n + 1] = f /\ \A i \in 1..n : d.out[i] = e.out[i]
  BY <1>0, AppendFacts DEF Framed
<1> HIDE DEF n
<1>2. d.out # <<>>
  BY <1>1
<1>3. ASSUME NEW i \in DOMAIN d.out
      PROVE  /\ d.out[i].kind = "message_start" <=> i = 1
             /\ d.out[i].kind = "message_delta" =>
                  /\ d.messageDeltaEmitted
                  /\ \A j \in 1..(i - 1) : d.out[j].kind # "message_delta"
             /\ d.out[i].kind # "message_stop"
  <2>1. CASE i \in 1..n
    <3>1. \A j \in 1..(i - 1) : j \in 1..n
      BY <1>1, <2>1
    <3> QED BY <1>1, <2>1, <3>1 DEF Framed
  <2>2. CASE i = n + 1
    BY <1>1, <2>2
  <2> QED BY <1>1, <2>1, <2>2
<1> QED BY <1>2, <1>3 DEF Framed

\* The first frame.
LEMMA FramedStart ==
  ASSUME NEW e \in Encoder, NEW d \in Encoder, NEW f \in FrameSet,
         Framed(e), ~e.messageStarted, d.messageStarted, d.out = Append(e.out, f),
         d.messageDeltaEmitted = e.messageDeltaEmitted, f.kind = "message_start"
  PROVE  Framed(d)
<1>1. e.out = <<>>
  BY DEF Framed
<1>2. d.out = <<f>>
  BY <1>1
<1> QED BY <1>2 DEF Framed

\* The one message_delta.
LEMMA FramedDelta ==
  ASSUME NEW e \in Encoder, NEW d \in Encoder, NEW f \in FrameSet,
         Framed(e), e.messageStarted, d.messageStarted, d.out = Append(e.out, f),
         ~e.messageDeltaEmitted, d.messageDeltaEmitted, f.kind = "message_delta"
  PROVE  Framed(d)
<1> DEFINE n == Len(e.out)
<1>0. e.out \in Seq(FrameSet)
  BY DEF Encoder
<1>1. n \in Nat /\ n > 0 /\ DOMAIN e.out = 1..n /\ DOMAIN d.out = 1..(n + 1)
      /\ d.out[n + 1] = f /\ \A i \in 1..n : d.out[i] = e.out[i]
  BY <1>0, AppendFacts DEF Framed
<1> HIDE DEF n
<1>2. d.out # <<>>
  BY <1>1
<1>3. \A i \in 1..n : d.out[i].kind # "message_delta" /\ d.out[i].kind # "message_stop"
                      /\ (d.out[i].kind = "message_start" <=> i = 1)
  BY <1>1 DEF Framed
<1>4. ASSUME NEW i \in DOMAIN d.out
      PROVE  /\ d.out[i].kind = "message_start" <=> i = 1
             /\ d.out[i].kind = "message_delta" =>
                  /\ d.messageDeltaEmitted
                  /\ \A j \in 1..(i - 1) : d.out[j].kind # "message_delta"
             /\ d.out[i].kind # "message_stop"
  <2>1. CASE i \in 1..n
    BY <1>3, <2>1
  <2>2. CASE i = n + 1
    <3>1. \A j \in 1..(i - 1) : j \in 1..n
      BY <1>1, <2>2
    <3> QED BY <1>1, <1>3, <2>2, <3>1
  <2> QED BY <1>1, <2>1, <2>2
<1> QED BY <1>2, <1>4 DEF Framed

(* ---------------------------- what is added ---------------------------- *)

\* Frames that carry neither a piece of the answer nor the search's results.
Plain == {f \in FrameSet : ~Content(f) /\ ~IsResult(f)}

\* t is s with frames of K behind it.
Grew(s, t, K) ==
  /\ t \in Seq(FrameSet) /\ Len(s) <= Len(t)
  /\ \A i \in 1..Len(s) : t[i] = s[i]
  /\ \A i \in (Len(s) + 1)..Len(t) : t[i] \in K

\* t is s with plain frames behind it, and then the one that carries v, in or as
\* a block of that name.
Carried(s, t, v, name) ==
  \E m \in Seq(FrameSet), f \in FrameSet :
    /\ Grew(s, m, Plain) /\ t = Append(m, f)
    /\ Content(f) /\ f.val = v /\ f.block = name

\* The same of a frame that is known.
CarriedBy(s, t, f) ==
  f \in FrameSet /\ \E m \in Seq(FrameSet) : Grew(s, m, Plain) /\ t = Append(m, f)

LEMMA GrewNothing ==
  ASSUME NEW s \in Seq(FrameSet), NEW K
  PROVE  Grew(s, s, K)
<1>1. Len(s) \in Nat
  OBVIOUS
<1> QED BY <1>1 DEF Grew

LEMMA GrewAppend ==
  ASSUME NEW s \in Seq(FrameSet), NEW t \in Seq(FrameSet), NEW K, Grew(s, t, K),
         NEW f \in FrameSet, f \in K
  PROVE  Grew(s, Append(t, f), K)
<1> DEFINE u == Append(t, f)
           m == Len(s)
           n == Len(t)
<1>1. m \in Nat /\ n \in Nat /\ m <= n
  BY DEF Grew
<1>2. u \in Seq(FrameSet) /\ Len(u) = n + 1 /\ u[n + 1] = f /\ \A i \in 1..n : u[i] = t[i]
  BY AppendFacts
<1>3. (\A i \in 1..m : t[i] = s[i]) /\ (\A i \in (m + 1)..n : t[i] \in K)
  BY DEF Grew
<1> HIDE DEF u, m, n
<1>4. \A i \in 1..m : u[i] = s[i]
  BY <1>1, <1>2, <1>3
<1>5. \A i \in (m + 1)..(n + 1) : u[i] \in K
  BY <1>1, <1>2, <1>3
<1>6. Grew(s, u, K)
  BY <1>1, <1>2, <1>4, <1>5 DEF Grew, m, n
<1> QED BY <1>6 DEF u

LEMMA GrewTwice ==
  ASSUME NEW s \in Seq(FrameSet), NEW t \in Seq(FrameSet), NEW u \in Seq(FrameSet),
         NEW K, Grew(s, t, K), Grew(t, u, K)
  PROVE  Grew(s, u, K)
<1> DEFINE m == Len(s)
           n == Len(t)
           p == Len(u)
<1>1. m \in Nat /\ n \in Nat /\ p \in Nat /\ m <= n /\ n <= p
  BY DEF Grew
<1>2. (\A i \in 1..m : t[i] = s[i]) /\ (\A i \in (m + 1)..n : t[i] \in K)
      /\ (\A i \in 1..n : u[i] = t[i]) /\ (\A i \in (n + 1)..p : u[i] \in K)
  BY DEF Grew
<1> HIDE DEF m, n, p
<1>3. (\A i \in 1..m : u[i] = s[i]) /\ (\A i \in (m + 1)..p : u[i] \in K)
  <2>1. \A i \in (m + 1)..p : i \in (m + 1)..n \/ i \in (n + 1)..p
    BY <1>1
  <2>2. \A i \in (m + 1)..n : i \in 1..n
    BY <1>1
  <2>3. \A i \in 1..m : i \in 1..n
    BY <1>1
  <2> QED BY <1>2, <2>1, <2>2, <2>3
<1> QED BY <1>1, <1>3 DEF Grew, m, n, p

(* --------------------- the encoder is good throughout ------------------ *)

LEMMA GoodStart ==
  ASSUME NEW e, Good(e)
  PROVE  LET d == StartMessage(e)
         IN  /\ Good(d) /\ d.messageStarted /\ SameBlocks(e, d)
             /\ d.stopReason = e.stopReason /\ d.usage = e.usage
             /\ d.messageDeltaEmitted = e.messageDeltaEmitted
             /\ e.messageStarted => d = e
             /\ Grew(e.out, d.out, Plain)
<1> DEFINE d == StartMessage(e)
           f == Frame("message_start", 0, NoType, UsagePayload(e.usage))
<1>1. e \in Encoder /\ e.out \in Seq(FrameSet)
  BY DEF Good, Encoder
<1>2. /\ f \in FrameSet /\ d \in Encoder /\ SameBlocks(e, d) /\ d.messageStarted
      /\ d.stopReason = e.stopReason /\ d.usage = e.usage
      /\ d.messageDeltaEmitted = e.messageDeltaEmitted
      /\ e.messageStarted => d = e
      /\ ~e.messageStarted => d.out = Append(e.out, f)
  BY <1>1, StartMessageFields
<1>3. f.kind = "message_start"
  BY DEF Frame
<1>4. CASE e.messageStarted
  <2>1. d = e
    BY <1>2, <1>4
  <2> HIDE DEF d
  <2>2. Grew(e.out, d.out, Plain)
    BY <1>1, <2>1, GrewNothing
  <2> QED BY <1>2, <1>4, <2>1, <2>2 DEF d
<1>5. CASE ~e.messageStarted
  <2> HIDE DEF d, f
  <2>1. Mapped(d)
    BY <1>2 DEF Good, Mapped, SameBlocks
  <2>2. Tracks(d)
    BY <1>1, <1>2, <1>3, <1>5, TracksEmit DEF Good
  <2>3. Framed(d)
    BY <1>1, <1>2, <1>3, <1>5, FramedStart DEF Good
  <2>4. f \in Plain
    BY <1>2, <1>3 DEF Plain, Content, IsResult
  <2>5. Grew(e.out, d.out, Plain)
    BY <1>1, <1>2, <1>5, <2>4, GrewNothing, GrewAppend
  <2> QED BY <1>2, <1>5, <2>1, <2>2, <2>3, <2>5 DEF Good, d
<1> QED BY <1>4, <1>5, <1>1 DEF Encoder

LEMMA GoodClose ==
  ASSUME NEW e, Good(e)
  PROVE  LET d == CloseBlock(e)
         IN  /\ Good(d) /\ ~d.blockOpen /\ d.blockType = NoType /\ SameEnd(e, d)
             /\ d.toolCallBlocks = e.toolCallBlocks
             /\ d.blockIdx >= e.blockIdx
             /\ ~e.blockOpen => d = e
             /\ Grew(e.out, d.out, Plain)
<1> DEFINE d == CloseBlock(e)
           f == Frame("block_stop", e.blockIdx, e.blockType, Empty)
<1>1. e \in Encoder /\ e.out \in Seq(FrameSet) /\ e.blockIdx \in Nat
  BY DEF Good, Encoder
<1>2. /\ d \in Encoder /\ SameEnd(e, d) /\ ~d.blockOpen
      /\ ~e.blockOpen => d = e
      /\ e.blockOpen => /\ f \in FrameSet /\ d.out = Append(e.out, f)
                        /\ d.blockIdx = e.blockIdx + 1 /\ d.blockType = NoType
                        /\ d.toolCallBlocks = e.toolCallBlocks
  BY <1>1, CloseBlockFields
<1>3. f.kind = "block_stop"
  BY DEF Frame
<1>4. Tracks(d)
  BY <1>1, TracksClose DEF Good
<1> HIDE DEF d, f
<1>5. CASE ~e.blockOpen
  <2>1. d = e
    BY <1>2, <1>5
  <2>2. e.blockType = NoType
    BY <1>5 DEF Good, Mapped
  <2>3. Grew(e.out, d.out, Plain)
    BY <1>1, <2>1, GrewNothing
  <2> QED BY <1>1, <1>2, <2>1, <2>2, <2>3 DEF d
<1>6. CASE e.blockOpen
  <2>1. Mapped(d)
    BY <1>1, <1>2, <1>6 DEF Good, Mapped
  <2>2. Framed(d)
    <3>1. e.messageStarted
      BY <1>6 DEF Good, Framed
    <3> QED BY <1>1, <1>2, <1>3, <1>6, <3>1, FramedEmit DEF Good, SameEnd
  <2>3. f \in Plain
    BY <1>2, <1>3, <1>6 DEF Plain, Content, IsResult
  <2>4. Grew(e.out, d.out, Plain)
    BY <1>1, <1>2, <1>6, <2>3, GrewNothing, GrewAppend
  <2>5. d.blockIdx >= e.blockIdx
    BY <1>1, <1>2, <1>6
  <2> QED BY <1>2, <1>4, <1>6, <2>1, <2>2, <2>4, <2>5 DEF Good, d
<1> QED BY <1>5, <1>6, <1>1 DEF Encoder

LEMMA GoodOpen ==
  ASSUME NEW e, Good(e), ~e.blockOpen, e.messageStarted,
         NEW block \in BlockNames, NEW name \in BlockNames,
         name = NoType => block = "tool_use", name # NoType => block = name,
         NEW v \in ToolIDs \cup Results \cup {Empty, NoResults}
  PROVE  LET d == OpenBlock(e, block, v, name)
             f == Frame("block_start", e.blockIdx, block, v)
         IN  /\ Good(d) /\ d.blockOpen /\ d.blockType = name /\ SameEnd(e, d)
             /\ d.toolCallBlocks = e.toolCallBlocks /\ d.blockIdx = e.blockIdx
             /\ f \in FrameSet /\ d.out = Append(e.out, f)
<1> DEFINE d == OpenBlock(e, block, v, name)
           f == Frame("block_start", e.blockIdx, block, v)
<1>1. e \in Encoder
  BY DEF Good
<1>2. /\ d \in Encoder /\ SameEnd(e, d) /\ d.blockOpen /\ d.blockType = name
      /\ d.blockIdx = e.blockIdx /\ d.toolCallBlocks = e.toolCallBlocks
      /\ f \in FrameSet /\ d.out = Append(e.out, f)
  BY <1>1, OpenBlockFields
<1>3. Tracks(d)
  BY <1>1, TracksOpen DEF Good
<1>4. f.kind = "block_start"
  BY DEF Frame
<1> HIDE DEF d, f
<1>5. Framed(d)
  BY <1>1, <1>2, <1>4, FramedEmit DEF Good, SameEnd
<1>6. Mapped(d)
  BY <1>2 DEF Good, Mapped
<1> QED BY <1>2, <1>3, <1>5, <1>6 DEF Good, d, f

LEMMA GoodDelta ==
  ASSUME NEW e, Good(e), e.messageStarted, NEW f \in FrameSet, f.kind = "delta",
         f.block # "input_json" =>
           e.blockOpen /\ f.index = e.blockIdx /\ Holds(OpenName(e), f.block)
  PROVE  LET d == Emit(e, f)
         IN  Good(d) /\ SameBlocks(e, d) /\ SameEnd(e, d) /\ d.out = Append(e.out, f)
<1> DEFINE d == Emit(e, f)
<1>1. e \in Encoder
  BY DEF Good
<1>2. d \in Encoder /\ SameBlocks(e, d) /\ SameEnd(e, d) /\ d.out = Append(e.out, f)
  BY <1>1, EmitFields
<1> HIDE DEF d
<1>3. Tracks(d)
  BY <1>1, <1>2, TracksEmit DEF Good
<1>4. Framed(d)
  BY <1>1, <1>2, FramedEmit DEF Good, SameEnd
<1>5. Mapped(d)
  BY <1>2 DEF Good, Mapped, SameBlocks
<1> QED BY <1>2, <1>3, <1>4, <1>5 DEF Good, d

LEMMA GoodMessageDelta ==
  ASSUME NEW e, Good(e), e.messageStarted, ~e.messageDeltaEmitted
  PROVE  LET d == EmitMessageDelta(e)
             f == Frame("message_delta", 0,
                        IF e.stopReason = NoReason THEN EndTurn ELSE e.stopReason, UsagePayload(e.usage))
         IN  /\ Good(d) /\ d.messageDeltaEmitted /\ d.messageStarted /\ SameBlocks(e, d)
             /\ d.stopReason = e.stopReason /\ d.usage = e.usage
             /\ f \in FrameSet /\ d.out = Append(e.out, f)
             /\ Grew(e.out, d.out, Plain)
<1> DEFINE d == EmitMessageDelta(e)
           f == Frame("message_delta", 0,
                      IF e.stopReason = NoReason THEN EndTurn ELSE e.stopReason, UsagePayload(e.usage))
<1>1. e \in Encoder /\ e.out \in Seq(FrameSet)
  BY DEF Good, Encoder
<1>2. /\ d \in Encoder /\ SameBlocks(e, d) /\ d.messageDeltaEmitted
      /\ d.messageStarted = e.messageStarted
      /\ d.stopReason = e.stopReason /\ d.usage = e.usage
      /\ f \in FrameSet /\ d.out = Append(e.out, f)
  BY <1>1, MessageDeltaFields
<1>3. f.kind = "message_delta"
  BY DEF Frame
<1> HIDE DEF d, f
<1>4. Tracks(d)
  BY <1>1, <1>2, <1>3, TracksEmit DEF Good
<1>5. Framed(d)
  BY <1>1, <1>2, <1>3, FramedDelta DEF Good
<1>6. Mapped(d)
  BY <1>2 DEF Good, Mapped, SameBlocks
<1>7. f \in Plain
  BY <1>2, <1>3 DEF Plain, Content, IsResult
<1>8. Grew(e.out, d.out, Plain)
  BY <1>1, <1>2, <1>7, GrewNothing, GrewAppend
<1> QED BY <1>2, <1>4, <1>5, <1>6, <1>8 DEF Good, d, f

LEMMA GoodBlockStart ==
  ASSUME NEW e, Good(e), e.messageStarted, NEW name \in {"text", "thinking"}
  PROVE  LET d == EnsureBlockStart(e, name)
         IN  /\ Good(d) /\ d.blockOpen /\ d.blockType = name /\ SameEnd(e, d)
             /\ d.toolCallBlocks = e.toolCallBlocks
             /\ Grew(e.out, d.out, Plain)
<1> DEFINE d == EnsureBlockStart(e, name)
           c == CloseBlock(e)
           f == Frame("block_start", c.blockIdx, name, Empty)
<1>1. e.out \in Seq(FrameSet)
  BY DEF Good, Encoder
<1>2. CASE e.blockOpen /\ e.blockType = name
  <2>1. d = e
    BY <1>2 DEF EnsureBlockStart
  <2>2. Grew(e.out, d.out, Plain)
    BY <1>1, <2>1, GrewNothing
  <2> QED BY <1>2, <2>1, <2>2 DEF SameEnd
<1>3. CASE ~(e.blockOpen /\ e.blockType = name)
  <2>1. d = OpenBlock(c, name, Empty, name)
    BY <1>3 DEF EnsureBlockStart
  <2>2. /\ Good(c) /\ ~c.blockOpen /\ SameEnd(e, c)
        /\ c.toolCallBlocks = e.toolCallBlocks /\ Grew(e.out, c.out, Plain)
    BY GoodClose
  <2>3. c.messageStarted
    BY <2>2 DEF SameEnd
  <2>4. name \in BlockNames /\ name # NoType
    BY BlockNamesFacts
  <2> HIDE DEF c, f, d
  <2>5. /\ Good(d) /\ d.blockOpen /\ d.blockType = name /\ SameEnd(c, d)
        /\ d.toolCallBlocks = c.toolCallBlocks
        /\ f \in FrameSet /\ d.out = Append(c.out, f)
    BY <2>1, <2>2, <2>3, <2>4, GoodOpen DEF f
  <2>6. f \in Plain
    BY <2>5 DEF Plain, Content, IsResult, f, Frame
  <2>7. c.out \in Seq(FrameSet)
    BY <2>2 DEF Good, Encoder
  <2>8. Grew(e.out, d.out, Plain)
    BY <1>1, <2>2, <2>5, <2>6, <2>7, GrewAppend
  <2> QED BY <2>2, <2>5, <2>8 DEF SameEnd, d
<1> QED BY <1>2, <1>3

(* ------------------------- the kinds of events ------------------------- *)

\* A delta of text, reasoning or a signature: the block of its type is open.
LEMMA EncodeDelta ==
  ASSUME NEW e, Good(e), NEW name \in {"text", "thinking"},
         NEW delta \in {"text", "thinking", "signature"}, Holds(name, delta),
         NEW v \in Pieces
  PROVE  LET b == EnsureBlockStart(StartMessage(e), name)
             d == Emit(b, Frame("delta", b.blockIdx, delta, v))
         IN  /\ Good(d) /\ d.messageStarted /\ d.blockType = name
             /\ d.toolCallBlocks = e.toolCallBlocks /\ SameLast(e, d)
             /\ Carried(e.out, d.out, v, delta)
<1> DEFINE s == StartMessage(e)
           b == EnsureBlockStart(s, name)
           f == Frame("delta", b.blockIdx, delta, v)
           d == Emit(b, f)
<1>1. /\ Good(s) /\ s.messageStarted /\ SameBlocks(e, s) /\ SameLast(e, s)
      /\ Grew(e.out, s.out, Plain)
  BY GoodStart DEF SameLast
<1> HIDE DEF s
<1>2. /\ Good(b) /\ b.blockOpen /\ b.blockType = name /\ SameEnd(s, b)
      /\ b.toolCallBlocks = s.toolCallBlocks /\ Grew(s.out, b.out, Plain)
  BY <1>1, GoodBlockStart
<1> HIDE DEF b
<1>3. e.out \in Seq(FrameSet) /\ s.out \in Seq(FrameSet) /\ b.out \in Seq(FrameSet)
      /\ b.blockIdx \in Nat
  BY <1>1, <1>2 DEF Good, Encoder
<1>4. /\ f \in FrameSet /\ f.kind = "delta" /\ f.index = b.blockIdx /\ f.block = delta
      /\ f.val = v
  BY <1>3, FrameType, BlockNamesFacts
<1>5. Holds(OpenName(b), f.block)
  BY <1>2, <1>4, BlockNamesFacts DEF OpenName
<1>6. b.messageStarted
  BY <1>1, <1>2 DEF SameEnd
<1> HIDE DEF f
<1>7. Good(d) /\ SameBlocks(b, d) /\ SameEnd(b, d) /\ d.out = Append(b.out, f)
  BY <1>2, <1>4, <1>5, <1>6, GoodDelta
<1>8. Grew(e.out, b.out, Plain)
  BY <1>1, <1>2, <1>3, GrewTwice
<1>9. Content(f)
  BY <1>4 DEF Content
<1> HIDE DEF d
<1>10. Carried(e.out, d.out, v, delta)
  BY <1>3, <1>4, <1>7, <1>8, <1>9 DEF Carried
<1>11. d.messageStarted /\ d.blockType = name /\ d.toolCallBlocks = e.toolCallBlocks
       /\ SameLast(e, d)
  BY <1>1, <1>2, <1>6, <1>7 DEF SameBlocks, SameEnd, SameLast
<1> QED BY <1>7, <1>10, <1>11 DEF d, f, b, s

LEMMA EncodeTextGood ==
  ASSUME NEW e, Good(e), NEW v \in Pieces
  PROVE  LET d == EncodeText(e, v)
         IN  /\ Good(d) /\ d.messageStarted /\ d.blockType = "text"
             /\ d.toolCallBlocks = e.toolCallBlocks /\ SameLast(e, d)
             /\ Carried(e.out, d.out, v, "text")
<1> DEFINE b == EnsureBlockStart(StartMessage(e), "text")
           d == Emit(b, Frame("delta", b.blockIdx, "text", v))
<1>1. v # Empty
  BY EventsAssumption
<1>2. EncodeText(e, v) = d
  BY <1>1 DEF EncodeText
<1>3. Holds("text", "text")
  BY DEF Holds
<1>4. /\ Good(d) /\ d.messageStarted /\ d.blockType = "text"
      /\ d.toolCallBlocks = e.toolCallBlocks /\ SameLast(e, d)
      /\ Carried(e.out, d.out, v, "text")
  <2> HIDE DEF d
  <2> QED BY <1>3, EncodeDelta DEF d
<1> HIDE DEF d
<1> QED BY <1>2, <1>4

LEMMA EncodeThinkingGood ==
  ASSUME NEW e, Good(e), NEW v \in Pieces, NEW d \in {EncodeThinking(e, v), EncodeSignature(e, v)}
  PROVE  /\ Good(d) /\ d.messageStarted /\ d.blockType = "thinking"
         /\ d.toolCallBlocks = e.toolCallBlocks /\ SameLast(e, d)
         /\ \E delta \in {"thinking", "signature"} : Carried(e.out, d.out, v, delta)
<1> DEFINE b == EnsureBlockStart(StartMessage(e), "thinking")
           D(delta) == Emit(b, Frame("delta", b.blockIdx, delta, v))
<1>1. v # Empty
  BY EventsAssumption
<1>2. EncodeThinking(e, v) = D("thinking") /\ EncodeSignature(e, v) = D("signature")
  BY <1>1 DEF EncodeThinking, EncodeSignature
<1>3. PICK delta \in {"thinking", "signature"} : d = D(delta)
  BY <1>2
<1>4. Holds("thinking", delta)
  BY DEF Holds
<1>5. /\ Good(D(delta)) /\ D(delta).messageStarted /\ D(delta).blockType = "thinking"
      /\ D(delta).toolCallBlocks = e.toolCallBlocks /\ SameLast(e, D(delta))
      /\ Carried(e.out, D(delta).out, v, delta)
  <2> HIDE DEF D
  <2> QED BY <1>4, EncodeDelta DEF D
<1> HIDE DEF D
<1> QED BY <1>3, <1>5

\* A call is mapped to the block that is started for it, and stays open.
LEMMA EncodeToolCallStartGood ==
  ASSUME NEW e, Good(e), NEW index \in ToolIndices, NEW id \in ToolIDs
  PROVE  LET d == EncodeToolCallStart(e, index, id)
         IN  /\ Good(d) /\ d.messageStarted /\ d.blockOpen /\ d.blockType = NoType
             /\ DOMAIN d.toolCallBlocks = DOMAIN e.toolCallBlocks \cup {index}
             /\ d.toolCallBlocks[index] = d.blockIdx
             /\ \A t \in DOMAIN e.toolCallBlocks :
                  t # index => d.toolCallBlocks[t] = e.toolCallBlocks[t]
             /\ SameLast(e, d)
             /\ Carried(e.out, d.out, id, "tool_use")
             /\ CarriedBy(e.out, d.out, Frame("block_start", d.blockIdx, "tool_use", id))
<1> DEFINE s == StartMessage(e)
           c == CloseBlock(s)
           mapped == [t \in DOMAIN c.toolCallBlocks \cup {index} |->
                        IF t = index THEN c.blockIdx ELSE c.toolCallBlocks[t]]
           m == [c EXCEPT !.toolCallBlocks = mapped]
           f == Frame("block_start", m.blockIdx, "tool_use", id)
           d == OpenBlock(m, "tool_use", id, NoType)
<1>1. d = EncodeToolCallStart(e, index, id)
  BY DEF EncodeToolCallStart
<1>2. /\ Good(s) /\ s.messageStarted /\ SameBlocks(e, s) /\ SameLast(e, s)
      /\ Grew(e.out, s.out, Plain)
  BY GoodStart DEF SameLast
<1> HIDE DEF s
<1>3. /\ Good(c) /\ ~c.blockOpen /\ c.blockType = NoType /\ SameEnd(s, c)
      /\ c.toolCallBlocks = s.toolCallBlocks /\ Grew(s.out, c.out, Plain)
  BY <1>2, GoodClose
<1> HIDE DEF c
<1>4. /\ c \in Encoder /\ c.blockIdx \in Nat /\ c.toolCallBlocks \in ToolBlocks
      /\ e.out \in Seq(FrameSet) /\ s.out \in Seq(FrameSet) /\ c.out \in Seq(FrameSet)
  BY <1>2, <1>3 DEF Good, Encoder
<1>5. mapped \in ToolBlocks
  <2>1. PICK D \in SUBSET ToolIndices : c.toolCallBlocks \in [D -> Nat]
    BY <1>4 DEF ToolBlocks
  <2>2. mapped \in [D \cup {index} -> Nat] /\ D \cup {index} \in SUBSET ToolIndices
    BY <1>4, <2>1
  <2> HIDE DEF mapped
  <2> QED BY <2>2 DEF ToolBlocks
<1>6. /\ DOMAIN mapped = DOMAIN e.toolCallBlocks \cup {index}
      /\ mapped[index] = c.blockIdx
      /\ \A t \in DOMAIN e.toolCallBlocks : t # index => mapped[t] = e.toolCallBlocks[t]
  BY <1>2, <1>3 DEF SameBlocks
<1>7. \A t \in DOMAIN mapped : mapped[t] \in 0..c.blockIdx
  BY <1>3, <1>4 DEF Good, Mapped
<1> HIDE DEF mapped
<1>8. /\ m \in Encoder /\ m.toolCallBlocks = mapped /\ m.out = c.out
      /\ m.blockIdx = c.blockIdx /\ m.blockOpen = c.blockOpen /\ m.blockType = c.blockType
      /\ SameEnd(c, m)
  BY <1>4, <1>5 DEF Encoder, SameEnd
<1> HIDE DEF m
<1>9. Good(m)
  <2>1. Tracks(m)
    BY <1>3, <1>4, <1>8, TracksSame DEF Good
  <2>2. Framed(m)
    BY <1>3, <1>8 DEF Good, Framed, SameEnd
  <2>3. Mapped(m)
    BY <1>3, <1>7, <1>8 DEF Mapped
  <2> QED BY <1>8, <2>1, <2>2, <2>3 DEF Good
<1>10. m.messageStarted
  BY <1>2, <1>3, <1>8 DEF SameEnd
<1>11. /\ Good(d) /\ d.blockOpen /\ d.blockType = NoType /\ SameEnd(m, d)
       /\ d.toolCallBlocks = m.toolCallBlocks /\ d.blockIdx = m.blockIdx
       /\ f \in FrameSet /\ d.out = Append(m.out, f)
  BY <1>3, <1>8, <1>9, <1>10, GoodOpen, BlockNamesFacts
<1>12. Content(f) /\ f.block = "tool_use" /\ f.val = id
  BY DEF Content, Frame
<1>13. Grew(e.out, c.out, Plain)
  BY <1>2, <1>3, <1>4, GrewTwice
<1>14. CarriedBy(e.out, d.out, Frame("block_start", d.blockIdx, "tool_use", id))
  <2>1. f = Frame("block_start", d.blockIdx, "tool_use", id)
    BY <1>11
  <2> HIDE DEF d, f
  <2> QED BY <2>1, <1>4, <1>8, <1>11, <1>13 DEF CarriedBy
<1> HIDE DEF d, f
<1>15. Carried(e.out, d.out, id, "tool_use")
  BY <1>4, <1>8, <1>11, <1>12, <1>13 DEF Carried
<1>16. d.messageStarted /\ SameLast(e, d)
  BY <1>2, <1>3, <1>8, <1>10, <1>11 DEF SameEnd, SameLast
<1>17. /\ DOMAIN d.toolCallBlocks = DOMAIN e.toolCallBlocks \cup {index}
       /\ d.toolCallBlocks[index] = d.blockIdx
       /\ \A t \in DOMAIN e.toolCallBlocks :
            t # index => d.toolCallBlocks[t] = e.toolCallBlocks[t]
  BY <1>6, <1>8, <1>11
<1> QED BY <1>1, <1>11, <1>14, <1>15, <1>16, <1>17

\* Frame i extends a tool call whose block is open.
Lands(frames, i) ==
  frames[i].kind = "delta" /\ frames[i].block = "input_json" =>
    \E j \in 1..(i - 1) :
      OpensFor(frames, j, i, frames[i].index) /\ frames[j].block = "tool_use"

\* Arguments leave the blocks as they are.
LEMMA EncodeToolCallDeltaGood ==
  ASSUME NEW e, Good(e), NEW index \in ToolIndices, NEW v \in Pieces
  PROVE  LET d == EncodeToolCallDelta(e, index, v)
         IN  /\ Good(d) /\ d.messageStarted /\ SameBlocks(e, d) /\ SameLast(e, d)
             /\ Carried(e.out, d.out, v, "input_json")
             /\ index \in DOMAIN e.toolCallBlocks =>
                  CarriedBy(e.out, d.out,
                            Frame("delta", e.toolCallBlocks[index], "input_json", v))
             /\ /\ e.blockOpen /\ e.blockType = NoType
                /\ index \in DOMAIN e.toolCallBlocks /\ e.toolCallBlocks[index] = e.blockIdx
                => Lands(d.out, Len(d.out))
<1> DEFINE s == StartMessage(e)
           block == IF index \in DOMAIN s.toolCallBlocks
                    THEN s.toolCallBlocks[index] ELSE s.blockIdx
           f == Frame("delta", block, "input_json", v)
           d == Emit(s, f)
<1>1. d = EncodeToolCallDelta(e, index, v)
  BY DEF EncodeToolCallDelta
<1>2. /\ Good(s) /\ s.messageStarted /\ SameBlocks(e, s) /\ SameLast(e, s)
      /\ Grew(e.out, s.out, Plain)
  BY GoodStart DEF SameLast
<1> HIDE DEF s
<1>3. e.out \in Seq(FrameSet) /\ s.out \in Seq(FrameSet) /\ s.blockIdx \in Nat
  BY <1>2 DEF Good, Encoder
<1>4. block \in Nat
  BY <1>2, <1>3 DEF Good, Mapped
<1> HIDE DEF block
<1>5. /\ f \in FrameSet /\ f.kind = "delta" /\ f.index = block /\ f.block = "input_json"
      /\ f.val = v
  BY <1>4, FrameType, BlockNamesFacts
<1> HIDE DEF f
<1>6. Good(d) /\ SameBlocks(s, d) /\ SameEnd(s, d) /\ d.out = Append(s.out, f)
  BY <1>2, <1>5, GoodDelta
<1> HIDE DEF d
<1>7. Content(f)
  BY <1>5 DEF Content
<1>8. Carried(e.out, d.out, v, "input_json")
  BY <1>2, <1>3, <1>5, <1>6, <1>7 DEF Carried
<1>9. d.messageStarted /\ SameBlocks(e, d) /\ SameLast(e, d)
  BY <1>2, <1>6 DEF SameBlocks, SameEnd, SameLast
<1>10. ASSUME e.blockOpen, e.blockType = NoType, index \in DOMAIN e.toolCallBlocks,
              e.toolCallBlocks[index] = e.blockIdx
       PROVE  Lands(d.out, Len(d.out))
  <2> DEFINE n == Len(s.out)
  <2>1. block = s.blockIdx /\ s.blockOpen /\ OpenName(s) = "tool_use"
    BY <1>2, <1>10 DEF SameBlocks, OpenName, block
  <2>2. Appended(s.out, f, d.out)
    BY <1>3, <1>5, <1>6, FrameAppended
  <2>3. PICK j \in 1..n : OpensFor(s.out, j, n + 1, s.blockIdx) /\ s.out[j].block = "tool_use"
    BY <1>2, <2>1, <2>2 DEF Good, Tracks, Appended
  <2>4. /\ OpensFor(d.out, j, n + 1, s.blockIdx) /\ d.out[j].block = "tool_use"
        /\ Len(d.out) = n + 1 /\ d.out[n + 1] = f /\ j \in 1..((n + 1) - 1)
    BY <2>2, <2>3 DEF Appended
  <2> HIDE DEF n
  <2> QED BY <1>5, <2>1, <2>4 DEF Lands
<1>11. ASSUME index \in DOMAIN e.toolCallBlocks
       PROVE  CarriedBy(e.out, d.out, Frame("delta", e.toolCallBlocks[index], "input_json", v))
  <2>1. block = e.toolCallBlocks[index]
    BY <1>2, <1>11 DEF SameBlocks, block
  <2>2. f = Frame("delta", e.toolCallBlocks[index], "input_json", v)
    BY <2>1 DEF f
  <2> QED BY <2>2, <1>2, <1>3, <1>5, <1>6 DEF CarriedBy
<1> QED BY <1>1, <1>6, <1>8, <1>9, <1>10, <1>11

\* Plain frames, the results of a search, plain frames.
Searched(s, t, v) ==
  \E m \in Seq(FrameSet), f \in FrameSet :
    /\ Grew(s, m, Plain) /\ Grew(Append(m, f), t, Plain)
    /\ IsResult(f) /\ ~Content(f) /\ f.val = v

LEMMA StandaloneGood ==
  ASSUME NEW e, Good(e), e.messageStarted,
         NEW block \in {"server_tool_use", "web_search_tool_result"},
         NEW v \in Results \cup {Empty, NoResults}
  PROVE  LET d == EmitStandaloneBlock(e, block, v)
         IN  /\ Good(d) /\ ~d.blockOpen /\ d.blockType = NoType /\ SameEnd(e, d)
             /\ d.toolCallBlocks = e.toolCallBlocks
             /\ block = "server_tool_use" => Grew(e.out, d.out, Plain)
             /\ block = "web_search_tool_result" => Searched(e.out, d.out, v)
<1> DEFINE c == CloseBlock(e)
           o == OpenBlock(c, block, v, block)
           f == Frame("block_start", c.blockIdx, block, v)
           d == CloseBlock(o)
<1>1. d = EmitStandaloneBlock(e, block, v)
  BY DEF EmitStandaloneBlock
<1>2. /\ Good(c) /\ ~c.blockOpen /\ SameEnd(e, c)
      /\ c.toolCallBlocks = e.toolCallBlocks /\ Grew(e.out, c.out, Plain)
  BY GoodClose
<1> HIDE DEF c
<1>3. c.messageStarted
  BY <1>2 DEF SameEnd
<1>4. block \in BlockNames /\ block # NoType
  BY BlockNamesFacts
<1>5. /\ Good(o) /\ SameEnd(c, o) /\ o.toolCallBlocks = c.toolCallBlocks
      /\ f \in FrameSet /\ o.out = Append(c.out, f)
  BY <1>2, <1>3, <1>4, GoodOpen
<1> HIDE DEF o
<1>6. /\ Good(d) /\ ~d.blockOpen /\ d.blockType = NoType /\ SameEnd(o, d)
      /\ d.toolCallBlocks = o.toolCallBlocks /\ Grew(o.out, d.out, Plain)
  BY <1>5, GoodClose
<1> HIDE DEF d
<1>7. /\ e.out \in Seq(FrameSet) /\ c.out \in Seq(FrameSet) /\ o.out \in Seq(FrameSet)
      /\ d.out \in Seq(FrameSet)
  BY <1>2, <1>5, <1>6 DEF Good, Encoder
<1>8. f.kind = "block_start" /\ f.block = block /\ f.val = v
  BY DEF Frame
<1> HIDE DEF f
<1>9. ~Content(f)
  BY <1>8 DEF Content
<1>10. ASSUME block = "server_tool_use" PROVE Grew(e.out, d.out, Plain)
  <2>1. f \in Plain
    BY <1>5, <1>8, <1>9, <1>10 DEF Plain, IsResult
  <2>2. Grew(e.out, o.out, Plain)
    BY <1>2, <1>5, <1>7, <2>1, GrewAppend
  <2> QED BY <1>6, <1>7, <2>2, GrewTwice
<1>11. ASSUME block = "web_search_tool_result" PROVE Searched(e.out, d.out, v)
  <2>1. IsResult(f)
    BY <1>8, <1>11 DEF IsResult
  <2> QED BY <1>2, <1>5, <1>6, <1>7, <1>8, <1>9, <2>1 DEF Searched
<1>12. SameEnd(e, d) /\ d.toolCallBlocks = e.toolCallBlocks
  BY <1>2, <1>5, <1>6 DEF SameEnd
<1> QED BY <1>1, <1>6, <1>10, <1>11, <1>12

LEMMA SearchedAfter ==
  ASSUME NEW s \in Seq(FrameSet), NEW t \in Seq(FrameSet), NEW u, NEW v,
         Grew(s, t, Plain), Searched(t, u, v)
  PROVE  Searched(s, u, v)
<1>1. PICK m \in Seq(FrameSet), f \in FrameSet :
        /\ Grew(t, m, Plain) /\ Grew(Append(m, f), u, Plain)
        /\ IsResult(f) /\ ~Content(f) /\ f.val = v
  BY DEF Searched
<1>2. Grew(s, m, Plain)
  BY <1>1, GrewTwice
<1> QED BY <1>1, <1>2 DEF Searched

\* The search's blocks leave none open.
LEMMA InjectGood ==
  ASSUME Good(enc), results \in Results \cup {NoResults}
  PROVE  LET d == Inject(enc)
         IN  /\ Good(d) /\ d.messageStarted /\ d.blockType = NoType
             /\ d.toolCallBlocks = enc.toolCallBlocks /\ SameLast(enc, d)
             /\ Searched(enc.out, d.out, results)
<1> DEFINE s == StartMessage(enc)
           r == StartMessage(s)
           c == CloseBlock(r)
           u == EmitStandaloneBlock(c, "server_tool_use", Empty)
           d == EmitStandaloneBlock(u, "web_search_tool_result", results)
<1>1. d = Inject(enc)
  BY DEF Inject, EncodeWebSearch, EncodeText
<1>2. /\ Good(s) /\ s.messageStarted /\ SameBlocks(enc, s) /\ SameLast(enc, s)
      /\ Grew(enc.out, s.out, Plain)
  BY GoodStart DEF SameLast
<1>3. r = s
  <2> HIDE DEF s
  <2> QED BY <1>2, GoodStart
<1> HIDE DEF r
<1>4. /\ Good(c) /\ SameEnd(s, c) /\ c.toolCallBlocks = s.toolCallBlocks
      /\ Grew(s.out, c.out, Plain)
  BY <1>2, <1>3, GoodClose
<1> HIDE DEF s, c
<1>5. c.messageStarted
  BY <1>2, <1>4 DEF SameEnd
<1>6. /\ Good(u) /\ SameEnd(c, u) /\ u.toolCallBlocks = c.toolCallBlocks
      /\ Grew(c.out, u.out, Plain)
  BY <1>4, <1>5, StandaloneGood
<1> HIDE DEF u
<1>7. u.messageStarted
  BY <1>5, <1>6 DEF SameEnd
<1>8. /\ Good(d) /\ d.blockType = NoType /\ SameEnd(u, d)
      /\ d.toolCallBlocks = u.toolCallBlocks
      /\ Searched(u.out, d.out, results)
  BY <1>6, <1>7, StandaloneGood
<1> HIDE DEF d
<1>9. /\ enc.out \in Seq(FrameSet) /\ s.out \in Seq(FrameSet) /\ c.out \in Seq(FrameSet)
      /\ u.out \in Seq(FrameSet)
  BY <1>2, <1>4, <1>6 DEF Good, Encoder
<1>10. Searched(enc.out, d.out, results)
  <2>1. Grew(enc.out, c.out, Plain)
    BY <1>2, <1>4, <1>9, GrewTwice
  <2>2. Grew(enc.out, u.out, Plain)
    BY <1>6, <1>9, <2>1, GrewTwice
  <2> QED BY <1>8, <1>9, <2>2, SearchedAfter
<1>11. /\ d.messageStarted /\ d.toolCallBlocks = enc.toolCallBlocks /\ SameLast(enc, d)
  BY <1>2, <1>4, <1>6, <1>7, <1>8 DEF SameEnd, SameLast, SameBlocks
<1> QED BY <1>1, <1>8, <1>10, <1>11

\* The last frame tells how the message ended.
TellsEnd(d) == d.out[Len(d.out)] = Frame("message_delta", 0, d.stopReason, UsagePayload(d.usage))

LEMMA EncodeMessageStopGood ==
  ASSUME NEW e, Good(e), NEW reason \in Reasons
  PROVE  LET d == EncodeMessageStop(e, reason)
         IN  /\ Good(d) /\ d.messageStarted /\ ~d.blockOpen /\ d.blockType = NoType
             /\ d.toolCallBlocks = e.toolCallBlocks
             /\ d.stopReason = reason /\ d.usage = e.usage
             /\ d.messageDeltaEmitted <=> e.messageDeltaEmitted \/ e.usage # NoUsage
             /\ d.messageDeltaEmitted /\ ~e.messageDeltaEmitted => TellsEnd(d)
             /\ Grew(e.out, d.out, Plain)
<1> DEFINE s == StartMessage(e)
           c == CloseBlock(s)
           r == [c EXCEPT !.stopReason = reason]
           d == EncodeMessageStop(e, reason)
           f == Frame("message_delta", 0, IF r.stopReason = NoReason THEN EndTurn ELSE r.stopReason,
                      UsagePayload(r.usage))
<1>1. d = IF r.usage # NoUsage /\ ~r.messageDeltaEmitted THEN EmitMessageDelta(r) ELSE r
  BY DEF EncodeMessageStop
<1>2. /\ Good(s) /\ s.messageStarted /\ SameBlocks(e, s) /\ SameLast(e, s)
      /\ Grew(e.out, s.out, Plain)
  BY GoodStart DEF SameLast
<1> HIDE DEF s
<1>3. /\ Good(c) /\ ~c.blockOpen /\ c.blockType = NoType /\ SameEnd(s, c)
      /\ c.toolCallBlocks = s.toolCallBlocks /\ Grew(s.out, c.out, Plain)
  BY <1>2, GoodClose
<1> HIDE DEF c
<1>4. /\ r \in Encoder /\ r.stopReason = reason /\ SameBlocks(c, r) /\ r.out = c.out
      /\ r.usage = c.usage /\ r.messageDeltaEmitted = c.messageDeltaEmitted
      /\ r.messageStarted = c.messageStarted
  BY <1>3 DEF Good, Encoder, SameBlocks
<1> HIDE DEF r, d
<1>5. c \in Encoder /\ e.out \in Seq(FrameSet) /\ s.out \in Seq(FrameSet)
      /\ c.out \in Seq(FrameSet)
  BY <1>2, <1>3 DEF Good, Encoder
<1>6. Good(r)
  <2>1. Tracks(r)
    BY <1>3, <1>4, <1>5, TracksSame DEF Good, SameBlocks
  <2>2. Framed(r)
    BY <1>3, <1>4 DEF Good, Framed, SameBlocks
  <2>3. Mapped(r)
    BY <1>3, <1>4 DEF Good, Mapped, SameBlocks
  <2> QED BY <1>4, <2>1, <2>2, <2>3 DEF Good
<1>7. /\ r.messageStarted /\ ~r.blockOpen /\ r.blockType = NoType
      /\ r.toolCallBlocks = e.toolCallBlocks /\ r.usage = e.usage
      /\ r.messageDeltaEmitted = e.messageDeltaEmitted
  BY <1>2, <1>3, <1>4 DEF SameBlocks, SameEnd, SameLast
<1>8. Grew(e.out, r.out, Plain)
  BY <1>2, <1>3, <1>4, <1>5, GrewTwice
<1>9. reason # NoReason
  BY EncoderAssumption
<1>10. CASE r.usage # NoUsage /\ ~r.messageDeltaEmitted
  <2>1. d = EmitMessageDelta(r)
    BY <1>1, <1>10
  <2>2. /\ Good(d) /\ d.messageDeltaEmitted /\ d.messageStarted /\ SameBlocks(r, d)
        /\ d.stopReason = r.stopReason /\ d.usage = r.usage
        /\ f \in FrameSet /\ d.out = Append(r.out, f)
        /\ Grew(r.out, d.out, Plain)
    BY <1>6, <1>7, <1>10, <2>1, GoodMessageDelta
  <2>3. TellsEnd(d)
    <3>1. f = Frame("message_delta", 0, d.stopReason, UsagePayload(d.usage))
      BY <1>4, <1>9, <2>2
    <3>2. d.out[Len(d.out)] = f
      BY <1>4, <1>5, <2>2, AppendFacts
    <3> QED BY <3>1, <3>2 DEF TellsEnd
  <2>4. Grew(e.out, d.out, Plain)
    <3>1. d.out \in Seq(FrameSet)
      BY <2>2 DEF Good, Encoder
    <3> QED BY <1>4, <1>5, <1>8, <2>2, <3>1, GrewTwice
  <2> HIDE DEF f
  <2> QED BY <1>4, <1>7, <1>10, <2>2, <2>3, <2>4 DEF SameBlocks, d
<1>11. CASE ~(r.usage # NoUsage /\ ~r.messageDeltaEmitted)
  <2>1. d = r
    BY <1>1, <1>11
  <2> HIDE DEF f
  <2> QED BY <1>4, <1>6, <1>7, <1>8, <1>11, <2>1 DEF d
<1> QED BY <1>10, <1>11

LEMMA EncodeUsageFinalGood ==
  ASSUME NEW e, Good(e), NEW u \in Usages
  PROVE  LET d == EncodeUsageFinal(e, u)
         IN  /\ Good(d) /\ d.messageStarted /\ SameBlocks(e, d)
             /\ d.stopReason = e.stopReason /\ d.usage = u
             /\ d.messageDeltaEmitted <=> e.messageDeltaEmitted \/ e.stopReason # NoReason
             /\ d.messageDeltaEmitted /\ ~e.messageDeltaEmitted => TellsEnd(d)
             /\ Grew(e.out, d.out, Plain)
<1> DEFINE r == [e EXCEPT !.usage = u]
           s == StartMessage(r)
           d == EncodeUsageFinal(e, u)
           f == Frame("message_delta", 0, IF s.stopReason = NoReason THEN EndTurn ELSE s.stopReason,
                      UsagePayload(s.usage))
<1>1. d = IF s.stopReason # NoReason /\ ~s.messageDeltaEmitted THEN EmitMessageDelta(s) ELSE s
  BY DEF EncodeUsageFinal
<1>2. /\ r \in Encoder /\ r.usage = u /\ SameBlocks(e, r) /\ r.out = e.out
      /\ r.stopReason = e.stopReason /\ r.messageDeltaEmitted = e.messageDeltaEmitted
      /\ r.messageStarted = e.messageStarted
  BY DEF Good, Encoder, SameBlocks
<1> HIDE DEF r, d
<1>3. Good(r)
  <2>1. Tracks(r)
    BY <1>2, TracksSame DEF Good, SameBlocks
  <2>2. Framed(r)
    BY <1>2 DEF Good, Framed, SameBlocks
  <2>3. Mapped(r)
    BY <1>2 DEF Good, Mapped, SameBlocks
  <2> QED BY <1>2, <2>1, <2>2, <2>3 DEF Good
<1>4. /\ Good(s) /\ s.messageStarted /\ SameBlocks(r, s)
      /\ s.stopReason = r.stopReason /\ s.usage = r.usage
      /\ s.messageDeltaEmitted = r.messageDeltaEmitted
      /\ Grew(r.out, s.out, Plain)
  BY <1>3, GoodStart
<1> HIDE DEF s
<1>5. e.out \in Seq(FrameSet) /\ s.out \in Seq(FrameSet)
  BY <1>4 DEF Good, Encoder
<1>6. CASE s.stopReason # NoReason /\ ~s.messageDeltaEmitted
  <2>1. d = EmitMessageDelta(s)
    BY <1>1, <1>6
  <2>2. /\ Good(d) /\ d.messageDeltaEmitted /\ d.messageStarted /\ SameBlocks(s, d)
        /\ d.stopReason = s.stopReason /\ d.usage = s.usage
        /\ f \in FrameSet /\ d.out = Append(s.out, f)
        /\ Grew(s.out, d.out, Plain)
    BY <1>4, <1>6, <2>1, GoodMessageDelta
  <2>3. TellsEnd(d)
    <3>1. f = Frame("message_delta", 0, d.stopReason, UsagePayload(d.usage))
      BY <1>6, <2>2
    <3>2. d.out[Len(d.out)] = f
      BY <1>5, <2>2, AppendFacts
    <3> QED BY <3>1, <3>2 DEF TellsEnd
  <2>4. Grew(e.out, d.out, Plain)
    <3>1. d.out \in Seq(FrameSet)
      BY <2>2 DEF Good, Encoder
    <3> QED BY <1>2, <1>4, <1>5, <2>2, <3>1, GrewTwice
  <2> HIDE DEF f
  <2> QED BY <1>2, <1>4, <1>6, <2>2, <2>3, <2>4 DEF SameBlocks, d
<1>7. CASE ~(s.stopReason # NoReason /\ ~s.messageDeltaEmitted)
  <2>1. d = s
    BY <1>1, <1>7
  <2> HIDE DEF f
  <2> QED BY <1>2, <1>4, <1>7, <2>1 DEF d, SameBlocks
<1> QED BY <1>6, <1>7

\* The end of the stream: the delta, if there is anything to tell and nobody
\* has, and the last frame.
LEMMA DoneGood ==
  ASSUME NEW e, Good(e), NothingToEnd(e)
  PROVE  LET z == Done(e)
         IN  /\ z \in Encoder /\ ~z.blockOpen /\ z.blockType = NoType /\ Mapped(z)
             /\ \A i \in DOMAIN z.out : FitsIn(z.out, i)
             /\ \A i \in DOMAIN z.out :
                  /\ z.out[i].kind = "message_start" <=> i = 1 /\ z.out[i].kind # "message_stop"
                  /\ z.out[i].kind = "message_delta" =>
                       \A j \in 1..(i - 1) : z.out[j].kind # "message_delta"
                  /\ z.out[i].kind = "message_stop" => i = Len(z.out)
             /\ z.out[Len(z.out)].kind = "message_stop"
             /\ Grew(e.out, z.out, Plain)
             /\ /\ e.stopReason # NoReason
                /\ e.messageDeltaEmitted => ~e.blockOpen /\ TellsEnd(e)
                => z.out[Len(z.out) - 1] = Frame("message_delta", 0, e.stopReason, UsagePayload(e.usage))
<1> DEFINE c == CloseBlock(e)
           d == IF ~c.messageDeltaEmitted /\ (c.stopReason # NoReason \/ c.usage # NoUsage)
                THEN EmitMessageDelta(c) ELSE c
           f == Frame("message_stop", 0, NoType, Empty)
           g == Frame("message_delta", 0, IF c.stopReason = NoReason THEN EndTurn ELSE c.stopReason,
                      UsagePayload(c.usage))
           z == Emit(d, f)
           n == Len(d.out)
<1>1. z = Done(e)
  BY DEF Done
<1>2. /\ Good(c) /\ ~c.blockOpen /\ c.blockType = NoType /\ SameEnd(e, c)
      /\ ~e.blockOpen => c = e
      /\ Grew(e.out, c.out, Plain)
  BY GoodClose
<1> HIDE DEF c
<1>3. e.out \in Seq(FrameSet) /\ c.out \in Seq(FrameSet)
  BY <1>2 DEF Good, Encoder
<1>4. /\ Good(d) /\ ~d.blockOpen /\ d.blockType = NoType /\ Grew(c.out, d.out, Plain)
      /\ e.stopReason # NoReason /\ (e.messageDeltaEmitted => ~e.blockOpen /\ TellsEnd(e))
           => d.out # <<>> /\ d.out[Len(d.out)] = Frame("message_delta", 0, e.stopReason, UsagePayload(e.usage))
  <2>1. CASE ~c.messageDeltaEmitted /\ (c.stopReason # NoReason \/ c.usage # NoUsage)
    <3>1. c.messageStarted
      BY <1>2, <2>1 DEF NothingToEnd, SameEnd
    <3>2. d = EmitMessageDelta(c)
      BY <2>1
    <3> HIDE DEF d
    <3>3. /\ Good(d) /\ SameBlocks(c, d) /\ g \in FrameSet /\ d.out = Append(c.out, g)
          /\ Grew(c.out, d.out, Plain)
      BY <1>2, <2>1, <3>1, <3>2, GoodMessageDelta
    <3>4. d.out # <<>> /\ d.out[Len(d.out)] = g
      BY <1>3, <3>3, AppendFacts
    <3>5. e.stopReason # NoReason => g = Frame("message_delta", 0, e.stopReason, UsagePayload(e.usage))
      BY <1>2 DEF SameEnd
    <3> HIDE DEF g
    <3> QED BY <1>2, <3>3, <3>4, <3>5 DEF SameBlocks
  <2>2. CASE ~(~c.messageDeltaEmitted /\ (c.stopReason # NoReason \/ c.usage # NoUsage))
    <3>1. d = c
      BY <2>2
    <3> HIDE DEF d
    <3>2. Grew(c.out, d.out, Plain)
      BY <1>3, <3>1, GrewNothing
    <3>3. ASSUME e.stopReason # NoReason, e.messageDeltaEmitted => ~e.blockOpen /\ TellsEnd(e)
          PROVE  d.out # <<>> /\ d.out[Len(d.out)] = Frame("message_delta", 0, e.stopReason, UsagePayload(e.usage))
      <4>1. e.messageDeltaEmitted
        BY <1>2, <2>2, <3>3 DEF SameEnd
      <4>2. d = e /\ d.out[Len(d.out)] = Frame("message_delta", 0, e.stopReason, UsagePayload(e.usage))
        BY <1>2, <3>1, <3>3, <4>1 DEF TellsEnd
      <4>3. d.out # <<>>
        BY <3>3, <4>2 DEF Good, Framed, NothingToEnd
      <4> QED BY <4>2, <4>3
    <3> QED BY <1>2, <3>1, <3>2, <3>3
  <2> QED BY <2>1, <2>2
<1> HIDE DEF d
<1>5. d \in Encoder /\ d.out \in Seq(FrameSet) /\ n \in Nat /\ DOMAIN d.out = 1..n
  BY <1>4 DEF Good, Encoder
<1>6. f \in FrameSet /\ f.kind = "message_stop"
  BY FrameType, BlockNamesFacts
<1> HIDE DEF f
<1>7. z \in Encoder /\ z.out = Append(d.out, f) /\ SameBlocks(d, z)
  BY <1>5, <1>6, EmitFields
<1> HIDE DEF z
<1>8. Appended(d.out, f, z.out)
  BY <1>5, <1>6, <1>7, FrameAppended
<1>9. /\ Len(z.out) = n + 1 /\ DOMAIN z.out = 1..(n + 1) /\ z.out[n + 1] = f
      /\ \A i \in 1..n : z.out[i] = d.out[i]
      /\ \A i \in 1..n : FitsIn(z.out, i) <=> FitsIn(d.out, i)
  BY <1>8 DEF Appended
<1> HIDE DEF n
<1>10. ~z.blockOpen /\ z.blockType = NoType /\ Mapped(z)
  BY <1>4, <1>7 DEF Good, Mapped, SameBlocks
<1>11. ASSUME NEW i \in DOMAIN z.out PROVE FitsIn(z.out, i)
  <2>1. CASE i \in 1..n
    BY <1>4, <1>5, <1>9, <2>1 DEF Good, Tracks
  <2>2. CASE i = n + 1
    BY <1>6, <1>9, <2>2 DEF FitsIn
  <2> QED BY <1>5, <1>9, <2>1, <2>2
<1>12. ASSUME NEW i \in DOMAIN z.out
       PROVE  /\ z.out[i].kind = "message_start" <=> i = 1 /\ z.out[i].kind # "message_stop"
              /\ z.out[i].kind = "message_delta" =>
                   \A j \in 1..(i - 1) : z.out[j].kind # "message_delta"
              /\ z.out[i].kind = "message_stop" => i = Len(z.out)
  <2>1. CASE i \in 1..n
    <3>1. \A j \in 1..(i - 1) : j \in 1..n
      BY <1>5, <2>1
    <3> QED BY <1>4, <1>5, <1>9, <2>1, <3>1 DEF Good, Framed
  <2>2. CASE i = n + 1
    BY <1>6, <1>9, <2>2
  <2> QED BY <1>5, <1>9, <2>1, <2>2
<1>13. Grew(e.out, z.out, Plain)
  <2>1. f \in Plain
    BY <1>6 DEF Plain, Content, IsResult
  <2>2. Grew(e.out, d.out, Plain)
    BY <1>2, <1>3, <1>4, <1>5, GrewTwice
  <2> QED BY <1>3, <1>5, <1>6, <1>7, <2>1, <2>2, GrewAppend
<1>14. ASSUME e.stopReason # NoReason, e.messageDeltaEmitted => ~e.blockOpen /\ TellsEnd(e)
       PROVE  z.out[Len(z.out) - 1] = Frame("message_delta", 0, e.stopReason, UsagePayload(e.usage))
  <2>1. d.out # <<>> /\ d.out[n] = Frame("message_delta", 0, e.stopReason, UsagePayload(e.usage))
    BY <1>4, <1>14 DEF n
  <2>2. n \in 1..n /\ Len(z.out) - 1 = n
    BY <1>5, <1>9, <2>1
  <2> QED BY <1>9, <2>1, <2>2
<1> QED BY <1>1, <1>6, <1>7, <1>9, <1>10, <1>11, <1>12, <1>13, <1>14

(* --------------------------- one event encoded ------------------------- *)

BlockTypes == {NoType, "text", "thinking"}

\* The frame that carries an event is text only for text, arguments only for
\* arguments.
CarriesEvent(s, t, ev) ==
  \E name \in BlockNames :
    /\ Carried(s, t, ev.val, name)
    /\ name = "text" => ev.type = "text_delta"
    /\ name = "input_json" => ev.type = "tool_call_delta"

\* An event with a payload ends in the frame that carries it; the end of a
\* message is told in plain frames.
LEMMA EncodeGood ==
  ASSUME NEW e, Good(e), NEW ev \in DecodedEvent
  PROVE  LET d == Encode(e, ev)
         IN  /\ Good(d) /\ d.messageStarted
             /\ e.blockType \in BlockTypes => d.blockType \in BlockTypes
             /\ Payload(ev) => CarriesEvent(e.out, d.out, ev)
             /\ ~Payload(ev) => Grew(e.out, d.out, Plain)
<1> DEFINE d == Encode(e, ev)
<1>1. CASE ev.type = "text_delta"
  <2>1. ev.val \in Pieces /\ d = EncodeText(e, ev.val)
    BY <1>1, DecodedIsEvent DEF Encode
  <2> HIDE DEF d
  <2>2. /\ Good(d) /\ d.messageStarted /\ d.blockType = "text"
        /\ Carried(e.out, d.out, ev.val, "text")
    BY <2>1, EncodeTextGood
  <2> QED BY <1>1, <2>2, BlockNamesFacts DEF CarriesEvent, Payload, BlockTypes, d
<1>2. CASE ev.type \in {"thinking_delta", "thinking_signature"}
  <2>1. ev.val \in Pieces /\ d \in {EncodeThinking(e, ev.val), EncodeSignature(e, ev.val)}
    BY <1>2, DecodedIsEvent DEF Encode
  <2> HIDE DEF d
  <2>2. /\ Good(d) /\ d.messageStarted /\ d.blockType = "thinking"
        /\ \E name \in {"thinking", "signature"} : Carried(e.out, d.out, ev.val, name)
    BY <2>1, EncodeThinkingGood
  <2> QED BY <1>2, <2>2, BlockNamesFacts DEF CarriesEvent, Payload, BlockTypes, d
<1>3. CASE ev.type = "tool_call_start"
  <2>1. ev.val \in ToolIDs /\ ev.index \in ToolIndices
        /\ d = EncodeToolCallStart(e, ev.index, ev.val)
    BY <1>3, DecodedIsEvent DEF Encode
  <2> HIDE DEF d
  <2>2. /\ Good(d) /\ d.messageStarted /\ d.blockType = NoType
        /\ Carried(e.out, d.out, ev.val, "tool_use")
    BY <2>1, EncodeToolCallStartGood
  <2> QED BY <1>3, <2>2, BlockNamesFacts DEF CarriesEvent, Payload, BlockTypes, d
<1>4. CASE ev.type = "tool_call_delta"
  <2>1. ev.val \in Pieces /\ ev.index \in ToolIndices
        /\ d = EncodeToolCallDelta(e, ev.index, ev.val)
    BY <1>4, DecodedIsEvent DEF Encode
  <2> HIDE DEF d
  <2>2. /\ Good(d) /\ d.messageStarted /\ SameBlocks(e, d)
        /\ Carried(e.out, d.out, ev.val, "input_json")
    BY <2>1, EncodeToolCallDeltaGood
  <2> QED BY <1>4, <2>2, BlockNamesFacts DEF CarriesEvent, Payload, SameBlocks, d
<1>5. CASE ev.type = "message_stop"
  <2>1. ev.val \in Reasons /\ d = EncodeMessageStop(e, ev.val)
    BY <1>5, DecodedIsEvent DEF Encode
  <2> HIDE DEF d
  <2> QED BY <1>5, <2>1, EncodeMessageStopGood DEF Payload, BlockTypes, d
<1>6. CASE ev.type = "usage_final"
  <2>1. ev.val \in Usages /\ d = EncodeUsageFinal(e, ev.val)
    BY <1>6, DecodedIsEvent DEF Encode
  <2> HIDE DEF d
  <2> QED BY <1>6, <2>1, EncodeUsageFinalGood DEF Payload, SameBlocks, d
<1>7. ev.type \in EventTypes
  BY DecodedIsEvent
<1> HIDE DEF d
<1> QED BY <1>1, <1>2, <1>3, <1>4, <1>5, <1>6, <1>7 DEF EventTypes, d

\* The encoder after a turn of the loop, and before the event itself.
Injects == hasWebSearch /\ ~injected /\ Head(pending).type = "text_delta"
Before == IF Injects THEN Inject(enc) ELSE enc
Encoded == Encode(Before, Head(pending))

LEMMA BeforeGood ==
  ASSUME Good(enc), results \in Results \cup {NoResults}
  PROVE  /\ Good(Before) /\ Before.toolCallBlocks = enc.toolCallBlocks /\ SameLast(enc, Before)
         /\ enc.blockType \in BlockTypes => Before.blockType \in BlockTypes
         /\ Injects => Searched(enc.out, Before.out, results)
         /\ ~Injects => Before = enc
<1>1. CASE Injects
  BY <1>1, InjectGood DEF Before, BlockTypes
<1>2. CASE ~Injects
  BY <1>2 DEF Before, SameLast
<1> QED BY <1>1, <1>2

LEMMA TurnOfLoop ==
  ASSUME TypeInv, EncoderInv, EncodeEvent
  PROVE  /\ status = "reading" /\ Good(enc) /\ Good(Before) /\ Good(Encoded)
         /\ Head(pending) \in DecodedEvent
         /\ enc' = Encoded /\ Encoded.messageStarted /\ Encoded.blockType \in BlockTypes
         /\ injected' = (injected \/ Injects)
         /\ pending \in Seq(DecodedEvent) /\ pending # <<>> /\ pending' = Tail(pending)
         /\ received \in Seq(DecodedEvent) /\ received' = Append(received, Head(pending))
         /\ usageResult' = IF Head(pending).type = "usage_final"
                           THEN Head(pending).val ELSE usageResult
         /\ UNCHANGED <<hasWebSearch, status, lines, results, upstream>>
<1>1. pending # <<>> /\ pending \in Seq(DecodedEvent) /\ status = "reading"
  BY DEF EncodeEvent, TypeInv
<1>2. Head(pending) \in DecodedEvent
  BY <1>1
<1>3. Good(enc) /\ enc.blockType \in BlockTypes /\ results \in Results \cup {NoResults}
  BY <1>1 DEF TypeInv, EncoderInv, Good, BlockTypes
<1>4. Good(Before) /\ Before.blockType \in BlockTypes
  BY <1>3, BeforeGood
<1>5. Good(Encoded) /\ Encoded.messageStarted /\ Encoded.blockType \in BlockTypes
  BY <1>2, <1>4, EncodeGood DEF Encoded
<1>6. received \in Seq(DecodedEvent)
  BY DEF TypeInv
<1>7. /\ enc' = Encoded
      /\ injected' = (injected \/ Injects)
      /\ pending' = Tail(pending)
      /\ received' = Append(received, Head(pending))
      /\ usageResult' = IF Head(pending).type = "usage_final"
                        THEN Head(pending).val ELSE usageResult
      /\ UNCHANGED <<hasWebSearch, status, lines, results, upstream>>
  BY DEF EncodeEvent, Encoded, Before, Injects
<1> QED BY <1>1, <1>2, <1>3, <1>4, <1>5, <1>6, <1>7

(* --------------- types, blocks and the frame of a message -------------- *)

CoreInv == TypeInv /\ EncoderInv /\ BlocksWellFormed /\ MessageFraming

\* While no frame ends the message, the encoder's state says it all.
LEMMA EncoderTells ==
  ASSUME Tracks(enc), Framed(enc)
  PROVE  BlocksWellFormed /\ MessageFraming
<1>1. BlocksWellFormed
  BY DEF Tracks, BlocksWellFormed, out
<1>2. MessageFraming
  BY DEF Framed, MessageFraming, out
<1> QED BY <1>1, <1>2

LEMMA InitCore == Init => CoreInv
<1> SUFFICES ASSUME Init PROVE CoreInv
  OBVIOUS
<1>1. enc = NewEncoder /\ enc \in Encoder /\ enc.out = <<>>
  BY NewEncoderType DEF Init
<1>2. /\ enc.blockIdx = 0 /\ ~enc.blockOpen /\ enc.blockType = NoType /\ ~enc.messageStarted
      /\ enc.stopReason = NoReason /\ enc.usage = NoUsage /\ ~enc.messageDeltaEmitted
  BY <1>1 DEF NewEncoder
<1>3. Mapped(enc)
  <2>1. DOMAIN enc.toolCallBlocks = {}
    BY <1>1 DEF NewEncoder
  <2> QED BY <1>2, <2>1 DEF Mapped
<1>4. DOMAIN enc.out = {}
  BY <1>1
<1>5. Tracks(enc)
  BY <1>2, <1>4 DEF Tracks, NextBlock
<1>6. Framed(enc) /\ NothingToEnd(enc)
  BY <1>1, <1>2, <1>4 DEF Framed, NothingToEnd
<1>7. TypeInv
  <2>1. /\ hasWebSearch \in BOOLEAN /\ status = "reading" /\ lines = 0 /\ pending = <<>>
        /\ injected = FALSE /\ results = NoResults /\ usageResult = NoUsage /\ received = <<>>
        /\ upstream \in [conforming : BOOLEAN, phase : {"content"}, tools : {0}]
    BY DEF Init
  <2>2. upstream \in [conforming : BOOLEAN, phase : {"content", "finished", "reported"},
                      tools : Nat]
    BY <2>1
  <2>3. lines \in 0..MaxLines[upstream.conforming]
    BY <2>1, <2>2, PassthroughAssumption
  <2>4. <<>> \in Seq(DecodedEvent)
    OBVIOUS
  <2> QED BY <1>1, <1>2, <1>3, <2>1, <2>2, <2>3, <2>4 DEF TypeInv
<1> QED BY <1>5, <1>6, <1>7, EncoderTells DEF CoreInv, EncoderInv

\* What the upstream's state can be after a chunk.
LEMMA SentType ==
  ASSUME TypeInv, NEW c
  PROVE  /\ Sent(c) \in [conforming : BOOLEAN, phase : {"content", "finished", "reported"},
                         tools : Nat]
         /\ Sent(c).conforming = upstream.conforming
<1> DEFINE phase == IF c.usage # NoUsage THEN "reported"
                    ELSE IF c.finish # Empty THEN "finished" ELSE upstream.phase
           tools == IF \E i \in DOMAIN c.tools : c.tools[i].id # Empty
                    THEN upstream.tools + 1 ELSE upstream.tools
<1>1. upstream \in [conforming : BOOLEAN, phase : {"content", "finished", "reported"},
                    tools : Nat]
  BY DEF TypeInv
<1>2. Sent(c) = [upstream EXCEPT !.phase = phase, !.tools = tools]
  BY <1>1 DEF Sent
<1>3. phase \in {"content", "finished", "reported"} /\ tools \in Nat
  BY <1>1
<1> HIDE DEF phase, tools
<1> QED BY <1>1, <1>2, <1>3

LEMMA ChunksType ==
  ASSUME TypeInv, NEW c \in Chunks[upstream.conforming]
  PROVE  c \in Chunk
BY PassthroughAssumption DEF TypeInv

\* A line that is read: the encoder is left alone.
LEMMA ReadingCore ==
  ASSUME CoreInv, Reading, lines' = lines + 1,
         upstream' \in [conforming : BOOLEAN, phase : {"content", "finished", "reported"},
                        tools : Nat],
         upstream'.conforming = upstream.conforming,
         pending' \in Seq(DecodedEvent), results' \in Results \cup {NoResults},
         UNCHANGED <<hasWebSearch, status, enc, injected, usageResult, received>>
  PROVE  CoreInv'
<1>1. lines' \in 0..MaxLines'[upstream'.conforming]
  <2>1. MaxLines[upstream.conforming] \in Nat /\ lines \in Nat
    BY PassthroughAssumption DEF CoreInv, TypeInv
  <2> QED BY <2>1 DEF Reading
<1>2. TypeInv'
  BY <1>1 DEF CoreInv, TypeInv, Reading, Mapped
<1>3. EncoderInv'
  BY DEF CoreInv, EncoderInv
<1>4. BlocksWellFormed' /\ MessageFraming'
  BY DEF CoreInv, BlocksWellFormed, MessageFraming, out
<1> QED BY <1>2, <1>3, <1>4 DEF CoreInv

LEMMA StepCore == CoreInv /\ [Next]_vars => CoreInv'
<1> SUFFICES ASSUME CoreInv, [Next]_vars PROVE CoreInv'
  OBVIOUS
<1> USE DEF CoreInv
<1>1. ASSUME NEW c \in Chunks[upstream.conforming], ReadChunk(c)
      PROVE  CoreInv'
  <2>1. DecodeOpenAIStreamLine(c) \in Seq(DecodedEvent)
    BY ChunksType, DecodeType
  <2>2. results' \in Results \cup {NoResults}
    BY <1>1 DEF ReadChunk, TypeInv
  <2> QED BY <1>1, <2>1, <2>2, SentType, ReadingCore DEF ReadChunk
<1>2. ASSUME NEW found \in Results, ReadSources(found)
      PROVE  CoreInv'
  <2>1. pending' \in Seq(DecodedEvent) /\ results' \in Results \cup {NoResults}
    BY <1>2 DEF ReadSources, TypeInv
  <2>2. upstream' = upstream
    BY <1>2 DEF ReadSources
  <2> QED BY <1>2, <2>1, <2>2, ReadingCore DEF ReadSources, TypeInv
<1>3. CASE SkipLine
  <2>1. pending' \in Seq(DecodedEvent) /\ results' \in Results \cup {NoResults}
    BY <1>3 DEF SkipLine, TypeInv
  <2> QED BY <1>3, <2>1, ReadingCore DEF SkipLine, TypeInv
<1>4. CASE EncodeEvent
  <2>1. /\ Good(Encoded) /\ Encoded.messageStarted /\ Encoded.blockType \in BlockTypes
        /\ enc' = Encoded /\ status' = "reading"
    BY <1>4, TurnOfLoop
  <2>2. TypeInv'
    <3>1. pending' \in Seq(DecodedEvent) /\ received' \in Seq(DecodedEvent)
      <4>1. /\ pending \in Seq(DecodedEvent) /\ pending # <<>> /\ pending' = Tail(pending)
            /\ received \in Seq(DecodedEvent) /\ Head(pending) \in DecodedEvent
            /\ received' = Append(received, Head(pending))
        BY <1>4, TurnOfLoop
      <4> QED BY <4>1
    <3>2. usageResult' \in Usages \cup {NoUsage}
      BY <1>4, TurnOfLoop, DecodedIsEvent DEF TypeInv
    <3>3. injected' \in BOOLEAN
      BY <1>4, TurnOfLoop DEF TypeInv
    <3>4. enc' \in Encoder /\ Mapped(enc') /\ enc'.blockType \in {NoType, "text", "thinking"}
      BY <2>1 DEF Good, BlockTypes
    <3>5. UNCHANGED <<hasWebSearch, status, lines, results, upstream>>
      BY <1>4, TurnOfLoop
    <3> QED BY <2>1, <3>1, <3>2, <3>3, <3>4, <3>5 DEF TypeInv, Mapped
  <2>3. Tracks(enc') /\ Framed(enc')
    BY <2>1 DEF Good
  <2>4. EncoderInv'
    <3>1. NothingToEnd(enc')
      BY <2>1 DEF NothingToEnd
    <3> QED BY <2>3, <3>1 DEF EncoderInv
  <2>5. BlocksWellFormed' /\ MessageFraming'
    <3>1. (Tracks(enc) /\ Framed(enc) => BlocksWellFormed /\ MessageFraming)'
      BY EncoderTells, PTL
    <3> QED BY <2>3, <3>1
  <2> QED BY <2>2, <2>4, <2>5
<1>5. CASE ReadDone
  <2>1. Good(enc) /\ NothingToEnd(enc)
    BY <1>5 DEF ReadDone, Reading, TypeInv, EncoderInv, Good
  <2> DEFINE z == Done(enc)
  <2>2. enc' = z /\ status' = "ended"
        /\ UNCHANGED <<hasWebSearch, pending, injected, results, usageResult, received, upstream>>
    BY <1>5 DEF ReadDone
  <2> HIDE DEF z
  <2>3. /\ z \in Encoder /\ ~z.blockOpen /\ z.blockType = NoType /\ Mapped(z)
        /\ \A i \in DOMAIN z.out : FitsIn(z.out, i)
        /\ \A i \in DOMAIN z.out :
             /\ z.out[i].kind = "message_start" <=> i = 1 /\ z.out[i].kind # "message_stop"
             /\ z.out[i].kind = "message_delta" =>
                  \A j \in 1..(i - 1) : z.out[j].kind # "message_delta"
             /\ z.out[i].kind = "message_stop" => i = Len(z.out)
    BY <2>1, DoneGood DEF z
  <2>4. lines' \in 0..MaxLines[upstream.conforming]
    <3>1. MaxLines[upstream.conforming] \in Nat /\ lines \in Nat
      BY PassthroughAssumption DEF TypeInv
    <3> QED BY <1>5, <3>1 DEF ReadDone, Reading
  <2>5. TypeInv'
    BY <1>5, <2>2, <2>3, <2>4 DEF TypeInv, ReadDone, Reading, Mapped
  <2>6. EncoderInv'
    BY <2>2 DEF EncoderInv
  <2>7. BlocksWellFormed' /\ MessageFraming'
    BY <2>2, <2>3 DEF BlocksWellFormed, MessageFraming, out
  <2> QED BY <2>5, <2>6, <2>7
<1>6. CASE StreamBreaks
  <2>1. TypeInv'
    BY <1>6 DEF StreamBreaks, TypeInv, Mapped
  <2>2. EncoderInv'
    BY <1>6 DEF StreamBreaks, EncoderInv
  <2>3. BlocksWellFormed' /\ MessageFraming'
    BY <1>6 DEF StreamBreaks, BlocksWellFormed, MessageFraming, out
  <2> QED BY <2>1, <2>2, <2>3
<1>7. CASE Returned \/ UNCHANGED vars
  <2>1. UNCHANGED vars
    BY <1>7 DEF Returned
  <2>2. TypeInv' /\ EncoderInv'
    BY <2>1 DEF vars, TypeInv, EncoderInv
  <2>3. BlocksWellFormed' /\ MessageFraming'
    BY <2>1 DEF vars, BlocksWellFormed, MessageFraming, out
  <2> QED BY <2>2, <2>3
<1> QED BY <1>1, <1>2, <1>3, <1>4, <1>5, <1>6, <1>7 DEF Next

LEMMA CoreInvariant == Spec => []CoreInv
  BY InitCore, StepCore, PTL DEF Spec

\* Every variable of the stream keeps its type; the encoder has a block type
\* only while a block is open, and no tool call is mapped to a block that was
\* never started.
THEOREM TypesHold == Spec => []TypeOK
<1>1. TypeInv => TypeOK
  <2> SUFFICES ASSUME TypeInv PROVE TypeOK
    OBVIOUS
  <2>1. pending \in Seq(StreamEvent) /\ received \in Seq(StreamEvent)
    <3>1. DecodedEvent \subseteq StreamEvent
      BY DecodedIsEvent
    <3>2. pending \in Seq(DecodedEvent) /\ received \in Seq(DecodedEvent)
      BY DEF TypeInv
    <3> QED BY <3>1, <3>2
  <2>2. /\ enc.messageStarted \in BOOLEAN /\ enc.messageDeltaEmitted \in BOOLEAN
        /\ enc.blockIdx \in Nat /\ enc.blockOpen \in BOOLEAN
        /\ enc.stopReason \in Reasons \cup {NoReason} /\ enc.usage \in Usages \cup {NoUsage}
        /\ enc.toolCallBlocks \in ToolBlocks
    BY DEF TypeInv, Encoder
  <2>3. DOMAIN enc.toolCallBlocks \subseteq ToolIndices
    BY <2>2 DEF ToolBlocks
  <2> QED BY <2>1, <2>2, <2>3 DEF TypeInv, TypeOK, Mapped
<1> QED BY <1>1, CoreInvariant, PTL DEF CoreInv

\* Whatever lines the upstream sends, in whatever order, the blocks the client
\* reads are numbered without a gap, one is stopped before the next starts, and
\* text, reasoning and signatures stand in an open block of their type.
THEOREM BlocksAreWellFormed == Spec => []BlocksWellFormed
<1>1. CoreInv => BlocksWellFormed
  BY DEF CoreInv
<1> QED BY <1>1, CoreInvariant, PTL

\* Whatever the upstream sends, message_start is the first frame, there is at
\* most one message_delta, and nothing follows message_stop.
THEOREM MessageIsFramed == Spec => []MessageFraming
<1>1. CoreInv => MessageFraming
  BY DEF CoreInv
<1> QED BY <1>1, CoreInvariant, PTL

(* --------------------------- the web search ---------------------------- *)

\* What the frames say of a search that was asked for, or not; put in, or not;
\* with these results.
SearchSays(frames, asked, done, found) ==
  /\ done => asked /\ \E i \in DOMAIN frames : IsResult(frames[i])
  /\ ~done => \A i \in DOMAIN frames :
                ~IsResult(frames[i]) /\ (asked => ~IsText(frames[i]))
  /\ \A i, j \in DOMAIN frames : IsResult(frames[i]) /\ IsResult(frames[j]) => i = j
  /\ \A i \in DOMAIN frames : IsResult(frames[i]) => frames[i].val = found
  /\ \A k \in DOMAIN frames : asked /\ IsText(frames[k]) =>
       \E i \in DOMAIN frames : IsResult(frames[i]) /\ i < k

SearchInv == SearchSays(out, hasWebSearch, injected, results)

LEMMA SearchGrew ==
  ASSUME NEW s \in Seq(FrameSet), NEW t, Grew(s, t, Plain),
         NEW asked, NEW done, NEW found, SearchSays(s, asked, done, found)
  PROVE  SearchSays(t, asked, done, found)
<1> DEFINE m == Len(s)
           n == Len(t)
<1>1. m \in Nat /\ n \in Nat /\ m <= n /\ DOMAIN s = 1..m /\ DOMAIN t = 1..n
  BY DEF Grew
<1>2. (\A i \in 1..m : t[i] = s[i]) /\ (\A i \in (m + 1)..n : t[i] \in Plain)
  BY DEF Grew
<1> HIDE DEF m, n
<1>3. \A i \in 1..n : i \notin 1..m => ~IsResult(t[i]) /\ ~IsText(t[i])
  <2>1. \A i \in 1..n : i \notin 1..m => i \in (m + 1)..n
    BY <1>1
  <2> QED BY <1>2, <2>1 DEF Plain, Content, IsText
<1>4. \A i \in 1..m : i \in 1..n
  BY <1>1
<1> QED BY <1>1, <1>2, <1>3, <1>4 DEF SearchSays

\* Text may come once the blocks are in, or if nobody asked for them.
LEMMA SearchAppend ==
  ASSUME NEW s \in Seq(FrameSet), NEW f \in FrameSet, ~IsResult(f),
         NEW asked, NEW done \in BOOLEAN, NEW found, SearchSays(s, asked, done, found),
         asked /\ IsText(f) => done
  PROVE  SearchSays(Append(s, f), asked, done, found)
<1> DEFINE n == Len(s)
           t == Append(s, f)
<1>1. n \in Nat /\ DOMAIN s = 1..n /\ DOMAIN t = 1..(n + 1) /\ t[n + 1] = f
      /\ \A i \in 1..n : t[i] = s[i]
  BY AppendFacts
<1> HIDE DEF n, t
<1>2. \A i \in 1..(n + 1) : i = n + 1 \/ (i \in 1..n /\ i < n + 1)
  BY <1>1
<1>3. \A i \in 1..n : i \in 1..(n + 1) /\ i < n + 1
  BY <1>1
<1>4. SearchSays(t, asked, done, found)
  BY <1>1, <1>2, <1>3 DEF SearchSays
<1> QED BY <1>4 DEF t

LEMMA SearchPutIn ==
  ASSUME NEW s \in Seq(FrameSet), NEW f \in FrameSet, IsResult(f), ~Content(f),
         NEW asked, asked, SearchSays(s, asked, FALSE, f.val)
  PROVE  SearchSays(Append(s, f), asked, TRUE, f.val)
<1> DEFINE n == Len(s)
           t == Append(s, f)
<1>1. n \in Nat /\ DOMAIN s = 1..n /\ DOMAIN t = 1..(n + 1) /\ t[n + 1] = f
      /\ \A i \in 1..n : t[i] = s[i]
  BY AppendFacts
<1> HIDE DEF n, t
<1>2. \A i \in 1..(n + 1) : i = n + 1 \/ i \in 1..n
  BY <1>1
<1>3. n + 1 \in 1..(n + 1) /\ ~IsText(f)
  BY <1>1 DEF IsText, Content
<1>4. SearchSays(t, asked, TRUE, f.val)
  BY <1>1, <1>2, <1>3 DEF SearchSays
<1> QED BY <1>4 DEF t

LEMMA SearchCarried ==
  ASSUME NEW s \in Seq(FrameSet), NEW t, NEW ev, CarriesEvent(s, t, ev),
         NEW asked, NEW done \in BOOLEAN, NEW found, SearchSays(s, asked, done, found),
         asked /\ ev.type = "text_delta" => done
  PROVE  SearchSays(t, asked, done, found)
<1>1. PICK m \in Seq(FrameSet), f \in FrameSet :
        /\ Grew(s, m, Plain) /\ t = Append(m, f)
        /\ Content(f) /\ (f.block = "text" => ev.type = "text_delta")
  BY DEF Carried, CarriesEvent
<1>2. SearchSays(m, asked, done, found)
  BY <1>1, SearchGrew
<1>3. ~IsResult(f) /\ (asked /\ IsText(f) => done)
  BY <1>1 DEF Content, IsResult, IsText
<1>4. SearchSays(Append(m, f), asked, done, found)
  BY <1>2, <1>3, SearchAppend
<1> QED BY <1>1, <1>4

LEMMA SearchSearched ==
  ASSUME NEW s \in Seq(FrameSet), NEW t, NEW v, Searched(s, t, v),
         NEW asked, asked, SearchSays(s, asked, FALSE, v)
  PROVE  SearchSays(t, asked, TRUE, v)
<1>1. PICK m \in Seq(FrameSet), f \in FrameSet :
        /\ Grew(s, m, Plain) /\ Grew(Append(m, f), t, Plain)
        /\ IsResult(f) /\ ~Content(f) /\ f.val = v
  BY DEF Searched
<1>2. SearchSays(m, asked, FALSE, v)
  BY <1>1, SearchGrew
<1>3. SearchSays(Append(m, f), asked, TRUE, v)
  BY <1>1, <1>2, SearchPutIn
<1>4. Append(m, f) \in Seq(FrameSet)
  BY AppendFacts
<1> QED BY <1>1, <1>3, <1>4, SearchGrew

\* A turn of the loop, on what the search needs.
LEMMA SearchTurn ==
  ASSUME TypeInv, EncoderInv, EncodeEvent, SearchInv
  PROVE  SearchSays(Encoded.out, hasWebSearch, injected', results)
<1>1. /\ Good(enc) /\ Good(Before) /\ Good(Encoded) /\ Head(pending) \in DecodedEvent
      /\ injected' = (injected \/ Injects)
  BY TurnOfLoop
<1>2. injected \in BOOLEAN /\ results \in Results \cup {NoResults}
  BY DEF TypeInv
<1>3. enc.out \in Seq(FrameSet) /\ Before.out \in Seq(FrameSet)
  BY <1>1 DEF Good, Encoder
<1> DEFINE ev == Head(pending)
<1>4. /\ Payload(ev) => CarriesEvent(Before.out, Encoded.out, ev)
      /\ ~Payload(ev) => Grew(Before.out, Encoded.out, Plain)
  BY <1>1, EncodeGood DEF Encoded
<1>5. SearchSays(enc.out, hasWebSearch, injected, results)
  BY DEF SearchInv, out
<1>6. CASE Injects
  <2>1. hasWebSearch /\ injected = FALSE /\ injected' = TRUE /\ ev.type = "text_delta"
    BY <1>1, <1>2, <1>6 DEF Injects
  <2>2. Searched(enc.out, Before.out, results)
    BY <1>1, <1>2, <1>6, BeforeGood
  <2>3. SearchSays(Before.out, hasWebSearch, TRUE, results)
    BY <1>3, <1>5, <2>1, <2>2, SearchSearched
  <2>4. SearchSays(Encoded.out, hasWebSearch, TRUE, results)
    <3>1. Payload(ev)
      BY <2>1 DEF Payload
    <3>2. CarriesEvent(Before.out, Encoded.out, ev)
      BY <1>4, <3>1
    <3> QED BY <1>3, <2>3, <3>2, SearchCarried
  <2> QED BY <2>1, <2>4
<1>7. CASE ~Injects
  <2>1. injected' = injected /\ Before = enc
    BY <1>1, <1>2, <1>7 DEF Before
  <2>2. hasWebSearch /\ ev.type = "text_delta" => injected
    BY <1>7 DEF Injects
  <2>3. CASE Payload(ev)
    <3>1. CarriesEvent(enc.out, Encoded.out, ev)
      BY <1>4, <2>1, <2>3
    <3>2. SearchSays(Encoded.out, hasWebSearch, injected, results)
      BY <1>2, <1>3, <1>5, <2>2, <3>1, SearchCarried
    <3> QED BY <2>1, <3>2
  <2>4. CASE ~Payload(ev)
    BY <1>3, <1>4, <1>5, <2>1, <2>4, SearchGrew
  <2> QED BY <2>3, <2>4
<1> QED BY <1>6, <1>7

LEMMA InitSearch == Init => SearchInv
<1> SUFFICES ASSUME Init PROVE SearchInv
  OBVIOUS
<1>1. out = <<>> /\ injected = FALSE
  BY NewEncoderType DEF Init, out
<1>2. DOMAIN out = {}
  BY <1>1
<1> QED BY <1>1, <1>2 DEF SearchInv, SearchSays

LEMMA StepSearch == CoreInv /\ SearchInv /\ [Next]_vars => SearchInv'
<1> SUFFICES ASSUME CoreInv, SearchInv, [Next]_vars PROVE SearchInv'
  OBVIOUS
<1> USE DEF CoreInv
<1>1. SearchSays(enc.out, hasWebSearch, injected, results)
  BY DEF SearchInv, out
<1>2. SearchSays(enc'.out, hasWebSearch', injected', results') => SearchInv'
  BY DEF SearchInv, out
<1>3. ASSUME NEW c \in Chunks[upstream.conforming], ReadChunk(c)
      PROVE  SearchInv'
  BY <1>1, <1>2, <1>3 DEF ReadChunk
<1>4. ASSUME NEW found \in Results, ReadSources(found)
      PROVE  SearchInv'
  <2>1. UNCHANGED <<enc, hasWebSearch, injected>>
    BY <1>4 DEF ReadSources
  <2>2. injected \in BOOLEAN
    BY DEF TypeInv
  <2>3. injected => results' = results
    BY <1>4 DEF ReadSources
  <2>4. SearchSays(enc.out, hasWebSearch, injected, results')
    BY <1>1, <2>2, <2>3 DEF SearchSays
  <2> QED BY <1>2, <2>1, <2>4
<1>5. CASE SkipLine
  BY <1>1, <1>2, <1>5 DEF SkipLine
<1>6. CASE EncodeEvent
  <2>1. enc' = Encoded /\ hasWebSearch' = hasWebSearch /\ results' = results
    BY <1>6, TurnOfLoop
  <2> QED BY <1>2, <1>6, <2>1, SearchTurn
<1>7. CASE ReadDone
  <2>1. Good(enc) /\ NothingToEnd(enc)
    BY <1>7 DEF ReadDone, Reading, TypeInv, EncoderInv, Good
  <2>2. enc.out \in Seq(FrameSet) /\ Grew(enc.out, Done(enc).out, Plain)
    BY <2>1, DoneGood DEF Good, Encoder
  <2>3. SearchSays(Done(enc).out, hasWebSearch, injected, results)
    BY <1>1, <2>2, SearchGrew
  <2> QED BY <1>2, <1>7, <2>3 DEF ReadDone
<1>8. CASE StreamBreaks
  BY <1>1, <1>2, <1>8 DEF StreamBreaks
<1>9. CASE Returned \/ UNCHANGED vars
  BY <1>1, <1>2, <1>9 DEF Returned, vars
<1> QED BY <1>3, <1>4, <1>5, <1>6, <1>7, <1>8, <1>9 DEF Next

\* A client that asked for a web search gets its blocks once, before any text,
\* with the last results the upstream had sent by then; another client never
\* gets them.
THEOREM SearchComesBeforeText == Spec => []SearchBeforeText
<1>1. TypeInv /\ SearchInv => SearchBeforeText
  <2> SUFFICES ASSUME TypeInv, SearchInv PROVE SearchBeforeText
    OBVIOUS
  <2>1. SearchSays(out, hasWebSearch, injected, results) /\ injected \in BOOLEAN
    BY DEF SearchInv, TypeInv
  <2> DEFINE found == {i \in DOMAIN out : IsResult(out[i])}
  <2>2. found # {} => hasWebSearch
    BY <2>1 DEF SearchSays
  <2>3. \A i, j \in found : i = j
    BY <2>1 DEF SearchSays
  <2>4. \A i \in found : out[i].val = results
    BY <2>1 DEF SearchSays
  <2>5. \A k \in DOMAIN out : hasWebSearch /\ IsText(out[k]) => \E i \in found : i < k
    BY <2>1 DEF SearchSays
  <2>6. found = {i \in DOMAIN out : out[i].kind = "block_start"
                                      /\ out[i].block = "web_search_tool_result"}
    BY DEF IsResult
  <2> HIDE DEF found
  <2>7. \A k \in DOMAIN out : hasWebSearch /\ out[k].kind = "delta" /\ out[k].block = "text"
          => \E i \in found : i < k
    BY <2>5 DEF IsText
  <2> QED BY <2>2, <2>3, <2>4, <2>6, <2>7 DEF SearchBeforeText
<1>2. Spec => []SearchInv
  BY InitSearch, StepSearch, CoreInvariant, PTL DEF Spec
<1> QED BY <1>1, <1>2, CoreInvariant, PTL DEF CoreInv

(* ------------------------- what the frames carry ----------------------- *)

ContentIn(frames) == {i \in DOMAIN frames : Content(frames[i])}
PayloadIn(events) == {k \in DOMAIN events : Payload(events[k])}

\* The frames with content are the events with a payload, one by one.
Matches(frames, events) ==
  /\ Cardinality(ContentIn(frames)) = Cardinality(PayloadIn(events))
  /\ \A i \in ContentIn(frames), k \in PayloadIn(events) :
       Rank(ContentIn(frames), i) = Rank(PayloadIn(events), k) => frames[i].val = events[k].val

KeepsContent(s, t) ==
  ContentIn(t) = ContentIn(s) /\ \A i \in ContentIn(s) : t[i] = s[i]

LEMMA GrewContent ==
  ASSUME NEW s \in Seq(FrameSet), NEW t, Grew(s, t, Plain)
  PROVE  KeepsContent(s, t)
<1> DEFINE m == Len(s)
           n == Len(t)
<1>1. m \in Nat /\ n \in Nat /\ m <= n /\ DOMAIN s = 1..m /\ DOMAIN t = 1..n
  BY DEF Grew
<1>2. (\A i \in 1..m : t[i] = s[i]) /\ (\A i \in (m + 1)..n : t[i] \in Plain)
  BY DEF Grew
<1> HIDE DEF m, n
<1>3. \A i \in 1..n : i \notin 1..m => ~Content(t[i])
  <2>1. \A i \in 1..n : i \notin 1..m => i \in (m + 1)..n
    BY <1>1
  <2> QED BY <1>2, <2>1 DEF Plain
<1>4. \A i \in 1..m : i \in 1..n
  BY <1>1
<1> QED BY <1>1, <1>2, <1>3, <1>4 DEF KeepsContent, ContentIn

LEMMA AppendContent ==
  ASSUME NEW s \in Seq(FrameSet), NEW f \in FrameSet
  PROVE  /\ ~Content(f) => KeepsContent(s, Append(s, f))
         /\ Content(f) => ContentIn(Append(s, f)) = ContentIn(s) \cup {Len(s) + 1}
         /\ \A i \in ContentIn(s) : Append(s, f)[i] = s[i]
         /\ Append(s, f)[Len(s) + 1] = f
         /\ Len(s) \in Nat /\ ContentIn(s) \subseteq 1..Len(s)
<1> DEFINE n == Len(s)
           t == Append(s, f)
<1>1. n \in Nat /\ DOMAIN s = 1..n /\ DOMAIN t = 1..(n + 1) /\ t[n + 1] = f
      /\ \A i \in 1..n : t[i] = s[i]
  BY AppendFacts
<1> HIDE DEF n, t
<1>2. 1..(n + 1) = (1..n) \cup {n + 1}
  BY <1>1
<1>3. /\ ~Content(f) => KeepsContent(s, t)
      /\ Content(f) => ContentIn(t) = ContentIn(s) \cup {n + 1}
      /\ \A i \in ContentIn(s) : t[i] = s[i]
      /\ ContentIn(s) \subseteq 1..n
  BY <1>1, <1>2 DEF KeepsContent, ContentIn
<1> QED BY <1>1, <1>3 DEF n, t

LEMMA AppendPayload ==
  ASSUME NEW r \in Seq(DecodedEvent), NEW ev \in DecodedEvent
  PROVE  /\ ~Payload(ev) => PayloadIn(Append(r, ev)) = PayloadIn(r)
         /\ Payload(ev) => PayloadIn(Append(r, ev)) = PayloadIn(r) \cup {Len(r) + 1}
         /\ \A k \in PayloadIn(r) : Append(r, ev)[k] = r[k]
         /\ Append(r, ev)[Len(r) + 1] = ev
         /\ Len(r) \in Nat /\ PayloadIn(r) \subseteq 1..Len(r)
<1> DEFINE n == Len(r)
           t == Append(r, ev)
<1>1. n \in Nat /\ DOMAIN r = 1..n /\ DOMAIN t = 1..(n + 1) /\ t[n + 1] = ev
      /\ \A i \in 1..n : t[i] = r[i]
  BY AppendFacts
<1> HIDE DEF n, t
<1>2. 1..(n + 1) = (1..n) \cup {n + 1}
  BY <1>1
<1>3. /\ ~Payload(ev) => PayloadIn(t) = PayloadIn(r)
      /\ Payload(ev) => PayloadIn(t) = PayloadIn(r) \cup {n + 1}
      /\ \A i \in PayloadIn(r) : t[i] = r[i]
      /\ PayloadIn(r) \subseteq 1..n
  BY <1>1, <1>2 DEF PayloadIn
<1> QED BY <1>1, <1>3 DEF n, t

\* A position behind all others takes the next rank.
LEMMA RankOfLast ==
  ASSUME NEW n \in Nat, NEW P, P \subseteq 1..n
  PROVE  LET Q == P \cup {n + 1}
         IN  /\ Cardinality(P) \in Nat /\ Cardinality(Q) = Cardinality(P) + 1
             /\ Rank(Q, n + 1) = Cardinality(P) + 1
             /\ \A k \in P : Rank(Q, k) = Rank(P, k)
             /\ \A k \in P : Rank(P, k) \in Nat /\ Rank(P, k) <= Cardinality(P)
<1> DEFINE Q == P \cup {n + 1}
<1>1. IsFiniteSet(P)
  <2>1. IsFiniteSet(1..n)
    BY FS_Interval
  <2> QED BY <2>1, FS_Subset
<1>2. n + 1 \notin P
  OBVIOUS
<1>3. Cardinality(P) \in Nat /\ Cardinality(Q) = Cardinality(P) + 1
  BY <1>1, <1>2, FS_AddElement, FS_CardinalityType
<1>4. {m \in Q : m <= n + 1} = Q
  <2>1. \A m \in Q : m <= n + 1
    OBVIOUS
  <2> QED BY <2>1
<1>5. ASSUME NEW k \in P
      PROVE  /\ Rank(Q, k) = Rank(P, k)
             /\ Rank(P, k) \in Nat /\ Rank(P, k) <= Cardinality(P)
  <2> DEFINE B == {m \in P : m <= k}
  <2>1. {m \in Q : m <= k} = B
    <3>1. ~(n + 1 <= k)
      OBVIOUS
    <3> QED BY <3>1
  <2>2. B \subseteq P
    OBVIOUS
  <2>3. IsFiniteSet(B) /\ Cardinality(B) <= Cardinality(P) /\ Cardinality(B) \in Nat
    <3> HIDE DEF B
    <3> QED BY <1>1, <2>2, FS_Subset, FS_CardinalityType
  <2> QED BY <2>1, <2>3 DEF Rank
<1> QED BY <1>3, <1>4, <1>5 DEF Rank

LEMMA MatchesKept ==
  ASSUME NEW s, NEW t, NEW r, KeepsContent(s, t), Matches(s, r)
  PROVE  Matches(t, r)
BY DEF KeepsContent, Matches

LEMMA MatchesPlain ==
  ASSUME NEW s, NEW r \in Seq(DecodedEvent), NEW ev \in DecodedEvent, ~Payload(ev),
         Matches(s, r)
  PROVE  Matches(s, Append(r, ev))
<1> DEFINE q == Append(r, ev)
<1>1. PayloadIn(q) = PayloadIn(r) /\ \A k \in PayloadIn(r) : q[k] = r[k]
  BY AppendPayload
<1> HIDE DEF q
<1>2. Matches(s, q)
  BY <1>1 DEF Matches
<1> QED BY <1>2 DEF q

\* The frame that carries an event is the next, as the event is.
LEMMA MatchesNext ==
  ASSUME NEW s \in Seq(FrameSet), NEW f \in FrameSet, Content(f),
         NEW r \in Seq(DecodedEvent), NEW ev \in DecodedEvent, Payload(ev),
         f.val = ev.val, Matches(s, r)
  PROVE  Matches(Append(s, f), Append(r, ev))
<1> DEFINE t == Append(s, f)
           q == Append(r, ev)
           m == Len(s)
           n == Len(r)
           C == ContentIn(s)
           P == PayloadIn(r)
<1>1. /\ ContentIn(t) = C \cup {m + 1} /\ (\A i \in C : t[i] = s[i]) /\ t[m + 1] = f
      /\ m \in Nat /\ C \subseteq 1..m
  BY AppendContent
<1>2. /\ PayloadIn(q) = P \cup {n + 1} /\ (\A k \in P : q[k] = r[k]) /\ q[n + 1] = ev
      /\ n \in Nat /\ P \subseteq 1..n
  BY AppendPayload
<1>3. /\ Cardinality(C) = Cardinality(P)
      /\ \A i \in C, k \in P : Rank(C, i) = Rank(P, k) => s[i].val = r[k].val
  BY DEF Matches
<1> HIDE DEF t, q, m, n, C, P
<1> DEFINE C2 == C \cup {m + 1}
           P2 == P \cup {n + 1}
<1>4. /\ Cardinality(C) \in Nat /\ Cardinality(C2) = Cardinality(C) + 1
      /\ Rank(C2, m + 1) = Cardinality(C) + 1
      /\ \A k \in C : Rank(C2, k) = Rank(C, k)
      /\ \A k \in C : Rank(C, k) \in Nat /\ Rank(C, k) <= Cardinality(C)
  BY <1>1, RankOfLast
<1>5. /\ Cardinality(P) \in Nat /\ Cardinality(P2) = Cardinality(P) + 1
      /\ Rank(P2, n + 1) = Cardinality(P) + 1
      /\ \A k \in P : Rank(P2, k) = Rank(P, k)
      /\ \A k \in P : Rank(P, k) \in Nat /\ Rank(P, k) <= Cardinality(P)
  BY <1>2, RankOfLast
<1>6. /\ ContentIn(t) = C2 /\ PayloadIn(q) = P2
      /\ \A i \in C2 : i = m + 1 \/ i \in C
      /\ \A k \in P2 : k = n + 1 \/ k \in P
  BY <1>1, <1>2
<1> HIDE DEF C2, P2
<1>7. ASSUME NEW i \in C2, NEW k \in P2, Rank(C2, i) = Rank(P2, k)
      PROVE  t[i].val = q[k].val
  <2>1. CASE i = m + 1 /\ k = n + 1
    BY <1>1, <1>2, <2>1
  <2>2. CASE i = m + 1 /\ k \in P
    BY <1>3, <1>4, <1>5, <1>7, <2>2
  <2>3. CASE i \in C /\ k = n + 1
    BY <1>3, <1>4, <1>5, <1>7, <2>3
  <2>4. CASE i \in C /\ k \in P
    <3>1. Rank(C, i) = Rank(P, k)
      BY <1>4, <1>5, <1>7, <2>4
    <3>2. t[i] = s[i] /\ q[k] = r[k]
      BY <1>1, <1>2, <2>4
    <3> QED BY <1>3, <2>4, <3>1, <3>2
  <2> QED BY <1>6, <2>1, <2>2, <2>3, <2>4
<1>8. Cardinality(C2) = Cardinality(P2)
  BY <1>3, <1>4, <1>5
<1>9. Matches(t, q)
  BY <1>6, <1>7, <1>8 DEF Matches
<1> QED BY <1>9 DEF t, q

LEMMA MatchesCarried ==
  ASSUME NEW s \in Seq(FrameSet), NEW t, NEW r \in Seq(DecodedEvent),
         NEW ev \in DecodedEvent, Payload(ev), CarriesEvent(s, t, ev), Matches(s, r)
  PROVE  Matches(t, Append(r, ev))
<1>1. PICK m \in Seq(FrameSet), f \in FrameSet :
        /\ Grew(s, m, Plain) /\ t = Append(m, f) /\ Content(f) /\ f.val = ev.val
  BY DEF Carried, CarriesEvent
<1>2. Matches(m, r)
  BY <1>1, GrewContent, MatchesKept
<1> QED BY <1>1, <1>2, MatchesNext

LEMMA MatchesSearched ==
  ASSUME NEW s \in Seq(FrameSet), NEW t, NEW v, NEW r, Searched(s, t, v), Matches(s, r)
  PROVE  Matches(t, r)
<1>1. PICK m \in Seq(FrameSet), f \in FrameSet :
        /\ Grew(s, m, Plain) /\ Grew(Append(m, f), t, Plain) /\ ~Content(f)
  BY DEF Searched
<1>2. Matches(m, r)
  BY <1>1, GrewContent, MatchesKept
<1>3. Matches(Append(m, f), r)
  BY <1>1, <1>2, AppendContent, MatchesKept
<1>4. Append(m, f) \in Seq(FrameSet)
  BY AppendFacts
<1> QED BY <1>1, <1>3, <1>4, GrewContent, MatchesKept

MatchesInv == Matches(out, received)

LEMMA InitMatches == Init => MatchesInv
<1> SUFFICES ASSUME Init PROVE MatchesInv
  OBVIOUS
<1>1. DOMAIN out = {} /\ DOMAIN received = {}
  BY NewEncoderType DEF Init, out
<1>2. ContentIn(out) = {} /\ PayloadIn(received) = {}
  BY <1>1 DEF ContentIn, PayloadIn
<1> QED BY <1>2 DEF MatchesInv, Matches

LEMMA StepMatches == CoreInv /\ MatchesInv /\ [Next]_vars => MatchesInv'
<1> SUFFICES ASSUME CoreInv, MatchesInv, [Next]_vars PROVE MatchesInv'
  OBVIOUS
<1> USE DEF CoreInv
<1>1. Matches(enc.out, received)
  BY DEF MatchesInv, out
<1>2. Matches(enc'.out, received') => MatchesInv'
  BY DEF MatchesInv, out
<1>3. ASSUME UNCHANGED <<enc, received>>
      PROVE  MatchesInv'
  BY <1>1, <1>2, <1>3
<1>4. ASSUME NEW c \in Chunks[upstream.conforming], ReadChunk(c)
      PROVE  MatchesInv'
  BY <1>3, <1>4 DEF ReadChunk
<1>5. ASSUME NEW found \in Results, ReadSources(found)
      PROVE  MatchesInv'
  BY <1>3, <1>5 DEF ReadSources
<1>6. CASE EncodeEvent
  <2> DEFINE ev == Head(pending)
  <2>1. /\ Good(enc) /\ Good(Before) /\ ev \in DecodedEvent /\ enc' = Encoded
        /\ received \in Seq(DecodedEvent) /\ received' = Append(received, ev)
    BY <1>6, TurnOfLoop
  <2>2. enc.out \in Seq(FrameSet) /\ Before.out \in Seq(FrameSet)
    BY <2>1 DEF Good, Encoder
  <2>3. Matches(Before.out, received)
    <3>1. /\ Injects => Searched(enc.out, Before.out, results)
          /\ ~Injects => Before = enc
      BY <2>1, BeforeGood DEF TypeInv
    <3> QED BY <1>1, <2>2, <3>1, MatchesSearched
  <2>4. /\ Payload(ev) => CarriesEvent(Before.out, Encoded.out, ev)
        /\ ~Payload(ev) => Grew(Before.out, Encoded.out, Plain)
    BY <2>1, EncodeGood DEF Encoded
  <2> HIDE DEF ev
  <2>5. CASE Payload(ev)
    BY <1>2, <2>1, <2>2, <2>3, <2>4, <2>5, MatchesCarried
  <2>6. CASE ~Payload(ev)
    <3>1. Matches(Encoded.out, received)
      BY <2>2, <2>3, <2>4, <2>6, GrewContent, MatchesKept
    <3> QED BY <1>2, <2>1, <2>6, <3>1, MatchesPlain
  <2> QED BY <2>5, <2>6
<1>7. CASE ReadDone
  <2>1. Good(enc) /\ NothingToEnd(enc)
    BY <1>7 DEF ReadDone, Reading, TypeInv, EncoderInv, Good
  <2>2. enc.out \in Seq(FrameSet) /\ Grew(enc.out, Done(enc).out, Plain)
    BY <2>1, DoneGood DEF Good, Encoder
  <2>3. Matches(Done(enc).out, received)
    BY <1>1, <2>2, GrewContent, MatchesKept
  <2> QED BY <1>2, <1>7, <2>3 DEF ReadDone
<1>8. CASE SkipLine \/ StreamBreaks \/ Returned \/ UNCHANGED vars
  BY <1>3, <1>8 DEF SkipLine, StreamBreaks, Returned, vars
<1> QED BY <1>4, <1>5, <1>6, <1>7, <1>8 DEF Next

\* The pieces a client gets are those the upstream sent, in their order: none is
\* lost, repeated or swapped where blocks change, where the web search is put
\* in, or at the end.
THEOREM NothingIsLost == Spec => []NothingLost
<1>1. MatchesInv => NothingLost
  BY DEF MatchesInv, Matches, NothingLost, ContentIn, PayloadIn
<1>2. Spec => []MatchesInv
  BY InitMatches, StepMatches, CoreInvariant, PTL DEF Spec
<1> QED BY <1>1, <1>2, PTL

(* ------------------- arguments land in an open call -------------------- *)

AllLand(frames) == \A i \in DOMAIN frames : Lands(frames, i)

LEMMA LandsPrefix ==
  ASSUME NEW s \in Seq(FrameSet), NEW t \in Seq(FrameSet), Len(s) <= Len(t),
         \A i \in 1..Len(s) : t[i] = s[i], NEW i \in 1..Len(s)
  PROVE  Lands(t, i) <=> Lands(s, i)
<1>1. Len(s) \in Nat /\ i \in Nat
  OBVIOUS
<1>2. \A j \in 1..(i - 1) : j \in 1..Len(s) /\ t[j] = s[j]
  BY <1>1
<1>3. t[i] = s[i]
  OBVIOUS
<1>4. ASSUME NEW j \in 1..(i - 1), NEW k
      PROVE  OpensFor(t, j, i, k) <=> OpensFor(s, j, i, k)
  <2>1. \A m \in (j + 1)..(i - 1) : t[m] = s[m]
    BY <1>1, <1>2
  <2> QED BY <1>2, <2>1 DEF OpensFor
<1> QED BY <1>2, <1>3, <1>4 DEF Lands

LEMMA LandsGrew ==
  ASSUME NEW s \in Seq(FrameSet), NEW t, Grew(s, t, Plain), AllLand(s)
  PROVE  AllLand(t)
<1> DEFINE m == Len(s)
           n == Len(t)
<1>1. t \in Seq(FrameSet) /\ m \in Nat /\ n \in Nat /\ m <= n
      /\ DOMAIN s = 1..m /\ DOMAIN t = 1..n
  BY DEF Grew
<1>2. (\A i \in 1..m : t[i] = s[i]) /\ (\A i \in (m + 1)..n : t[i] \in Plain)
  BY DEF Grew
<1>3. \A i \in 1..m : Lands(t, i) <=> Lands(s, i)
  BY <1>1, <1>2, LandsPrefix
<1> HIDE DEF m, n
<1>4. \A i \in 1..n : i \in 1..m \/ i \in (m + 1)..n
  BY <1>1
<1>5. \A i \in (m + 1)..n : Lands(t, i)
  BY <1>2 DEF Lands, Plain, Content
<1> QED BY <1>1, <1>3, <1>4, <1>5 DEF AllLand

LEMMA LandsAppend ==
  ASSUME NEW s \in Seq(FrameSet), NEW f \in FrameSet, AllLand(s),
         Lands(Append(s, f), Len(Append(s, f)))
  PROVE  AllLand(Append(s, f))
<1> DEFINE n == Len(s)
           t == Append(s, f)
<1>1. t \in Seq(FrameSet) /\ n \in Nat /\ Len(t) = n + 1 /\ n <= Len(t)
      /\ DOMAIN s = 1..n /\ DOMAIN t = 1..(n + 1) /\ \A i \in 1..n : t[i] = s[i]
  BY AppendFacts
<1>2. Lands(t, n + 1)
  BY <1>1
<1> HIDE DEF t
<1>3. \A i \in 1..n : Lands(t, i) <=> Lands(s, i)
  BY <1>1, LandsPrefix
<1> HIDE DEF n
<1>4. \A i \in 1..(n + 1) : i \in 1..n \/ i = n + 1
  BY <1>1
<1>5. AllLand(t)
  BY <1>1, <1>2, <1>3, <1>4 DEF AllLand
<1> QED BY <1>5 DEF t

LEMMA LandsSearched ==
  ASSUME NEW s \in Seq(FrameSet), NEW t, NEW v, Searched(s, t, v), AllLand(s)
  PROVE  AllLand(t)
<1>1. PICK m \in Seq(FrameSet), f \in FrameSet :
        /\ Grew(s, m, Plain) /\ Grew(Append(m, f), t, Plain) /\ IsResult(f)
  BY DEF Searched
<1>2. AllLand(m)
  BY <1>1, LandsGrew
<1> DEFINE u == Append(m, f)
<1>3. u \in Seq(FrameSet) /\ u[Len(u)] = f
  BY AppendFacts
<1>4. Lands(u, Len(u))
  <2> HIDE DEF u
  <2> QED BY <1>1, <1>3 DEF Lands, IsResult
<1>5. AllLand(u)
  BY <1>2, <1>4, LandsAppend
<1> HIDE DEF u
<1> QED BY <1>1, <1>3, <1>5, LandsGrew DEF u

LEMMA LandsCarried ==
  ASSUME NEW s \in Seq(FrameSet), NEW t, NEW ev, CarriesEvent(s, t, ev), AllLand(s),
         ev.type = "tool_call_delta" => Lands(t, Len(t))
  PROVE  AllLand(t)
<1>1. PICK m \in Seq(FrameSet), f \in FrameSet :
        /\ Grew(s, m, Plain) /\ t = Append(m, f)
        /\ f.block = "input_json" => ev.type = "tool_call_delta"
  BY DEF Carried, CarriesEvent
<1>2. AllLand(m)
  BY <1>1, LandsGrew
<1>3. t[Len(t)] = f
  BY <1>1, AppendFacts
<1>4. Lands(t, Len(t))
  BY <1>1, <1>3 DEF Lands
<1> QED BY <1>1, <1>2, <1>4, LandsAppend

(* ---------------------- an upstream that conforms ---------------------- *)

\* The chunk an upstream may send next, and what it leaves the upstream in.
LEMMA ChunkInOrder ==
  ASSUME TypeInv, NEW c \in Chunk, InOrder(c)
  PROVE  /\ Len(c.tools) <= 1
         /\ c.tools \in Seq(Fragment)
         /\ upstream.phase \in {"content", "finished"}
         /\ c.thinking # Empty \/ c.signature # Empty \/ c.text # Empty =>
              upstream.phase = "content" /\ upstream.tools = 0
         /\ \A i \in DOMAIN c.tools :
              /\ upstream.phase = "content"
              /\ c.tools[i].index = Sent(c).tools - 1
         /\ c.finish # Empty => upstream.phase = "content"
         /\ c.usage # NoUsage => c.finish # Empty \/ upstream.phase = "finished"
         /\ upstream.phase = "finished" => c.usage # NoUsage
         /\ Sent(c).phase = IF c.usage # NoUsage THEN "reported"
                            ELSE IF c.finish # Empty THEN "finished" ELSE upstream.phase
         /\ Sent(c).tools = IF \E i \in DOMAIN c.tools : c.tools[i].id # Empty
                            THEN upstream.tools + 1 ELSE upstream.tools
<1>1. upstream \in [conforming : BOOLEAN, phase : {"content", "finished", "reported"},
                    tools : Nat]
  BY DEF TypeInv
<1>2. c.tools \in Seq(Fragment)
  BY ChunkEvents
<1>3. Sent(c).phase = IF c.usage # NoUsage THEN "reported"
                      ELSE IF c.finish # Empty THEN "finished" ELSE upstream.phase
  BY <1>1 DEF Sent
<1>4. Sent(c).tools = IF \E i \in DOMAIN c.tools : c.tools[i].id # Empty
                      THEN upstream.tools + 1 ELSE upstream.tools
  BY <1>1 DEF Sent
<1>5. CASE upstream.phase = "content" /\ InOrder(c)
  <2>1. /\ c.thinking # Empty \/ c.signature # Empty \/ c.text # Empty => upstream.tools = 0
        /\ Len(c.tools) <= 1
        /\ \A i \in DOMAIN c.tools :
             IF c.tools[i].id # Empty THEN c.tools[i].index = upstream.tools
                                      ELSE c.tools[i].index = upstream.tools - 1
        /\ c.usage # NoUsage => c.finish # Empty
    BY <1>5 DEF InOrder
  <2>2. \A i \in DOMAIN c.tools : c.tools[i].index = Sent(c).tools - 1
    <3> DEFINE tools == c.tools
               k == upstream.tools
    <3>1. \A i \in DOMAIN tools : i = 1
      <4> HIDE DEF tools
      <4>1. tools \in Seq(Fragment) /\ Len(tools) <= 1
        BY <1>2, <2>1 DEF tools
      <4> QED BY <4>1
    <3>2. \A i \in DOMAIN tools : IF tools[i].id # Empty THEN tools[i].index = k
                                                        ELSE tools[i].index = k - 1
      BY <2>1
    <3>3. Sent(c).tools = IF \E i \in DOMAIN tools : tools[i].id # Empty THEN k + 1 ELSE k
      BY <1>4
    <3>4. k \in Nat
      BY <1>1
    <3> HIDE DEF tools, k
    <3>5. ASSUME NEW i \in DOMAIN tools PROVE tools[i].index = Sent(c).tools - 1
      <4>1. CASE tools[i].id # Empty
        BY <3>2, <3>3, <3>4, <4>1
      <4>2. CASE tools[i].id = Empty
        <5>1. ~ \E j \in DOMAIN tools : tools[j].id # Empty
          BY <3>1, <4>2
        <5> QED BY <3>2, <3>3, <4>2, <5>1
      <4> QED BY <4>1, <4>2
    <3> QED BY <3>5 DEF tools
  <2> QED BY <1>2, <1>3, <1>4, <1>5, <2>1, <2>2
<1>6. CASE upstream.phase # "content" /\ InOrder(c)
  <2>1. /\ upstream.phase = "finished"
        /\ c = [NoChunk EXCEPT !.usage = c.usage]
        /\ c.usage # NoUsage
    BY <1>6 DEF InOrder
  <2>2. /\ c.thinking = Empty /\ c.signature = Empty /\ c.text = Empty
        /\ c.tools = <<>> /\ c.finish = Empty
    BY <2>1 DEF NoChunk
  <2>3. DOMAIN c.tools = {} /\ Len(c.tools) = 0
    BY <2>2
  <2> QED BY <1>2, <1>3, <1>4, <2>1, <2>2, <2>3
<1> QED BY <1>5, <1>6

LEMMA ChunkConforms ==
  ASSUME CoreInv, upstream.conforming, Conforms, NEW c \in Chunk, ReadChunk(c)
  PROVE  Conforms' /\ Started' = Started
<1> DEFINE d == DecodeOpenAIStreamLine(c)
           k == upstream.tools
<1>1. /\ pending = <<>> /\ InOrder(c) /\ pending' = d /\ upstream' = Sent(c)
      /\ UNCHANGED <<enc, received, usageResult>>
  BY DEF ReadChunk, Reading
<1> HIDE DEF d
<1>2. Len(c.tools) <= 1
  BY <1>1, ChunkInOrder DEF CoreInv
<1>3. /\ d \in Seq(DecodedEvent) /\ InTurn(d, 1, 7)
      /\ \A i \in DOMAIN d :
           /\ Turn(d[i]) \in 1..3 =>
                c.thinking # Empty \/ c.signature # Empty \/ c.text # Empty
           /\ Turn(d[i]) \in {4, 5} =>
                \E j \in DOMAIN c.tools : d[i].index = c.tools[j].index
      /\ Has(d, "tool_call_start") <=> \E j \in DOMAIN c.tools : c.tools[j].id # Empty
      /\ Has(d, "message_stop") <=> c.finish # Empty
      /\ Has(d, "usage_final") <=> c.usage # NoUsage
  BY <1>2, DecodeFacts DEF d
<1>4. /\ upstream.phase \in {"content", "finished"}
      /\ c.thinking # Empty \/ c.signature # Empty \/ c.text # Empty =>
           upstream.phase = "content" /\ k = 0
      /\ \A i \in DOMAIN c.tools :
           /\ upstream.phase = "content"
           /\ c.tools[i].index = upstream'.tools - 1
      /\ c.finish # Empty => upstream.phase = "content"
      /\ c.usage # NoUsage => c.finish # Empty \/ upstream.phase = "finished"
      /\ upstream.phase = "finished" => c.usage # NoUsage
      /\ upstream'.phase = IF c.usage # NoUsage THEN "reported"
                           ELSE IF c.finish # Empty THEN "finished" ELSE upstream.phase
      /\ upstream'.tools = IF \E i \in DOMAIN c.tools : c.tools[i].id # Empty
                           THEN k + 1 ELSE k
  BY <1>1, ChunkInOrder DEF CoreInv
<1>5. k \in Nat
  BY DEF CoreInv, TypeInv
<1> HIDE DEF k
<1>6. \A type : ~Has(pending, type)
  BY <1>1, NoneInTurn, HasIn
<1>7. Started = k
  BY <1>6 DEF Started, k
<1>8. Started' = k
  <2>1. Started' = IF Has(d, "tool_call_start") THEN upstream'.tools - 1 ELSE upstream'.tools
    BY <1>1 DEF Started
  <2> QED BY <1>3, <1>4, <1>5, <2>1
<1>9. PendingInTurn'
  <2>1. \A i, j \in DOMAIN d : i < j => Turn(d[i]) < Turn(d[j])
    BY <1>3 DEF InTurn
  <2>2. \A i \in DOMAIN d : Turn(d[i]) \in {4, 5} => d[i].index = upstream'.tools - 1
    BY <1>3, <1>4
  <2>3. \A i \in DOMAIN d : Turn(d[i]) \in 1..3 => Started' = 0
    BY <1>3, <1>4, <1>8
  <2>4. PendingInTurn' = (/\ \A i, j \in DOMAIN pending' : i < j => Turn(pending'[i]) < Turn(pending'[j])
                          /\ \A i \in DOMAIN pending' :
                               /\ Turn(pending'[i]) \in {4, 5} =>
                                    pending'[i].index = upstream'.tools - 1
                               /\ Turn(pending'[i]) \in 1..3 => Started' = 0)
    BY DEF PendingInTurn, Turn
  <2> QED BY <1>1, <2>1, <2>2, <2>3, <2>4
<1>10. CallsInTurn'
  <2>1. /\ DOMAIN enc.toolCallBlocks = 0..(k - 1)
        /\ k > 0 /\ ~Has(received, "message_stop") =>
             /\ enc.blockOpen /\ enc.blockType = NoType
             /\ enc.toolCallBlocks[k - 1] = enc.blockIdx
    BY <1>7 DEF Conforms, CallsInTurn
  <2>2. Has(received', "message_stop") <=> Has(received, "message_stop")
    BY <1>1
  <2> QED BY <1>1, <1>5, <1>8, <2>1, <2>2 DEF CallsInTurn
<1>11. EndInTurn'
  <2> DEFINE stopped == Has(received, "message_stop")
  <2>1. /\ upstream.phase = "content" => ~stopped
        /\ upstream.phase = "finished" => stopped
        /\ \A i, j \in DOMAIN received :
             received[i].type = "message_stop" /\ received[j].type = "message_stop" => i = j
        /\ usageResult = NoUsage
    BY <1>4, <1>6 DEF Conforms, EndInTurn
  <2>2. \A type : Has(pending', type) <=> Has(d, type)
    BY <1>1
  <2>3. Has(received', "message_stop") <=> stopped
    BY <1>1
  <2>4. stopped => \A i \in DOMAIN d : d[i].type = "usage_final"
    <3> SUFFICES ASSUME stopped, NEW i \in DOMAIN d PROVE d[i].type = "usage_final"
      OBVIOUS
    <3>1. upstream.phase # "content"
      BY <2>1
    <3>2. Turn(d[i]) \notin 1..3 /\ Turn(d[i]) \notin {4, 5}
      BY <1>3, <1>4, <3>1
    <3>3. d[i].type # "message_stop"
      BY <1>3, <1>4, <3>1 DEF Has
    <3>4. d[i].type \in EventTypes
      BY <1>3, DecodedIsEvent
    <3> QED BY <3>2, <3>3, <3>4, TurnType DEF EventTypes
  <2> HIDE DEF stopped
  <2> QED BY <1>1, <1>3, <1>4, <2>1, <2>2, <2>3, <2>4 DEF EndInTurn
<1>12. EndAgrees'
  BY <1>1 DEF Conforms, EndAgrees, Has
<1> QED BY <1>7, <1>8, <1>9, <1>10, <1>11, <1>12 DEF Conforms

\* What a turn of the loop does, with such an upstream, to what is pending and
\* what was received.
LEMMA TurnConforms ==
  ASSUME CoreInv, upstream.conforming, Conforms, EncodeEvent
  PROVE  LET ev == Head(pending)
             k == upstream.tools
         IN  /\ ev \in DecodedEvent /\ ev.type \in EventTypes
             /\ \A i \in DOMAIN pending' : Turn(ev) < Turn(pending'[i])
             /\ \A type : Has(pending, type) <=> ev.type = type \/ Has(pending', type)
             /\ ~Has(pending', ev.type)
             /\ \A type : Has(received', type) <=> Has(received, type) \/ ev.type = type
             /\ PendingInTurn'
             /\ Turn(ev) \in {4, 5} => ev.index = k - 1
             /\ Turn(ev) \in 1..3 => Started = 0
             /\ Started' = IF ev.type = "tool_call_start" THEN Started + 1 ELSE Started
             /\ Turn(ev) \in {4, 5} =>
                  Started = IF ev.type = "tool_call_start" THEN k - 1 ELSE k
<1> DEFINE ev == Head(pending)
           k == upstream.tools
           t == Tail(pending)
<1>1. /\ ev \in DecodedEvent /\ pending \in Seq(DecodedEvent) /\ pending # <<>> /\ pending' = t
      /\ received \in Seq(DecodedEvent) /\ received' = Append(received, ev)
      /\ upstream' = upstream
  BY TurnOfLoop DEF CoreInv
<1>2. /\ \A i, j \in DOMAIN pending : i < j => Turn(pending[i]) < Turn(pending[j])
      /\ \A i \in DOMAIN pending :
           /\ Turn(pending[i]) \in {4, 5} => pending[i].index = k - 1
           /\ Turn(pending[i]) \in 1..3 => Started = 0
  BY DEF Conforms, PendingInTurn
<1>3. /\ t \in Seq(DecodedEvent)
      /\ \A i, j \in DOMAIN t : i < j => Turn(t[i]) < Turn(t[j])
      /\ \A i \in DOMAIN t : Turn(ev) < Turn(t[i])
      /\ \A i \in DOMAIN t : \E j \in DOMAIN pending : t[i] = pending[j]
      /\ \A type : Has(pending, type) <=> ev.type = type \/ Has(t, type)
      /\ \E j \in DOMAIN pending : ev = pending[j]
  BY <1>1, <1>2, TailInTurn
<1>4. \A type : Has(received', type) <=> Has(received, type) \/ ev.type = type
  BY <1>1, HasAppend
<1> HIDE DEF ev, t, k
<1>5. k \in Nat /\ k = upstream.tools
  BY DEF CoreInv, TypeInv, k
<1>6. ev.type \in EventTypes
  BY <1>1, DecodedIsEvent
<1>7. \A i \in DOMAIN t : t[i].type \in EventTypes /\ Turn(t[i]) \in 1..7
  <2>1. \A i \in DOMAIN t : t[i] \in DecodedEvent
    BY <1>3
  <2> QED BY <2>1, DecodedIsEvent, TurnType
<1>8. \A i \in DOMAIN t : t[i].type # ev.type
  <2> SUFFICES ASSUME NEW i \in DOMAIN t, t[i].type = ev.type PROVE FALSE
    OBVIOUS
  <2>1. Turn(t[i]) = Turn(ev)
    BY DEF Turn
  <2>2. Turn(ev) < Turn(t[i]) /\ Turn(t[i]) \in 1..7
    BY <1>3, <1>7
  <2> QED BY <2>1, <2>2
<1>9. ~Has(t, ev.type)
  BY <1>8 DEF Has
<1>10. /\ Turn(ev) \in {4, 5} => ev.index = k - 1
       /\ Turn(ev) \in 1..3 => Started = 0
  BY <1>2, <1>3
<1>11. Started = IF Has(pending, "tool_call_start") THEN k - 1 ELSE k
  BY <1>5 DEF Started
<1>12. Started' = IF Has(t, "tool_call_start") THEN k - 1 ELSE k
  BY <1>1, <1>5 DEF Started
<1>13. Started' = IF ev.type = "tool_call_start" THEN Started + 1 ELSE Started
  <2>1. CASE ev.type = "tool_call_start"
    <3>1. Has(pending, "tool_call_start") /\ ~Has(t, "tool_call_start")
      BY <1>3, <1>9, <2>1
    <3> QED BY <1>5, <1>11, <1>12, <2>1, <3>1
  <2>2. CASE ev.type # "tool_call_start"
    <3>1. Has(pending, "tool_call_start") <=> Has(t, "tool_call_start")
      BY <1>3, <2>2
    <3> QED BY <1>11, <1>12, <2>2, <3>1
  <2> QED BY <2>1, <2>2
<1>14. Turn(ev) \in {4, 5} => Started = IF ev.type = "tool_call_start" THEN k - 1 ELSE k
  <2> SUFFICES ASSUME Turn(ev) \in {4, 5}
               PROVE  Started = IF ev.type = "tool_call_start" THEN k - 1 ELSE k
    OBVIOUS
  <2>1. CASE ev.type = "tool_call_start"
    <3>1. Has(pending, "tool_call_start")
      BY <1>3, <2>1
    <3> QED BY <1>11, <2>1, <3>1
  <2>2. CASE ev.type # "tool_call_start"
    <3>1. Turn(ev) = 5
      BY <1>6, <2>2, TurnType
    <3>2. \A i \in DOMAIN t : t[i].type # "tool_call_start"
      <4> SUFFICES ASSUME NEW i \in DOMAIN t, t[i].type = "tool_call_start" PROVE FALSE
        OBVIOUS
      <4>1. Turn(t[i]) = 4
        BY <1>7, TurnType
      <4> QED BY <1>3, <3>1, <4>1
    <3>3. ~Has(pending, "tool_call_start")
      BY <1>3, <2>2, <3>2 DEF Has
    <3> QED BY <1>11, <2>2, <3>3
  <2> QED BY <2>1, <2>2
<1>15. PendingInTurn'
  <2>1. \A i \in DOMAIN t : Turn(t[i]) \in {4, 5} => t[i].index = k - 1
    BY <1>2, <1>3
  <2>2. \A i \in DOMAIN t : Turn(t[i]) \in 1..3 => Started' = 0
    <3> SUFFICES ASSUME NEW i \in DOMAIN t, Turn(t[i]) \in 1..3 PROVE Started' = 0
      OBVIOUS
    <3>1. Started = 0
      BY <1>2, <1>3
    <3>2. ev.type # "tool_call_start"
      <4>1. Turn(ev) < Turn(t[i])
        BY <1>3
      <4>2. Turn(ev) \in 1..7 /\ Turn(ev) # 4
        BY <1>6, <4>1, TurnType
      <4> QED BY <1>6, <4>2, TurnType
    <3> QED BY <1>13, <3>1, <3>2
  <2>3. PendingInTurn' = (/\ \A i, j \in DOMAIN pending' : i < j => Turn(pending'[i]) < Turn(pending'[j])
                          /\ \A i \in DOMAIN pending' :
                               /\ Turn(pending'[i]) \in {4, 5} =>
                                    pending'[i].index = upstream'.tools - 1
                               /\ Turn(pending'[i]) \in 1..3 => Started' = 0)
    BY DEF PendingInTurn, Turn
  <2> QED BY <1>1, <1>3, <1>5, <2>1, <2>2, <2>3
<1> QED BY <1>1, <1>3, <1>4, <1>6, <1>9, <1>10, <1>13, <1>14, <1>15 DEF ev, t, k

\* What a turn of the loop does to the encoder, by the type of the event.
LEMMA EncodedTells ==
  ASSUME CoreInv, EncodeEvent
  PROVE  LET ev == Head(pending)
             d == Encoded
         IN  /\ Turn(ev) \in 1..3 => d.toolCallBlocks = enc.toolCallBlocks
             /\ Turn(ev) \in 1..5 => SameLast(enc, d)
             /\ ev.type = "tool_call_start" =>
                  /\ d.blockOpen /\ d.blockType = NoType
                  /\ DOMAIN d.toolCallBlocks = DOMAIN enc.toolCallBlocks \cup {ev.index}
                  /\ d.toolCallBlocks[ev.index] = d.blockIdx
             /\ ev.type = "tool_call_delta" =>
                  /\ SameBlocks(enc, d)
                  /\ /\ enc.blockOpen /\ enc.blockType = NoType
                     /\ ev.index \in DOMAIN enc.toolCallBlocks
                     /\ enc.toolCallBlocks[ev.index] = enc.blockIdx
                     => Lands(d.out, Len(d.out))
             /\ ev.type = "message_stop" =>
                  /\ ~d.blockOpen /\ d.toolCallBlocks = enc.toolCallBlocks
                  /\ d.stopReason = ev.val /\ d.usage = enc.usage
                  /\ d.messageDeltaEmitted <=> enc.messageDeltaEmitted \/ enc.usage # NoUsage
                  /\ d.messageDeltaEmitted /\ ~enc.messageDeltaEmitted => TellsEnd(d)
             /\ ev.type = "usage_final" =>
                  /\ SameBlocks(enc, d) /\ d.stopReason = enc.stopReason /\ d.usage = ev.val
                  /\ d.messageDeltaEmitted <=>
                       enc.messageDeltaEmitted \/ enc.stopReason # NoReason
                  /\ d.messageDeltaEmitted /\ ~enc.messageDeltaEmitted => TellsEnd(d)
<1> DEFINE ev == Head(pending)
           d == Encoded
<1>1. Good(enc) /\ Good(Before) /\ ev \in DecodedEvent /\ d = Encode(Before, ev)
  BY TurnOfLoop DEF CoreInv, Encoded
<1>2. Before.toolCallBlocks = enc.toolCallBlocks /\ SameLast(enc, Before)
  BY <1>1, BeforeGood DEF CoreInv, TypeInv
<1>3. ev.type # "text_delta" => Before = enc
  BY DEF Before, Injects
<1>4. ev.type \in EventTypes
  BY <1>1, DecodedIsEvent
<1> HIDE DEF ev, d
<1>5. CASE Turn(ev) \in 1..3
  <2>1. ev.type \in {"text_delta", "thinking_delta", "thinking_signature"}
    BY <1>4, <1>5, TurnType DEF EventTypes
  <2>2. ev.val \in Pieces
    BY <1>1, <2>1, DecodedIsEvent
  <2>3. d.toolCallBlocks = Before.toolCallBlocks /\ SameLast(Before, d)
    <3>1. CASE ev.type = "text_delta"
      <4>1. d = EncodeText(Before, ev.val)
        BY <1>1, <3>1 DEF Encode
      <4> QED BY <1>1, <2>2, <4>1, EncodeTextGood
    <3>2. CASE ev.type \in {"thinking_delta", "thinking_signature"}
      <4>1. d \in {EncodeThinking(Before, ev.val), EncodeSignature(Before, ev.val)}
        BY <1>1, <3>2 DEF Encode
      <4> QED BY <1>1, <2>2, <4>1, EncodeThinkingGood
    <3> QED BY <2>1, <3>1, <3>2
  <2> QED BY <1>2, <2>1, <2>3 DEF SameLast, ev, d
<1>6. CASE ev.type = "tool_call_start"
  <2>1. /\ ev.val \in ToolIDs /\ ev.index \in ToolIndices
        /\ d = EncodeToolCallStart(enc, ev.index, ev.val)
    BY <1>1, <1>3, <1>6, DecodedIsEvent DEF Encode
  <2>2. /\ d.blockOpen /\ d.blockType = NoType
        /\ DOMAIN d.toolCallBlocks = DOMAIN enc.toolCallBlocks \cup {ev.index}
        /\ d.toolCallBlocks[ev.index] = d.blockIdx
        /\ SameLast(enc, d)
    BY <1>1, <2>1, EncodeToolCallStartGood
  <2>3. Turn(ev) \notin 1..3
    BY <1>4, <1>6, TurnType
  <2> QED BY <1>6, <2>2, <2>3 DEF ev, d
<1>7. CASE ev.type = "tool_call_delta"
  <2>1. /\ ev.val \in Pieces /\ ev.index \in ToolIndices
        /\ d = EncodeToolCallDelta(enc, ev.index, ev.val)
    BY <1>1, <1>3, <1>7, DecodedIsEvent DEF Encode
  <2>2. /\ SameBlocks(enc, d) /\ SameLast(enc, d)
        /\ /\ enc.blockOpen /\ enc.blockType = NoType
           /\ ev.index \in DOMAIN enc.toolCallBlocks
           /\ enc.toolCallBlocks[ev.index] = enc.blockIdx
           => Lands(d.out, Len(d.out))
    BY <1>1, <2>1, EncodeToolCallDeltaGood
  <2>3. Turn(ev) \notin 1..3
    BY <1>4, <1>7, TurnType
  <2> QED BY <1>7, <2>2, <2>3 DEF ev, d
<1>8. CASE ev.type = "message_stop"
  <2>1. ev.val \in Reasons /\ d = EncodeMessageStop(enc, ev.val)
    BY <1>1, <1>3, <1>8, DecodedIsEvent DEF Encode
  <2>2. /\ ~d.blockOpen /\ d.toolCallBlocks = enc.toolCallBlocks
        /\ d.stopReason = ev.val /\ d.usage = enc.usage
        /\ d.messageDeltaEmitted <=> enc.messageDeltaEmitted \/ enc.usage # NoUsage
        /\ d.messageDeltaEmitted /\ ~enc.messageDeltaEmitted => TellsEnd(d)
    BY <1>1, <2>1, EncodeMessageStopGood
  <2>3. Turn(ev) \notin 1..5
    BY <1>4, <1>8, TurnType
  <2>4. Turn(ev) \notin 1..3
    BY <2>3
  <2> QED BY <1>8, <2>2, <2>3, <2>4 DEF ev, d
<1>9. CASE ev.type = "usage_final"
  <2>1. ev.val \in Usages /\ d = EncodeUsageFinal(enc, ev.val)
    BY <1>1, <1>3, <1>9, DecodedIsEvent DEF Encode
  <2>2. /\ SameBlocks(enc, d) /\ d.stopReason = enc.stopReason /\ d.usage = ev.val
        /\ d.messageDeltaEmitted <=> enc.messageDeltaEmitted \/ enc.stopReason # NoReason
        /\ d.messageDeltaEmitted /\ ~enc.messageDeltaEmitted => TellsEnd(d)
    BY <1>1, <2>1, EncodeUsageFinalGood
  <2>3. Turn(ev) \notin 1..5
    BY <1>4, <1>9, TurnType
  <2>4. Turn(ev) \notin 1..3
    BY <2>3
  <2> QED BY <1>9, <2>2, <2>3, <2>4 DEF ev, d
<1>10. \/ Turn(ev) \in 1..3
       \/ ev.type \in {"tool_call_start", "tool_call_delta", "message_stop", "usage_final"}
  BY <1>4, TurnType DEF EventTypes
<1> QED BY <1>5, <1>6, <1>7, <1>8, <1>9, <1>10 DEF ev, d

LEMMA CallsTurn ==
  ASSUME CoreInv, upstream.conforming, Conforms, EncodeEvent
  PROVE  CallsInTurn'
<1> DEFINE ev == Head(pending)
           d == Encoded
           n == Started
           stopped == Has(received, "message_stop")
<1>1. /\ n \in Nat
      /\ DOMAIN enc.toolCallBlocks = 0..(n - 1)
      /\ n > 0 /\ ~stopped =>
           /\ enc.blockOpen /\ enc.blockType = NoType
           /\ enc.toolCallBlocks[n - 1] = enc.blockIdx
  BY DEF Conforms, CallsInTurn
<1>2. /\ ev.type \in EventTypes
      /\ Has(received', "message_stop") <=> stopped \/ ev.type = "message_stop"
      /\ Turn(ev) \in {4, 5} => ev.index = upstream.tools - 1
      /\ Turn(ev) \in 1..3 => n = 0
      /\ Started' = IF ev.type = "tool_call_start" THEN n + 1 ELSE n
      /\ Turn(ev) \in {4, 5} =>
           n = IF ev.type = "tool_call_start" THEN upstream.tools - 1 ELSE upstream.tools
  BY TurnConforms
<1>3. /\ Turn(ev) \in 1..3 => d.toolCallBlocks = enc.toolCallBlocks
      /\ ev.type = "tool_call_start" =>
           /\ d.blockOpen /\ d.blockType = NoType
           /\ DOMAIN d.toolCallBlocks = DOMAIN enc.toolCallBlocks \cup {ev.index}
           /\ d.toolCallBlocks[ev.index] = d.blockIdx
      /\ ev.type = "tool_call_delta" => SameBlocks(enc, d)
      /\ ev.type = "message_stop" => d.toolCallBlocks = enc.toolCallBlocks
      /\ ev.type = "usage_final" => SameBlocks(enc, d)
  BY EncodedTells
<1>4. enc' = d
  BY TurnOfLoop DEF CoreInv
<1> HIDE DEF ev, d, n, stopped
<1> DEFINE Goal(k) ==
             /\ k \in Nat
             /\ DOMAIN d.toolCallBlocks = 0..(k - 1)
             /\ k > 0 /\ ~Has(received', "message_stop") =>
                  /\ d.blockOpen /\ d.blockType = NoType
                  /\ d.toolCallBlocks[k - 1] = d.blockIdx
<1>5. Goal(Started') => CallsInTurn'
  BY <1>4 DEF CallsInTurn
<1>6. CASE Turn(ev) \in 1..3
  <2>1. ev.type # "tool_call_start"
    <3>1. ev.type = "tool_call_start" => Turn(ev) = 4
      BY <1>2, TurnType
    <3> QED BY <1>6, <3>1
  <2>2. Started' = 0 /\ n = 0
    BY <1>2, <1>6, <2>1
  <2>3. Goal(0)
    BY <1>1, <1>3, <1>6, <2>2
  <2> HIDE DEF Goal
  <2> QED BY <1>5, <2>2, <2>3
<1>7. CASE ev.type = "tool_call_start"
  <2>1. Turn(ev) = 4
    BY <1>2, <1>7, TurnType
  <2>2. ev.index = n /\ Started' = n + 1
    BY <1>2, <1>7, <2>1
  <2>3. 0..((n + 1) - 1) = (0..(n - 1)) \cup {n} /\ (n + 1) - 1 = n
    BY <1>1
  <2>4. DOMAIN d.toolCallBlocks = 0..((n + 1) - 1)
    BY <1>1, <1>3, <1>7, <2>2, <2>3
  <2>5. d.blockOpen /\ d.blockType = NoType /\ d.toolCallBlocks[n] = d.blockIdx
    BY <1>3, <1>7, <2>2
  <2>6. n + 1 \in Nat /\ d.toolCallBlocks[(n + 1) - 1] = d.blockIdx
    BY <1>1, <2>3, <2>5
  <2>7. Goal(n + 1)
    BY <2>4, <2>5, <2>6
  <2> HIDE DEF Goal
  <2> QED BY <1>5, <2>2, <2>7
<1>8. CASE ev.type \in {"tool_call_delta", "usage_final"}
  <2>1. Started' = n
    BY <1>2, <1>8
  <2>2. SameBlocks(enc, d)
    BY <1>3, <1>8
  <2>3. Has(received', "message_stop") <=> stopped
    BY <1>2, <1>8
  <2>4. Goal(n)
    BY <1>1, <2>2, <2>3 DEF SameBlocks
  <2> HIDE DEF Goal
  <2> QED BY <1>5, <2>1, <2>4
<1>9. CASE ev.type = "message_stop"
  <2>1. Started' = n
    BY <1>2, <1>9
  <2>2. Goal(n)
    BY <1>1, <1>2, <1>3, <1>9
  <2> HIDE DEF Goal
  <2> QED BY <1>5, <2>1, <2>2
<1>10. \/ Turn(ev) \in 1..3
       \/ ev.type \in {"tool_call_start", "tool_call_delta", "message_stop", "usage_final"}
  BY <1>2, TurnType DEF EventTypes
<1> QED BY <1>6, <1>7, <1>8, <1>9, <1>10

LEMMA EndTurns ==
  ASSUME CoreInv, upstream.conforming, Conforms, EncodeEvent
  PROVE  EndInTurn'
<1> DEFINE ev == Head(pending)
           stopped == Has(received, "message_stop")
           stopping == Has(pending, "message_stop")
<1>1. /\ upstream.phase = "content" => ~stopped /\ ~stopping
      /\ upstream.phase # "content" => (stopped <=> ~stopping)
      /\ \A i, j \in DOMAIN received :
           received[i].type = "message_stop" /\ received[j].type = "message_stop" => i = j
      /\ Has(pending, "usage_final") => upstream.phase = "reported" /\ usageResult = NoUsage
      /\ stopped => \A i \in DOMAIN pending : pending[i].type = "usage_final"
      /\ usageResult # NoUsage => upstream.phase = "reported" /\ stopped
  BY DEF Conforms, EndInTurn
<1>2. /\ ev \in DecodedEvent /\ ev.type \in EventTypes
      /\ \A i \in DOMAIN pending' : Turn(ev) < Turn(pending'[i])
      /\ \A type : Has(pending, type) <=> ev.type = type \/ Has(pending', type)
      /\ ~Has(pending', ev.type)
      /\ \A type : Has(received', type) <=> Has(received, type) \/ ev.type = type
  BY TurnConforms
<1>3. /\ received \in Seq(DecodedEvent) /\ received' = Append(received, ev)
      /\ usageResult' = IF ev.type = "usage_final" THEN ev.val ELSE usageResult
      /\ upstream' = upstream
      /\ pending \in Seq(DecodedEvent) /\ pending # <<>> /\ pending' = Tail(pending)
  BY TurnOfLoop DEF CoreInv
<1>4. /\ pending' \in Seq(DecodedEvent)
      /\ \A i \in DOMAIN pending' : \E j \in DOMAIN pending : pending'[i] = pending[j]
  BY <1>3, TailInTurn DEF Conforms, PendingInTurn
<1> HIDE DEF ev, stopped, stopping
<1> DEFINE stopped2 == Has(received', "message_stop")
           stopping2 == Has(pending', "message_stop")
<1>5. stopped2 <=> stopped \/ ev.type = "message_stop"
  BY <1>2 DEF stopped
<1>6. stopping <=> stopping2 \/ ev.type = "message_stop"
  BY <1>2 DEF stopping
<1>7. ev.type = "message_stop" => ~stopping2 /\ ~stopped
  BY <1>1, <1>2, <1>6
<1>8. \A i \in DOMAIN pending' : pending'[i].type \in EventTypes
  BY <1>4, DecodedIsEvent
<1>9. /\ upstream.phase = "content" => ~stopped2 /\ ~stopping2
      /\ upstream.phase # "content" => (stopped2 <=> ~stopping2)
  BY <1>1, <1>5, <1>6, <1>7
<1>10. ASSUME NEW i \in DOMAIN received', NEW j \in DOMAIN received',
              received'[i].type = "message_stop", received'[j].type = "message_stop"
       PROVE  i = j
  <2> DEFINE m == Len(received)
  <2>1. /\ DOMAIN received = 1..m /\ DOMAIN received' = 1..(m + 1) /\ m \in Nat
        /\ received'[m + 1] = ev /\ \A k \in 1..m : received'[k] = received[k]
    BY <1>2, <1>3, AppendFacts
  <2> HIDE DEF m
  <2>2. /\ i \in 1..m \/ i = m + 1
        /\ j \in 1..m \/ j = m + 1
    BY <2>1
  <2>3. \A k \in 1..m : received'[k].type = "message_stop" => stopped
    BY <2>1 DEF stopped, Has
  <2>4. CASE i \in 1..m /\ j \in 1..m
    BY <1>1, <1>10, <2>1, <2>4
  <2>5. CASE i = m + 1 /\ j \in 1..m
    BY <1>7, <1>10, <2>1, <2>3, <2>5
  <2>6. CASE i \in 1..m /\ j = m + 1
    BY <1>7, <1>10, <2>1, <2>3, <2>6
  <2> QED BY <2>2, <2>4, <2>5, <2>6
<1>11. Has(pending', "usage_final") => upstream.phase = "reported" /\ usageResult' = NoUsage
  BY <1>1, <1>2, <1>3
<1>12. ASSUME stopped2, NEW i \in DOMAIN pending' PROVE pending'[i].type = "usage_final"
  <2>1. CASE stopped
    BY <1>1, <1>4, <2>1
  <2>2. CASE ev.type = "message_stop"
    <3>1. Turn(ev) = 6
      BY <1>2, <2>2, TurnType
    <3>2. Turn(pending'[i]) \in 1..7 /\ Turn(pending'[i]) > 6
      BY <1>2, <1>8, <3>1, TurnType
    <3>3. Turn(pending'[i]) = 7
      BY <3>2
    <3> QED BY <1>8, <3>3, TurnType
  <2> QED BY <1>5, <1>12, <2>1, <2>2
<1>13. ASSUME usageResult' # NoUsage PROVE upstream.phase = "reported" /\ stopped2
  <2>1. CASE ev.type = "usage_final"
    <3>1. Has(pending, "usage_final")
      BY <1>2, <2>1
    <3>2. ~stopping2
      <4> SUFFICES ASSUME NEW i \in DOMAIN pending', pending'[i].type = "message_stop"
                   PROVE  FALSE
        BY DEF Has
      <4>1. Turn(ev) = 7 /\ Turn(pending'[i]) = 6
        BY <1>2, <1>8, <2>1, TurnType
      <4> QED BY <1>2, <4>1
    <3> QED BY <1>1, <1>5, <1>6, <2>1, <3>1, <3>2
  <2>2. CASE ev.type # "usage_final"
    BY <1>1, <1>3, <1>5, <1>13, <2>2
  <2> QED BY <2>1, <2>2
<1> QED BY <1>3, <1>9, <1>10, <1>11, <1>12, <1>13 DEF EndInTurn

LEMMA EndAgreesTurn ==
  ASSUME CoreInv, upstream.conforming, Conforms, EncodeEvent
  PROVE  EndAgrees'
<1> DEFINE ev == Head(pending)
           d == Encoded
           stopped == Has(received, "message_stop")
<1>1. /\ enc.usage = usageResult
      /\ ~stopped => enc.stopReason = NoReason
      /\ \A i \in DOMAIN received :
           received[i].type = "message_stop" => enc.stopReason = received[i].val
      /\ stopped => ~enc.blockOpen
      /\ enc.messageDeltaEmitted <=> stopped /\ usageResult # NoUsage
      /\ enc.messageDeltaEmitted => TellsEnd(enc)
  BY DEF Conforms, EndAgrees, TellsEnd
<1>2. /\ Has(pending, "usage_final") => usageResult = NoUsage
      /\ stopped => \A i \in DOMAIN pending : pending[i].type = "usage_final"
      /\ Has(pending, "message_stop") => ~stopped
      /\ Has(pending, "usage_final") /\ ~Has(pending, "message_stop") => stopped
  BY DEF Conforms, EndInTurn, CoreInv, TypeInv
<1>3. /\ ev \in DecodedEvent /\ ev.type \in EventTypes
      /\ \A i \in DOMAIN pending' : Turn(ev) < Turn(pending'[i])
      /\ \A type : Has(pending, type) <=> ev.type = type \/ Has(pending', type)
      /\ \A type : Has(received', type) <=> Has(received, type) \/ ev.type = type
  BY TurnConforms
<1>4. /\ received \in Seq(DecodedEvent) /\ received' = Append(received, ev)
      /\ usageResult' = IF ev.type = "usage_final" THEN ev.val ELSE usageResult
      /\ pending \in Seq(DecodedEvent) /\ pending # <<>> /\ pending' = Tail(pending)
      /\ enc' = d /\ Good(enc) /\ Good(d)
  BY TurnOfLoop DEF CoreInv
<1>5. stopped => ev.type = "usage_final"
  <2>1. 1 \in DOMAIN pending /\ pending[1] = ev
    BY <1>4
  <2> QED BY <1>2, <2>1
<1>6. \A i \in DOMAIN pending' : pending'[i].type \in EventTypes
  BY <1>4, TailInTurn, DecodedIsEvent DEF Conforms, PendingInTurn
<1>7. /\ Turn(ev) \in 1..5 => SameLast(enc, d)
      /\ ev.type = "message_stop" =>
           /\ ~d.blockOpen /\ d.stopReason = ev.val /\ d.usage = enc.usage
           /\ d.messageDeltaEmitted <=> enc.messageDeltaEmitted \/ enc.usage # NoUsage
           /\ d.messageDeltaEmitted /\ ~enc.messageDeltaEmitted => TellsEnd(d)
      /\ ev.type = "usage_final" =>
           /\ SameBlocks(enc, d) /\ d.stopReason = enc.stopReason /\ d.usage = ev.val
           /\ d.messageDeltaEmitted <=>
                enc.messageDeltaEmitted \/ enc.stopReason # NoReason
           /\ d.messageDeltaEmitted /\ ~enc.messageDeltaEmitted => TellsEnd(d)
  BY <1>3, EncodedTells
<1> HIDE DEF ev, d, stopped
<1> DEFINE stopped2 == Has(received', "message_stop")
<1>8. stopped2 <=> stopped \/ ev.type = "message_stop"
  BY <1>3 DEF stopped
<1>9. \A i \in DOMAIN received' :
        \/ i \in DOMAIN received /\ received'[i] = received[i]
        \/ received'[i] = ev
  BY <1>3, <1>4, AppendFacts
<1>10. (TellsEnd(enc))' <=> TellsEnd(d)
  BY <1>4 DEF TellsEnd
<1> HIDE DEF stopped2
<1>11. ASSUME /\ d.usage = usageResult'
              /\ ~stopped2 => d.stopReason = NoReason
              /\ \A i \in DOMAIN received' :
                   received'[i].type = "message_stop" => d.stopReason = received'[i].val
              /\ stopped2 => ~d.blockOpen
              /\ d.messageDeltaEmitted <=> stopped2 /\ usageResult' # NoUsage
              /\ d.messageDeltaEmitted => TellsEnd(d)
       PROVE  EndAgrees'
  BY <1>4, <1>11 DEF EndAgrees, TellsEnd, stopped2
<1>12. CASE Turn(ev) \in 1..5
  <2>1. ev.type \notin {"message_stop", "usage_final"}
    BY <1>3, <1>12, TurnType
  <2>2. ~stopped /\ ~stopped2 /\ usageResult' = usageResult
    BY <1>4, <1>5, <1>8, <2>1
  <2>3. SameLast(enc, d)
    BY <1>7, <1>12
  <2>4. \A i \in DOMAIN received' : received'[i].type # "message_stop"
    BY <2>2 DEF stopped2, Has
  <2> QED BY <1>1, <1>11, <2>2, <2>3, <2>4 DEF SameLast
<1>13. CASE ev.type = "message_stop"
  <2>1. ~stopped /\ stopped2 /\ usageResult' = usageResult
    BY <1>4, <1>5, <1>8, <1>13
  <2>2. \A i \in DOMAIN received : received[i].type # "message_stop"
    BY <2>1 DEF stopped, Has
  <2>3. \A i \in DOMAIN received' :
          received'[i].type = "message_stop" => d.stopReason = received'[i].val
    BY <1>7, <1>9, <1>13, <2>2
  <2> QED BY <1>1, <1>7, <1>11, <1>13, <2>1, <2>3
<1>14. CASE ev.type = "usage_final"
  <2>1. ~Has(pending', "message_stop")
    <3> SUFFICES ASSUME NEW i \in DOMAIN pending', pending'[i].type = "message_stop"
                 PROVE  FALSE
      BY DEF Has
    <3>1. Turn(ev) = 7 /\ Turn(pending'[i]) = 6
      BY <1>3, <1>6, <1>14, TurnType
    <3> QED BY <1>3, <3>1
  <2>2. stopped /\ usageResult = NoUsage
    BY <1>2, <1>3, <1>14, <2>1
  <2>3. stopped2 /\ usageResult' = ev.val /\ usageResult' # NoUsage
    <3>1. ev.val \in Usages
      BY <1>3, <1>14, DecodedIsEvent
    <3> QED BY <1>4, <1>8, <1>14, <2>2, <3>1, EventsAssumption
  <2>4. enc.stopReason # NoReason
    <3>1. PICK i \in DOMAIN received : received[i].type = "message_stop"
      BY <2>2 DEF stopped, Has
    <3>2. received[i] \in DecodedEvent
      BY <1>4
    <3>3. received[i].val \in Reasons
      BY <3>1, <3>2, DecodedIsEvent
    <3> QED BY <1>1, <3>1, <3>3, EncoderAssumption
  <2>5. \A i \in DOMAIN received' :
          received'[i].type = "message_stop" => d.stopReason = received'[i].val
    BY <1>1, <1>7, <1>9, <1>14
  <2>6. d.messageDeltaEmitted /\ ~enc.messageDeltaEmitted
    BY <1>1, <1>7, <1>14, <2>2, <2>4
  <2>7. ~d.blockOpen
    BY <1>1, <1>7, <1>14, <2>2 DEF SameBlocks
  <2> QED BY <1>7, <1>11, <1>14, <2>3, <2>5, <2>6, <2>7
<1>15. Turn(ev) \in 1..5 \/ ev.type \in {"message_stop", "usage_final"}
  BY <1>3, TurnType
<1> QED BY <1>12, <1>13, <1>14, <1>15

LEMMA EncodeConforms ==
  ASSUME CoreInv, upstream.conforming, Conforms, EncodeEvent
  PROVE  Conforms'
<1>1. PendingInTurn'
  BY TurnConforms
<1> QED BY <1>1, CallsTurn, EndTurns, EndAgreesTurn DEF Conforms

LEMMA InitConforming == Init => ConformingInv
<1> SUFFICES ASSUME Init PROVE Conforms
  BY DEF ConformingInv
<1>1. /\ pending = <<>> /\ received = <<>> /\ usageResult = NoUsage /\ enc = NewEncoder
      /\ upstream.phase = "content" /\ upstream.tools = 0
  BY DEF Init
<1>2. DOMAIN pending = {} /\ DOMAIN received = {}
  BY <1>1
<1>3. \A type : ~Has(pending, type) /\ ~Has(received, type)
  BY <1>2 DEF Has
<1>4. /\ enc.usage = NoUsage /\ enc.stopReason = NoReason /\ ~enc.messageDeltaEmitted
      /\ DOMAIN enc.toolCallBlocks = {}
  BY <1>1 DEF NewEncoder
<1>5. Started = 0 /\ 0..(0 - 1) = {}
  BY <1>1, <1>3 DEF Started
<1>6. PendingInTurn
  BY <1>2 DEF PendingInTurn
<1>7. CallsInTurn
  BY <1>4, <1>5 DEF CallsInTurn
<1>8. EndInTurn
  BY <1>1, <1>2, <1>3 DEF EndInTurn
<1>9. EndAgrees
  BY <1>1, <1>2, <1>3, <1>4 DEF EndAgrees
<1> QED BY <1>6, <1>7, <1>8, <1>9 DEF Conforms

LEMMA StepConforming == CoreInv /\ ConformingInv /\ [Next]_vars => ConformingInv'
<1> SUFFICES ASSUME CoreInv, ConformingInv, [Next]_vars, upstream'.conforming, status' # "ended"
             PROVE  Conforms'
  BY DEF ConformingInv
<1>1. ASSUME Conforms, UNCHANGED <<pending, enc, received, usageResult, upstream>>
      PROVE  Conforms'
  <2>1. UNCHANGED Started
    BY <1>1 DEF Started, Has
  <2>2. PendingInTurn'
    BY <1>1, <2>1 DEF Conforms, PendingInTurn, Turn
  <2>3. CallsInTurn'
    BY <1>1, <2>1 DEF Conforms, CallsInTurn, Has
  <2>4. EndInTurn'
    BY <1>1 DEF Conforms, EndInTurn, Has
  <2>5. EndAgrees'
    BY <1>1 DEF Conforms, EndAgrees, Has
  <2> QED BY <2>2, <2>3, <2>4, <2>5 DEF Conforms
<1>2. ASSUME NEW c \in Chunks[upstream.conforming], ReadChunk(c)
      PROVE  Conforms'
  <2>1. upstream'.conforming = upstream.conforming /\ status = "reading"
    BY <1>2, SentType DEF ReadChunk, Reading, CoreInv
  <2>2. Conforms
    BY <2>1 DEF ConformingInv
  <2>3. c \in Chunk
    BY ChunksType DEF CoreInv
  <2> QED BY <1>2, <2>1, <2>2, <2>3, ChunkConforms
<1>3. ASSUME NEW found \in Results, ReadSources(found)
      PROVE  Conforms'
  <2>1. UNCHANGED <<status, pending, enc, received, usageResult, upstream>>
    BY <1>3 DEF ReadSources
  <2> QED BY <1>1, <2>1 DEF ConformingInv
<1>4. CASE EncodeEvent
  <2>1. UNCHANGED <<status, upstream>>
    BY <1>4 DEF EncodeEvent
  <2> QED BY <1>4, <2>1, EncodeConforms DEF ConformingInv
<1>5. CASE ReadDone
  BY <1>5 DEF ReadDone
<1>6. CASE StreamBreaks
  <2>1. UNCHANGED <<pending, enc, received, usageResult, upstream>> /\ status = "reading"
    BY <1>6 DEF StreamBreaks
  <2> QED BY <1>1, <2>1 DEF ConformingInv
<1>7. CASE SkipLine \/ Returned \/ UNCHANGED vars
  <2>1. UNCHANGED <<status, pending, enc, received, usageResult, upstream>>
    BY <1>7 DEF SkipLine, Returned, vars
  <2> QED BY <1>1, <2>1 DEF ConformingInv
<1> QED BY <1>2, <1>3, <1>4, <1>5, <1>6, <1>7 DEF Next

LEMMA ConformingInvariant == Spec => []ConformingInv
  BY InitConforming, StepConforming, CoreInvariant, PTL DEF Spec

LandsInv == upstream.conforming => AllLand(out)

LEMMA InitLands == Init => LandsInv
<1> SUFFICES ASSUME Init PROVE AllLand(out)
  BY DEF LandsInv
<1>1. DOMAIN out = {}
  BY NewEncoderType DEF Init, out
<1> QED BY <1>1 DEF AllLand

\* The arguments that come next belong to the call whose block is open.
LEMMA DeltaLands ==
  ASSUME CoreInv, upstream.conforming, Conforms, EncodeEvent,
         Head(pending).type = "tool_call_delta"
  PROVE  Lands(Encoded.out, Len(Encoded.out))
<1> DEFINE ev == Head(pending)
           n == Started
<1>1. ev \in DecodedEvent /\ ev.type \in EventTypes
  BY TurnConforms
<1>2. Turn(ev) = 5 /\ Turn(ev) \in {4, 5}
  BY <1>1, TurnType
<1>3. ev.index = upstream.tools - 1 /\ n = upstream.tools
  BY <1>2, TurnConforms
<1>4. ev.index \in Nat
  BY <1>1, DecodedIsEvent, EventsAssumption
<1>5. n \in Nat /\ ev.index = n - 1 /\ n > 0
  BY <1>3, <1>4 DEF CoreInv, TypeInv
<1>6. ~Has(received, "message_stop")
  <2>1. 1 \in DOMAIN pending /\ pending[1] = ev
    BY TurnOfLoop DEF CoreInv
  <2> QED BY <2>1 DEF Conforms, EndInTurn
<1>7. /\ DOMAIN enc.toolCallBlocks = 0..(n - 1)
      /\ enc.blockOpen /\ enc.blockType = NoType
      /\ enc.toolCallBlocks[n - 1] = enc.blockIdx
  BY <1>5, <1>6 DEF Conforms, CallsInTurn
<1>8. ev.index \in DOMAIN enc.toolCallBlocks /\ enc.toolCallBlocks[ev.index] = enc.blockIdx
  BY <1>5, <1>7
<1> QED BY <1>7, <1>8, EncodedTells

LEMMA StepLands == CoreInv /\ ConformingInv /\ LandsInv /\ [Next]_vars => LandsInv'
<1> SUFFICES ASSUME CoreInv, ConformingInv, LandsInv, [Next]_vars, upstream'.conforming
             PROVE  AllLand(out')
  BY DEF LandsInv, AllLand, Lands, OpensFor
<1> USE DEF CoreInv
<1>1. ASSUME UNCHANGED <<enc, upstream>>
      PROVE  AllLand(out')
  BY <1>1 DEF LandsInv, out
<1>2. ASSUME NEW c \in Chunks[upstream.conforming], ReadChunk(c)
      PROVE  AllLand(out')
  <2>1. upstream'.conforming = upstream.conforming /\ enc' = enc
    BY <1>2, SentType DEF ReadChunk
  <2> QED BY <2>1 DEF LandsInv, out
<1>3. ASSUME NEW found \in Results, ReadSources(found)
      PROVE  AllLand(out')
  BY <1>1, <1>3 DEF ReadSources
<1>4. CASE EncodeEvent
  <2> DEFINE ev == Head(pending)
  <2>1. /\ Good(enc) /\ Good(Before) /\ ev \in DecodedEvent /\ enc' = Encoded
        /\ upstream' = upstream /\ status = "reading"
    BY <1>4, TurnOfLoop
  <2>2. enc.out \in Seq(FrameSet) /\ Before.out \in Seq(FrameSet)
    BY <2>1 DEF Good, Encoder
  <2>3. Conforms /\ AllLand(enc.out)
    BY <2>1 DEF ConformingInv, LandsInv, out
  <2>4. AllLand(Before.out)
    <3>1. /\ Injects => Searched(enc.out, Before.out, results)
          /\ ~Injects => Before = enc
      BY <2>1, BeforeGood DEF TypeInv
    <3> QED BY <2>2, <2>3, <3>1, LandsSearched
  <2>5. /\ Payload(ev) => CarriesEvent(Before.out, Encoded.out, ev)
        /\ ~Payload(ev) => Grew(Before.out, Encoded.out, Plain)
    BY <2>1, EncodeGood DEF Encoded
  <2>6. ev.type = "tool_call_delta" => Lands(Encoded.out, Len(Encoded.out))
    BY <1>4, <2>1, <2>3, DeltaLands
  <2> HIDE DEF ev
  <2>7. AllLand(Encoded.out)
    BY <2>2, <2>4, <2>5, <2>6, LandsCarried, LandsGrew
  <2> QED BY <2>1, <2>7 DEF out
<1>5. CASE ReadDone
  <2>1. Good(enc) /\ NothingToEnd(enc) /\ enc' = Done(enc) /\ upstream' = upstream
    BY <1>5 DEF ReadDone, Reading, TypeInv, EncoderInv, Good
  <2>2. enc.out \in Seq(FrameSet) /\ Grew(enc.out, Done(enc).out, Plain)
    BY <2>1, DoneGood DEF Good, Encoder
  <2>3. AllLand(enc.out)
    BY <2>1 DEF LandsInv, out
  <2> QED BY <2>1, <2>2, <2>3, LandsGrew DEF out
<1>6. CASE SkipLine \/ StreamBreaks \/ Returned \/ UNCHANGED vars
  BY <1>1, <1>6 DEF SkipLine, StreamBreaks, Returned, vars
<1> QED BY <1>2, <1>3, <1>4, <1>5, <1>6 DEF Next

\* With an upstream that keeps to the order of the API, every fragment of a
\* tool call's arguments reaches the client inside the open block of a call,
\* however the web search, text or the end of the message come in between.
THEOREM ToolDeltasReachTheirCall == Spec => []ToolDeltasLand
<1>1. LandsInv => ToolDeltasLand
  BY DEF LandsInv, AllLand, Lands, ToolDeltasLand
<1>2. Spec => []LandsInv
  BY InitLands, StepLands, CoreInvariant, ConformingInvariant, PTL DEF Spec
<1> QED BY <1>1, <1>2, PTL

(* --------------------------- how a stream ends ------------------------- *)

LEMMA StepEnds == CoreInv /\ ConformingInv /\ EndsAsRecorded /\ [Next]_vars => EndsAsRecorded'
<1> SUFFICES ASSUME CoreInv, ConformingInv, EndsAsRecorded, [Next]_vars
             PROVE  EndsAsRecorded'
  OBVIOUS
<1> USE DEF CoreInv
<1>1. CASE status = "ended"
  <2>1. pending = <<>>
    BY <1>1 DEF TypeInv
  <2>2. UNCHANGED vars
    BY <1>1, <2>1 DEF Next, ReadChunk, ReadSources, SkipLine, EncodeEvent, ReadDone,
                      StreamBreaks, Returned, Reading
  <2> QED BY <2>2 DEF vars, EndsAsRecorded, out
<1>2. CASE status # "ended" /\ ~ReadDone
  <2>1. status' # "ended"
    BY <1>2 DEF Next, ReadChunk, ReadSources, SkipLine, EncodeEvent, StreamBreaks,
                Returned, vars
  <2> QED BY <2>1 DEF EndsAsRecorded
<1>3. CASE ReadDone /\ upstream.conforming
  <2> DEFINE z == Done(enc)
             finished == CHOOSE i \in DOMAIN received : received[i].type = "message_stop"
  <2>1. /\ enc' = z /\ UNCHANGED <<usageResult, received>>
        /\ upstream.phase # "content" /\ pending = <<>> /\ status = "reading"
    BY <1>3 DEF ReadDone, Reading
  <2>2. Good(enc) /\ NothingToEnd(enc)
    BY <2>1 DEF TypeInv, EncoderInv, Good
  <2>3. Conforms
    BY <1>3, <2>1 DEF ConformingInv
  <2>4. DOMAIN pending = {}
    BY <2>1
  <2>5. Has(received, "message_stop")
    BY <2>1, <2>3, <2>4 DEF Conforms, EndInTurn, Has
  <2>6. finished \in DOMAIN received /\ received[finished].type = "message_stop"
    BY <2>5 DEF Has
  <2> HIDE DEF z, finished
  <2>7. received[finished].val \in Reasons
    <3>1. received[finished] \in DecodedEvent
      BY <2>6 DEF TypeInv
    <3> QED BY <2>6, <3>1, DecodedIsEvent
  <2>8. /\ enc.stopReason = received[finished].val /\ enc.usage = usageResult
        /\ enc.messageDeltaEmitted => ~enc.blockOpen /\ TellsEnd(enc)
    BY <2>3, <2>5, <2>6 DEF Conforms, EndAgrees, TellsEnd
  <2>9. enc.stopReason # NoReason
    BY <2>7, <2>8, EncoderAssumption
  <2>10. /\ z.out[Len(z.out)].kind = "message_stop"
         /\ z.out[Len(z.out) - 1] = Frame("message_delta", 0, received[finished].val, UsagePayload(usageResult))
    BY <2>2, <2>8, <2>9, DoneGood DEF z
  <2> QED BY <2>1, <2>10 DEF EndsAsRecorded, out, finished
<1>4. CASE ReadDone /\ ~upstream.conforming
  BY <1>4 DEF ReadDone, EndsAsRecorded
<1> QED BY <1>1, <1>2, <1>3, <1>4

\* With such an upstream, a stream that ends closes with the finish reason the
\* upstream gave and with the usage the handler records for the client's token,
\* however the two came in.
THEOREM MessageEndsAsRecorded == Spec => []EndsAsRecorded
<1>1. Init => EndsAsRecorded
  BY DEF Init, EndsAsRecorded
<1> QED BY <1>1, StepEnds, CoreInvariant, ConformingInvariant, PTL DEF Spec

(* ------------------------------ the fold ------------------------------- *)

\* A set of numbers up to n has a greatest.
LEMMA Greatest ==
  ASSUME NEW n \in Nat, NEW I, I \subseteq 1..n, I # {}
  PROVE  Max(I) \in I /\ \A i \in I : i <= Max(I)
<1> DEFINE J == {n - i : i \in I}
<1>1. J \subseteq Nat /\ J # {}
  <2>1. \A i \in I : n - i \in Nat
    OBVIOUS
  <2> QED BY <2>1
<1>2. PICK j \in J : \A k \in J : <<k, j>> \notin OpToRel(<, Nat)
  BY <1>1, NatLessThanWellFounded, WFMin
<1>3. PICK m \in I : j = n - m
  OBVIOUS
<1>4. ASSUME NEW i \in I PROVE m >= i
  <2>1. ~(n - i < n - m)
    BY <1>1, <1>2, <1>3 DEF OpToRel
  <2> QED BY <2>1
<1>5. \E x \in I : \A y \in I : x >= y
  BY <1>3, <1>4
<1>6. Max(I) \in I /\ \A y \in I : Max(I) >= y
  BY <1>5 DEF Max
<1> QED BY <1>6

\* The recursion of FoldLeft over the subsets of a sequence's positions.
FoldStep(s, g, T) == IF T = {} THEN NewAggregate ELSE Apply(g[T \ {Max(T)}], s[Max(T)])
Folds(s, g) == g = [T \in SUBSET (DOMAIN s) |-> FoldStep(s, g, T)]
Aggregated(s) == FoldLeft(Apply, NewAggregate, s)

\* FoldLeft, unfolded: a solution of that recursion, at all positions.
LEMMA FoldIs ==
  ASSUME NEW s
  PROVE  Aggregated(s) = (CHOOSE g : Folds(s, g))[DOMAIN s]
BY DEF Aggregated, FoldLeft, MapThenFoldSet, Folds, FoldStep

\* A solution for a sequence that is one element longer.
LEMMA FoldsLonger ==
  ASSUME NEW S, NEW s \in Seq(S), NEW a \in S, NEW g, Folds(s, g)
  PROVE  \E h : Folds(Append(s, a), h)
<1> DEFINE n == Len(s)
           t == Append(s, a)
           h == [T \in SUBSET (1..(n + 1)) |->
                   IF n + 1 \in T THEN Apply(g[T \ {n + 1}], a) ELSE g[T]]
<1>1. /\ n \in Nat /\ DOMAIN s = 1..n /\ DOMAIN t = 1..(n + 1) /\ t[n + 1] = a
      /\ \A i \in 1..n : t[i] = s[i]
  OBVIOUS
<1> HIDE DEF n, t
<1>2. \A T \in SUBSET (1..n) : g[T] = FoldStep(s, g, T)
  BY <1>1 DEF Folds
<1>3. ASSUME NEW T \in SUBSET (1..(n + 1)) PROVE h[T] = FoldStep(t, h, T)
  <2>1. CASE n + 1 \in T
    <3>1. Max(T) = n + 1
      <4>1. n + 1 \in Nat /\ T # {}
        BY <1>1, <2>1
      <4> DEFINE m == n + 1
      <4>2. m \in Nat /\ T \subseteq 1..m
        BY <1>1
      <4> HIDE DEF m
      <4>3. Max(T) \in T /\ \A i \in T : i <= Max(T)
        BY <4>1, <4>2, Greatest
      <4>4. Max(T) \in 1..m /\ m <= Max(T)
        BY <2>1, <4>2, <4>3 DEF m
      <4> QED BY <4>2, <4>4 DEF m
    <3>2. T \ {n + 1} \in SUBSET (1..(n + 1)) /\ n + 1 \notin T \ {n + 1}
      OBVIOUS
    <3>3. h[T \ {n + 1}] = g[T \ {n + 1}] /\ h[T] = Apply(g[T \ {n + 1}], a)
      BY <2>1, <3>2
    <3> HIDE DEF h
    <3> QED BY <1>1, <2>1, <3>1, <3>3 DEF FoldStep
  <2>2. CASE n + 1 \notin T
    <3>1. T \in SUBSET (1..n) /\ h[T] = g[T]
      BY <1>1, <2>2
    <3>2. CASE T = {}
      BY <1>2, <3>1, <3>2 DEF FoldStep
    <3>3. CASE T # {}
      <4>1. Max(T) \in T /\ Max(T) \in 1..n
        BY <1>1, <3>1, <3>3, Greatest
      <4> DEFINE R == T \ {Max(T)}
      <4>2. R \in SUBSET (1..(n + 1)) /\ n + 1 \notin R
        BY <2>2
      <4> HIDE DEF R
      <4>3. h[R] = g[R]
        BY <4>2
      <4> HIDE DEF h
      <4> QED BY <1>1, <1>2, <3>1, <3>3, <4>1, <4>3 DEF FoldStep, R
    <3> QED BY <3>2, <3>3
  <2> QED BY <2>1, <2>2
<1>4. Folds(t, h)
  <2>1. h = [T \in SUBSET (DOMAIN t) |-> h[T]]
    BY <1>1
  <2> HIDE DEF h
  <2>2. [T \in SUBSET (DOMAIN t) |-> h[T]] = [T \in SUBSET (DOMAIN t) |-> FoldStep(t, h, T)]
    BY <1>1, <1>3
  <2> QED BY <2>1, <2>2 DEF Folds
<1> HIDE DEF h
<1> QED BY <1>4 DEF t

\* Every sequence of events has a solution.
LEMMA FoldsSome ==
  ASSUME NEW S
  PROVE  \A s \in Seq(S) : \E g : Folds(s, g)
<1> DEFINE T == {s \in Seq(S) : \E g : Folds(s, g)}
<1>1. <<>> \in T
  <2> DEFINE none == <<>>
             g == [x \in {{}} |-> NewAggregate]
  <2>1. none \in Seq(S) /\ SUBSET (DOMAIN none) = {{}}
    OBVIOUS
  <2>2. \A x \in {{}} : g[x] = FoldStep(none, g, x)
    BY DEF FoldStep
  <2>3. g = [x \in {{}} |-> g[x]]
    OBVIOUS
  <2> HIDE DEF none, g
  <2>4. Folds(none, g)
    BY <2>1, <2>2, <2>3 DEF Folds
  <2>5. none \in T
    BY <2>1, <2>4
  <2> QED BY <2>5 DEF none
<1>2. \A s \in Seq(S) : s \in T => \A a \in S : Append(s, a) \in T
  <2> SUFFICES ASSUME NEW s \in Seq(S), s \in T, NEW a \in S PROVE Append(s, a) \in T
    OBVIOUS
  <2>1. \E h : Folds(Append(s, a), h)
    BY FoldsLonger
  <2>2. Append(s, a) \in Seq(S)
    OBVIOUS
  <2> QED BY <2>1, <2>2
<1>3. Seq(S) \subseteq T
  <2> HIDE DEF T
  <2> QED BY <1>1, <1>2, SeqInduction
<1> QED BY <1>3

\* Two solutions agree on the positions of the shorter sequence.
LEMMA FoldsAgree ==
  ASSUME NEW S, NEW s \in Seq(S), NEW a \in S, NEW g, Folds(s, g), NEW h, Folds(Append(s, a), h)
  PROVE  h[DOMAIN s] = g[DOMAIN s]
<1> DEFINE n == Len(s)
           t == Append(s, a)
           Agree == {k \in Nat : k <= n => \A T \in SUBSET (1..k) : h[T] = g[T]}
<1>1. /\ n \in Nat /\ DOMAIN s = 1..n /\ DOMAIN t = 1..(n + 1)
      /\ \A i \in 1..n : t[i] = s[i]
  OBVIOUS
<1> HIDE DEF n, t
<1>2. /\ \A T \in SUBSET (1..n) : g[T] = FoldStep(s, g, T)
      /\ \A T \in SUBSET (1..(n + 1)) : h[T] = FoldStep(t, h, T)
  BY <1>1 DEF Folds, t
<1>3. SUBSET (1..n) \subseteq SUBSET (1..(n + 1))
  BY <1>1
<1>4. 0 \in Agree
  <2>1. \A T \in SUBSET (1..0) : T = {}
    OBVIOUS
  <2>2. h[{}] = NewAggregate /\ g[{}] = NewAggregate
    BY <1>2 DEF FoldStep
  <2> QED BY <2>1, <2>2
<1>5. ASSUME NEW k \in Nat, k \in Agree PROVE k + 1 \in Agree
  <2>1. SUFFICES ASSUME k + 1 <= n, NEW T \in SUBSET (1..(k + 1)) PROVE h[T] = g[T]
    OBVIOUS
  <2>2. T \in SUBSET (1..n) /\ T \in SUBSET (1..(n + 1))
    BY <1>1, <2>1
  <2>3. CASE T = {}
    BY <1>2, <2>2, <2>3 DEF FoldStep
  <2>4. CASE T # {}
    <3>1. Max(T) \in T /\ \A i \in T : i <= Max(T)
      BY <1>1, <2>2, <2>4, Greatest
    <3>2. T \ {Max(T)} \in SUBSET (1..k)
      <4> SUFFICES ASSUME NEW i \in T, i # Max(T) PROVE i \in 1..k
        OBVIOUS
      <4>1. i \in 1..(k + 1) /\ Max(T) \in 1..(k + 1) /\ i <= Max(T)
        BY <3>1
      <4> QED BY <4>1
    <3>3. h[T \ {Max(T)}] = g[T \ {Max(T)}]
      BY <1>1, <1>5, <2>1, <3>2
    <3>4. s[Max(T)] = t[Max(T)]
      BY <1>1, <2>2, <3>1
    <3> QED BY <1>2, <2>2, <2>4, <3>3, <3>4 DEF FoldStep
  <2> QED BY <2>3, <2>4
<1>6. Nat \subseteq Agree
  <2> HIDE DEF Agree
  <2> QED BY <1>4, <1>5, SetInduction
<1>7. \A T \in SUBSET (1..n) : h[T] = g[T]
  <2>1. n \in Agree
    BY <1>1, <1>6
  <2> QED BY <1>1, <2>1
<1>8. 1..n \in SUBSET (1..n)
  OBVIOUS
<1> QED BY <1>1, <1>7, <1>8

\* What is folded is folded event by event.
LEMMA AggregatedNone == Aggregated(<<>>) = NewAggregate
<1> DEFINE none == <<>>
<1>1. none \in Seq({}) /\ DOMAIN none = {}
  OBVIOUS
<1>2. Aggregated(none) = (CHOOSE g : Folds(none, g))[DOMAIN none]
  BY FoldIs
<1>3. \E g : Folds(none, g)
  BY <1>1, FoldsSome
<1>4. Folds(none, CHOOSE g : Folds(none, g))
  BY <1>3
<1> DEFINE G == CHOOSE g : Folds(none, g)
<1> HIDE DEF none
<1>5. Folds(none, G) /\ Aggregated(none) = G[{}]
  BY <1>1, <1>2, <1>4
<1> HIDE DEF G
<1>6. {} \in SUBSET (DOMAIN none)
  OBVIOUS
<1>7. G[{}] = FoldStep(none, G, {})
  BY <1>5, <1>6 DEF Folds
<1> QED BY <1>5, <1>7 DEF FoldStep, none

\* One more event is applied to the aggregate of those before.
LEMMA AggregatedAppend ==
  ASSUME NEW S, NEW s \in Seq(S), NEW a \in S
  PROVE  Aggregated(Append(s, a)) = Apply(Aggregated(s), a)
<1> DEFINE n == Len(s)
           t == Append(s, a)
           G == CHOOSE g : Folds(s, g)
           H == CHOOSE g : Folds(t, g)
<1>1. /\ n \in Nat /\ DOMAIN s = 1..n /\ DOMAIN t = 1..(n + 1) /\ t[n + 1] = a /\ t \in Seq(S)
  OBVIOUS
<1> HIDE DEF t
<1>2. Folds(s, G) /\ Folds(t, H)
  <2>1. (\E g : Folds(s, g)) /\ \E g : Folds(t, g)
    BY <1>1, FoldsSome
  <2> QED BY <2>1
<1>3. Aggregated(s) = G[DOMAIN s] /\ Aggregated(t) = H[DOMAIN t]
  BY FoldIs
<1> HIDE DEF n, G, H
<1>4. H[DOMAIN s] = G[DOMAIN s]
  BY <1>2, FoldsAgree DEF t
<1>5. H[1..(n + 1)] = FoldStep(t, H, 1..(n + 1))
  <2>1. 1..(n + 1) \in SUBSET (DOMAIN t)
    BY <1>1
  <2> QED BY <1>2, <2>1 DEF Folds
<1>6. Max(1..(n + 1)) = n + 1
  <2> DEFINE m == n + 1
             I == 1..m
  <2>1. m \in Nat /\ I \subseteq 1..m /\ I # {} /\ m \in I
    BY <1>1
  <2> HIDE DEF I, m
  <2>2. Max(I) \in I /\ m <= Max(I)
    BY <2>1, Greatest
  <2>3. Max(I) \in 1..m
    BY <2>1, <2>2
  <2>4. Max(I) = m
    BY <2>1, <2>2, <2>3
  <2> QED BY <2>4 DEF I, m
<1>7. (1..(n + 1)) \ {n + 1} = 1..n /\ 1..(n + 1) # {}
  <2>1. n + 1 \in 1..(n + 1)
    BY <1>1
  <2>2. \A i : i \in 1..(n + 1) /\ i # n + 1 <=> i \in 1..n
    BY <1>1
  <2> QED BY <2>1, <2>2
<1> QED BY <1>1, <1>3, <1>4, <1>5, <1>6, <1>7 DEF FoldStep, t

(* ----------------------- the elements of a kind ------------------------ *)

\* The elements of s that are in K, in their order.
Those(K, s) == FlattenSeq([i \in DOMAIN s |-> IF s[i] \in K THEN <<s[i]>> ELSE <<>>])

PickFrom(S, K) == [x \in S |-> IF x \in K THEN <<x>> ELSE <<>>]

\* Those, as a fold.
LEMMA PickFromVals ==
  ASSUME NEW S, NEW K, NEW x \in S
  PROVE  PickFrom(S, K)[x] = IF x \in K THEN <<x>> ELSE <<>>
BY DEF PickFrom

LEMMA PickFromMaps ==
  ASSUME NEW S, NEW K
  PROVE  PickFrom(S, K) \in [S -> Seq(S \cap K)]
<1> DEFINE C == S \cap K
<1>1. ASSUME NEW x \in S PROVE (IF x \in K THEN <<x>> ELSE <<>>) \in Seq(C)
  <2>1. x \in K => x \in C
    OBVIOUS
  <2> HIDE DEF C
  <2>2. <<>> \in Seq(C) /\ (x \in K => <<x>> \in Seq(C))
    BY <2>1
  <2> QED BY <2>2
<1> QED BY <1>1 DEF PickFrom

LEMMA ThoseIsMap ==
  ASSUME NEW S, NEW K, NEW h, h = PickFrom(S, K), NEW s \in Seq(S)
  PROVE  Those(K, s) = FlatMap(h, s)
<1>1. \A x \in S : h[x] = IF x \in K THEN <<x>> ELSE <<>>
  BY PickFromVals
<1>3. \A i \in DOMAIN s : s[i] \in S
  OBVIOUS
<1> QED BY <1>1, <1>3 DEF Those, FlatMap

LEMMA ThoseNone == \A K : Those(K, <<>>) = <<>>
BY FlattenNone DEF Those

\* An element at the end is picked or it is not.
LEMMA ThoseAppend ==
  ASSUME NEW S, NEW K, NEW s \in Seq(S), NEW a \in S
  PROVE  /\ Those(K, s) \in Seq(S)
         /\ Those(K, Append(s, a)) = IF a \in K THEN Append(Those(K, s), a) ELSE Those(K, s)
<1> DEFINE h == PickFrom(S, K)
           t == Append(s, a)
           x == FlatMap(h, s)
<1>2. t \in Seq(S)
  OBVIOUS
<1>3. h \in [S -> Seq(S \cap K)] /\ h[a] = IF a \in K THEN <<a>> ELSE <<>>
  BY PickFromMaps, PickFromVals
<1> HIDE DEF t
<1>1. Those(K, s) = x
  BY ThoseIsMap
<1>7. Those(K, t) = FlatMap(h, t)
  BY <1>2, ThoseIsMap
<1> HIDE DEF h
<1> USE DEF t
<1>4. FlatMap(h, t) = x \o h[a] /\ x \in Seq(S \cap K)
  BY <1>3, FlatMapAppend, FlatMapType
<1> HIDE DEF t, x
<1>5. x \in Seq(S)
  BY <1>4
<1>6. x \o <<>> = x /\ (a \in K => x \o <<a>> = Append(x, a))
  BY <1>4
<1> QED BY <1>1, <1>3, <1>4, <1>5, <1>6, <1>7 DEF t, x

LEMMA ThoseType ==
  ASSUME NEW S, NEW K, NEW s \in Seq(S)
  PROVE  /\ Those(K, s) \in Seq(S)
         /\ \A k \in DOMAIN Those(K, s) :
              Those(K, s)[k] \in K /\ \E i \in DOMAIN s : Those(K, s)[k] = s[i]
<1> DEFINE D == {s[i] : i \in DOMAIN s}
           x == Those(K, s)
<1>1. s \in Seq(D) /\ D \subseteq S
  OBVIOUS
<1>2. x \in Seq(D \cap K)
  <2> HIDE DEF D
  <2> DEFINE h == PickFrom(D, K)
  <2>2. h \in [D -> Seq(D \cap K)]
    BY PickFromMaps
  <2>1. x = FlatMap(h, s)
    BY <1>1, ThoseIsMap
  <2> HIDE DEF h
  <2> HIDE DEF x
  <2> QED BY <1>1, <2>1, <2>2, FlatMapType
<1> HIDE DEF x
<1>3. x \in Seq(S)
  <2>1. D \cap K \subseteq S
    BY <1>1
  <2> HIDE DEF D
  <2> QED BY <1>2, <2>1
<1>4. \A k \in DOMAIN x : x[k] \in D \cap K
  <2> HIDE DEF D
  <2> QED BY <1>2
<1> QED BY <1>3, <1>4 DEF x

\* What is added of another kind is not picked.
LEMMA ThoseGrew ==
  ASSUME NEW K, NEW P, K \cap P = {},
         NEW s \in Seq(FrameSet), NEW t \in Seq(FrameSet), Grew(s, t, P)
  PROVE  Those(K, t) = Those(K, s)
<1> DEFINE T == {u \in Seq(FrameSet) : Grew(s, u, P) => Those(K, u) = Those(K, s)}
           n == Len(s)
<1>0. n \in Nat /\ DOMAIN s = 1..n
  OBVIOUS
<1>1. <<>> \in T
  <2> DEFINE none == <<>>
  <2>1. none \in Seq(FrameSet) /\ Len(none) = 0
    OBVIOUS
  <2>2. ASSUME Grew(s, none, P) PROVE none = s
    <3>1. n = 0
      BY <1>0, <2>1, <2>2 DEF Grew
    <3> QED BY <3>1
  <2> HIDE DEF none
  <2>3. none \in T
    BY <2>1, <2>2
  <2> QED BY <2>3 DEF none
<1>2. \A u \in Seq(FrameSet) : u \in T => \A f \in FrameSet : Append(u, f) \in T
  <2> SUFFICES ASSUME NEW u \in Seq(FrameSet), u \in T, NEW f \in FrameSet,
                      Grew(s, Append(u, f), P)
               PROVE  Those(K, Append(u, f)) = Those(K, s)
    OBVIOUS
  <2> DEFINE v == Append(u, f)
             m == Len(u)
  <2>1. /\ m \in Nat /\ v \in Seq(FrameSet) /\ Len(v) = m + 1 /\ v[m + 1] = f
        /\ \A i \in 1..m : v[i] = u[i]
    OBVIOUS
  <2>2. /\ n <= m + 1 /\ \A i \in 1..n : v[i] = s[i]
        /\ \A i \in (n + 1)..(m + 1) : v[i] \in P
    BY <2>1 DEF Grew
  <2> HIDE DEF v
  <2>3. CASE n = m + 1
    <3>1. v = s
      BY <1>0, <2>1, <2>2, <2>3
    <3> QED BY <3>1 DEF v
  <2>4. CASE n # m + 1
    <3>1. n <= m /\ f \in P
      <4>1. n <= m
        <5>1. n \in Nat /\ m \in Nat /\ n <= m + 1
          BY <1>0, <2>1, <2>2
        <5> HIDE DEF n, m
        <5> QED BY <5>1, <2>4
      <4>2. m + 1 \in (n + 1)..(m + 1)
        BY <1>0, <2>1, <4>1
      <4> HIDE DEF n, m
      <4>3. v[m + 1] \in P
        BY <2>2, <4>2
      <4> QED BY <2>1, <4>1, <4>3
    <3>2. Grew(s, u, P)
      <4>1. \A i \in 1..n : u[i] = s[i]
        BY <1>0, <2>1, <2>2, <3>1
      <4>2. \A i \in (n + 1)..m : u[i] \in P
        BY <1>0, <2>1, <2>2
      <4> QED BY <3>1, <4>1, <4>2 DEF Grew
    <3>3. Those(K, v) = Those(K, u)
      <4>1. f \notin K
        BY <3>1
      <4>2. Those(K, Append(u, f)) = IF f \in K THEN Append(Those(K, u), f) ELSE Those(K, u)
        BY ThoseAppend
      <4> QED BY <4>1, <4>2 DEF v
    <3> QED BY <3>2, <3>3 DEF v
  <2> QED BY <2>3, <2>4
<1>3. Seq(FrameSet) \subseteq T
  <2> HIDE DEF T
  <2> QED BY <1>1, <1>2, SeqInduction
<1> QED BY <1>3

(* --------------------------- kinds of content -------------------------- *)

DeltaFrames(block) == {f \in FrameSet : f.kind = "delta" /\ f.block = block}
CallFrames == {f \in FrameSet : f.kind = "block_start" /\ f.block = "tool_use"}
ArgFrames(k) ==
  {f \in FrameSet : f.kind = "delta" /\ f.block = "input_json" /\ f.index = k}

\* No frame without content is of these kinds.
Quiet == {f \in FrameSet : ~Content(f)}

\* The kinds of frames that are read back, and the frames that are none of them.
LEMMA KindsApart ==
  /\ DeltaFrames("text") \cap Quiet = {} /\ DeltaFrames("thinking") \cap Quiet = {}
  /\ CallFrames \cap Quiet = {} /\ \A k : ArgFrames(k) \cap Quiet = {}
BY DEF DeltaFrames, CallFrames, ArgFrames, Quiet, Content

\* The helpers of the property, by these names.
LEMMA StreamedIs ==
  ASSUME out \in Seq(FrameSet)
  PROVE  /\ \A block : Streamed(block) = Vals(Those(DeltaFrames(block), out))
         /\ StreamedCalls = Those(CallFrames, out)
         /\ \A call : StreamedArgs(call) = Vals(Those(ArgFrames(call.index), out))
<1> DEFINE s == out
<1>1. \A i \in DOMAIN s : s[i] \in FrameSet
  OBVIOUS
<1> HIDE DEF s
<1>2. ASSUME NEW block PROVE Streamed(block) = Vals(Those(DeltaFrames(block), out))
  BY <1>1 DEF Streamed, Where, Those, DeltaFrames, s
<1>3. StreamedCalls = Those(CallFrames, out)
  BY <1>1 DEF StreamedCalls, Where, Those, CallFrames, s
<1>4. ASSUME NEW call PROVE StreamedArgs(call) = Vals(Those(ArgFrames(call.index), out))
  BY <1>1 DEF StreamedArgs, Where, Those, ArgFrames, s
<1> QED BY <1>2, <1>3, <1>4

LEMMA ValsNone == Vals(<<>>) = <<>>
BY DEF Vals

\* The value of an element at the end is the last.
LEMMA ValsAppend ==
  ASSUME NEW s \in Seq(FrameSet), NEW f \in FrameSet
  PROVE  /\ Vals(Append(s, f)) = Append(Vals(s), f.val)
         /\ Len(Vals(s)) = Len(s)
<1> DEFINE n == Len(s)
           t == Append(s, f)
           v == Vals(s)
           V == {g.val : g \in FrameSet}
<1>1. /\ n \in Nat /\ DOMAIN s = 1..n /\ DOMAIN t = 1..(n + 1) /\ t[n + 1] = f
      /\ \A i \in 1..n : t[i] = s[i] /\ s[i] \in FrameSet
  OBVIOUS
<1> HIDE DEF n, t
<1>2. v = [i \in 1..n |-> s[i].val] /\ \A i \in 1..n : s[i].val \in V
  BY <1>1 DEF Vals
<1>3. f.val \in V
  OBVIOUS
<1> HIDE DEF v, V
<1>4. v \in Seq(V) /\ Len(v) = n /\ \A i \in 1..n : v[i] = s[i].val
  BY <1>1, <1>2
<1>5. Append(v, f.val) = [i \in 1..(n + 1) |-> IF i = n + 1 THEN f.val ELSE v[i]]
  BY <1>1, <1>3, <1>4
<1>6. Vals(t) = [i \in 1..(n + 1) |-> t[i].val]
  BY <1>1 DEF Vals
<1>7. \A i \in 1..(n + 1) : t[i].val = IF i = n + 1 THEN f.val ELSE v[i]
  BY <1>1, <1>4
<1>8. Vals(t) = Append(v, f.val)
  BY <1>5, <1>6, <1>7
<1> QED BY <1>4, <1>8 DEF t, v, n

(* ------------------------- the frame of an event ----------------------- *)

\* Frames that open, close or stop carry nothing.
LEMMA PlainQuiet == ASSUME NEW s, NEW t, Grew(s, t, Plain) PROVE Grew(s, t, Quiet)
BY DEF Grew, Plain, Quiet

\* Nor do the blocks of a web search.
LEMMA SearchedQuiet ==
  ASSUME NEW s \in Seq(FrameSet), NEW t, NEW v, Searched(s, t, v)
  PROVE  Grew(s, t, Quiet)
<1>1. PICK m \in Seq(FrameSet), f \in FrameSet :
        Grew(s, m, Plain) /\ Grew(Append(m, f), t, Plain) /\ ~Content(f)
  BY DEF Searched
<1> DEFINE u == Append(m, f)
<1>2. u \in Seq(FrameSet)
  OBVIOUS
<1>3. Grew(s, u, Quiet)
  <2>1. Grew(s, m, Quiet) /\ f \in Quiet
    BY <1>1, PlainQuiet DEF Quiet
  <2> QED BY <2>1, GrewAppend
<1> HIDE DEF u
<1>4. Grew(u, t, Quiet) /\ t \in Seq(FrameSet)
  BY <1>1, PlainQuiet DEF u, Grew
<1> QED BY <1>2, <1>3, <1>4, GrewTwice

\* t is s with frames without content behind it, and then f.
Added(s, t, f) ==
  f \in FrameSet /\ \E m \in Seq(FrameSet) : Grew(s, m, Quiet) /\ t = Append(m, f)

\* If f is not in K, the elements in K stay.
LEMMA AddedOut ==
  ASSUME NEW K, K \cap Quiet = {}, NEW s \in Seq(FrameSet), NEW t, NEW f \in FrameSet, Added(s, t, f),
         f \notin K
  PROVE  Those(K, t) = Those(K, s)
<1>1. PICK m \in Seq(FrameSet) : Grew(s, m, Quiet) /\ t = Append(m, f)
  BY DEF Added
<1>2. Those(K, m) = Those(K, s)
  BY <1>1, ThoseGrew
<1>3. Those(K, Append(m, f)) = IF f \in K THEN Append(Those(K, m), f) ELSE Those(K, m)
  BY <1>1, ThoseAppend
<1> QED BY <1>1, <1>2, <1>3

LEMMA AddedType ==
  ASSUME NEW s, NEW t, NEW f, Added(s, t, f)
  PROVE  f \in FrameSet /\ t \in Seq(FrameSet)
BY DEF Added

\* Append, by a name the provers do not look into.
Behind(x, a) == Append(x, a)

\* If f is in K, it comes behind them.
LEMMA AddedIn ==
  ASSUME NEW K, K \cap Quiet = {}, NEW s \in Seq(FrameSet), NEW t \in Seq(FrameSet),
         NEW f \in FrameSet, Added(s, t, f), f \in K
  PROVE  /\ Those(K, s) \in Seq(FrameSet)
         /\ Those(K, t) = Behind(Those(K, s), f)
<1>1. PICK m \in Seq(FrameSet) : Grew(s, m, Quiet) /\ t = Append(m, f)
  BY DEF Added
<1>2. Those(K, m) = Those(K, s)
  BY <1>1, ThoseGrew
<1>3. Those(K, m) \in Seq(FrameSet)
  BY <1>1, ThoseAppend
<1>4. Those(K, Append(m, f)) = IF f \in K THEN Append(Those(K, m), f) ELSE Those(K, m)
  BY <1>1, ThoseAppend
<1> QED BY <1>1, <1>2, <1>3, <1>4 DEF Behind

LEMMA AddedVal ==
  ASSUME NEW K, K \cap Quiet = {}, NEW s \in Seq(FrameSet), NEW t \in Seq(FrameSet),
         NEW f \in FrameSet, Added(s, t, f), f \in K
  PROVE  Vals(Those(K, t)) = Behind(Vals(Those(K, s)), f.val)
<1> DEFINE p == Those(K, s)
<1>1. Those(K, s) \in Seq(FrameSet)
  BY AddedIn
<1>2. Those(K, t) = Behind(Those(K, s), f)
  BY AddedIn
<1> HIDE DEF p
<1>3. p \in Seq(FrameSet)
  BY <1>1 DEF p
<1>4. Vals(Append(p, f)) = Append(Vals(p), f.val)
  BY <1>3, ValsAppend
<1> QED BY <1>2, <1>4 DEF p, Behind

\* The block whose delta an event is.
DeltaOf(type) ==
  CASE type = "text_delta"         -> "text"
    [] type = "thinking_delta"     -> "thinking"
    [] type = "thinking_signature" -> "signature"
    [] type = "tool_call_delta"    -> "input_json"

\* The frame that an encoder which became d wrote of an event.
Shows(e, d, ev, f) ==
  /\ f.val = ev.val
  /\ ev.type = "tool_call_start" =>
       /\ f.kind = "block_start" /\ f.block = "tool_use" /\ f.index = d.toolCallBlocks[ev.index]
       /\ \A j \in DOMAIN e.out : IsStart(e.out[j]) => e.out[j].index < f.index
       /\ \A t \in DOMAIN e.toolCallBlocks :
            t # ev.index => d.toolCallBlocks[t] = e.toolCallBlocks[t]
  /\ ev.type # "tool_call_start" => f.kind = "delta" /\ f.block = DeltaOf(ev.type)
  /\ ev.type = "tool_call_delta" /\ ev.index \in DOMAIN e.toolCallBlocks =>
       f.index = e.toolCallBlocks[ev.index]

\* What the encoder writes of content is added.
LEMMA CarriedAdds ==
  ASSUME NEW s, NEW t, NEW v, NEW name \in {"text", "thinking", "signature", "input_json"},
         Carried(s, t, v, name)
  PROVE  \E f \in FrameSet : /\ Added(s, t, f)
                             /\ f.val = v /\ f.kind = "delta" /\ f.block = name
<1>1. PICK m \in Seq(FrameSet), f \in FrameSet :
        /\ Grew(s, m, Plain) /\ t = Append(m, f)
        /\ Content(f) /\ f.val = v /\ f.block = name
  BY DEF Carried
<1>2. f.kind = "delta"
  BY <1>1 DEF Content
<1>3. Added(s, t, f)
  BY <1>1, PlainQuiet DEF Added
<1> QED BY <1>1, <1>2, <1>3

LEMMA CarriedByAdds ==
  ASSUME NEW s, NEW t, NEW f, CarriedBy(s, t, f)
  PROVE  Added(s, t, f)
BY PlainQuiet DEF CarriedBy, Added

\* An event with a payload adds the frame that shows it.
LEMMA EncodeAdds ==
  ASSUME NEW e, Good(e), NEW ev \in DecodedEvent, Payload(ev)
  PROVE  LET d == Encode(e, ev)
         IN  \E f \in FrameSet : Added(e.out, d.out, f) /\ Shows(e, d, ev, f)
<1> DEFINE d == Encode(e, ev)
<1>1. CASE ev.type = "text_delta"
  <2>1. ev.val \in Pieces /\ d = EncodeText(e, ev.val)
    BY <1>1, DecodedIsEvent DEF Encode
  <2> HIDE DEF d
  <2>2. Carried(e.out, d.out, ev.val, "text")
    BY <2>1, EncodeTextGood
  <2>3. PICK f \in FrameSet : /\ Added(e.out, d.out, f)
                              /\ f.val = ev.val /\ f.kind = "delta" /\ f.block = "text"
    BY <2>2, CarriedAdds
  <2>4. Shows(e, d, ev, f)
    BY <1>1, <2>3 DEF Shows, DeltaOf
  <2> QED BY <2>3, <2>4 DEF d
<1>2. CASE ev.type \in {"thinking_delta", "thinking_signature"}
  <2> DEFINE name == DeltaOf(ev.type)
             b == EnsureBlockStart(StartMessage(e), "thinking")
             x == Emit(b, Frame("delta", b.blockIdx, name, ev.val))
  <2>1. ev.val \in Pieces /\ ev.val # Empty
    BY <1>2, DecodedIsEvent, EventsAssumption
  <2>2. d = x
    BY <1>2, <2>1 DEF Encode, EncodeThinking, EncodeSignature, DeltaOf
  <2>3. name \in {"thinking", "signature"} /\ Holds("thinking", name)
    BY <1>2 DEF DeltaOf, Holds
  <2> HIDE DEF d, name
  <2>4. Carried(e.out, x.out, ev.val, name)
    BY <2>1, <2>3, EncodeDelta
  <2> HIDE DEF x
  <2>5. PICK f \in FrameSet : /\ Added(e.out, d.out, f)
                              /\ f.val = ev.val /\ f.kind = "delta" /\ f.block = name
    BY <2>2, <2>3, <2>4, CarriedAdds
  <2>6. Shows(e, d, ev, f)
    BY <1>2, <2>5 DEF Shows, name
  <2> QED BY <2>5, <2>6 DEF d
<1>3. CASE ev.type = "tool_call_start"
  <2>1. ev.val \in ToolIDs /\ ev.index \in ToolIndices
        /\ d = EncodeToolCallStart(e, ev.index, ev.val)
    BY <1>3, DecodedIsEvent DEF Encode
  <2> HIDE DEF d
  <2> DEFINE f == Frame("block_start", d.blockIdx, "tool_use", ev.val)
  <2>2. /\ Good(d) /\ d.toolCallBlocks[ev.index] = d.blockIdx
        /\ \A t \in DOMAIN e.toolCallBlocks :
             t # ev.index => d.toolCallBlocks[t] = e.toolCallBlocks[t]
        /\ CarriedBy(e.out, d.out, f)
    BY <2>1, EncodeToolCallStartGood
  <2>3. /\ f.kind = "block_start" /\ f.block = "tool_use" /\ f.index = d.blockIdx
        /\ f.val = ev.val
    BY DEF Frame
  <2> HIDE DEF f
  <2>4. PICK m \in Seq(FrameSet) : Grew(e.out, m, Plain) /\ d.out = Append(m, f) /\ f \in FrameSet
    BY <2>2 DEF CarriedBy
  <2> DEFINE n == Len(m)
  <2>5. n \in Nat /\ Len(d.out) = n + 1 /\ d.out[n + 1] = f /\ \A j \in 1..n : d.out[j] = m[j]
    BY <2>4, AppendFacts
  <2>6. FitsIn(d.out, n + 1)
    BY <2>2, <2>4, <2>5 DEF Good, Tracks
  <2>7. \A j \in 1..n : IsStart(d.out[j]) => d.out[j].index < f.index
    <3>1. (n + 1) - 1 = n
      BY <2>5
    <3> HIDE DEF n
    <3>2. StartsNext(d.out, n + 1)
      BY <2>3, <2>5, <2>6 DEF FitsIn
    <3> QED BY <2>5, <3>1, <3>2 DEF StartsNext, IsStart
  <2>8. \A j \in DOMAIN e.out : j \in 1..n /\ m[j] = e.out[j]
    <3>1. e.out \in Seq(FrameSet) /\ Len(e.out) <= n /\ \A j \in 1..Len(e.out) : m[j] = e.out[j]
      BY <2>4 DEF Grew, Good, Encoder
    <3> HIDE DEF n
    <3> QED BY <2>5, <3>1
  <2> HIDE DEF n
  <2>9. \A j \in DOMAIN e.out : IsStart(e.out[j]) => e.out[j].index < f.index
    BY <2>5, <2>7, <2>8
  <2>10. Shows(e, d, ev, f) /\ Added(e.out, d.out, f)
    BY <1>3, <2>2, <2>3, <2>9, CarriedByAdds DEF Shows
  <2> QED BY <2>4, <2>10 DEF d
<1>4. CASE ev.type = "tool_call_delta"
  <2>1. ev.val \in Pieces /\ ev.index \in ToolIndices
        /\ d = EncodeToolCallDelta(e, ev.index, ev.val)
    BY <1>4, DecodedIsEvent DEF Encode
  <2> HIDE DEF d
  <2>2. CASE ev.index \in DOMAIN e.toolCallBlocks
    <3> DEFINE f == Frame("delta", e.toolCallBlocks[ev.index], "input_json", ev.val)
    <3>1. CarriedBy(e.out, d.out, f)
      BY <2>1, <2>2, EncodeToolCallDeltaGood
    <3>2. /\ f.kind = "delta" /\ f.block = "input_json" /\ f.val = ev.val
          /\ f.index = e.toolCallBlocks[ev.index]
      BY DEF Frame
    <3> HIDE DEF f
    <3>3. f \in FrameSet /\ Added(e.out, d.out, f)
      BY <3>1, CarriedByAdds DEF CarriedBy
    <3>4. Shows(e, d, ev, f)
      BY <1>4, <3>2 DEF Shows, DeltaOf
    <3> QED BY <3>3, <3>4 DEF d
  <2>3. CASE ev.index \notin DOMAIN e.toolCallBlocks
    <3>1. Carried(e.out, d.out, ev.val, "input_json")
      BY <2>1, EncodeToolCallDeltaGood
    <3>2. PICK f \in FrameSet : /\ Added(e.out, d.out, f)
                                /\ f.val = ev.val /\ f.kind = "delta" /\ f.block = "input_json"
      BY <3>1, CarriedAdds
    <3>3. Shows(e, d, ev, f)
      BY <1>4, <2>3, <3>2 DEF Shows, DeltaOf
    <3> QED BY <3>2, <3>3 DEF d
  <2> QED BY <2>2, <2>3
<1>5. ev.type \in {"text_delta", "thinking_delta", "thinking_signature", "tool_call_start",
                   "tool_call_delta"}
  BY DecodedIsEvent DEF EventTypes, Payload
<1> HIDE DEF d
<1> QED BY <1>1, <1>2, <1>3, <1>4, <1>5 DEF d

\* What a turn of the loop adds to the frames.
LEMMA TurnAdds ==
  ASSUME TypeInv, EncoderInv, EncodeEvent
  PROVE  LET ev == Head(pending)
         IN  /\ out \in Seq(FrameSet)
             /\ ~Payload(ev) => Grew(out, out', Quiet)
             /\ Payload(ev) => \E f \in FrameSet :
                  /\ Added(out, out', f)
                  /\ f.val = ev.val
                  /\ ev.type \in {"text_delta", "thinking_delta", "thinking_signature"} =>
                       f.kind = "delta" /\ f.block = DeltaOf(ev.type)
                  /\ ev.type \in {"tool_call_start", "tool_call_delta"} =>
                       Shows(enc, enc', ev, f)
<1> DEFINE ev == Head(pending)
<1>1. /\ Good(enc) /\ Good(Before) /\ ev \in DecodedEvent /\ enc' = Encode(Before, ev)
  BY TurnOfLoop DEF Encoded
<1>2. ev.type # "text_delta" => Before = enc
  BY DEF Before, Injects
<1>3. out \in Seq(FrameSet) /\ out = enc.out /\ out' = enc'.out /\ Before.out \in Seq(FrameSet)
  BY <1>1 DEF out, Good, Encoder
<1>4. Grew(out, Before.out, Quiet)
  <2>1. Injects => Searched(enc.out, Before.out, results)
    BY <1>1, BeforeGood DEF TypeInv
  <2>2. ~Injects => Before = enc
    BY DEF Before
  <2>3. CASE Injects
    BY <1>3, <2>1, <2>3, SearchedQuiet
  <2>4. CASE ~Injects
    BY <1>3, <2>2, <2>4, GrewNothing
  <2> QED BY <2>3, <2>4
<1> HIDE DEF ev
<1>5. ASSUME ~Payload(ev) PROVE Grew(out, out', Quiet)
  <2>1. Grew(Before.out, out', Plain) /\ out' \in Seq(FrameSet)
    BY <1>1, <1>3, <1>5, EncodeGood DEF Grew
  <2>2. Grew(Before.out, out', Quiet)
    BY <2>1, PlainQuiet
  <2> QED BY <1>3, <1>4, <2>1, <2>2, GrewTwice
<1>6. ASSUME Payload(ev)
      PROVE  \E f \in FrameSet :
                  /\ Added(out, out', f)
                  /\ f.val = ev.val
                  /\ ev.type \in {"text_delta", "thinking_delta", "thinking_signature"} =>
                       f.kind = "delta" /\ f.block = DeltaOf(ev.type)
                  /\ ev.type \in {"tool_call_start", "tool_call_delta"} =>
                       Shows(enc, enc', ev, f)
  <2>1. PICK f \in FrameSet : Added(Before.out, out', f) /\ Shows(Before, enc', ev, f)
    BY <1>1, <1>3, <1>6, EncodeAdds
  <2>2. PICK m \in Seq(FrameSet) : Grew(Before.out, m, Quiet) /\ out' = Append(m, f)
    BY <2>1 DEF Added
  <2>3. Grew(out, m, Quiet)
    BY <1>3, <1>4, <2>2, GrewTwice
  <2>4. Added(out, out', f)
    BY <2>2, <2>3 DEF Added
  <2>5. ev.type \in {"tool_call_start", "tool_call_delta"} => Shows(enc, enc', ev, f)
    BY <1>2, <2>1
  <2>6. /\ f.val = ev.val
        /\ ev.type \in {"text_delta", "thinking_delta", "thinking_signature"} =>
             f.kind = "delta" /\ f.block = DeltaOf(ev.type)
    BY <2>1 DEF Shows
  <2> QED BY <2>4, <2>5, <2>6
<1> QED BY <1>3, <1>5, <1>6 DEF ev

(* --------------------- what the aggregate collects --------------------- *)

\* The aggregate of decoded events is one.
LEMMA AggregatedType == \A r \in Seq(DecodedEvent) : Aggregated(r) \in AggregateState
<1> DEFINE T == {r \in Seq(DecodedEvent) : Aggregated(r) \in AggregateState}
<1>1. <<>> \in T
  <2>1. NewAggregate \in AggregateState
    <3>1. <<>> \in Seq(Pieces) /\ <<>> \in Seq(Calls)
      OBVIOUS
    <3> QED BY <3>1 DEF NewAggregate, AggregateState
  <2> QED BY <2>1, AggregatedNone
<1>2. \A r \in Seq(DecodedEvent) : r \in T => \A ev \in DecodedEvent : Append(r, ev) \in T
  <2> SUFFICES ASSUME NEW r \in Seq(DecodedEvent), r \in T, NEW ev \in DecodedEvent
               PROVE  Append(r, ev) \in T
    OBVIOUS
  <2>1. Aggregated(Append(r, ev)) = Apply(Aggregated(r), ev)
    BY AggregatedAppend
  <2>2. Apply(Aggregated(r), ev) \in AggregateState
    BY ApplyType
  <2>3. Append(r, ev) \in Seq(DecodedEvent)
    OBVIOUS
  <2> QED BY <2>1, <2>2, <2>3
<1>3. Seq(DecodedEvent) \subseteq T
  <2> HIDE DEF T
  <2> QED BY <1>1, <1>2, SeqInduction
<1> QED BY <1>3

\* What one event changes of the aggregate.
LEMMA ApplyFields ==
  ASSUME NEW s \in AggregateState, NEW ev \in DecodedEvent
  PROVE  LET a == Apply(s, ev)
         IN  /\ a.text = IF ev.type = "text_delta" THEN Append(s.text, ev.val) ELSE s.text
             /\ a.thinking = IF ev.type = "thinking_delta" THEN Append(s.thinking, ev.val)
                             ELSE s.thinking
             /\ a.stopReason = IF ev.type = "message_stop" THEN ev.val ELSE s.stopReason
             /\ a.usage = IF ev.type = "usage_final" THEN MergeUsage(s.usage, ev.val)
                          ELSE s.usage
             /\ ev.type = "tool_call_start" =>
                  a.toolCalls = Append(s.toolCalls, [index |-> ev.index, id |-> ev.val,
                                                     args |-> <<>>])
             /\ ev.type = "tool_call_delta" =>
                  a.toolCalls = ExtendCall(s, ev.index, ev.val).toolCalls
             /\ ev.type \notin {"tool_call_start", "tool_call_delta"} =>
                  a.toolCalls = s.toolCalls
<1> DEFINE a == Apply(s, ev)
<1>1. CASE ev.type = "tool_call_delta"
  <2>1. a = ExtendCall(s, ev.index, ev.val)
    BY <1>1 DEF Apply
  <2>2. ev.index \in ToolIndices /\ ev.val \in Pieces
    BY <1>1, DecodedIsEvent
  <2> HIDE DEF a
  <2>3. \/ a = s
        \/ \E n \in DOMAIN s.toolCalls : a = Extended(s, n, ev.val)
    BY <2>1, <2>2, ExtendCallFields
  <2>4. a.text = s.text /\ a.thinking = s.thinking /\ a.stopReason = s.stopReason
        /\ a.usage = s.usage
    BY <2>2, <2>3, ExtendedType
  <2> QED BY <1>1, <2>1, <2>4 DEF a
<1>2. CASE ev.type = "tool_call_start"
  <2>1. a = StartCall(s, ev.index, ev.val)
    BY <1>2 DEF Apply
  <2> QED BY <1>2, <2>1 DEF StartCall, AggregateState
<1>3. CASE ev.type = "text_delta"
  BY <1>3 DEF Apply, AggregateState
<1>4. CASE ev.type = "thinking_delta"
  BY <1>4 DEF Apply, AggregateState
<1>5. CASE ev.type = "thinking_signature"
  BY <1>5 DEF Apply, AggregateState
<1>6. CASE ev.type = "message_stop"
  BY <1>6 DEF Apply, AggregateState
<1>7. CASE ev.type = "usage_final"
  BY <1>7 DEF Apply, AggregateState
<1>8. ev.type \in EventTypes
  BY DecodedIsEvent
<1> HIDE DEF a
<1> QED BY <1>1, <1>2, <1>3, <1>4, <1>5, <1>6, <1>7, <1>8 DEF EventTypes, a

(* --------------------- both tell the same of calls --------------------- *)

\* The calls of the stream are these: started in their order, each in a block of
\* its own, with the arguments that the deltas of this block carry.
MirrorsCalls(s, calls) ==
  LET starts == Those(CallFrames, s)
  IN  /\ Len(starts) = Len(calls)
      /\ \A k \in 1..Len(calls) :
           /\ calls[k].index = k - 1 /\ starts[k].val = calls[k].id
           /\ Vals(Those(ArgFrames(starts[k].index), s)) = calls[k].args
      /\ \A j, k \in 1..Len(calls) : starts[j].index = starts[k].index => j = k
      /\ \A i \in Nat : (\A k \in 1..Len(calls) : starts[k].index # i) =>
           Those(ArgFrames(i), s) = <<>>

\* No call starts and none gets arguments from s to t.
SameCalls(s, t) ==
  /\ Those(CallFrames, t) = Those(CallFrames, s)
  /\ \A i : Those(ArgFrames(i), t) = Those(ArgFrames(i), s)

\* Quiet frames, and deltas of text, reasoning and signatures, are of no call.
LEMMA SameCallsQuiet ==
  ASSUME NEW s \in Seq(FrameSet), NEW t, Grew(s, t, Quiet)
  PROVE  SameCalls(s, t)
<1>1. t \in Seq(FrameSet)
  BY DEF Grew
<1>2. Those(CallFrames, t) = Those(CallFrames, s)
  BY <1>1, KindsApart, ThoseGrew
<1>3. ASSUME NEW i PROVE Those(ArgFrames(i), t) = Those(ArgFrames(i), s)
  BY <1>1, KindsApart, ThoseGrew
<1> QED BY <1>2, <1>3 DEF SameCalls

LEMMA SameCallsAdded ==
  ASSUME NEW s \in Seq(FrameSet), NEW t, NEW f \in FrameSet, Added(s, t, f),
         f.kind = "delta", f.block # "input_json"
  PROVE  SameCalls(s, t)
<1>1. f \notin CallFrames /\ \A i : f \notin ArgFrames(i)
  BY DEF CallFrames, ArgFrames
<1>2. Those(CallFrames, t) = Those(CallFrames, s)
  BY <1>1, KindsApart, AddedOut
<1>3. ASSUME NEW i PROVE Those(ArgFrames(i), t) = Those(ArgFrames(i), s)
  BY <1>1, KindsApart, AddedOut
<1> QED BY <1>2, <1>3 DEF SameCalls

LEMMA MirrorsSame ==
  ASSUME NEW s, NEW t, NEW calls, SameCalls(s, t), MirrorsCalls(s, calls)
  PROVE  MirrorsCalls(t, calls)
BY DEF SameCalls, MirrorsCalls

\* The start of a call is a call more on both sides.
LEMMA MirrorsStart ==
  ASSUME NEW s \in Seq(FrameSet), NEW t, NEW f \in FrameSet, Added(s, t, f),
         NEW calls \in Seq(Calls), MirrorsCalls(s, calls), NEW id \in ToolIDs,
         f.kind = "block_start", f.block = "tool_use", f.val = id,
         Len(calls) \in ToolIndices,
         \A j \in DOMAIN s : IsStart(s[j]) => s[j].index < f.index
  PROVE  /\ MirrorsCalls(t, Append(calls, [index |-> Len(calls), id |-> id, args |-> <<>>]))
         /\ Those(CallFrames, t) = Append(Those(CallFrames, s), f)
         /\ Those(CallFrames, s) \in Seq(FrameSet)
<1> DEFINE n == Len(calls)
           c == [index |-> Len(calls), id |-> id, args |-> <<>>]
           more == Append(calls, c)
           x == Those(CallFrames, s)
           y == Those(CallFrames, t)
           A(i) == Those(ArgFrames(i), s)
           B(i) == Those(ArgFrames(i), t)
<1>1. f \in FrameSet /\ f.index \in Nat /\ t \in Seq(FrameSet)
  BY AddedType DEF FrameSet
<1>2. y = Append(x, f) /\ x \in Seq(FrameSet)
  <2>1. f \in CallFrames
    BY <1>1 DEF CallFrames
  <2> DEFINE K == CallFrames
  <2>2. f \in K /\ K \cap Quiet = {}
    BY <2>1, KindsApart
  <2> HIDE DEF K
  <2>3. Those(K, s) \in Seq(FrameSet)
    BY <1>1, <2>2, AddedIn
  <2>4. Those(K, t) = Behind(Those(K, s), f)
    BY <1>1, <2>2, AddedIn
  <2> QED BY <2>3, <2>4 DEF K, Behind
<1>3. \A i : B(i) = A(i)
  <2>1. \A i : f \notin ArgFrames(i)
    BY DEF ArgFrames
  <2>2. ASSUME NEW i PROVE B(i) = A(i)
    BY <2>1, KindsApart, AddedOut
  <2> QED BY <2>2
<1>4. \A k \in DOMAIN x : x[k].index < f.index
  <2>1. \A k \in DOMAIN x : x[k] \in CallFrames /\ \E i \in DOMAIN s : x[k] = s[i]
    BY ThoseType
  <2> HIDE DEF x
  <2> QED BY <2>1 DEF CallFrames, IsStart
<1>5. /\ n \in Nat /\ Len(x) = n
      /\ \A k \in 1..n : /\ calls[k].index = k - 1 /\ x[k].val = calls[k].id
                         /\ Vals(A(x[k].index)) = calls[k].args
      /\ \A j, k \in 1..n : x[j].index = x[k].index => j = k
      /\ \A i \in Nat : (\A k \in 1..n : x[k].index # i) => A(i) = <<>>
  BY DEF MirrorsCalls
<1>6. c \in Calls /\ c.index = n /\ c.id = id /\ c.args = <<>>
  <2>1. <<>> \in Seq(Pieces)
    OBVIOUS
  <2> QED BY <2>1 DEF Calls
<1> HIDE DEF c
<1>7. Len(more) = n + 1 /\ more[n + 1] = c /\ \A k \in 1..n : more[k] = calls[k]
  BY <1>6
<1> HIDE DEF more, x, y, A, B
<1>8. Len(y) = n + 1 /\ y[n + 1] = f /\ \A k \in 1..n : y[k] = x[k]
  BY <1>1, <1>2, <1>5
<1>9. \A k \in 1..n : x[k].index < f.index /\ x[k].index \in Nat
  <2>1. DOMAIN x = 1..n /\ \A k \in DOMAIN x : x[k] \in FrameSet
    BY <1>2, <1>5
  <2> HIDE DEF n
  <2> QED BY <2>1, <1>4 DEF FrameSet
<1> HIDE DEF n
<1>10. \A k \in 1..(n + 1) : k \in 1..n \/ k = n + 1
  BY <1>5
<1>11. A(f.index) = <<>>
  BY <1>1, <1>5, <1>9
<1>12. ASSUME NEW k \in 1..(n + 1)
       PROVE  /\ more[k].index = k - 1 /\ y[k].val = more[k].id
              /\ Vals(B(y[k].index)) = more[k].args
  <2>1. CASE k \in 1..n
    BY <2>1, <1>3, <1>5, <1>7, <1>8
  <2>2. CASE k = n + 1
    <3>1. (n + 1) - 1 = n
      BY <1>5
    <3> QED BY <2>2, <3>1, <1>3, <1>6, <1>7, <1>8, <1>11, ValsNone
  <2> QED BY <1>10, <2>1, <2>2
<1>13. ASSUME NEW j \in 1..(n + 1), NEW k \in 1..(n + 1), y[j].index = y[k].index
       PROVE  j = k
  BY <1>1, <1>5, <1>8, <1>9, <1>10, <1>13
<1>14. ASSUME NEW i \in Nat, \A k \in 1..(n + 1) : y[k].index # i
       PROVE  B(i) = <<>>
  <2>1. \A k \in 1..n : k \in 1..(n + 1) /\ x[k].index # i
    BY <1>5, <1>8, <1>14
  <2> QED BY <2>1, <1>3, <1>5
<1>15. MirrorsCalls(t, more)
  BY <1>7, <1>8, <1>12, <1>13, <1>14 DEF MirrorsCalls, y, B
<1> QED BY <1>2, <1>15 DEF more, x, y, c, n

\* A delta of a call adds to the arguments of the same call on both sides.
LEMMA MirrorsDelta ==
  ASSUME NEW s \in Seq(FrameSet), NEW t, NEW f \in FrameSet, Added(s, t, f),
         NEW a \in AggregateState, MirrorsCalls(s, a.toolCalls), NEW v \in Pieces,
         NEW index \in ToolIndices, index = Len(a.toolCalls) - 1,
         f.kind = "delta", f.block = "input_json", f.val = v,
         f.index = Those(CallFrames, s)[Len(a.toolCalls)].index
  PROVE  /\ MirrorsCalls(t, ExtendCall(a, index, v).toolCalls)
         /\ Len(ExtendCall(a, index, v).toolCalls) = Len(a.toolCalls)
         /\ Those(CallFrames, t) = Those(CallFrames, s)
<1> DEFINE calls == a.toolCalls
           n == Len(calls)
           b == ExtendCall(a, index, v)
           more == b.toolCalls
           x == Those(CallFrames, s)
           y == Those(CallFrames, t)
           A(i) == Those(ArgFrames(i), s)
           B(i) == Those(ArgFrames(i), t)
<1>1. f \in FrameSet /\ f.index \in Nat /\ t \in Seq(FrameSet)
  BY AddedType DEF FrameSet
<1>2. y = x
  <2>1. f \notin CallFrames
    BY DEF CallFrames
  <2> QED BY <2>1, KindsApart, AddedOut
<1>3. ASSUME NEW i, i # f.index PROVE B(i) = A(i)
  <2>1. f \notin ArgFrames(i)
    BY <1>3 DEF ArgFrames
  <2> QED BY <2>1, KindsApart, AddedOut
<1>4. Vals(B(f.index)) = Append(Vals(A(f.index)), v)
  <2>1. f \in ArgFrames(f.index)
    BY <1>1 DEF ArgFrames
  <2> DEFINE K == ArgFrames(f.index)
  <2>2. f \in K /\ K \cap Quiet = {}
    BY <2>1, KindsApart
  <2> HIDE DEF K
  <2>3. Vals(Those(K, t)) = Behind(Vals(Those(K, s)), f.val)
    BY <1>1, <2>2, AddedVal
  <2> QED BY <2>3 DEF K, Behind
<1>5. /\ calls \in Seq(Calls) /\ n \in Nat /\ Len(x) = n
      /\ \A k \in 1..n : /\ calls[k].index = k - 1 /\ x[k].val = calls[k].id
                         /\ Vals(A(x[k].index)) = calls[k].args
      /\ \A j, k \in 1..n : x[j].index = x[k].index => j = k
      /\ \A i \in Nat : (\A k \in 1..n : x[k].index # i) => A(i) = <<>>
  BY DEF MirrorsCalls, AggregateState
<1> HIDE DEF x, y, A, B
<1>6. index \in Nat /\ index = n - 1 /\ n \in 1..n /\ DOMAIN calls = 1..n
  BY <1>5, EventsAssumption
<1>7. /\ Len(more) = n
      /\ \A k \in 1..n : /\ more[k].index = calls[k].index /\ more[k].id = calls[k].id
                         /\ more[k].args = IF k = n THEN Append(calls[k].args, v)
                                           ELSE calls[k].args
  <2>1. calls[n].index = index
    BY <1>5, <1>6
  <2>2. \/ b = a /\ \A i \in DOMAIN calls : calls[i].index # index
        \/ \E m \in DOMAIN calls : calls[m].index = index /\ b = Extended(a, m, v)
    BY ExtendCallFields
  <2> HIDE DEF b, calls, n
  <2>3. PICK m \in DOMAIN calls : calls[m].index = index /\ b = Extended(a, m, v)
    BY <1>6, <2>1, <2>2
  <2>4. m = n
    BY <1>5, <1>6, <2>3
  <2>5. b = Extended(a, n, v) /\ n \in DOMAIN a.toolCalls
    BY <1>6, <2>3, <2>4 DEF calls
  <2>6. /\ Len(more) = Len(calls)
        /\ \A k \in DOMAIN calls :
             /\ more[k].index = calls[k].index /\ more[k].id = calls[k].id
             /\ more[k].args = IF k = n THEN Append(calls[k].args, v) ELSE calls[k].args
    BY <2>5, ExtendedType DEF calls
  <2> QED BY <1>6, <2>6 DEF n
<1> HIDE DEF more, b, calls, n
<1>8. f.index = x[n].index
  BY DEF x, n, calls
<1>9. ASSUME NEW k \in 1..n
      PROVE  /\ more[k].index = k - 1 /\ y[k].val = more[k].id
             /\ Vals(B(y[k].index)) = more[k].args
  <2>1. CASE k = n
    BY <2>1, <1>2, <1>4, <1>5, <1>7, <1>8
  <2>2. CASE k # n
    <3>1. x[k].index # f.index
      BY <2>2, <1>5, <1>6, <1>8
    <3>2. B(x[k].index) = A(x[k].index)
      BY <3>1, <1>3
    <3> QED BY <2>2, <3>2, <1>2, <1>5, <1>7
  <2> QED BY <2>1, <2>2
<1>10. ASSUME NEW i \in Nat, \A k \in 1..n : y[k].index # i
       PROVE  B(i) = <<>>
  <2>1. i # f.index
    BY <1>2, <1>6, <1>8, <1>10
  <2>2. B(i) = A(i)
    BY <2>1, <1>3
  <2> QED BY <2>2, <1>2, <1>5, <1>10
<1>11. MirrorsCalls(t, more)
  BY <1>2, <1>5, <1>7, <1>9, <1>10 DEF MirrorsCalls, y, B
<1> QED BY <1>2, <1>7, <1>11 DEF more, b, x, y, n, calls

(* --------------------- a stream and a whole response ------------------- *)

\* The pieces of text and of reasoning are these.
MirrorsPieces(s, a) ==
  /\ Vals(Those(DeltaFrames("text"), s)) = a.text
  /\ Vals(Those(DeltaFrames("thinking"), s)) = a.thinking

\* What the aggregate has collected of the events decoded so far.
Collects == Aggregated(received)

\* Every call the aggregate has is in the block to which the encoder has mapped it.
CallsPlaced ==
  /\ Len(Collects.toolCalls) = Started
  /\ \A k \in 1..Started : Those(CallFrames, out)[k].index = enc.toolCallBlocks[k - 1]

\* It has the usage the handler records and the finish reason of the upstream.
EndCollected ==
  /\ Collects.usage = usageResult
  /\ \A i \in DOMAIN received :
       received[i].type = "message_stop" => Collects.stopReason = received[i].val

\* The frames tell what the aggregate of the same events has collected.
MirrorInv ==
  /\ MirrorsPieces(out, Collects)
  /\ upstream.conforming =>
       /\ MirrorsCalls(out, Collects.toolCalls)
       /\ EndCollected
       /\ status = "ended" => Has(received, "message_stop")
       /\ status # "ended" => CallsPlaced

\* Quiet frames carry no pieces; a delta carries its own.
LEMMA PiecesQuiet ==
  ASSUME NEW s \in Seq(FrameSet), NEW t, Grew(s, t, Quiet), NEW a, MirrorsPieces(s, a)
  PROVE  MirrorsPieces(t, a)
<1>1. t \in Seq(FrameSet)
  BY DEF Grew
<1>2. Those(DeltaFrames("text"), t) = Those(DeltaFrames("text"), s)
  BY <1>1, KindsApart, ThoseGrew
<1>3. Those(DeltaFrames("thinking"), t) = Those(DeltaFrames("thinking"), s)
  BY <1>1, KindsApart, ThoseGrew
<1> QED BY <1>2, <1>3 DEF MirrorsPieces

LEMMA PiecesAdded ==
  ASSUME NEW s \in Seq(FrameSet), NEW t, NEW f \in FrameSet, Added(s, t, f),
         NEW block \in {"text", "thinking"}
  PROVE  Vals(Those(DeltaFrames(block), t))
           = IF f.kind = "delta" /\ f.block = block
             THEN Behind(Vals(Those(DeltaFrames(block), s)), f.val)
             ELSE Vals(Those(DeltaFrames(block), s))
<1> DEFINE K == DeltaFrames(block)
<1>1. K \cap Quiet = {} /\ t \in Seq(FrameSet)
  BY KindsApart, AddedType
<1>2. f \in K <=> f.kind = "delta" /\ f.block = block
  BY DEF DeltaFrames
<1> HIDE DEF K
<1>3. f \in K => Vals(Those(K, t)) = Behind(Vals(Those(K, s)), f.val)
  BY <1>1, AddedVal
<1>4. f \notin K => Those(K, t) = Those(K, s)
  BY <1>1, AddedOut
<1> QED BY <1>2, <1>3, <1>4 DEF K

\* A turn keeps the pieces the same.
LEMMA PiecesTurn ==
  ASSUME TypeInv, EncoderInv, EncodeEvent, MirrorsPieces(out, Collects)
  PROVE  MirrorsPieces(out', Collects')
<1> DEFINE ev == Head(pending)
           a == Collects
           b == Collects'
<1>1. ev \in DecodedEvent /\ received \in Seq(DecodedEvent) /\ received' = Append(received, ev)
  BY TurnOfLoop
<1>2. out \in Seq(FrameSet)
  BY TurnAdds
<1>3. a \in AggregateState /\ b = Apply(a, ev)
  <2>1. Aggregated(received') = Apply(Aggregated(received), ev)
    BY <1>1, AggregatedAppend
  <2>2. Aggregated(received) \in AggregateState
    BY <1>1, AggregatedType
  <2> QED BY <2>1, <2>2 DEF Collects
<1>4. /\ ~Payload(ev) => Grew(out, out', Quiet)
      /\ Payload(ev) => \E f \in FrameSet :
           /\ Added(out, out', f)
           /\ f.val = ev.val
           /\ ev.type \in {"text_delta", "thinking_delta", "thinking_signature"} =>
                f.kind = "delta" /\ f.block = DeltaOf(ev.type)
           /\ ev.type \in {"tool_call_start", "tool_call_delta"} =>
                Shows(enc, enc', ev, f)
  BY TurnAdds
<1>5. ev.type \in EventTypes
  BY <1>1, DecodedIsEvent
<1> HIDE DEF ev, a, b
<1>6. /\ b.text = IF ev.type = "text_delta" THEN Behind(a.text, ev.val) ELSE a.text
      /\ b.thinking = IF ev.type = "thinking_delta" THEN Behind(a.thinking, ev.val)
                      ELSE a.thinking
  BY <1>1, <1>3, ApplyFields DEF Behind
<1>7. MirrorsPieces(out, a)
  BY DEF a
<1>8. CASE ~Payload(ev)
  <2>1. MirrorsPieces(out', a)
    BY <1>2, <1>4, <1>7, <1>8, PiecesQuiet
  <2> QED BY <1>6, <1>8, <2>1 DEF MirrorsPieces, Payload, b
<1>9. CASE Payload(ev)
  <2>1. PICK f \in FrameSet :
           /\ Added(out, out', f)
           /\ f.val = ev.val
           /\ ev.type \in {"text_delta", "thinking_delta", "thinking_signature"} =>
                f.kind = "delta" /\ f.block = DeltaOf(ev.type)
           /\ ev.type \in {"tool_call_start", "tool_call_delta"} =>
                Shows(enc, enc', ev, f)
    BY <1>4, <1>9
  <2>2. /\ f.kind = "delta" /\ f.block = "text" <=> ev.type = "text_delta"
        /\ f.kind = "delta" /\ f.block = "thinking" <=> ev.type = "thinking_delta"
    <3>1. CASE ev.type = "text_delta"
      BY <2>1, <3>1 DEF DeltaOf
    <3>2. CASE ev.type = "thinking_delta"
      BY <2>1, <3>2 DEF DeltaOf
    <3>3. CASE ev.type = "thinking_signature"
      BY <2>1, <3>3 DEF DeltaOf
    <3>4. CASE ev.type = "tool_call_start"
      BY <2>1, <3>4 DEF Shows
    <3>5. CASE ev.type = "tool_call_delta"
      BY <2>1, <3>5 DEF Shows, DeltaOf
    <3> QED BY <1>5, <1>9, <3>1, <3>2, <3>3, <3>4, <3>5 DEF EventTypes, Payload
  <2>3. Vals(Those(DeltaFrames("text"), out'))
          = IF ev.type = "text_delta" THEN Behind(a.text, ev.val) ELSE a.text
    BY <1>2, <1>7, <2>1, <2>2, PiecesAdded DEF MirrorsPieces
  <2>4. Vals(Those(DeltaFrames("thinking"), out'))
          = IF ev.type = "thinking_delta" THEN Behind(a.thinking, ev.val) ELSE a.thinking
    BY <1>2, <1>7, <2>1, <2>2, PiecesAdded DEF MirrorsPieces
  <2> QED BY <1>6, <2>3, <2>4 DEF MirrorsPieces, b
<1> QED BY <1>8, <1>9

\* A turn keeps the calls and the end the same, too.
LEMMA CallsMirrored ==
  ASSUME CoreInv, ConformingInv, MirrorInv, upstream.conforming, EncodeEvent
  PROVE  MirrorsCalls(out', Collects'.toolCalls) /\ CallsPlaced'
<1> DEFINE ev == Head(pending)
           a == Collects
           b == Collects'
           n == Started
           x == Those(CallFrames, out)
           y == Those(CallFrames, out')
<1> USE DEF CoreInv
<1>1. /\ ev \in DecodedEvent /\ received \in Seq(DecodedEvent)
      /\ received' = Append(received, ev) /\ enc' = Encoded /\ status = "reading"
  BY TurnOfLoop
<1>2. out \in Seq(FrameSet)
  BY TurnAdds
<1>3. a \in AggregateState /\ b = Apply(a, ev)
  <2>1. Aggregated(received') = Apply(Aggregated(received), ev)
    BY <1>1, AggregatedAppend
  <2>2. Aggregated(received) \in AggregateState
    BY <1>1, AggregatedType
  <2> QED BY <2>1, <2>2 DEF Collects
<1>4. Conforms
  BY <1>1 DEF ConformingInv
<1>5. /\ MirrorsCalls(out, a.toolCalls) /\ Len(a.toolCalls) = n
      /\ \A k \in 1..n : x[k].index = enc.toolCallBlocks[k - 1]
  BY <1>1 DEF MirrorInv, CallsPlaced
<1>6. n \in Nat /\ DOMAIN enc.toolCallBlocks = 0..(n - 1)
  BY <1>4 DEF Conforms, CallsInTurn
<1>7. /\ n' = IF ev.type = "tool_call_start" THEN n + 1 ELSE n
      /\ Turn(ev) \in {4, 5} => ev.index = upstream.tools - 1
                /\ n = IF ev.type = "tool_call_start" THEN upstream.tools - 1
                       ELSE upstream.tools
  BY <1>4, TurnConforms
<1>8. ev.type \in EventTypes /\ upstream.tools \in Nat
  BY <1>1, DecodedIsEvent DEF TypeInv
<1>9. CallsPlaced' = (/\ Len(b.toolCalls) = n'
                      /\ \A k \in 1..n' : y[k].index = enc'.toolCallBlocks[k - 1])
  BY DEF CallsPlaced
<1>10. /\ ~Payload(ev) => Grew(out, out', Quiet)
       /\ Payload(ev) => \E f \in FrameSet :
            /\ Added(out, out', f)
            /\ f.val = ev.val
            /\ ev.type \in {"text_delta", "thinking_delta", "thinking_signature"} =>
                 f.kind = "delta" /\ f.block = DeltaOf(ev.type)
            /\ ev.type \in {"tool_call_start", "tool_call_delta"} =>
                 Shows(enc, enc', ev, f)
  BY TurnAdds
<1>11. out = enc.out
  BY DEF out
<1> HIDE DEF ev, a, b, n
<1>12. CASE ev.type \notin {"tool_call_start", "tool_call_delta"}
  <2>1. b.toolCalls = a.toolCalls /\ n' = n
    BY <1>1, <1>3, <1>7, <1>12, ApplyFields
  <2>2. enc'.toolCallBlocks = enc.toolCallBlocks
    <3>1. /\ Turn(ev) \in 1..3 => Encoded.toolCallBlocks = enc.toolCallBlocks
          /\ ev.type = "message_stop" => Encoded.toolCallBlocks = enc.toolCallBlocks
          /\ ev.type = "usage_final" => SameBlocks(enc, Encoded)
      BY EncodedTells DEF ev
    <3>2. Turn(ev) \in 1..3 \/ ev.type = "message_stop" \/ ev.type = "usage_final"
      BY <1>8, <1>12, TurnType DEF EventTypes
    <3> QED BY <1>1, <3>1, <3>2 DEF SameBlocks
  <2>3. SameCalls(out, out')
    <3>1. CASE ~Payload(ev)
      BY <1>2, <1>10, <3>1, SameCallsQuiet
    <3>2. CASE Payload(ev)
      <4>1. PICK f \in FrameSet : /\ Added(out, out', f)
                                  /\ f.kind = "delta" /\ f.block = DeltaOf(ev.type)
        BY <1>8, <1>10, <1>12, <3>2 DEF EventTypes, Payload
      <4>2. f.block # "input_json"
        <5>1. ev.type \in {"text_delta", "thinking_delta", "thinking_signature"}
          BY <1>8, <1>12, <3>2 DEF EventTypes, Payload
        <5> QED BY <4>1, <5>1 DEF DeltaOf
      <4> QED BY <1>2, <4>1, <4>2, SameCallsAdded
    <3> QED BY <3>1, <3>2
  <2>4. MirrorsCalls(out', b.toolCalls)
    BY <1>5, <2>1, <2>3, MirrorsSame
  <2>5. y = x
    BY <2>3 DEF SameCalls
  <2> HIDE DEF x, y
  <2> QED BY <1>5, <1>9, <2>1, <2>2, <2>4, <2>5 DEF b
<1>13. CASE ev.type \in {"tool_call_start", "tool_call_delta"}
  <2>1. PICK f \in FrameSet : Added(out, out', f) /\ f.val = ev.val /\ Shows(enc, enc', ev, f)
    BY <1>10, <1>13 DEF Payload
  <2>2. /\ Turn(ev) \in {4, 5}
        /\ ev.type = "tool_call_start" => ev.val \in ToolIDs
        /\ ev.type = "tool_call_delta" => ev.val \in Pieces
        /\ ev.index \in ToolIndices
    BY <1>1, <1>8, <1>13, TurnType, DecodedIsEvent
  <2>3. CASE ev.type = "tool_call_start"
    <3>1. ev.index = n /\ n' = n + 1
      BY <1>7, <2>2, <2>3
    <3>2. b.toolCalls = Append(a.toolCalls, [index |-> Len(a.toolCalls), id |-> ev.val,
                                             args |-> <<>>])
      <4>1. b.toolCalls = Append(a.toolCalls, [index |-> ev.index, id |-> ev.val,
                                               args |-> <<>>])
        BY <1>1, <1>3, <2>3, ApplyFields
      <4> QED BY <1>5, <3>1, <4>1
    <3>3. /\ f.kind = "block_start" /\ f.block = "tool_use"
          /\ f.index = enc'.toolCallBlocks[ev.index]
          /\ \A j \in DOMAIN out : IsStart(out[j]) => out[j].index < f.index
          /\ \A t \in DOMAIN enc.toolCallBlocks :
               t # ev.index => enc'.toolCallBlocks[t] = enc.toolCallBlocks[t]
      BY <1>11, <2>1, <2>3 DEF Shows
    <3>4. Len(a.toolCalls) \in ToolIndices /\ a.toolCalls \in Seq(Calls)
      BY <1>3, <1>5, <2>2, <3>1 DEF AggregateState
    <3>5. /\ MirrorsCalls(out', Append(a.toolCalls, [index |-> Len(a.toolCalls), id |-> ev.val,
                                                     args |-> <<>>]))
          /\ y = Append(x, f)
          /\ x \in Seq(FrameSet)
      BY <1>2, <1>5, <2>1, <2>2, <2>3, <3>3, <3>4, MirrorsStart
    <3>6. Len(x) = n
      BY <1>5 DEF MirrorsCalls
    <3> DEFINE c == [index |-> Len(a.toolCalls), id |-> ev.val, args |-> <<>>]
               calls == a.toolCalls
    <3> HIDE DEF x, y, c
    <3>7. Len(y) = n + 1 /\ y[n + 1] = f /\ \A k \in 1..n : y[k] = x[k]
      BY <1>6, <3>5, <3>6
    <3>8. Len(b.toolCalls) = n + 1
      <4>1. calls \in Seq(Calls) /\ c \in Calls /\ b.toolCalls = Append(calls, c)
            /\ Len(calls) = n
        BY <1>5, <2>2, <2>3, <3>2, <3>4 DEF Calls, c
      <4> HIDE DEF calls
      <4> QED BY <4>1
    <3>9. ASSUME NEW k \in 1..(n + 1) PROVE y[k].index = enc'.toolCallBlocks[k - 1]
      <4>1. CASE k = n + 1
        <5>1. k - 1 = n
          BY <1>6, <4>1
        <5> QED BY <3>1, <3>3, <3>7, <4>1, <5>1
      <4>2. CASE k # n + 1
        <5>1. k \in 1..n /\ k - 1 \in 0..(n - 1) /\ k - 1 # n
          BY <1>6, <4>2
        <5> QED BY <1>5, <1>6, <3>1, <3>3, <3>7, <5>1
      <4> QED BY <4>1, <4>2
    <3> QED BY <1>9, <3>1, <3>2, <3>5, <3>8, <3>9 DEF b
  <2>4. CASE ev.type = "tool_call_delta"
    <3>1. ev.index = n - 1 /\ n' = n
      BY <1>7, <2>2, <2>4
    <3>2. n \in 1..n /\ ev.index \in DOMAIN enc.toolCallBlocks
      <4>1. ev.index \in Nat
        BY <2>2, EventsAssumption
      <4> QED BY <1>6, <3>1, <4>1
    <3>3. b.toolCalls = ExtendCall(a, ev.index, ev.val).toolCalls
      BY <1>1, <1>3, <2>4, ApplyFields
    <3>4. f.kind = "delta" /\ f.block = "input_json" /\ f.index = enc.toolCallBlocks[ev.index]
      BY <2>1, <2>4, <3>2 DEF Shows, DeltaOf
    <3>5. f.index = x[n].index
      BY <1>5, <3>1, <3>2, <3>4
    <3>6. /\ MirrorsCalls(out', b.toolCalls) /\ Len(b.toolCalls) = n /\ y = x
      BY <1>2, <1>3, <1>5, <2>1, <2>2, <2>4, <3>1, <3>3, <3>4, <3>5, MirrorsDelta
    <3>7. enc'.toolCallBlocks = enc.toolCallBlocks
      BY <1>1, <2>4, EncodedTells DEF SameBlocks, ev
    <3> HIDE DEF x, y
    <3> QED BY <1>5, <1>9, <3>1, <3>6, <3>7 DEF b
  <2> QED BY <1>13, <2>3, <2>4
<1> QED BY <1>12, <1>13

\* The end that the aggregate has collected is the one of the events.
LEMMA EndMirrored ==
  ASSUME CoreInv, ConformingInv, MirrorInv, upstream.conforming, EncodeEvent
  PROVE  EndCollected'
<1> DEFINE ev == Head(pending)
           a == Collects
           b == Collects'
<1> USE DEF CoreInv
<1>1. /\ ev \in DecodedEvent /\ received \in Seq(DecodedEvent) /\ status = "reading"
      /\ received' = Append(received, ev) /\ pending # <<>> /\ pending \in Seq(DecodedEvent)
      /\ usageResult' = IF ev.type = "usage_final" THEN ev.val ELSE usageResult
  BY TurnOfLoop
<1>2. a \in AggregateState /\ b = Apply(a, ev)
  <2>1. Aggregated(received') = Apply(Aggregated(received), ev)
    BY <1>1, AggregatedAppend
  <2>2. Aggregated(received) \in AggregateState
    BY <1>1, AggregatedType
  <2> QED BY <2>1, <2>2 DEF Collects
<1>3. Conforms
  BY <1>1 DEF ConformingInv
<1>4. /\ a.usage = usageResult
      /\ \A i \in DOMAIN received :
           received[i].type = "message_stop" => a.stopReason = received[i].val
  BY DEF MirrorInv, EndCollected
<1>5. /\ b.stopReason = IF ev.type = "message_stop" THEN ev.val ELSE a.stopReason
      /\ b.usage = IF ev.type = "usage_final" THEN MergeUsage(a.usage, ev.val) ELSE a.usage
  BY <1>1, <1>2, ApplyFields
<1>6. Has(pending, ev.type)
  <2>1. 1 \in DOMAIN pending /\ ev = pending[1]
    BY <1>1
  <2> QED BY <2>1 DEF Has
<1>7. b.usage = usageResult'
  <2>1. ev.type = "usage_final" => usageResult = NoUsage
    BY <1>3, <1>6 DEF Conforms, EndInTurn
  <2>2. ev.type = "usage_final" => ev.val \in Usages
    BY <1>1, DecodedIsEvent
  <2>3. ev.type = "usage_final" => MergeUsage(a.usage, ev.val) = ev.val
    BY <1>4, <2>1 DEF MergeUsage
  <2> HIDE DEF a, b, ev
  <2> QED BY <1>1, <1>4, <1>5, <2>3
<1>8. ev.type = "message_stop" => ~Has(received, "message_stop")
  BY <1>3, <1>6 DEF Conforms, EndInTurn
<1> DEFINE m == Len(received)
<1>9. /\ m \in Nat /\ DOMAIN received = 1..m /\ DOMAIN received' = 1..(m + 1)
      /\ received'[m + 1] = ev /\ \A i \in 1..m : received'[i] = received[i]
  BY <1>1
<1> HIDE DEF a, b, ev, m
<1>10. ASSUME NEW i \in DOMAIN received', received'[i].type = "message_stop"
       PROVE  b.stopReason = received'[i].val
  <2>1. CASE i = m + 1
    BY <1>5, <1>9, <1>10, <2>1
  <2>2. CASE i # m + 1
    <3>1. i \in DOMAIN received /\ received'[i] = received[i]
      BY <1>9, <2>2
    <3>2. ev.type # "message_stop"
      BY <1>8, <1>10, <3>1 DEF Has
    <3> QED BY <1>4, <1>5, <1>10, <3>1, <3>2
  <2> QED BY <2>1, <2>2
<1> QED BY <1>7, <1>10 DEF EndCollected, b

(* ----------------------- the mirror is kept ---------------------------- *)

\* Nothing is sent and nothing collected at the start.
LEMMA InitMirror == Init => MirrorInv
<1> SUFFICES ASSUME Init PROVE MirrorInv
  OBVIOUS
<1>1. out = <<>> /\ received = <<>> /\ pending = <<>> /\ usageResult = NoUsage
      /\ status = "reading" /\ upstream.tools = 0
  BY DEF Init, out, NewEncoder
<1>2. Collects = NewAggregate
  BY <1>1, AggregatedNone DEF Collects
<1>3. \A K : Those(K, out) = <<>> /\ Vals(Those(K, out)) = <<>>
  BY <1>1, ThoseNone, ValsNone
<1>4. MirrorsPieces(out, Collects)
  BY <1>2, <1>3 DEF MirrorsPieces, NewAggregate
<1> DEFINE calls == Collects.toolCalls
<1>5. calls = <<>> /\ Collects.usage = NoUsage
  BY <1>2 DEF NewAggregate
<1> HIDE DEF calls
<1>6. Len(calls) = 0 /\ \A k : k \notin 1..Len(calls)
  BY <1>5
<1>7. MirrorsCalls(out, calls)
  <2>1. Len(Those(CallFrames, out)) = 0
    BY <1>3
  <2> QED BY <1>3, <1>6, <2>1 DEF MirrorsCalls
<1>8. EndCollected
  <2>1. DOMAIN received = {}
    BY <1>1
  <2> QED BY <1>1, <1>5, <2>1 DEF EndCollected
<1>9. CallsPlaced
  <2>1. \A type : ~Has(pending, type)
    BY <1>1, NoneInTurn, HasIn
  <2>2. Started = 0
    BY <1>1, <2>1 DEF Started
  <2> QED BY <1>6, <2>2 DEF CallsPlaced, calls
<1> QED BY <1>1, <1>4, <1>7, <1>8, <1>9 DEF MirrorInv, calls

\* What does not touch the frames, the events and the encoder.
LEMMA MirrorStays ==
  ASSUME MirrorInv, UNCHANGED <<enc, received, usageResult>>,
         upstream'.conforming = upstream.conforming, status # "ended", status' # "ended",
         upstream.conforming => Started' = Started
  PROVE  MirrorInv'
<1>1. out' = out /\ Collects' = Collects
  BY DEF out, Collects
<1>2. MirrorsPieces(out', Collects')
  BY <1>1 DEF MirrorInv
<1>3. ASSUME upstream.conforming
      PROVE  MirrorsCalls(out', Collects'.toolCalls) /\ EndCollected' /\ CallsPlaced'
  <2>1. MirrorsCalls(out', Collects'.toolCalls)
    BY <1>1, <1>3 DEF MirrorInv
  <2>2. EndCollected'
    BY <1>1, <1>3 DEF MirrorInv, EndCollected
  <2>3. CallsPlaced
    BY <1>3 DEF MirrorInv
  <2>4. CallsPlaced' = (/\ Len(Collects'.toolCalls) = Started'
                        /\ \A k \in 1..Started' :
                             Those(CallFrames, out')[k].index = enc'.toolCallBlocks[k - 1])
    BY DEF CallsPlaced
  <2>5. CallsPlaced'
    BY <1>1, <1>3, <2>3, <2>4 DEF CallsPlaced
  <2> QED BY <2>1, <2>2, <2>5
<1>4. MirrorInv' = (/\ MirrorsPieces(out', Collects')
                    /\ upstream'.conforming =>
                         /\ MirrorsCalls(out', Collects'.toolCalls)
                         /\ EndCollected'
                         /\ status' = "ended" => Has(received', "message_stop")
                         /\ status' # "ended" => CallsPlaced')
  BY DEF MirrorInv
<1> QED BY <1>2, <1>3, <1>4

\* Every step keeps the mirror.
LEMMA StepMirror == CoreInv /\ ConformingInv /\ MirrorInv /\ [Next]_vars => MirrorInv'
<1> SUFFICES ASSUME CoreInv, ConformingInv, MirrorInv, [Next]_vars
             PROVE  MirrorInv'
  OBVIOUS
<1> USE DEF CoreInv
<1>0. MirrorInv' = (/\ MirrorsPieces(out', Collects')
                    /\ upstream'.conforming =>
                         /\ MirrorsCalls(out', Collects'.toolCalls)
                         /\ EndCollected'
                         /\ status' = "ended" => Has(received', "message_stop")
                         /\ status' # "ended" => CallsPlaced')
  BY DEF MirrorInv
<1>1. ASSUME UNCHANGED vars
      PROVE  MirrorInv'
  <2>1. UNCHANGED <<enc, received, usageResult, status, upstream, pending>>
    BY <1>1 DEF vars
  <2>2. out' = out /\ Collects' = Collects /\ Started' = Started
    BY <2>1 DEF out, Collects, Started, Has
  <2>3. EndCollected' = EndCollected
    BY <2>1, <2>2 DEF EndCollected
  <2>4. CallsPlaced' = CallsPlaced
    BY <2>1, <2>2 DEF CallsPlaced
  <2> QED BY <1>0, <2>1, <2>2, <2>3, <2>4 DEF MirrorInv
<1>2. ASSUME NEW c \in Chunks[upstream.conforming], ReadChunk(c)
      PROVE  MirrorInv'
  <2>1. /\ upstream'.conforming = upstream.conforming /\ UNCHANGED <<enc, received, usageResult>>
        /\ status = "reading" /\ status' = "reading"
    BY <1>2, SentType DEF ReadChunk, Reading
  <2>2. upstream.conforming => Started' = Started
    <3>1. c \in Chunk
      BY ChunksType
    <3>2. upstream.conforming => Conforms
      BY <2>1 DEF ConformingInv
    <3> QED BY <1>2, <3>1, <3>2, ChunkConforms
  <2> QED BY <2>1, <2>2, MirrorStays
<1>3. CASE (\E found \in Results : ReadSources(found)) \/ SkipLine \/ StreamBreaks
  <2>1. /\ UNCHANGED <<enc, received, usageResult, upstream, pending>>
        /\ status = "reading" /\ status' # "ended"
    BY <1>3 DEF ReadSources, SkipLine, StreamBreaks, Reading
  <2>2. Started' = Started
    BY <2>1 DEF Started, Has
  <2> QED BY <2>1, <2>2, MirrorStays
<1>4. CASE EncodeEvent
  <2>1. status' = status /\ upstream' = upstream /\ status = "reading"
    BY <1>4, TurnOfLoop
  <2>2. MirrorsPieces(out', Collects')
    BY <1>4, PiecesTurn DEF MirrorInv
  <2>3. upstream.conforming => /\ MirrorsCalls(out', Collects'.toolCalls)
                               /\ CallsPlaced' /\ EndCollected'
    BY <1>4, CallsMirrored, EndMirrored
  <2> QED BY <1>0, <2>1, <2>2, <2>3
<1>5. CASE ReadDone
  <2>1. /\ Good(enc) /\ NothingToEnd(enc) /\ enc' = Done(enc) /\ upstream' = upstream
        /\ UNCHANGED <<received, usageResult>> /\ status' = "ended" /\ status = "reading"
        /\ pending = <<>>
        /\ upstream.conforming => upstream.phase # "content"
    BY <1>5 DEF ReadDone, Reading, TypeInv, EncoderInv, Good
  <2>2. enc.out \in Seq(FrameSet) /\ Grew(enc.out, Done(enc).out, Plain)
    BY <2>1, DoneGood DEF Good, Encoder
  <2>3. out \in Seq(FrameSet) /\ Grew(out, out', Quiet) /\ Collects' = Collects
    BY <2>1, <2>2, PlainQuiet DEF out, Collects
  <2>4. MirrorsPieces(out', Collects')
    BY <2>3, PiecesQuiet DEF MirrorInv
  <2>5. upstream.conforming => MirrorsCalls(out', Collects'.toolCalls)
    BY <2>3, SameCallsQuiet, MirrorsSame DEF MirrorInv
  <2>6. upstream.conforming => EndCollected'
    BY <2>1, <2>3 DEF MirrorInv, EndCollected
  <2>7. upstream.conforming => Has(received', "message_stop")
    <3> SUFFICES ASSUME upstream.conforming PROVE Has(received', "message_stop")
      OBVIOUS
    <3>1. DOMAIN pending = {} /\ upstream.phase # "content" /\ received' = received
      BY <2>1
    <3>2. Conforms
      BY <2>1 DEF ConformingInv
    <3>3. Has(received, "message_stop")
      BY <3>1, <3>2 DEF Conforms, EndInTurn, Has
    <3> QED BY <3>1, <3>3
  <2> QED BY <1>0, <2>1, <2>4, <2>5, <2>6, <2>7
<1>6. CASE Returned
  BY <1>1, <1>6 DEF Returned
<1> QED BY <1>1, <1>2, <1>3, <1>4, <1>5, <1>6 DEF Next

(* ------------------------ the whole response --------------------------- *)

\* The blocks of a whole response.
Vs == Seq(Pieces) \cup Results \cup {Empty, NoResults, <<Null>>}
BlockSet ==
  [type : {"text", "thinking", "tool_call", "tool_use", "web_search", "server_tool_use",
           "web_search_tool_result"},
   id : ToolIDs \cup {Empty}, val : Vs]

Encodes == [b \in BlockSet |-> EncodeBlock(b)]
OfType(type) == [b \in BlockSet |-> IF b.type = type THEN <<b>> ELSE <<>>]
Told(type) == [b \in BlockSet |-> FlatMap(OfType(type), EncodeBlock(b))]

\* The blocks of a whole response.
LEMMA BlockFields ==
  ASSUME NEW type, NEW id, NEW val
  PROVE  /\ Block(type, id, val).type = type /\ Block(type, id, val).id = id
         /\ Block(type, id, val).val = val
BY DEF Block

LEMMA BlockType ==
  ASSUME NEW type \in {"text", "thinking", "tool_call", "tool_use", "web_search",
                       "server_tool_use", "web_search_tool_result"},
         NEW id \in ToolIDs \cup {Empty}, NEW val \in Vs
  PROVE  Block(type, id, val) \in BlockSet
BY DEF Block, BlockSet

\* A block as the client sees it.
LEMMA EncodeBlockType ==
  ASSUME NEW b \in BlockSet
  PROVE  /\ EncodeBlock(b) \in Seq(BlockSet)
         /\ b.type = "tool_call" => EncodeBlock(b) = <<Block("tool_use", b.id, b.val)>>
         /\ b.type = "web_search" =>
              EncodeBlock(b) = <<Block("server_tool_use", Empty, Empty),
                                 Block("web_search_tool_result", Empty, b.val)>>
         /\ b.type \notin {"tool_call", "web_search"} => EncodeBlock(b) = <<b>>
<1>0. b.id \in ToolIDs \cup {Empty} /\ b.val \in Vs /\ Empty \in Vs
  BY DEF BlockSet, Vs
<1>1. CASE b.type = "tool_call"
  <2>1. EncodeBlock(b) = <<[b EXCEPT !.type = "tool_use"]>>
    BY <1>1 DEF EncodeBlock
  <2>2. [b EXCEPT !.type = "tool_use"] = Block("tool_use", b.id, b.val)
    BY DEF BlockSet, Block
  <2>3. Block("tool_use", b.id, b.val) \in BlockSet
    BY <1>0, BlockType
  <2> QED BY <1>1, <2>1, <2>2, <2>3
<1>2. CASE b.type = "web_search"
  <2> DEFINE p == Block("server_tool_use", Empty, Empty)
             q == Block("web_search_tool_result", Empty, b.val)
  <2>1. EncodeBlock(b) = <<p, q>>
    BY <1>2 DEF EncodeBlock
  <2>2. p \in BlockSet /\ q \in BlockSet
    BY <1>0, BlockType
  <2> HIDE DEF p, q
  <2>3. <<p, q>> \in Seq(BlockSet)
    BY <2>2
  <2> QED BY <1>2, <2>1, <2>3 DEF p, q
<1>3. CASE b.type \notin {"tool_call", "web_search"}
  <2>1. EncodeBlock(b) = <<b>>
    BY <1>3 DEF EncodeBlock
  <2> QED BY <1>3, <2>1
<1> QED BY <1>1, <1>2, <1>3

(* --------------------- what the two clients are told ------------------- *)

Asked == {"text", "thinking", "tool_use"}

\* What is told of a type, as a fold over the blocks.
LEMMA OfTypeMaps ==
  ASSUME NEW type
  PROVE  /\ OfType(type) \in [BlockSet -> Seq(BlockSet)]
         /\ \A b \in BlockSet : OfType(type)[b] = IF b.type = type THEN <<b>> ELSE <<>>
<1>1. ASSUME NEW b \in BlockSet
      PROVE  (IF b.type = type THEN <<b>> ELSE <<>>) \in Seq(BlockSet)
  OBVIOUS
<1> QED BY <1>1 DEF OfType

LEMMA EncodesMaps == Encodes \in [BlockSet -> Seq(BlockSet)]
BY EncodeBlockType DEF Encodes

LEMMA ToldMaps ==
  ASSUME NEW type
  PROVE  /\ Told(type) \in [BlockSet -> Seq(BlockSet)]
         /\ \A b \in BlockSet : Told(type)[b] = FlatMap(OfType(type), EncodeBlock(b))
<1> DEFINE h == OfType(type)
<1>1. h \in [BlockSet -> Seq(BlockSet)]
  BY OfTypeMaps
<1> HIDE DEF h
<1>2. ASSUME NEW b \in BlockSet PROVE FlatMap(h, EncodeBlock(b)) \in Seq(BlockSet)
  <2> DEFINE s == EncodeBlock(b)
  <2>1. s \in Seq(BlockSet)
    BY EncodeBlockType
  <2> HIDE DEF s
  <2>2. FlatMap(h, s) \in Seq(BlockSet)
    BY <1>1, <2>1, FlatMapType
  <2> QED BY <2>2 DEF s
<1>3. Told(type) = [b \in BlockSet |-> FlatMap(h, EncodeBlock(b))]
  BY DEF Told, h
<1> QED BY <1>2, <1>3 DEF h

\* What a block tells of a type.
LEMMA ToldOf ==
  ASSUME NEW type \in Asked, NEW b \in BlockSet
  PROVE  /\ b.type = "tool_call" =>
              Told(type)[b] = IF type = "tool_use" THEN <<Block("tool_use", b.id, b.val)>>
                              ELSE <<>>
         /\ b.type = "web_search" => Told(type)[b] = <<>>
         /\ b.type \in {"text", "thinking"} =>
              Told(type)[b] = IF b.type = type THEN <<b>> ELSE <<>>
<1> DEFINE h == OfType(type)
           t == Told(type)[b]
<1>1. /\ h \in [BlockSet -> Seq(BlockSet)]
      /\ \A x \in BlockSet : h[x] = IF x.type = type THEN <<x>> ELSE <<>>
  BY OfTypeMaps
<1>2. t = FlatMap(h, EncodeBlock(b))
  BY ToldMaps
<1>3. b.id \in ToolIDs \cup {Empty} /\ b.val \in Vs /\ Empty \in Vs
  BY DEF BlockSet, Vs
<1> HIDE DEF h, t
<1>4. CASE b.type = "tool_call"
  <2> DEFINE p == Block("tool_use", b.id, b.val)
  <2>1. EncodeBlock(b) = <<p>>
    BY <1>4, EncodeBlockType
  <2>2. p \in BlockSet /\ p.type = "tool_use"
    BY <1>3, BlockType, BlockFields
  <2> HIDE DEF p
  <2>3. FlatMap(h, <<p>>) = h[p]
    BY <1>1, <2>2, FlatMapOne
  <2> QED BY <1>1, <1>2, <1>4, <2>1, <2>2, <2>3 DEF p, t
<1>5. CASE b.type = "web_search"
  <2> DEFINE p == Block("server_tool_use", Empty, Empty)
             q == Block("web_search_tool_result", Empty, b.val)
             s == <<p, q>>
  <2>1. EncodeBlock(b) = s
    BY <1>5, EncodeBlockType
  <2>2. p \in BlockSet /\ q \in BlockSet /\ p.type = "server_tool_use"
        /\ q.type = "web_search_tool_result"
    BY <1>3, BlockType, BlockFields
  <2> HIDE DEF p, q
  <2>3. s \in Seq(BlockSet) /\ \A i \in DOMAIN s : s[i] \in {p, q}
    BY <2>2
  <2> HIDE DEF s
  <2>4. \A i \in DOMAIN s : h[s[i]] = <<>>
    BY <1>1, <2>2, <2>3 DEF Asked
  <2>5. FlatMap(h, s) = <<>>
    BY <2>3, <2>4, FlatMapEmpty
  <2> QED BY <1>2, <1>5, <2>1, <2>5 DEF t
<1>6. CASE b.type \in {"text", "thinking"}
  <2>1. EncodeBlock(b) = <<b>>
    BY <1>6, EncodeBlockType
  <2>2. FlatMap(h, <<b>>) = h[b]
    BY <1>1, FlatMapOne
  <2> QED BY <1>1, <1>2, <1>6, <2>1, <2>2 DEF t
<1> QED BY <1>4, <1>5, <1>6 DEF t

\* The parts of a whole response.
CallBlocks(a) ==
  [i \in DOMAIN a.toolCalls |->
     Block("tool_call", a.toolCalls[i].id, Arguments(a.toolCalls[i].args))]
SearchBlocks(a, w) == IF w THEN <<Block("web_search", Empty, a.webSearchResults)>> ELSE <<>>
CallsTold(a) ==
  [i \in DOMAIN a.toolCalls |->
     Block("tool_use", a.toolCalls[i].id, Arguments(a.toolCalls[i].args))]
Content0(a, w) == SearchBlocks(a, w) \o ((Collected("thinking", a.thinking)
                                           \o Collected("text", a.text)) \o CallBlocks(a))

\* The parts are lists of blocks.
LEMMA PartsType ==
  ASSUME NEW a \in AggregateState, NEW w \in BOOLEAN
  PROVE  /\ SearchBlocks(a, w) \in Seq(BlockSet)
         /\ Collected("thinking", a.thinking) \in Seq(BlockSet)
         /\ Collected("text", a.text) \in Seq(BlockSet)
         /\ CallBlocks(a) \in Seq(BlockSet)
         /\ DOMAIN CallBlocks(a) = DOMAIN a.toolCalls
         /\ \A i \in DOMAIN a.toolCalls : /\ CallBlocks(a)[i].type = "tool_call"
                                          /\ CallBlocks(a)[i].id = a.toolCalls[i].id
                                          /\ CallBlocks(a)[i].val = Arguments(a.toolCalls[i].args)
<1>1. /\ Empty \in Vs /\ a.text \in Vs /\ a.thinking \in Vs /\ a.webSearchResults \in Vs
      /\ a.toolCalls \in Seq(Calls)
  BY DEF AggregateState, Vs
<1>2. SearchBlocks(a, w) \in Seq(BlockSet)
  <2> DEFINE p == Block("web_search", Empty, a.webSearchResults)
  <2>1. p \in BlockSet
    BY <1>1, BlockType
  <2> HIDE DEF p
  <2>2. <<p>> \in Seq(BlockSet) /\ <<>> \in Seq(BlockSet)
    BY <2>1
  <2> QED BY <2>2 DEF SearchBlocks, p
<1>3. ASSUME NEW name \in {"text", "thinking"}, NEW v \in Vs
      PROVE  Collected(name, v) \in Seq(BlockSet)
  <2> DEFINE p == Block(name, Empty, v)
  <2>1. p \in BlockSet
    BY BlockType
  <2> HIDE DEF p
  <2>2. <<p>> \in Seq(BlockSet) /\ <<>> \in Seq(BlockSet)
    BY <2>1
  <2> QED BY <2>2 DEF Collected, p
<1> DEFINE calls == a.toolCalls
           c == CallBlocks(a)
           n == Len(calls)
<1>4. ASSUME NEW i \in DOMAIN calls
      PROVE  Block("tool_call", calls[i].id, Arguments(calls[i].args)) \in BlockSet
  <2>1. calls[i] \in Calls
    BY <1>1
  <2>2. calls[i].id \in ToolIDs /\ Arguments(calls[i].args) \in Vs
    BY <2>1, AggregateAssumption DEF Calls, Arguments, Vs
  <2> QED BY <2>2, BlockType
<1>5. n \in Nat /\ DOMAIN calls = 1..n
  BY <1>1
<1>6. c = [i \in 1..n |-> Block("tool_call", calls[i].id, Arguments(calls[i].args))]
  BY <1>5 DEF CallBlocks
<1> HIDE DEF n, calls, c
<1>7. c \in [1..n -> BlockSet]
  BY <1>4, <1>5, <1>6
<1>8. c \in Seq(BlockSet) /\ DOMAIN c = DOMAIN calls
  BY <1>5, <1>7
<1>9. \A i \in DOMAIN calls : /\ c[i].type = "tool_call" /\ c[i].id = calls[i].id
                              /\ c[i].val = Arguments(calls[i].args)
  BY <1>5, <1>6, BlockFields
<1> QED BY <1>1, <1>2, <1>3, <1>8, <1>9 DEF calls, c

\* Of the searches, of a collected text, and of the calls.
LEMMA ToldSearch ==
  ASSUME NEW a \in AggregateState, NEW w \in BOOLEAN, NEW type \in Asked
  PROVE  FlatMap(Told(type), SearchBlocks(a, w)) = <<>>
<1> DEFINE p == Block("web_search", Empty, a.webSearchResults)
           h == Told(type)
<1>1. p \in BlockSet /\ p.type = "web_search"
  <2>1. a.webSearchResults \in Vs
    BY DEF AggregateState, Vs
  <2> QED BY <2>1, BlockType, BlockFields
<1> HIDE DEF p
<1>2. h[p] = <<>> /\ h \in [BlockSet -> Seq(BlockSet)]
  BY <1>1, ToldOf, ToldMaps
<1> HIDE DEF h
<1>3. FlatMap(h, <<p>>) = <<>>
  BY <1>1, <1>2, FlatMapOne
<1>4. FlatMap(h, <<>>) = <<>>
  BY FlatMapNone
<1> QED BY <1>3, <1>4 DEF SearchBlocks, p, h

LEMMA ToldCollected ==
  ASSUME NEW type \in Asked, NEW name \in {"text", "thinking"}, NEW v \in Seq(Pieces)
  PROVE  FlatMap(Told(type), Collected(name, v)) = IF name = type THEN Collected(name, v)
                                                   ELSE <<>>
<1> DEFINE p == Block(name, Empty, v)
           h == Told(type)
<1>1. p \in BlockSet /\ p.type = name
  BY BlockType, BlockFields DEF Vs
<1> HIDE DEF p
<1>2. h[p] = (IF name = type THEN <<p>> ELSE <<>>) /\ h \in [BlockSet -> Seq(BlockSet)]
  BY <1>1, ToldOf, ToldMaps
<1> HIDE DEF h
<1>3. FlatMap(h, <<p>>) = h[p]
  BY <1>1, <1>2, FlatMapOne
<1>4. FlatMap(h, <<>>) = <<>>
  BY FlatMapNone
<1> QED BY <1>2, <1>3, <1>4 DEF Collected, p, h

\* A fold that shows every element as one other is that list of others.
Each(f, s) == [i \in DOMAIN s |-> f[s[i]]]
Singly(h, f, s) == \A i \in DOMAIN s : h[s[i]] = <<f[s[i]]>>

\* Such a fold is that list.
LEMMA FlatMapSingly ==
  ASSUME NEW A, NEW f, NEW h, NEW s \in Seq(A), Singly(h, f, s)
  PROVE  FlatMap(h, s) = Each(f, s)
<1>1. \A i \in DOMAIN s : h[s[i]] = <<f[s[i]]>>
  BY DEF Singly
<1>2. FlatMap(h, s) = [i \in DOMAIN s |-> f[s[i]]]
  BY <1>1, FlatMapEach
<1> QED BY <1>2 DEF Each

LEMMA ToldCalls ==
  ASSUME NEW a \in AggregateState, NEW type \in Asked
  PROVE  FlatMap(Told(type), CallBlocks(a)) = IF type = "tool_use" THEN CallsTold(a) ELSE <<>>
<1> DEFINE c == CallBlocks(a)
           h == Told(type)
           F == [b \in BlockSet |-> Block("tool_use", b.id, b.val)]
<1>1. /\ c \in Seq(BlockSet) /\ DOMAIN c = DOMAIN a.toolCalls
      /\ \A i \in DOMAIN a.toolCalls : /\ c[i].type = "tool_call"
                                       /\ c[i].id = a.toolCalls[i].id
                                       /\ c[i].val = Arguments(a.toolCalls[i].args)
  BY PartsType
<1> HIDE DEF c
<1>2. \A i \in DOMAIN c : c[i] \in BlockSet
  BY <1>1
<1>3. \A i \in DOMAIN c : h[c[i]] = IF type = "tool_use" THEN <<F[c[i]]>> ELSE <<>>
  BY <1>1, <1>2, ToldOf
<1>4. CASE type = "tool_use"
  <2>1. \A i \in DOMAIN c : F[c[i]] = Block("tool_use", a.toolCalls[i].id,
                                            Arguments(a.toolCalls[i].args))
    BY <1>1, <1>2
  <2> HIDE DEF h, F
  <2>4. \A i \in DOMAIN c : h[c[i]] = <<F[c[i]]>>
    BY <1>3, <1>4
  <2>2. FlatMap(h, c) = [i \in DOMAIN c |-> F[c[i]]]
    <3>1. Singly(h, F, c)
      BY <2>4 DEF Singly
    <3>2. FlatMap(h, c) = Each(F, c)
      BY <1>1, <3>1, FlatMapSingly
    <3> QED BY <3>2 DEF Each
  <2>3. FlatMap(h, c) = CallsTold(a)
    BY <1>1, <2>1, <2>2 DEF CallsTold
  <2> QED BY <1>4, <2>3 DEF h, c
<1>5. CASE type # "tool_use"
  <2> HIDE DEF h, F
  <2>1. \A i \in DOMAIN c : h[c[i]] = <<>>
    BY <1>3, <1>5
  <2>2. FlatMap(h, c) = <<>>
    BY <1>1, <2>1, FlatMapEmpty
  <2> QED BY <1>5, <2>2 DEF h, c
<1> QED BY <1>4, <1>5

\* What a whole response tells of a type, from its parts.
LEMMA WholeIs ==
  ASSUME Collects \in AggregateState, hasWebSearch \in BOOLEAN, NEW type
  PROVE  /\ Content0(Collects, hasWebSearch) \in Seq(BlockSet)
         /\ WholeBlocks(type) = FlatMap(Told(type), Content0(Collects, hasWebSearch))
         /\ Whole.stop_reason = Collects.stopReason /\ Whole.usage = EncodeUsage(Collects.usage)
<1> DEFINE a == Collects
           w == hasWebSearch
           c == Content0(a, w)
           whole == EncodeAnthropicClientResponse(a, w)
           d == whole.content
           h == OfType(type)
           g == Encodes
           k == Told(type)
<1>1. Whole = whole
  BY DEF Whole, Collects, Aggregated
<1>2. c \in Seq(BlockSet)
  <2> DEFINE p == SearchBlocks(a, w)
             q == Collected("thinking", a.thinking)
             r == Collected("text", a.text)
             x == CallBlocks(a)
  <2>1. p \in Seq(BlockSet) /\ q \in Seq(BlockSet) /\ r \in Seq(BlockSet) /\ x \in Seq(BlockSet)
    BY PartsType
  <2> HIDE DEF p, q, r, x
  <2>2. p \o ((q \o r) \o x) \in Seq(BlockSet)
    BY <2>1
  <2> QED BY <2>2 DEF Content0, p, q, r, x
<1>3. InjectWebSearchBlocks(Finalize(a), w, a.webSearchResults) = c
  <2> DEFINE f == Finalize(a)
  <2>1. f = (Collected("thinking", a.thinking) \o Collected("text", a.text)) \o CallBlocks(a)
    BY DEF Finalize, CallBlocks
  <2>2. f \in Seq(BlockSet)
    <3> DEFINE q == Collected("thinking", a.thinking)
               r == Collected("text", a.text)
               x == CallBlocks(a)
    <3>1. q \in Seq(BlockSet) /\ r \in Seq(BlockSet) /\ x \in Seq(BlockSet)
      BY PartsType
    <3> HIDE DEF q, r, x
    <3>2. (q \o r) \o x \in Seq(BlockSet)
      BY <3>1
    <3> QED BY <2>1, <3>2 DEF q, r, x
  <2> HIDE DEF f
  <2>3. <<>> \o f = f
    BY <2>2
  <2>4. c = SearchBlocks(a, w) \o f
    BY <2>1 DEF Content0
  <2> QED BY <2>3, <2>4 DEF InjectWebSearchBlocks, SearchBlocks, f
<1> HIDE DEF c
<1>4. /\ d = FlattenSeq([i \in DOMAIN c |-> EncodeBlock(c[i])])
      /\ whole.stop_reason = a.stopReason /\ whole.usage = EncodeUsage(a.usage)
  BY <1>3 DEF EncodeAnthropicClientResponse
<1> HIDE DEF whole, a, w
<1>5. \A i \in DOMAIN c : c[i] \in BlockSet
  BY <1>2
<1>6. d = FlatMap(g, c)
  BY <1>4, <1>5 DEF FlatMap, Encodes
<1>7. /\ g \in [BlockSet -> Seq(BlockSet)] /\ h \in [BlockSet -> Seq(BlockSet)]
      /\ k \in [BlockSet -> Seq(BlockSet)]
      /\ \A b \in BlockSet : h[b] = IF b.type = type THEN <<b>> ELSE <<>>
  BY EncodesMaps, OfTypeMaps, ToldMaps
<1>8. \A b \in BlockSet : k[b] = FlatMap(h, g[b])
  BY ToldMaps DEF Encodes
<1> HIDE DEF g, h, k, d
<1>9. d \in Seq(BlockSet)
  BY <1>2, <1>6, <1>7, FlatMapType
<1>10. \A i \in DOMAIN d : d[i] \in BlockSet
  BY <1>9
<1>11. WholeBlocks(type) = FlattenSeq([i \in DOMAIN d |-> IF d[i].type = type THEN <<d[i]>>
                                                         ELSE <<>>])
  BY <1>1 DEF WholeBlocks, Where, d
<1>12. WholeBlocks(type) = FlatMap(h, d)
  BY <1>7, <1>10, <1>11 DEF FlatMap
<1>13. FlatMap(h, FlatMap(g, c)) = FlatMap(k, c)
  <2>1. /\ h \in Maps(BlockSet, BlockSet) /\ g \in Maps(BlockSet, BlockSet)
        /\ k \in Maps(BlockSet, BlockSet) /\ c \in Lists(BlockSet)
    BY <1>2, <1>7 DEF Maps, Lists
  <2> QED BY <1>8, <2>1, FlatMapTwice
<1> QED BY <1>1, <1>2, <1>4, <1>6, <1>12, <1>13 DEF k, c, a, w

\* FlatMapConcat of two named lists.
Joined(s, t) == s \o t

LEMMA FlatMapJoined ==
  ASSUME NEW A, NEW h \in [A -> Seq(A)], NEW s \in Seq(A), NEW t \in Seq(A)
  PROVE  FlatMap(h, Joined(s, t)) = Joined(FlatMap(h, s), FlatMap(h, t))
<1>1. h \in Maps(A, A) /\ s \in Lists(A) /\ t \in Lists(A)
  BY DEF Maps, Lists
<1>2. \A u, v \in Lists(A) : FlatMap(h, u \o v) = FlatMap(h, u) \o FlatMap(h, v)
  BY <1>1, FlatMapConcat
<1> QED BY <1>1, <1>2 DEF Joined

\* What a whole response tells of text, of reasoning and of calls.
LEMMA WholeTells ==
  ASSUME Collects \in AggregateState, hasWebSearch \in BOOLEAN
  PROVE  /\ WholeBlocks("text") = Collected("text", Collects.text)
         /\ WholeBlocks("thinking") = Collected("thinking", Collects.thinking)
         /\ WholeBlocks("tool_use") = CallsTold(Collects)
<1> DEFINE a == Collects
           w == hasWebSearch
           p == SearchBlocks(a, w)
           q == Collected("thinking", a.thinking)
           r == Collected("text", a.text)
           x == CallBlocks(a)
           y == CallsTold(a)
<1>1. p \in Seq(BlockSet) /\ q \in Seq(BlockSet) /\ r \in Seq(BlockSet) /\ x \in Seq(BlockSet)
  BY PartsType
<1>2. a.text \in Seq(Pieces) /\ a.thinking \in Seq(Pieces)
  BY DEF AggregateState
<1>3. ASSUME NEW type \in Asked
      PROVE  WholeBlocks(type) = ((IF type = "thinking" THEN q ELSE <<>>)
                                   \o (IF type = "text" THEN r ELSE <<>>))
                                   \o (IF type = "tool_use" THEN y ELSE <<>>)
  <2> DEFINE h == Told(type)
  <2>1. h \in [BlockSet -> Seq(BlockSet)]
    BY ToldMaps
  <2>2. WholeBlocks(type) = FlatMap(h, p \o ((q \o r) \o x))
    BY WholeIs DEF Content0
  <2>3. FlatMap(h, p) = <<>>
    BY ToldSearch
  <2>4. FlatMap(h, q) = IF type = "thinking" THEN q ELSE <<>>
    BY <1>2, ToldCollected
  <2>5. FlatMap(h, r) = IF type = "text" THEN r ELSE <<>>
    BY <1>2, ToldCollected
  <2>6. FlatMap(h, x) = IF type = "tool_use" THEN y ELSE <<>>
    BY ToldCalls
  <2> HIDE DEF h, p, q, r, x, y
  <2> DEFINE m == q \o r
             n == m \o x
  <2>7. m \in Seq(BlockSet) /\ n \in Seq(BlockSet)
    BY <1>1
  <2>8. FlatMap(h, m) = FlatMap(h, q) \o FlatMap(h, r)
    <3>1. FlatMap(h, Joined(q, r)) = Joined(FlatMap(h, q), FlatMap(h, r))
      BY <1>1, <2>1, <2>7, FlatMapJoined
    <3> QED BY <3>1 DEF Joined, m
  <2> HIDE DEF m
  <2>9. FlatMap(h, n) = FlatMap(h, m) \o FlatMap(h, x)
    <3>1. FlatMap(h, Joined(m, x)) = Joined(FlatMap(h, m), FlatMap(h, x))
      BY <1>1, <2>1, <2>7, FlatMapJoined
    <3> QED BY <3>1 DEF Joined, n
  <2>10. FlatMap(h, n) \in Seq(BlockSet)
    BY <2>1, <2>7, FlatMapType
  <2> HIDE DEF n
  <2>11. FlatMap(h, p \o n) = FlatMap(h, p) \o FlatMap(h, n)
    <3>1. FlatMap(h, Joined(p, n)) = Joined(FlatMap(h, p), FlatMap(h, n))
      BY <1>1, <2>1, <2>7, FlatMapJoined
    <3> QED BY <3>1 DEF Joined
  <2>12. <<>> \o FlatMap(h, n) = FlatMap(h, n)
    BY <2>10
  <2> QED BY <2>2, <2>3, <2>4, <2>5, <2>6, <2>8, <2>9, <2>11, <2>12 DEF m, n
<1>4. y \in Seq(BlockSet)
  <2> DEFINE h == Told("tool_use")
  <2>1. FlatMap(h, x) = y
    BY ToldCalls DEF Asked
  <2>2. h \in [BlockSet -> Seq(BlockSet)]
    BY ToldMaps
  <2> HIDE DEF h, x, y
  <2> QED BY <1>1, <2>1, <2>2, FlatMapType
<1> HIDE DEF p, q, r, x, y
<1>5. WholeBlocks("text") = (<<>> \o r) \o <<>>
  BY <1>3 DEF Asked
<1>6. WholeBlocks("thinking") = (q \o <<>>) \o <<>>
  BY <1>3 DEF Asked
<1>7. WholeBlocks("tool_use") = (<<>> \o <<>>) \o y
  BY <1>3 DEF Asked
<1>8. (<<>> \o r) \o <<>> = r /\ (q \o <<>>) \o <<>> = q
  BY <1>1
<1>9. (<<>> \o <<>>) \o y = y
  BY <1>4
<1> QED BY <1>5, <1>6, <1>7, <1>8, <1>9 DEF q, r, y

\* The pieces of a block that holds all of them, or of none.
LEMMA CollectedVals ==
  ASSUME NEW name, NEW v \in Seq(Pieces)
  PROVE  FlattenSeq(Vals(Collected(name, v))) = v
<1>1. CASE v = <<>>
  <2>1. Collected(name, v) = <<>>
    BY <1>1 DEF Collected
  <2> QED BY <1>1, <2>1, ValsNone, FlattenNone
<1>2. CASE v # <<>>
  <2> DEFINE b == Block(name, Empty, v)
  <2>1. Collected(name, v) = <<b>>
    BY <1>2 DEF Collected
  <2>2. b.val = v
    BY BlockFields
  <2> HIDE DEF b
  <2>3. Vals(<<b>>) = <<v>>
    BY <2>2 DEF Vals
  <2>4. <<v>> \in Seq(Seq(Pieces)) /\ Len(<<v>>) = 1
    OBVIOUS
  <2> DEFINE s == <<v>>
  <2>5. s \in Seq(Seq(Pieces)) /\ Len(s) = 1 /\ s[1] = v
    BY <2>4
  <2> HIDE DEF s
  <2>6. FlattenSeq(s) = v
    BY <2>5, FlattenOne
  <2> QED BY <2>1, <2>3, <2>6 DEF s
<1> QED BY <1>1, <1>2

\* What the stream tells of a usage and what a whole response does.
LEMMA UsageReadAlike ==
  ASSUME NEW u \in [tokens : Counts, cached : Counts \cup {NotCounted}] \cup {NoUsage}
  PROVE  IF EncodeUsage(u) = NoUsage THEN UsagePayload(u) = NoTokens
         ELSE AsRead(UsagePayload(u)) = AsRead(EncodeUsage(u))
<1>1. CASE u = NoUsage
  BY <1>1 DEF EncodeUsage, UsagePayload
<1>2. CASE u # NoUsage
  <2>1. /\ u \in [tokens : Counts, cached : Counts \cup {NotCounted}]
        /\ UsagePayload(u) = u
    BY <1>2 DEF UsagePayload
  <2>2. CASE u.cached = 0
    <3> DEFINE v == [u EXCEPT !.cached = NotCounted]
    <3>1. EncodeUsage(u) = v
      BY <1>2, <2>2 DEF EncodeUsage
    <3>2. /\ v \in [tokens : Counts, cached : Counts \cup {NotCounted}]
          /\ v.tokens = u.tokens /\ v.cached = NotCounted
      BY <2>1
    <3>3. v # NoUsage
      BY <3>2, AggregateAssumption
    <3> HIDE DEF v
    <3>4. AsRead(v) = AsRead(u)
      BY <2>2, <3>2 DEF AsRead
    <3> QED BY <2>1, <3>1, <3>3, <3>4
  <2>3. CASE u.cached # 0
    <3>1. EncodeUsage(u) = u
      BY <2>3 DEF EncodeUsage
    <3> QED BY <1>2, <2>1, <3>1
  <2> QED BY <2>2, <2>3
<1> QED BY <1>1, <1>2

\* At the end, the mirror is the property.
LEMMA MirrorTells ==
  ASSUME CoreInv, MirrorInv, EndsAsRecorded
  PROVE  SameMessage
<1> SUFFICES ASSUME upstream.conforming, status = "ended"
             PROVE  /\ Streamed("text") = FlattenSeq(Vals(WholeBlocks("text")))
                    /\ Streamed("thinking") = FlattenSeq(Vals(WholeBlocks("thinking")))
                    /\ Len(WholeBlocks("tool_use")) = Len(StreamedCalls)
                    /\ \A i \in DOMAIN WholeBlocks("tool_use") :
                         /\ WholeBlocks("tool_use")[i].id = StreamedCalls[i].val
                         /\ StreamedArgs(StreamedCalls[i]) \in Objects =>
                              WholeBlocks("tool_use")[i].val =
                                Reparsed[StreamedArgs(StreamedCalls[i])]
                    /\ out[Len(out) - 1] = Frame("message_delta", 0, Whole.stop_reason,
                                                 out[Len(out) - 1].val)
                    /\ IF Whole.usage = NoUsage THEN out[Len(out) - 1].val = NoTokens
                       ELSE AsRead(out[Len(out) - 1].val) = AsRead(Whole.usage)
  BY DEF SameMessage
<1> DEFINE a == Collects
           calls == a.toolCalls
           told == WholeBlocks("tool_use")
           x == StreamedCalls
           n == Len(calls)
<1>1. /\ hasWebSearch \in BOOLEAN /\ received \in Seq(DecodedEvent)
      /\ out \in Seq(FrameSet)
  BY DEF CoreInv, TypeInv, Encoder, out
<1>2. Collects \in AggregateState
  BY <1>1, AggregatedType DEF Collects
<1>3. calls \in Seq(Calls) /\ a.text \in Seq(Pieces) /\ a.thinking \in Seq(Pieces)
  BY <1>2 DEF AggregateState
<1>4. /\ WholeBlocks("text") = Collected("text", a.text)
      /\ WholeBlocks("thinking") = Collected("thinking", a.thinking)
      /\ told = CallsTold(a)
      /\ Whole.stop_reason = a.stopReason /\ Whole.usage = EncodeUsage(a.usage)
  BY <1>1, <1>2, WholeTells, WholeIs
<1>5. /\ \A block : Streamed(block) = Vals(Those(DeltaFrames(block), out))
      /\ x = Those(CallFrames, out)
      /\ \A call : StreamedArgs(call) = Vals(Those(ArgFrames(call.index), out))
  BY <1>1, StreamedIs
<1>6. MirrorsPieces(out, a) /\ MirrorsCalls(out, calls) /\ EndCollected
      /\ Has(received, "message_stop")
  BY DEF MirrorInv
<1>7. Streamed("text") = a.text /\ Streamed("thinking") = a.thinking
  BY <1>5, <1>6 DEF MirrorsPieces
<1>8. /\ FlattenSeq(Vals(WholeBlocks("text"))) = a.text
      /\ FlattenSeq(Vals(WholeBlocks("thinking"))) = a.thinking
  BY <1>3, <1>4, CollectedVals
<1>9. /\ n \in Nat /\ DOMAIN told = 1..n /\ Len(told) = n
      /\ \A i \in 1..n : told[i].id = calls[i].id /\ told[i].val = Arguments(calls[i].args)
  <2>1. n \in Nat /\ DOMAIN calls = 1..n
    BY <1>3
  <2>2. told = [i \in 1..n |-> Block("tool_use", calls[i].id, Arguments(calls[i].args))]
    BY <1>4, <2>1 DEF CallsTold
  <2> HIDE DEF told, n, calls
  <2>3. DOMAIN told = 1..n /\ Len(told) = n
    BY <2>1, <2>2
  <2> QED BY <2>1, <2>2, <2>3, BlockFields
<1>10. /\ Len(x) = n
       /\ \A i \in 1..n : x[i].val = calls[i].id /\ StreamedArgs(x[i]) = calls[i].args
  <2> HIDE DEF x, n, calls
  <2> QED BY <1>5, <1>6 DEF MirrorsCalls, n
<1>11. /\ out[Len(out) - 1] = Frame("message_delta", 0, Whole.stop_reason, out[Len(out) - 1].val)
       /\ IF Whole.usage = NoUsage THEN out[Len(out) - 1].val = NoTokens
          ELSE AsRead(out[Len(out) - 1].val) = AsRead(Whole.usage)
  <2> DEFINE finished == CHOOSE i \in DOMAIN received : received[i].type = "message_stop"
  <2>1. finished \in DOMAIN received /\ received[finished].type = "message_stop"
    BY <1>6 DEF Has
  <2>2. out[Len(out) - 1] = Frame("message_delta", 0, received[finished].val, UsagePayload(usageResult))
    BY DEF EndsAsRecorded
  <2> HIDE DEF finished
  <2>3. a.stopReason = received[finished].val /\ a.usage = usageResult
    BY <1>6, <2>1 DEF EndCollected
  <2>4. a.usage \in [tokens : Counts, cached : Counts \cup {NotCounted}] \cup {NoUsage}
    BY <1>2 DEF AggregateState, Reports
  <2> HIDE DEF a
  <2> DEFINE f == Frame("message_delta", 0, a.stopReason, UsagePayload(a.usage))
  <2>5. f.val = UsagePayload(a.usage)
    BY DEF Frame
  <2>6. out[Len(out) - 1] = f
    BY <2>2, <2>3
  <2>7. IF Whole.usage = NoUsage THEN UsagePayload(a.usage) = NoTokens
        ELSE AsRead(UsagePayload(a.usage)) = AsRead(Whole.usage)
    BY <1>4, <2>4, UsageReadAlike
  <2> QED BY <1>4, <2>5, <2>6, <2>7
<1> HIDE DEF told, x, n, calls, a
<1>12. ASSUME NEW i \in DOMAIN told
       PROVE  told[i].id = x[i].val /\ (StreamedArgs(x[i]) \in Objects => told[i].val = Reparsed[StreamedArgs(x[i])])
  BY <1>9, <1>10, <1>12 DEF Arguments
<1> QED BY <1>7, <1>8, <1>9, <1>10, <1>11, <1>12 DEF told, x

\* With such an upstream, a client that streams and one that does not are told
\* the same message of the same events, whatever it is made of: the same text
\* and reasoning, the same calls, the same finish reason and the same counts.
\* The whole response has the arguments as Reparsed leaves them, and no usage
\* where none was reported and the stream tells zeros.
THEOREM BothClientsGetTheSameMessage == Spec => []SameMessage
<1>1. Init => MirrorInv /\ EndsAsRecorded
  BY InitMirror DEF Init, EndsAsRecorded
<1>2. CoreInv /\ ConformingInv /\ MirrorInv /\ EndsAsRecorded /\ [Next]_vars
        => MirrorInv' /\ EndsAsRecorded'
  BY StepMirror, StepEnds
<1>3. CoreInv /\ MirrorInv /\ EndsAsRecorded => SameMessage
  BY MirrorTells
<1> QED BY <1>1, <1>2, <1>3, CoreInvariant, ConformingInvariant, PTL DEF Spec

=============================================================================
