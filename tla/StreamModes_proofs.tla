-------------------------- MODULE StreamModes_proofs --------------------------
(***************************************************************************)
(* The theorems of StreamModes.                                            *)
(***************************************************************************)
EXTENDS StreamModes, StreamEvents_proofs, FiniteSetTheorems

(* -------------------------------- types -------------------------------- *)

PieceKinds == {"text", "reasoning", "role", "call", "args", "finish", "usage", "done"}

Vals == Pieces \cup ToolIDs \cup Reasons \cup Usages \cup Results \cup {Empty}

PieceSet == [kind : PieceKinds, role : BOOLEAN, index : ToolIndices \cup {0}, val : Vals]

StreamState ==
  [started : BOOLEAN, out : Seq(PieceSet), webSearchResults : Results \cup {NoResults},
   usageResult : Usages \cup {NoUsage}]

Upstreams ==
  [conforming : BOOLEAN, phase : {"content", "finished", "reported"}, tools : Nat]

TypeInv ==
  /\ hasWebSearch \in BOOLEAN
  /\ status \in {"reading", "ended", "eof", "broken"}
  /\ lines \in 0..MaxLines[upstream.conforming]
  /\ pending \in Seq(DecodedEvent)
  /\ stream \in StreamState
  /\ aggregate \in AggregateState
  /\ upstream \in Upstreams

LEMMA PieceType ==
  ASSUME NEW kind \in PieceKinds, NEW role \in BOOLEAN, NEW index \in ToolIndices \cup {0},
         NEW val \in Vals
  PROVE  /\ Piece(kind, role, index, val) \in PieceSet
         /\ Piece(kind, role, index, val).kind = kind
         /\ Piece(kind, role, index, val).role <=> role
         /\ Piece(kind, role, index, val).index = index
         /\ Piece(kind, role, index, val).val = val
BY DEF Piece, PieceSet

LEMMA WriteFields ==
  ASSUME NEW s \in StreamState, NEW p \in PieceSet
  PROVE  LET t == Write(s, p)
         IN  /\ t \in StreamState /\ t.out = Append(s.out, p) /\ t.started = s.started
             /\ t.webSearchResults = s.webSearchResults /\ t.usageResult = s.usageResult
BY DEF Write, StreamState

\* The piece of EncodeContent.
ContentPiece(s, kind, val) == Piece(kind, ~s.started, 0, val)

LEMMA ContentFields ==
  ASSUME NEW s \in StreamState, NEW kind \in PieceKinds, NEW val \in Vals
  PROVE  LET t == EncodeContent(s, kind, val)
             p == ContentPiece(s, kind, val)
         IN  /\ t \in StreamState /\ t.out = Append(s.out, p) /\ t.started
             /\ p \in PieceSet /\ p.kind = kind /\ p.val = val /\ (p.role <=> ~s.started)
             /\ t.webSearchResults = s.webSearchResults /\ t.usageResult = s.usageResult
<1> DEFINE p == ContentPiece(s, kind, val)
<1>1. p \in PieceSet /\ p.kind = kind /\ p.val = val /\ (p.role <=> ~s.started)
  <2>1. (~s.started) \in BOOLEAN
    OBVIOUS
  <2> QED BY <2>1 DEF ContentPiece, Piece, PieceSet
<1>2. EncodeContent(s, kind, val) = [Write(s, p) EXCEPT !.started = TRUE]
  BY DEF EncodeContent, ContentPiece
<1> HIDE DEF p
<1> DEFINE w == Write(s, p)
<1>3. /\ w \in StreamState /\ w.out = Append(s.out, p)
      /\ w.webSearchResults = s.webSearchResults /\ w.usageResult = s.usageResult
  BY <1>1, WriteFields
<1>4. EncodeContent(s, kind, val) = [w EXCEPT !.started = TRUE]
  BY <1>2
<1> HIDE DEF w
<1>5. LET t == EncodeContent(s, kind, val)
      IN  /\ t \in StreamState /\ t.out = w.out /\ t.started
          /\ t.webSearchResults = w.webSearchResults /\ t.usageResult = w.usageResult
  BY <1>3, <1>4 DEF StreamState
<1> QED BY <1>1, <1>3, <1>5 DEF p

RolePiece == Piece("role", TRUE, 0, Empty)

LEMMA RolePieceType ==
  RolePiece \in PieceSet /\ RolePiece.kind = "role" /\ RolePiece.role
BY DEF RolePiece, Piece, PieceSet, PieceKinds, Vals

\* What the stream is when a tool call starts.
Announced(s) == IF s.started THEN s ELSE Write(s, RolePiece)

CallPiece(index, id) == Piece("call", FALSE, index, id)

LEMMA AnnouncedFields ==
  ASSUME NEW s \in StreamState
  PROVE  LET t == Announced(s)
         IN  /\ t \in StreamState
             /\ t.webSearchResults = s.webSearchResults /\ t.usageResult = s.usageResult
BY RolePieceType, WriteFields DEF Announced

LEMMA CallFields ==
  ASSUME NEW s \in StreamState, NEW index \in ToolIndices, NEW id \in ToolIDs
  PROVE  LET t == EncodeCall(s, index, id)
         IN  /\ t \in StreamState /\ t.started /\ CallPiece(index, id) \in PieceSet
             /\ t.out = Append(Announced(s).out, CallPiece(index, id))
             /\ t.webSearchResults = s.webSearchResults /\ t.usageResult = s.usageResult
<1> DEFINE r == Announced(s)
           p == CallPiece(index, id)
           w == Write(r, p)
<1>1. /\ r \in StreamState
      /\ r.webSearchResults = s.webSearchResults /\ r.usageResult = s.usageResult
  BY AnnouncedFields
<1>2. p \in PieceSet
  BY PieceType DEF PieceKinds, Vals, CallPiece
<1>3. EncodeCall(s, index, id) = [w EXCEPT !.started = TRUE]
  BY DEF EncodeCall, RolePiece, CallPiece, Announced
<1> HIDE DEF r, p
<1>4. /\ w \in StreamState /\ w.out = Append(r.out, p)
      /\ w.webSearchResults = r.webSearchResults /\ w.usageResult = r.usageResult
  BY <1>1, <1>2, WriteFields
<1> HIDE DEF w
<1>5. LET t == EncodeCall(s, index, id)
      IN  /\ t \in StreamState /\ t.out = w.out /\ t.started
          /\ t.webSearchResults = w.webSearchResults /\ t.usageResult = w.usageResult
  BY <1>3, <1>4 DEF StreamState
<1> QED BY <1>1, <1>2, <1>4, <1>5 DEF r, p

\* What the stream is when a finish reason is due.
Footed(s) ==
  IF s.webSearchResults # NoResults THEN EncodeContent(s, "text", s.webSearchResults) ELSE s

LEMMA TakeCases ==
  ASSUME NEW s \in StreamState, NEW ev \in DecodedEvent
  PROVE  /\ ev.type = "text_delta" => TakeEvent(s, ev) = EncodeContent(s, "text", ev.val)
         /\ ev.type = "thinking_delta" =>
              TakeEvent(s, ev) = EncodeContent(s, "reasoning", ev.val)
         /\ ev.type = "thinking_signature" => TakeEvent(s, ev) = s
         /\ ev.type = "tool_call_start" => TakeEvent(s, ev) = EncodeCall(s, ev.index, ev.val)
         /\ ev.type = "tool_call_delta" =>
              TakeEvent(s, ev) = Write(s, Piece("args", FALSE, ev.index, ev.val))
         /\ ev.type = "message_stop" =>
              TakeEvent(s, ev) = Write(Footed(s), Piece("finish", FALSE, 0, ev.val))
         /\ ev.type = "usage_final" =>
              TakeEvent(s, ev) =
                [Write(s, Piece("usage", FALSE, 0, ev.val)) EXCEPT !.usageResult = ev.val]
BY DEF TakeEvent, EncodeOpenAI, Footed

LEMMA FootedFields ==
  ASSUME NEW s \in StreamState
  PROVE  LET t == Footed(s)
         IN  /\ t \in StreamState
             /\ t.webSearchResults = s.webSearchResults /\ t.usageResult = s.usageResult
<1>1. s.webSearchResults # NoResults => s.webSearchResults \in Vals
  BY DEF StreamState, Vals
<1>2. "text" \in PieceKinds
  BY DEF PieceKinds
<1> QED BY <1>1, <1>2, ContentFields DEF Footed

LEMMA PlainPieces ==
  ASSUME NEW ev \in DecodedEvent
  PROVE  /\ ev.type = "tool_call_delta" => Piece("args", FALSE, ev.index, ev.val) \in PieceSet
         /\ ev.type = "message_stop" => Piece("finish", FALSE, 0, ev.val) \in PieceSet
         /\ ev.type = "usage_final" => Piece("usage", FALSE, 0, ev.val) \in PieceSet
BY DecodedIsEvent DEF Piece, PieceSet, PieceKinds, Vals

LEMMA UsageFields ==
  ASSUME NEW s \in StreamState, NEW p \in PieceSet, NEW u \in Usages
  PROVE  LET t == [Write(s, p) EXCEPT !.usageResult = u]
         IN  /\ t \in StreamState /\ t.out = Append(s.out, p) /\ t.started = s.started
             /\ t.webSearchResults = s.webSearchResults /\ t.usageResult = u
<1> DEFINE w == Write(s, p)
<1>1. /\ w \in StreamState /\ w.out = Append(s.out, p) /\ w.started = s.started
      /\ w.webSearchResults = s.webSearchResults
  BY WriteFields
<1> HIDE DEF w
<1>2. LET t == [w EXCEPT !.usageResult = u]
      IN  /\ t \in StreamState /\ t.out = w.out /\ t.started = w.started
          /\ t.webSearchResults = w.webSearchResults /\ t.usageResult = u
  BY <1>1 DEF StreamState
<1> QED BY <1>1, <1>2 DEF w

LEMMA TakeEventType ==
  ASSUME NEW s \in StreamState, NEW ev \in DecodedEvent
  PROVE  LET t == TakeEvent(s, ev)
         IN  /\ t \in StreamState /\ t.webSearchResults = s.webSearchResults
             /\ t.usageResult = IF ev.type = "usage_final" THEN ev.val ELSE s.usageResult
<1> DEFINE t == TakeEvent(s, ev)
           Typed(x) == x \in StreamState /\ x.webSearchResults = s.webSearchResults
           Same(x) == x.usageResult = s.usageResult
<1>1. ev.type \in EventTypes
  BY DecodedIsEvent
<1>2. CASE ev.type = "text_delta"
  <2>1. ev.val \in Vals /\ "text" \in PieceKinds
    BY <1>2, DecodedIsEvent DEF Vals, PieceKinds
  <2>2. Typed(EncodeContent(s, "text", ev.val)) /\ Same(EncodeContent(s, "text", ev.val))
    BY <2>1, ContentFields
  <2> QED BY <2>2, <1>2, TakeCases
<1>3. CASE ev.type = "thinking_delta"
  <2>1. ev.val \in Vals /\ "reasoning" \in PieceKinds
    BY <1>3, DecodedIsEvent DEF Vals, PieceKinds
  <2>2. /\ Typed(EncodeContent(s, "reasoning", ev.val))
        /\ Same(EncodeContent(s, "reasoning", ev.val))
    BY <2>1, ContentFields
  <2> QED BY <2>2, <1>3, TakeCases
<1>4. CASE ev.type = "thinking_signature"
  BY <1>4, TakeCases
<1>5. CASE ev.type = "tool_call_start"
  <2>1. ev.index \in ToolIndices /\ ev.val \in ToolIDs
    BY <1>5, DecodedIsEvent
  <2>2. Typed(EncodeCall(s, ev.index, ev.val)) /\ Same(EncodeCall(s, ev.index, ev.val))
    BY <2>1, CallFields
  <2> QED BY <2>2, <1>5, TakeCases
<1>6. CASE ev.type = "tool_call_delta"
  <2> DEFINE p == Piece("args", FALSE, ev.index, ev.val)
  <2>1. p \in PieceSet
    BY <1>6, PlainPieces
  <2>2. t = Write(s, p)
    BY <1>6, TakeCases
  <2> HIDE DEF p, t
  <2>3. Typed(t) /\ Same(t)
    BY <2>1, <2>2, WriteFields
  <2> QED BY <2>3, <1>6 DEF t
<1>7. CASE ev.type = "message_stop"
  <2> DEFINE p == Piece("finish", FALSE, 0, ev.val)
             f == Footed(s)
  <2>1. p \in PieceSet /\ Typed(f) /\ Same(f)
    BY <1>7, PlainPieces, FootedFields
  <2>2. t = Write(f, p)
    BY <1>7, TakeCases
  <2> HIDE DEF p, t, f
  <2>3. Typed(t) /\ Same(t)
    BY <2>1, <2>2, WriteFields
  <2> QED BY <2>3, <1>7 DEF t
<1>8. CASE ev.type = "usage_final"
  <2> DEFINE p == Piece("usage", FALSE, 0, ev.val)
  <2>1. p \in PieceSet /\ ev.val \in Usages
    BY <1>8, PlainPieces, DecodedIsEvent
  <2>2. t = [Write(s, p) EXCEPT !.usageResult = ev.val]
    BY <1>8, TakeCases
  <2> HIDE DEF p, t
  <2>3. Typed(t) /\ t.usageResult = ev.val
    BY <2>1, <2>2, UsageFields
  <2> QED BY <2>3, <1>8 DEF t
<1> QED BY <1>1, <1>2, <1>3, <1>4, <1>5, <1>6, <1>7, <1>8 DEF EventTypes

LEMMA AggregateType ==
  ASSUME NEW s \in AggregateState
  PROVE  /\ \A ev \in DecodedEvent : AggregateEvent(s, ev) \in AggregateState
         /\ \A results \in Results : AggregateSources(s, results) \in AggregateState
         /\ AggregateFails(s) \in AggregateState
<1>1. \A ev \in DecodedEvent : AggregateEvent(s, ev) \in AggregateState
  BY ApplyType DEF AggregateEvent
<1>2. \A results \in Results : AggregateSources(s, results) \in AggregateState
  BY DEF AggregateSources, AggregateState
<1>3. AggregateFails(s) \in AggregateState
  BY DEF AggregateFails, AggregateState
<1> QED BY <1>1, <1>2, <1>3

DonePiece == Piece("done", FALSE, 0, Empty)

LEMMA StreamTypes ==
  ASSUME NEW s \in StreamState
  PROVE  /\ \A results \in Results : StreamSources(s, hasWebSearch, results) \in StreamState
         /\ StreamDone(s) \in StreamState /\ StreamDone(s).out = Append(s.out, DonePiece)
         /\ DonePiece \in PieceSet
<1>1. \A results \in Results : StreamSources(s, hasWebSearch, results) \in StreamState
  BY DEF StreamSources, StreamState
<1>2. DonePiece \in PieceSet
  BY PieceType DEF PieceKinds, Vals, DonePiece
<1>3. StreamDone(s) \in StreamState /\ StreamDone(s).out = Append(s.out, DonePiece)
  BY <1>2, WriteFields DEF StreamDone, DonePiece
<1> QED BY <1>1, <1>2, <1>3

LEMMA StartsType ==
  ASSUME NEW c \in Chunk, NEW n \in 0..Len(c.tools)
  PROVE  Starts(c, n) \in Nat
<1>1. IsFiniteSet(1..n)
  BY ChunkEvents, FS_Interval
<1>2. {i \in 1..n : c.tools[i].id # Empty} \subseteq 1..n
  OBVIOUS
<1> QED BY <1>1, <1>2, FS_Subset, FS_CardinalityType DEF Starts

LEMMA SentType ==
  ASSUME NEW c \in Chunk, upstream \in Upstreams
  PROVE  /\ Sent(c) \in Upstreams /\ Sent(c).conforming = upstream.conforming
         /\ Sent(c).tools = upstream.tools + Starts(c, Len(c.tools))
         /\ Sent(c).phase = IF c.usage # NoUsage THEN "reported"
                            ELSE IF c.finish # Empty THEN "finished" ELSE upstream.phase
<1>1. Len(c.tools) \in Nat
  BY ChunkEvents
<1>2. Starts(c, Len(c.tools)) \in Nat
  BY <1>1, StartsType
<1>3. Sent(c).conforming = upstream.conforming
  BY DEF Sent, Upstreams
<1>4. Sent(c).tools = upstream.tools + Starts(c, Len(c.tools))
  BY DEF Sent, Upstreams
<1>5. Sent(c).phase = IF c.usage # NoUsage THEN "reported"
                      ELSE IF c.finish # Empty THEN "finished" ELSE upstream.phase
  BY DEF Sent, Upstreams
<1>6. upstream.tools + Starts(c, Len(c.tools)) \in Nat
  BY <1>2 DEF Upstreams
<1>7. Sent(c) \in Upstreams
  BY <1>6 DEF Sent, Upstreams
<1> QED BY <1>3, <1>4, <1>5, <1>7

LEMMA ChunksType ==
  upstream \in Upstreams => \A c \in Chunks[upstream.conforming] : c \in Chunk
BY ModesAssumption DEF Upstreams

LEMMA InitTypes == Init => TypeInv
<1> SUFFICES ASSUME Init PROVE TypeInv
  OBVIOUS
<1> USE DEF Init
<1>1. NewStream \in StreamState
  BY DEF NewStream, StreamState
<1>2. NewAggregate \in AggregateState
  BY DEF NewAggregate, AggregateState
<1>3. upstream \in Upstreams
  BY DEF Upstreams
<1>4. lines \in 0..MaxLines[upstream.conforming]
  BY <1>3, ModesAssumption DEF Upstreams
<1> QED BY <1>1, <1>2, <1>3, <1>4 DEF TypeInv

LEMMA ReadingTypes ==
  ASSUME TypeInv, Reading, upstream'.conforming = upstream.conforming
  PROVE  lines' \in 0..MaxLines[upstream.conforming]'
<1>1. MaxLines[upstream.conforming] \in Nat
  BY ModesAssumption DEF TypeInv, Upstreams
<1>2. MaxLines[upstream.conforming]' = MaxLines[upstream.conforming]
  OBVIOUS
<1>3. lines \in Nat /\ lines < MaxLines[upstream.conforming] /\ lines' = lines + 1
  BY <1>1 DEF TypeInv, Reading
<1> QED BY <1>1, <1>2, <1>3

LEMMA StepTypes == TypeInv /\ [Next]_vars => TypeInv'
<1> SUFFICES ASSUME TypeInv, [Next]_vars PROVE TypeInv'
  OBVIOUS
<1> USE DEF TypeInv
<1>1. ASSUME NEW c \in Chunks[upstream.conforming], ReadChunk(c) PROVE TypeInv'
  <2>1. c \in Chunk
    BY ChunksType
  <2>2. upstream' \in Upstreams /\ upstream'.conforming = upstream.conforming
    BY <1>1, <2>1, SentType DEF ReadChunk
  <2>3. pending' \in Seq(DecodedEvent)
    BY <1>1, <2>1, DecodeType DEF ReadChunk
  <2> QED BY <1>1, <2>2, <2>3, ReadingTypes DEF ReadChunk, Reading
<1>2. ASSUME NEW results \in Results, ReadSources(results) PROVE TypeInv'
  BY <1>2, StreamTypes, AggregateType, ReadingTypes DEF ReadSources
<1>3. CASE TakeNext
  <2>1. Head(pending) \in DecodedEvent /\ Tail(pending) \in Seq(DecodedEvent)
    BY <1>3 DEF TakeNext
  <2>2. stream' \in StreamState
    BY <1>3, <2>1, TakeEventType DEF TakeNext
  <2>3. aggregate' \in AggregateState
    BY <1>3, <2>1, AggregateType DEF TakeNext
  <2> QED BY <1>3, <2>1, <2>2, <2>3 DEF TakeNext
<1>4. CASE ReadMalformed
  BY <1>4, AggregateType, ReadingTypes DEF ReadMalformed
<1>5. CASE ReadDone
  BY <1>5, StreamTypes, ReadingTypes DEF ReadDone
<1>6. CASE ReadEOF
  BY <1>6 DEF ReadEOF
<1>7. CASE ReadFails
  BY <1>7, AggregateType DEF ReadFails
<1>8. CASE Returned \/ UNCHANGED vars
  BY <1>8 DEF Returned, vars
<1> QED BY <1>1, <1>2, <1>3, <1>4, <1>5, <1>6, <1>7, <1>8 DEF Next

LEMMA TypeInvariant == Spec => []TypeInv
BY InitTypes, StepTypes, PTL DEF Spec

(* ----------------------------- the role first --------------------------- *)

\* The kinds of a chunk that needs the role.
Spoken == {"text", "reasoning", "call"}

\* TypeOK's and RoleComesFirst's parts about one sequence of chunks.
RoleTold(started, out) ==
  /\ started <=> \E i \in DOMAIN out : out[i].role
  /\ \A i \in DOMAIN out :
       /\ out[i].role => \A j \in 1..(i - 1) : ~out[j].role
       /\ out[i].kind \in Spoken => \E j \in 1..i : out[j].role

LEMMA AppendPieces ==
  ASSUME NEW out \in Seq(PieceSet), NEW p \in PieceSet
  PROVE  LET t == Append(out, p)
         IN  /\ Len(out) \in Nat /\ DOMAIN out = 1..Len(out) /\ DOMAIN t = 1..(Len(out) + 1)
             /\ \A i \in 1..Len(out) : t[i] = out[i]
             /\ t[Len(out) + 1] = p /\ t \in Seq(PieceSet)
OBVIOUS

LEMMA RoleAppend ==
  ASSUME NEW started \in BOOLEAN, NEW out \in Seq(PieceSet), NEW p \in PieceSet,
         RoleTold(started, out),
         p.role => ~started,
         p.kind \in Spoken => started \/ p.role
  PROVE  RoleTold(started \/ p.role, Append(out, p))
<1> DEFINE n == Len(out)
           t == Append(out, p)
<1>1. /\ n \in Nat /\ DOMAIN out = 1..n /\ DOMAIN t = 1..(n + 1)
      /\ \A i \in 1..n : t[i] = out[i]
      /\ t[n + 1] = p
  BY AppendPieces
<1> HIDE DEF n, t
<1>2. started \/ p.role <=> \E i \in 1..(n + 1) : t[i].role
  <2>1. started <=> \E i \in 1..n : t[i].role
    BY <1>1 DEF RoleTold
  <2>2. n + 1 \in 1..(n + 1) /\ 1..n \subseteq 1..(n + 1)
    BY <1>1
  <2>3. \A i \in 1..(n + 1) : i \in 1..n \/ i = n + 1
    BY <1>1
  <2> QED BY <2>1, <2>2, <2>3, <1>1
<1>3. ASSUME NEW i \in 1..(n + 1)
      PROVE  /\ t[i].role => \A j \in 1..(i - 1) : ~t[j].role
             /\ t[i].kind \in Spoken => \E j \in 1..i : t[j].role
  <2>1. CASE i \in 1..n
    <3>1. \A j \in 1..i : j \in 1..n /\ t[j] = out[j]
      BY <2>1, <1>1
    <3>2. \A j \in 1..(i - 1) : j \in 1..i
      BY <2>1, <1>1
    <3>3. /\ out[i].role => \A j \in 1..(i - 1) : ~out[j].role
          /\ out[i].kind \in Spoken => \E j \in 1..i : out[j].role
      BY <2>1, <1>1 DEF RoleTold
    <3>4. t[i] = out[i]
      BY <2>1, <1>1
    <3> QED BY <3>1, <3>2, <3>3, <3>4
  <2>2. CASE i = n + 1
    <3>1. i - 1 = n /\ t[i] = p
      BY <2>2, <1>1
    <3>2. \A j \in 1..n : t[j] = out[j] /\ j \in 1..i
      BY <2>2, <1>1
    <3>3. i \in 1..i
      BY <1>1
    <3>4. started <=> \E j \in 1..n : out[j].role
      BY <1>1 DEF RoleTold
    <3> QED BY <3>1, <3>2, <3>3, <3>4
  <2> QED BY <2>1, <2>2, <1>1
<1> QED BY <1>1, <1>2, <1>3 DEF RoleTold, t

RoleKept(s) == RoleTold(s.started, s.out)

LEMMA RoleContent ==
  ASSUME NEW s \in StreamState, NEW kind \in PieceKinds, NEW val \in Vals, RoleKept(s)
  PROVE  RoleKept(EncodeContent(s, kind, val))
<1> DEFINE p == ContentPiece(s, kind, val)
           t == EncodeContent(s, kind, val)
<1>1. /\ t.out = Append(s.out, p) /\ t.started /\ t \in StreamState
      /\ p \in PieceSet /\ (p.role <=> ~s.started)
  BY ContentFields
<1> HIDE DEF p, t
<1>2. s.started \in BOOLEAN /\ s.out \in Seq(PieceSet) /\ RoleTold(s.started, s.out)
  BY DEF StreamState, RoleKept
<1>3. RoleTold(s.started \/ p.role, t.out)
  BY <1>1, <1>2, RoleAppend
<1>4. s.started \/ p.role
  BY <1>1, <1>2
<1>5. RoleKept(t)
  BY <1>1, <1>3, <1>4 DEF RoleKept, RoleTold
<1> QED BY <1>5 DEF t

\* A chunk without a role.
LEMMA RoleWrite ==
  ASSUME NEW s \in StreamState, NEW t, NEW p \in PieceSet, RoleKept(s),
         t.out = Append(s.out, p), t.started = s.started, ~p.role,
         p.kind \in Spoken => s.started
  PROVE  RoleKept(t)
<1>1. s.started \in BOOLEAN /\ s.out \in Seq(PieceSet) /\ RoleTold(s.started, s.out)
  BY DEF StreamState, RoleKept
<1>2. RoleTold(s.started \/ p.role, t.out)
  BY <1>1, RoleAppend
<1> QED BY <1>2 DEF RoleKept, RoleTold

LEMMA RoleAnnounced ==
  ASSUME NEW s \in StreamState, RoleKept(s)
  PROVE  RoleTold(TRUE, Announced(s).out)
<1>1. CASE s.started
  BY <1>1 DEF RoleKept, RoleTold, Announced
<1>2. CASE ~s.started
  <2>1. s.started \in BOOLEAN /\ s.out \in Seq(PieceSet) /\ RoleTold(s.started, s.out)
    BY DEF StreamState, RoleKept
  <2>2. RoleTold(s.started \/ RolePiece.role, Append(s.out, RolePiece))
    BY <1>2, <2>1, RolePieceType, RoleAppend
  <2>3. Announced(s).out = Append(s.out, RolePiece)
    BY <1>2, RolePieceType, WriteFields DEF Announced
  <2> QED BY <2>2, <2>3, RolePieceType DEF RoleTold
<1> QED BY <1>1, <1>2

LEMMA RoleCall ==
  ASSUME NEW s \in StreamState, NEW index \in ToolIndices, NEW id \in ToolIDs, RoleKept(s)
  PROVE  RoleKept(EncodeCall(s, index, id))
<1> DEFINE p == CallPiece(index, id)
           a == Announced(s)
           t == EncodeCall(s, index, id)
<1>1. t.started /\ p \in PieceSet /\ t.out = Append(a.out, p) /\ a.out \in Seq(PieceSet)
  BY CallFields, AnnouncedFields DEF StreamState
<1>2. ~p.role
  BY DEF CallPiece, Piece
<1>3. RoleTold(TRUE, a.out)
  BY RoleAnnounced
<1> HIDE DEF p, a, t
<1>4. RoleTold(TRUE \/ p.role, Append(a.out, p))
  <2>1. TRUE \in BOOLEAN
    OBVIOUS
  <2> QED BY <1>1, <1>2, <1>3, <2>1, RoleAppend
<1>5. RoleKept(t)
  BY <1>1, <1>4 DEF RoleKept, RoleTold
<1> QED BY <1>5 DEF t

LEMMA RoleTake ==
  ASSUME NEW s \in StreamState, NEW ev \in DecodedEvent, RoleKept(s)
  PROVE  RoleKept(TakeEvent(s, ev))
<1> DEFINE t == TakeEvent(s, ev)
<1>1. ev.type \in EventTypes
  BY DecodedIsEvent
<1>2. CASE ev.type = "text_delta"
  <2>1. ev.val \in Vals /\ "text" \in PieceKinds
    BY <1>2, DecodedIsEvent DEF Vals, PieceKinds
  <2>2. RoleKept(EncodeContent(s, "text", ev.val))
    BY <2>1, RoleContent
  <2> QED BY <2>2, <1>2, TakeCases
<1>3. CASE ev.type = "thinking_delta"
  <2>1. ev.val \in Vals /\ "reasoning" \in PieceKinds
    BY <1>3, DecodedIsEvent DEF Vals, PieceKinds
  <2>2. RoleKept(EncodeContent(s, "reasoning", ev.val))
    BY <2>1, RoleContent
  <2> QED BY <2>2, <1>3, TakeCases
<1>4. CASE ev.type = "thinking_signature"
  BY <1>4, TakeCases
<1>5. CASE ev.type = "tool_call_start"
  <2>1. RoleKept(EncodeCall(s, ev.index, ev.val))
    BY <1>5, DecodedIsEvent, RoleCall
  <2> QED BY <2>1, <1>5, TakeCases
<1>6. CASE ev.type = "tool_call_delta"
  <2> DEFINE p == Piece("args", FALSE, ev.index, ev.val)
  <2>1. p \in PieceSet /\ ~p.role /\ p.kind \notin Spoken
    BY <1>6, PlainPieces DEF Piece, Spoken
  <2>2. t = Write(s, p)
    BY <1>6, TakeCases
  <2> HIDE DEF p, t
  <2>3. RoleKept(t)
    BY <2>1, <2>2, WriteFields, RoleWrite
  <2> QED BY <2>3 DEF t
<1>7. CASE ev.type = "message_stop"
  <2> DEFINE p == Piece("finish", FALSE, 0, ev.val)
             f == Footed(s)
  <2>1. p \in PieceSet /\ ~p.role /\ p.kind \notin Spoken
    BY <1>7, PlainPieces DEF Piece, Spoken
  <2>2. f \in StreamState
    BY FootedFields
  <2>3. RoleKept(f)
    <3>1. s.webSearchResults # NoResults => s.webSearchResults \in Vals
      BY DEF StreamState, Vals
    <3>2. "text" \in PieceKinds
      BY DEF PieceKinds
    <3> QED BY <3>1, <3>2, RoleContent DEF Footed
  <2>4. t = Write(f, p)
    BY <1>7, TakeCases
  <2> HIDE DEF p, t, f
  <2>5. RoleKept(t)
    BY <2>1, <2>2, <2>3, <2>4, WriteFields, RoleWrite
  <2> QED BY <2>5 DEF t
<1>8. CASE ev.type = "usage_final"
  <2> DEFINE p == Piece("usage", FALSE, 0, ev.val)
  <2>1. p \in PieceSet /\ ~p.role /\ p.kind \notin Spoken
    BY <1>8, PlainPieces DEF Piece, Spoken
  <2>2. t = [Write(s, p) EXCEPT !.usageResult = ev.val] /\ ev.val \in Usages
    BY <1>8, TakeCases, DecodedIsEvent
  <2> HIDE DEF p, t
  <2>3. t.out = Append(s.out, p) /\ t.started = s.started
    BY <2>1, <2>2, UsageFields
  <2>4. RoleKept(t)
    BY <2>1, <2>3, RoleWrite
  <2> QED BY <2>4 DEF t
<1> QED BY <1>1, <1>2, <1>3, <1>4, <1>5, <1>6, <1>7, <1>8 DEF EventTypes

RoleInv == RoleKept(stream)

LEMMA InitRole == Init => RoleInv
BY DEF Init, NewStream, RoleInv, RoleKept, RoleTold

LEMMA StepRole == TypeInv /\ RoleInv /\ [Next]_vars => RoleInv'
<1> SUFFICES ASSUME TypeInv, RoleInv, [Next]_vars PROVE RoleInv'
  OBVIOUS
<1>1. CASE TakeNext
  <2>1. Head(pending) \in DecodedEvent
    BY <1>1 DEF TypeInv, TakeNext
  <2>2. RoleKept(TakeEvent(stream, Head(pending)))
    BY <2>1, RoleTake DEF TypeInv, RoleInv
  <2> QED BY <1>1, <2>2 DEF TakeNext, RoleInv
<1>2. CASE ReadDone
  <2>1. ~DonePiece.role /\ DonePiece.kind \notin Spoken
    BY DEF DonePiece, Piece, Spoken
  <2>2. /\ stream' = Write(stream, DonePiece) /\ stream \in StreamState
        /\ DonePiece \in PieceSet /\ RoleKept(stream)
    BY <1>2, StreamTypes DEF ReadDone, StreamDone, DonePiece, TypeInv, RoleInv
  <2>3. RoleKept(Write(stream, DonePiece))
    BY <2>1, <2>2, WriteFields, RoleWrite
  <2> QED BY <2>2, <2>3 DEF RoleInv
<1>3. ASSUME NEW results \in Results, ReadSources(results) PROVE RoleInv'
  <2>1. stream'.out = stream.out /\ stream'.started = stream.started
    BY <1>3 DEF ReadSources, StreamSources, TypeInv, StreamState
  <2> QED BY <2>1 DEF RoleInv, RoleKept
<1>4. CASE ReadMalformed \/ ReadEOF \/ ReadFails \/ Returned \/ UNCHANGED vars
  BY <1>4 DEF ReadMalformed, ReadEOF, ReadFails, Returned, vars, RoleInv
<1>5. ASSUME NEW c \in Chunks[upstream.conforming], ReadChunk(c) PROVE RoleInv'
  BY <1>5 DEF ReadChunk, RoleInv
<1> QED BY <1>1, <1>2, <1>3, <1>4, <1>5 DEF Next

LEMMA RoleInvariant == Spec => []RoleInv
BY TypeInvariant, InitRole, StepRole, PTL DEF Spec

\* The types of the two states, side by side, and that the encoder has said
\* who speaks exactly when it remembers so (OpenAIStreamEncoder,
\* StreamAggregateState).
THEOREM TypesHold == Spec => []TypeOK
<1>1. TypeInv /\ RoleInv => TypeOK
  <2> SUFFICES ASSUME TypeInv, RoleInv PROVE TypeOK
    OBVIOUS
  <2>1. DecodedEvent \subseteq StreamEvent
    BY DecodedIsEvent
  <2>2. pending \in Seq(StreamEvent)
    BY <2>1 DEF TypeInv
  <2>3. stream.started <=> \E i \in DOMAIN stream.out : stream.out[i].role
    BY DEF RoleInv, RoleKept, RoleTold
  <2> QED BY <2>2, <2>3 DEF TypeInv, TypeOK, StreamState, AggregateState, Calls, Reports
<1> QED BY <1>1, TypeInvariant, RoleInvariant, PTL

\* Every chunk with text, reasoning or a tool call follows the one that names
\* the assistant, or is it, and only one chunk does (OpenAIStreamEncoder.Encode).
THEOREM RoleIsFirst == Spec => []RoleComesFirst
<1>1. RoleInv => RoleComesFirst
  BY DEF RoleInv, RoleKept, RoleTold, Spoken, RoleComesFirst
<1> QED BY <1>1, RoleInvariant, PTL

(* ---------------------------- the last usage --------------------------- *)

LEMMA InitTokens == Init => SameTokens
BY DEF Init, NewStream, NewAggregate, SameTokens

LEMMA ApplyUsage ==
  ASSUME NEW s \in AggregateState, NEW ev \in DecodedEvent
  PROVE  Apply(s, ev).usage = IF ev.type = "usage_final" THEN MergeUsage(s.usage, ev.val)
                              ELSE s.usage
<1>1. ev.type \in EventTypes
  BY DecodedIsEvent
<1>2. CASE ev.type = "tool_call_delta"
  <2>1. ev.index \in ToolIndices /\ ev.val \in Pieces
    BY <1>2, DecodedIsEvent
  <2>2. Apply(s, ev) = ExtendCall(s, ev.index, ev.val)
    BY <1>2 DEF Apply
  <2>3. ExtendCall(s, ev.index, ev.val).usage = s.usage
    BY <2>1, ExtendCallFields, ExtendedType
  <2> QED BY <1>2, <2>2, <2>3
<1>3. CASE ev.type # "tool_call_delta"
  BY <1>1, <1>3 DEF Apply, StartCall, AggregateState, EventTypes
<1> QED BY <1>2, <1>3

LEMMA StepTokens == TypeInv /\ SameTokens /\ [Next]_vars => SameTokens'
<1> SUFFICES ASSUME TypeInv, SameTokens, [Next]_vars PROVE SameTokens'
  OBVIOUS
<1>0. /\ stream \in StreamState /\ aggregate \in AggregateState
      /\ aggregate.failed \in BOOLEAN /\ aggregate.usage \in Reports \cup {NoUsage}
  BY DEF TypeInv, AggregateState
<1>1. CASE TakeNext
  <2> DEFINE ev == Head(pending)
  <2>1. /\ ev \in DecodedEvent
        /\ stream' = TakeEvent(stream, ev) /\ aggregate' = AggregateEvent(aggregate, ev)
    BY <1>1 DEF TypeInv, TakeNext
  <2> HIDE DEF ev
  <2>2. CASE aggregate.failed
    BY <2>1, <2>2 DEF AggregateEvent, SameTokens
  <2>3. CASE ~aggregate.failed
    <3>1. aggregate' = Apply(aggregate, ev)
      BY <2>1, <2>3 DEF AggregateEvent
    <3>2. CASE ev.type # "usage_final"
      <4>1. stream'.usageResult = stream.usageResult /\ aggregate'.usage = aggregate.usage
        BY <1>0, <2>1, <3>1, <3>2, TakeEventType, ApplyUsage
      <4> QED BY <4>1, <2>3 DEF SameTokens
    <3>3. CASE ev.type = "usage_final"
      <4>1. ev.val \in Usages /\ ev.val # NoUsage
        BY <2>1, <3>3, DecodedIsEvent, EventsAssumption
      <4>2. stream'.usageResult = ev.val /\ aggregate'.usage = MergeUsage(aggregate.usage, ev.val)
        BY <1>0, <2>1, <3>1, <3>3, TakeEventType, ApplyUsage
      <4>3. aggregate'.usage # NoUsage /\ aggregate'.usage.tokens = ev.val.tokens
        BY <1>0, <4>1, <4>2, MergeType
      <4> QED BY <4>1, <4>2, <4>3 DEF SameTokens
    <3> QED BY <3>2, <3>3
  <2> QED BY <2>2, <2>3
<1>2. CASE ReadDone
  <2>1. stream'.usageResult = stream.usageResult
    BY <1>2, StreamTypes, WriteFields DEF ReadDone, StreamDone, DonePiece, TypeInv
  <2> QED BY <1>2, <2>1 DEF ReadDone, SameTokens
<1>3. ASSUME NEW results \in Results, ReadSources(results) PROVE SameTokens'
  <2>1. stream'.usageResult = stream.usageResult
    BY <1>0, <1>3 DEF ReadSources, StreamSources, StreamState
  <2>2. aggregate'.usage = aggregate.usage /\ aggregate'.failed = aggregate.failed
    BY <1>0, <1>3 DEF ReadSources, AggregateSources, AggregateState
  <2> QED BY <2>1, <2>2 DEF SameTokens
<1>4. CASE ReadMalformed \/ ReadFails
  <2>1. aggregate'.failed
    BY <1>0, <1>4 DEF ReadMalformed, ReadFails, AggregateFails, AggregateState
  <2> QED BY <2>1 DEF SameTokens
<1>5. CASE ReadEOF \/ Returned \/ UNCHANGED vars
  BY <1>5 DEF ReadEOF, Returned, vars, SameTokens
<1>6. ASSUME NEW c \in Chunks[upstream.conforming], ReadChunk(c) PROVE SameTokens'
  BY <1>6 DEF ReadChunk, SameTokens
<1> QED BY <1>1, <1>2, <1>3, <1>4, <1>5, <1>6 DEF Next

\* Whatever the upstream reports, and how often, the usage record of a stream
\* and that of its aggregate charge the same prompt and completion
\* (streamOpenAIToOpenAIClient, StreamAggregateState.Apply).
THEOREM TokensAgree == Spec => []SameTokens
BY TypeInvariant, InitTokens, StepTokens, PTL DEF Spec

(* ------------------------ what the chunks tell ------------------------- *)

\* The positions of the chunks of a set.
At(out, S) == {i \in DOMAIN out : out[i] \in S}

PiecesOf(kind) == {p \in PieceSet : p.kind = kind}

CallPieces(kind, index) == {p \in PieceSet : p.kind = kind /\ p.index = index}

OwnText == {p \in PieceSet : p.kind = "text" /\ p.val \notin Results}

\* Tell, of the chunks of a set: the k-th one has the k-th value.
Told(out, S, vals) ==
  /\ Cardinality(At(out, S)) = Len(vals)
  /\ \A i \in At(out, S) : out[i].val = vals[Rank(At(out, S), i)]
  /\ \A k \in 1..Len(vals) : \E i \in At(out, S) : Rank(At(out, S), i) = k

\* One more chunk.
Wrote(out, next, kind, index, val) ==
  \E p \in PieceSet :
    /\ p.kind = kind /\ p.index = index /\ p.val = val
    /\ next = Append(out, p)

LEMMA RankOfLast ==
  ASSUME NEW n \in Nat, NEW P, P \subseteq 1..n
  PROVE  LET Q == P \cup {n + 1}
         IN  /\ Cardinality(P) \in Nat /\ Cardinality(Q) = Cardinality(P) + 1
             /\ Rank(Q, n + 1) = Cardinality(P) + 1
             /\ \A k \in P : Rank(Q, k) = Rank(P, k)
             /\ \A k \in P : Rank(P, k) \in 1..Cardinality(P)
<1> DEFINE Q == P \cup {n + 1}
<1>1. IsFiniteSet(P)
  <2>1. IsFiniteSet(1..n)
    BY FS_Interval
  <2> QED BY <2>1, FS_Subset
<1>2. n + 1 \notin P
  OBVIOUS
<1>3. Cardinality(P) \in Nat /\ Cardinality(Q) = Cardinality(P) + 1
  BY <1>1, <1>2, FS_AddElement, FS_CardinalityType
<1>4. {m \in Q : m <= n + 1} = Q
  <2>1. \A m \in Q : m <= n + 1
    OBVIOUS
  <2> QED BY <2>1
<1>5. ASSUME NEW k \in P
      PROVE  Rank(Q, k) = Rank(P, k) /\ Rank(P, k) \in 1..Cardinality(P)
  <2> DEFINE B == {m \in P : m <= k}
  <2>1. {m \in Q : m <= k} = B
    <3>1. ~(n + 1 <= k)
      OBVIOUS
    <3> QED BY <3>1
  <2>2. B \subseteq P /\ k \in B
    OBVIOUS
  <2>3. IsFiniteSet(B) /\ Cardinality(B) <= Cardinality(P) /\ Cardinality(B) \in Nat
    <3> HIDE DEF B
    <3> QED BY <1>1, <2>2, FS_Subset, FS_CardinalityType
  <2>4. Cardinality(B) # 0
    <3> HIDE DEF B
    <3> QED BY <2>2, <2>3, FS_EmptySet
  <2>5. Cardinality(B) \in 1..Cardinality(P)
    <3> HIDE DEF B
    <3> QED BY <2>3, <2>4, <1>3
  <2> QED BY <2>1, <2>5 DEF Rank
<1> QED BY <1>3, <1>4, <1>5 DEF Rank

LEMMA AtAppend ==
  ASSUME NEW out \in Seq(PieceSet), NEW p \in PieceSet, NEW S
  PROVE  /\ p \in S => At(Append(out, p), S) = At(out, S) \cup {Len(out) + 1}
         /\ p \notin S => At(Append(out, p), S) = At(out, S)
         /\ At(out, S) \subseteq 1..Len(out)
<1> DEFINE n == Len(out)
           t == Append(out, p)
<1>1. /\ n \in Nat /\ DOMAIN out = 1..n /\ DOMAIN t = 1..(n + 1)
      /\ \A i \in 1..n : t[i] = out[i]
      /\ t[n + 1] = p
  BY AppendPieces
<1> HIDE DEF n, t
<1>2. 1..(n + 1) = 1..n \cup {n + 1}
  BY <1>1
<1>3. /\ p \in S => At(t, S) = At(out, S) \cup {n + 1}
      /\ p \notin S => At(t, S) = At(out, S)
      /\ At(out, S) \subseteq 1..n
  BY <1>1, <1>2 DEF At
<1> QED BY <1>3 DEF n, t

LEMMA ToldAppend ==
  ASSUME NEW out \in Seq(PieceSet), NEW p \in PieceSet, NEW S, NEW vals \in Seq(Vals),
         Told(out, S, vals)
  PROVE  /\ p \in S => Told(Append(out, p), S, Append(vals, p.val))
         /\ p \notin S => Told(Append(out, p), S, vals)
<1> DEFINE n == Len(out)
           t == Append(out, p)
           P == At(out, S)
           m == Len(vals)
           more == Append(vals, p.val)
<1>1. n \in Nat /\ P \subseteq 1..n /\ \A i \in 1..n : t[i] = out[i]
  BY AppendPieces, AtAppend
<1>2. t[n + 1] = p
  BY AppendPieces
<1>3. /\ Cardinality(P) = m
      /\ \A i \in P : out[i].val = vals[Rank(P, i)]
      /\ \A k \in 1..m : \E i \in P : Rank(P, i) = k
  BY DEF Told
<1>4. /\ p \in S => At(t, S) = P \cup {n + 1}
      /\ p \notin S => At(t, S) = P
  BY AtAppend
<1>5. p.val \in Vals
  BY DEF PieceSet
<1>6. /\ m \in Nat /\ Len(more) = m + 1 /\ more[m + 1] = p.val
      /\ \A k \in 1..m : more[k] = vals[k]
  BY <1>5
<1> HIDE DEF n, t, P, m, more
<1>7. ASSUME p \in S PROVE Told(t, S, more)
  <2> DEFINE Q == P \cup {n + 1}
  <2>1. At(t, S) = Q
    BY <1>4, <1>7
  <2>2. /\ Cardinality(Q) = m + 1 /\ Rank(Q, n + 1) = m + 1
        /\ \A k \in P : Rank(Q, k) = Rank(P, k) /\ Rank(P, k) \in 1..m
    <3>1. /\ Cardinality(Q) = Cardinality(P) + 1 /\ Rank(Q, n + 1) = Cardinality(P) + 1
          /\ \A k \in P : Rank(Q, k) = Rank(P, k) /\ Rank(P, k) \in 1..Cardinality(P)
      BY <1>1, RankOfLast
    <3> QED BY <3>1, <1>3
  <2>3. \A i \in Q : i \in P \/ i = n + 1
    OBVIOUS
  <2>4. P \subseteq Q /\ n + 1 \in Q
    OBVIOUS
  <2> HIDE DEF Q
  <2>5. ASSUME NEW i \in Q PROVE t[i].val = more[Rank(Q, i)]
    <3>1. CASE i \in P
      <4>1. t[i] = out[i] /\ Rank(Q, i) = Rank(P, i) /\ Rank(P, i) \in 1..m
        BY <3>1, <1>1, <2>2
      <4>2. more[Rank(P, i)] = vals[Rank(P, i)]
        BY <4>1, <1>6
      <4> QED BY <3>1, <4>1, <4>2, <1>3
    <3>2. CASE i = n + 1
      BY <3>2, <1>2, <1>6, <2>2
    <3> QED BY <3>1, <3>2, <2>3
  <2>6. ASSUME NEW k \in 1..(m + 1) PROVE \E i \in Q : Rank(Q, i) = k
    <3>1. CASE k \in 1..m
      <4>1. PICK i \in P : Rank(P, i) = k
        BY <3>1, <1>3
      <4> QED BY <4>1, <2>2, <2>4
    <3>2. CASE k = m + 1
      BY <3>2, <2>2, <2>4
    <3> QED BY <3>1, <3>2, <1>6
  <2> QED BY <2>1, <2>2, <2>5, <2>6, <1>6 DEF Told
<1>8. ASSUME p \notin S PROVE Told(t, S, vals)
  <2>1. At(t, S) = P
    BY <1>4, <1>8
  <2>2. \A i \in P : t[i].val = out[i].val
    BY <1>1
  <2> QED BY <2>1, <2>2, <1>3 DEF Told, m
<1> QED BY <1>7, <1>8 DEF t, more

LEMMA WroteType ==
  ASSUME NEW out \in Seq(PieceSet), NEW next, NEW kind, NEW index, NEW val,
         Wrote(out, next, kind, index, val)
  PROVE  next \in Seq(PieceSet)
BY AppendPieces DEF Wrote

LEMMA ToldNext ==
  ASSUME NEW out \in Seq(PieceSet), NEW next, NEW S, NEW vals \in Seq(Vals),
         NEW kind, NEW index, NEW val,
         Wrote(out, next, kind, index, val), Told(out, S, vals),
         \A p \in PieceSet : p.kind = kind /\ p.index = index /\ p.val = val => p \in S
  PROVE  Told(next, S, Append(vals, val))
<1>1. PICK p \in PieceSet :
         /\ p.kind = kind /\ p.index = index /\ p.val = val
         /\ next = Append(out, p)
  BY DEF Wrote
<1>2. p \in S
  BY <1>1
<1>3. Told(Append(out, p), S, Append(vals, p.val))
  BY <1>2, ToldAppend
<1> QED BY <1>1, <1>3

LEMMA ToldKept ==
  ASSUME NEW out \in Seq(PieceSet), NEW next, NEW S, NEW vals \in Seq(Vals),
         NEW kind, NEW index, NEW val,
         Wrote(out, next, kind, index, val), Told(out, S, vals),
         \A p \in PieceSet : p.kind = kind /\ p.index = index /\ p.val = val => p \notin S
  PROVE  Told(next, S, vals)
<1>1. PICK p \in PieceSet :
         /\ p.kind = kind /\ p.index = index /\ p.val = val
         /\ next = Append(out, p)
  BY DEF Wrote
<1>2. p \notin S
  BY <1>1
<1> QED BY <1>1, <1>2, ToldAppend

\* No chunk yet.
LEMMA ToldNothing ==
  ASSUME NEW S
  PROVE  Told(<<>>, S, <<>>)
<1>1. At(<<>>, S) = {}
  BY DEF At
<1> QED BY <1>1, FS_EmptySet DEF Told

LEMMA ContentWrites ==
  ASSUME NEW s \in StreamState, NEW kind \in PieceKinds, NEW val \in Vals
  PROVE  Wrote(s.out, EncodeContent(s, kind, val).out, kind, 0, val)
<1> DEFINE p == ContentPiece(s, kind, val)
<1>1. /\ EncodeContent(s, kind, val).out = Append(s.out, p)
      /\ p \in PieceSet /\ p.kind = kind /\ p.val = val
  BY ContentFields
<1>2. p.index = 0
  BY DEF ContentPiece, Piece
<1> HIDE DEF p
<1> QED BY <1>1, <1>2 DEF Wrote

\* What each event writes.
LEMMA TakeWrites ==
  ASSUME NEW s \in StreamState, NEW ev \in DecodedEvent
  PROVE  LET t == TakeEvent(s, ev)
         IN  /\ ev.type = "text_delta" => Wrote(s.out, t.out, "text", 0, ev.val)
             /\ ev.type = "thinking_delta" => Wrote(s.out, t.out, "reasoning", 0, ev.val)
             /\ ev.type = "thinking_signature" => t.out = s.out
             /\ ev.type = "tool_call_start" =>
                  Wrote(Announced(s).out, t.out, "call", ev.index, ev.val)
             /\ ev.type = "tool_call_delta" => Wrote(s.out, t.out, "args", ev.index, ev.val)
             /\ ev.type = "message_stop" => Wrote(Footed(s).out, t.out, "finish", 0, ev.val)
             /\ ev.type = "usage_final" => Wrote(s.out, t.out, "usage", 0, ev.val)
<1> DEFINE t == TakeEvent(s, ev)
<1>2. ASSUME ev.type = "text_delta" PROVE Wrote(s.out, t.out, "text", 0, ev.val)
  <2>1. ev.val \in Vals /\ "text" \in PieceKinds
    BY <1>2, DecodedIsEvent DEF Vals, PieceKinds
  <2>2. Wrote(s.out, EncodeContent(s, "text", ev.val).out, "text", 0, ev.val)
    BY <2>1, ContentWrites
  <2> QED BY <2>2, <1>2, TakeCases
<1>3. ASSUME ev.type = "thinking_delta" PROVE Wrote(s.out, t.out, "reasoning", 0, ev.val)
  <2>1. ev.val \in Vals /\ "reasoning" \in PieceKinds
    BY <1>3, DecodedIsEvent DEF Vals, PieceKinds
  <2>2. Wrote(s.out, EncodeContent(s, "reasoning", ev.val).out, "reasoning", 0, ev.val)
    BY <2>1, ContentWrites
  <2> QED BY <2>2, <1>3, TakeCases
<1>4. ev.type = "thinking_signature" => t.out = s.out
  BY TakeCases
<1>5. ASSUME ev.type = "tool_call_start"
      PROVE  Wrote(Announced(s).out, t.out, "call", ev.index, ev.val)
  <2> DEFINE p == CallPiece(ev.index, ev.val)
  <2>1. ev.index \in ToolIndices /\ ev.val \in ToolIDs /\ t = EncodeCall(s, ev.index, ev.val)
    BY <1>5, DecodedIsEvent, TakeCases
  <2>2. p \in PieceSet /\ t.out = Append(Announced(s).out, p)
    BY <2>1, CallFields
  <2>3. p.kind = "call" /\ p.index = ev.index /\ p.val = ev.val
    BY DEF CallPiece, Piece
  <2> HIDE DEF p, t
  <2> QED BY <2>2, <2>3 DEF Wrote
<1>6. ASSUME ev.type = "tool_call_delta" PROVE Wrote(s.out, t.out, "args", ev.index, ev.val)
  <2> DEFINE p == Piece("args", FALSE, ev.index, ev.val)
  <2>1. p \in PieceSet /\ p.kind = "args" /\ p.index = ev.index /\ p.val = ev.val
    BY <1>6, PlainPieces DEF Piece
  <2>2. t = Write(s, p)
    BY <1>6, TakeCases
  <2> HIDE DEF p, t
  <2>3. t.out = Append(s.out, p)
    BY <2>1, <2>2, WriteFields
  <2> QED BY <2>1, <2>3 DEF Wrote
<1>7. ASSUME ev.type = "message_stop"
      PROVE  Wrote(Footed(s).out, t.out, "finish", 0, ev.val)
  <2> DEFINE p == Piece("finish", FALSE, 0, ev.val)
             f == Footed(s)
  <2>1. /\ p \in PieceSet /\ p.kind = "finish" /\ p.index = 0 /\ p.val = ev.val
        /\ f \in StreamState
    BY <1>7, PlainPieces, FootedFields DEF Piece
  <2>2. t = Write(f, p)
    BY <1>7, TakeCases
  <2> HIDE DEF p, t, f
  <2>3. t.out = Append(f.out, p)
    BY <2>1, <2>2, WriteFields
  <2>4. Wrote(f.out, t.out, "finish", 0, ev.val)
    BY <2>1, <2>3 DEF Wrote
  <2> QED BY <2>4 DEF f
<1>8. ASSUME ev.type = "usage_final" PROVE Wrote(s.out, t.out, "usage", 0, ev.val)
  <2> DEFINE p == Piece("usage", FALSE, 0, ev.val)
  <2>1. /\ p \in PieceSet /\ p.kind = "usage" /\ p.index = 0 /\ p.val = ev.val
        /\ ev.val \in Usages
    BY <1>8, PlainPieces, DecodedIsEvent DEF Piece
  <2>2. t = [Write(s, p) EXCEPT !.usageResult = ev.val]
    BY <1>8, TakeCases
  <2> HIDE DEF p, t
  <2>3. t.out = Append(s.out, p)
    BY <2>1, <2>2, UsageFields
  <2> QED BY <2>1, <2>3 DEF Wrote
<1> QED BY <1>2, <1>3, <1>4, <1>5, <1>6, <1>7, <1>8

\* What goes out before it.
LEMMA AnnouncedWrites ==
  ASSUME NEW s \in StreamState
  PROVE  \/ Announced(s).out = s.out
         \/ Wrote(s.out, Announced(s).out, "role", 0, Empty)
<1>1. CASE s.started
  BY <1>1 DEF Announced
<1>2. CASE ~s.started
  <2>1. Announced(s).out = Append(s.out, RolePiece)
    BY <1>2, RolePieceType, WriteFields DEF Announced
  <2>2. RolePiece.index = 0 /\ RolePiece.val = Empty
    BY DEF RolePiece, Piece
  <2> QED BY <2>1, <2>2, RolePieceType DEF Wrote
<1> QED BY <1>1, <1>2

LEMMA FootedWrites ==
  ASSUME NEW s \in StreamState
  PROVE  IF s.webSearchResults = NoResults THEN Footed(s).out = s.out
         ELSE Wrote(s.out, Footed(s).out, "text", 0, s.webSearchResults)
<1>1. CASE s.webSearchResults = NoResults
  BY <1>1 DEF Footed
<1>2. CASE s.webSearchResults # NoResults
  <2>1. s.webSearchResults \in Vals /\ "text" \in PieceKinds
    BY <1>2 DEF StreamState, Vals, PieceKinds
  <2> DEFINE r == s.webSearchResults
  <2>2. Wrote(s.out, EncodeContent(s, "text", r).out, "text", 0, r)
    BY <2>1, ContentWrites
  <2>3. Footed(s) = EncodeContent(s, "text", r)
    BY <1>2 DEF Footed
  <2> QED BY <1>2, <2>2, <2>3
<1> QED BY <1>1, <1>2

LEMMA DoneWrites ==
  ASSUME NEW s \in StreamState
  PROVE  Wrote(s.out, StreamDone(s).out, "done", 0, Empty)
<1>1. /\ DonePiece.kind = "done" /\ DonePiece.index = 0 /\ DonePiece.val = Empty
      /\ DonePiece \in PieceSet /\ StreamDone(s).out = Append(s.out, DonePiece)
  BY StreamTypes DEF DonePiece, Piece
<1> QED BY <1>1 DEF Wrote

(* ------------------- whatever the upstream sends: content --------------- *)

Thoughts == PiecesOf("reasoning")

\* A chunk that is neither text of the upstream nor reasoning.
LEMMA OtherContent ==
  ASSUME NEW out \in Seq(PieceSet), NEW next, NEW kind, NEW index, NEW val,
         Wrote(out, next, kind, index, val), kind # "reasoning",
         kind # "text" \/ val \in Results,
         NEW text \in Seq(Vals), NEW thinking \in Seq(Vals),
         Told(out, OwnText, text), Told(out, Thoughts, thinking)
  PROVE  /\ Told(next, OwnText, text) /\ Told(next, Thoughts, thinking)
         /\ next \in Seq(PieceSet)
<1>1. \A p \in PieceSet : p.kind = kind /\ p.index = index /\ p.val = val => p \notin OwnText
  BY DEF OwnText
<1>2. \A p \in PieceSet : p.kind = kind /\ p.index = index /\ p.val = val => p \notin Thoughts
  BY DEF Thoughts, PiecesOf
<1> QED BY <1>1, <1>2, ToldKept, WroteType

ContentTold(s, a) == Told(s.out, OwnText, a.text) /\ Told(s.out, Thoughts, a.thinking)

LEMMA ContentTake ==
  ASSUME NEW s \in StreamState, NEW a \in AggregateState, NEW ev \in DecodedEvent,
         ContentTold(s, a)
  PROVE  ContentTold(TakeEvent(s, ev), Apply(a, ev))
<1> DEFINE t == TakeEvent(s, ev)
           b == Apply(a, ev)
           out == s.out
           text == a.text
           thinking == a.thinking
<1>1. /\ out \in Seq(PieceSet) /\ text \in Seq(Vals) /\ thinking \in Seq(Vals)
      /\ text \in Seq(Pieces) /\ thinking \in Seq(Pieces)
  <2>1. text \in Seq(Pieces) /\ thinking \in Seq(Pieces) /\ Pieces \subseteq Vals
    BY DEF AggregateState, Vals
  <2> QED BY <2>1 DEF StreamState
<1>2. Told(out, OwnText, text) /\ Told(out, Thoughts, thinking)
  BY DEF ContentTold
<1>3. ev.type \in EventTypes
  BY DecodedIsEvent
<1> SUFFICES Told(t.out, OwnText, b.text) /\ Told(t.out, Thoughts, b.thinking)
  BY DEF ContentTold
<1>4. CASE ev.type = "text_delta"
  <2>1. Wrote(out, t.out, "text", 0, ev.val)
    BY <1>4, TakeWrites
  <2>2. b.text = Append(text, ev.val) /\ b.thinking = thinking
    BY <1>4 DEF Apply, AggregateState
  <2>3. ev.val \notin Results
    BY <1>4, DecodedIsEvent, ModesAssumption
  <2>4. \A p \in PieceSet : p.kind = "text" /\ p.index = 0 /\ p.val = ev.val => p \in OwnText
    BY <2>3 DEF OwnText
  <2>5. \A p \in PieceSet : p.kind = "text" /\ p.index = 0 /\ p.val = ev.val => p \notin Thoughts
    BY DEF Thoughts, PiecesOf
  <2> HIDE DEF t, b, out, text, thinking
  <2>6. Told(t.out, OwnText, Append(text, ev.val))
    BY <1>1, <1>2, <2>1, <2>4, ToldNext
  <2>7. Told(t.out, Thoughts, thinking)
    BY <1>1, <1>2, <2>1, <2>5, ToldKept
  <2> QED BY <2>2, <2>6, <2>7
<1>5. CASE ev.type = "thinking_delta"
  <2>1. Wrote(out, t.out, "reasoning", 0, ev.val)
    BY <1>5, TakeWrites
  <2>2. b.thinking = Append(thinking, ev.val) /\ b.text = text
    BY <1>5 DEF Apply, AggregateState
  <2>4. \A p \in PieceSet : p.kind = "reasoning" /\ p.index = 0 /\ p.val = ev.val => p \in Thoughts
    BY DEF Thoughts, PiecesOf
  <2>5. \A p \in PieceSet : p.kind = "reasoning" /\ p.index = 0 /\ p.val = ev.val => p \notin OwnText
    BY DEF OwnText
  <2> HIDE DEF t, b, out, text, thinking
  <2>6. Told(t.out, OwnText, text)
    BY <1>1, <1>2, <2>1, <2>5, ToldKept
  <2>7. Told(t.out, Thoughts, Append(thinking, ev.val))
    BY <1>1, <1>2, <2>1, <2>4, ToldNext
  <2> QED BY <2>2, <2>6, <2>7
<1>6. CASE ev.type \notin {"text_delta", "thinking_delta"}
  <2>1. b.text = text /\ b.thinking = thinking
    <3>1. CASE ev.type = "tool_call_delta"
      <4>1. ev.index \in ToolIndices /\ ev.val \in Pieces
        BY <3>1, DecodedIsEvent
      <4>2. b = ExtendCall(a, ev.index, ev.val)
        BY <3>1 DEF Apply
      <4> HIDE DEF b
      <4> QED BY <4>1, <4>2, ExtendCallFields, ExtendedType
    <3>2. CASE ev.type # "tool_call_delta"
      BY <1>3, <1>6, <3>2 DEF Apply, StartCall, AggregateState, EventTypes
    <3> QED BY <3>1, <3>2
  <2>2. CASE ev.type = "thinking_signature"
    BY <2>1, <2>2, <1>2, TakeWrites
  <2>3. CASE ev.type = "tool_call_start"
    <3> DEFINE o == Announced(s).out
    <3>1. Wrote(o, t.out, "call", ev.index, ev.val)
      BY <2>3, TakeWrites
    <3>2. o = out \/ Wrote(out, o, "role", 0, Empty)
      BY AnnouncedWrites
    <3> HIDE DEF o, t, out, text, thinking
    <3>3. /\ Told(o, OwnText, text) /\ Told(o, Thoughts, thinking)
          /\ o \in Seq(PieceSet)
      BY <1>1, <1>2, <3>2, OtherContent
    <3>4. Told(t.out, OwnText, text) /\ Told(t.out, Thoughts, thinking)
      BY <1>1, <3>1, <3>3, OtherContent
    <3> QED BY <3>4, <2>1
  <2>4. CASE ev.type = "tool_call_delta"
    <3>1. Wrote(out, t.out, "args", ev.index, ev.val)
      BY <2>4, TakeWrites
    <3> HIDE DEF t, out, text, thinking
    <3>2. Told(t.out, OwnText, text) /\ Told(t.out, Thoughts, thinking)
      BY <1>1, <1>2, <3>1, OtherContent
    <3> QED BY <3>2, <2>1
  <2>5. CASE ev.type = "message_stop"
    <3> DEFINE o == Footed(s).out
    <3>1. Wrote(o, t.out, "finish", 0, ev.val)
      BY <2>5, TakeWrites
    <3> DEFINE r == s.webSearchResults
    <3>2. r \in Results \cup {NoResults}
      BY DEF StreamState
    <3>5. IF r = NoResults THEN o = out ELSE Wrote(out, o, "text", 0, r)
      BY FootedWrites
    <3> HIDE DEF o, t, out, text, thinking, r
    <3>3. /\ Told(o, OwnText, text) /\ Told(o, Thoughts, thinking)
          /\ o \in Seq(PieceSet)
      <4>1. CASE r = NoResults
        BY <4>1, <1>1, <1>2, <3>5
      <4>2. CASE r # NoResults
        BY <4>2, <1>1, <1>2, <3>2, <3>5, OtherContent
      <4> QED BY <4>1, <4>2
    <3>4. Told(t.out, OwnText, text) /\ Told(t.out, Thoughts, thinking)
      BY <1>1, <3>1, <3>3, OtherContent
    <3> QED BY <3>4, <2>1
  <2>6. CASE ev.type = "usage_final"
    <3>1. Wrote(out, t.out, "usage", 0, ev.val)
      BY <2>6, TakeWrites
    <3> HIDE DEF t, out, text, thinking
    <3>2. Told(t.out, OwnText, text) /\ Told(t.out, Thoughts, thinking)
      BY <1>1, <1>2, <3>1, OtherContent
    <3> QED BY <3>2, <2>1
  <2> QED BY <2>2, <2>3, <2>4, <2>5, <2>6, <1>3, <1>6 DEF EventTypes
<1> QED BY <1>4, <1>5, <1>6

ContentInv == ~aggregate.failed => ContentTold(stream, aggregate)

LEMMA InitContent == Init => ContentInv
BY ToldNothing DEF Init, NewStream, NewAggregate, ContentInv, ContentTold

LEMMA StepContent == TypeInv /\ ContentInv /\ [Next]_vars => ContentInv'
<1> SUFFICES ASSUME TypeInv, ContentInv, [Next]_vars PROVE ContentInv'
  OBVIOUS
<1>0. /\ stream \in StreamState /\ aggregate \in AggregateState
      /\ aggregate.failed \in BOOLEAN
  BY DEF TypeInv, AggregateState
<1>1. CASE TakeNext
  <2> DEFINE ev == Head(pending)
  <2>1. /\ ev \in DecodedEvent
        /\ stream' = TakeEvent(stream, ev) /\ aggregate' = AggregateEvent(aggregate, ev)
    BY <1>1 DEF TypeInv, TakeNext
  <2> HIDE DEF ev
  <2>2. CASE aggregate.failed
    BY <2>1, <2>2 DEF AggregateEvent, ContentInv
  <2>3. CASE ~aggregate.failed
    <3>1. aggregate' = Apply(aggregate, ev)
      BY <2>1, <2>3 DEF AggregateEvent
    <3>2. ContentTold(stream', aggregate')
      BY <1>0, <2>1, <2>3, <3>1, ContentTake DEF ContentInv
    <3> QED BY <3>2 DEF ContentInv
  <2> QED BY <2>2, <2>3
<1>2. CASE ReadDone
  <2>1. ASSUME ContentTold(stream, aggregate) PROVE ContentTold(stream', aggregate)
    <3> DEFINE out == stream.out
               next == stream'.out
               text == aggregate.text
               thinking == aggregate.thinking
    <3>1. Wrote(out, next, "done", 0, Empty)
      BY <1>0, <1>2, DoneWrites DEF ReadDone
    <3>2. out \in Seq(PieceSet) /\ text \in Seq(Vals) /\ thinking \in Seq(Vals)
      <4>1. text \in Seq(Pieces) /\ thinking \in Seq(Pieces) /\ Pieces \subseteq Vals
        BY <1>0 DEF AggregateState, Vals
      <4> QED BY <4>1, <1>0 DEF StreamState
    <3>3. Told(out, OwnText, text) /\ Told(out, Thoughts, thinking)
      BY <2>1 DEF ContentTold
    <3> HIDE DEF out, next, text, thinking
    <3>4. Told(next, OwnText, text) /\ Told(next, Thoughts, thinking)
      BY <3>1, <3>2, <3>3, OtherContent
    <3> QED BY <3>4 DEF ContentTold, out, next, text, thinking
  <2> QED BY <1>2, <2>1 DEF ReadDone, ContentInv
<1>3. ASSUME NEW results \in Results, ReadSources(results) PROVE ContentInv'
  <2>1. stream'.out = stream.out
    BY <1>0, <1>3 DEF ReadSources, StreamSources, StreamState
  <2>2. /\ aggregate'.text = aggregate.text /\ aggregate'.thinking = aggregate.thinking
        /\ aggregate'.failed = aggregate.failed
    BY <1>0, <1>3 DEF ReadSources, AggregateSources, AggregateState
  <2> QED BY <2>1, <2>2 DEF ContentInv, ContentTold
<1>4. CASE ReadMalformed \/ ReadFails
  <2>1. aggregate'.failed
    BY <1>0, <1>4 DEF ReadMalformed, ReadFails, AggregateFails, AggregateState
  <2> QED BY <2>1 DEF ContentInv
<1>5. CASE ReadEOF \/ Returned \/ UNCHANGED vars
  BY <1>5 DEF ReadEOF, Returned, vars, ContentInv
<1>6. ASSUME NEW c \in Chunks[upstream.conforming], ReadChunk(c) PROVE ContentInv'
  BY <1>6 DEF ReadChunk, ContentInv
<1> QED BY <1>1, <1>2, <1>3, <1>4, <1>5, <1>6 DEF Next

\* The positions a set of chunks is at, the way the properties name them.
LEMMA ToldTells ==
  ASSUME NEW S, NEW vals, Told(stream.out, S, vals)
  PROVE  Tell({i \in DOMAIN stream.out : stream.out[i] \in S}, vals)
BY DEF Told, Tell, At

LEMMA KindPositions ==
  ASSUME TypeInv
  PROVE  /\ \A kind : Of(kind) = {i \in DOMAIN stream.out : stream.out[i] \in PiecesOf(kind)}
         /\ {i \in Of("text") : stream.out[i].val \notin Results} =
              {i \in DOMAIN stream.out : stream.out[i] \in OwnText}
         /\ \A kind, index : OfCall(kind, index) =
              {i \in DOMAIN stream.out : stream.out[i] \in CallPieces(kind, index)}
<1>1. \A i \in DOMAIN stream.out : stream.out[i] \in PieceSet
  BY DEF TypeInv, StreamState
<1> QED BY <1>1 DEF Of, OfCall, PiecesOf, OwnText, CallPieces

\* As long as the aggregate has not failed, a client of the stream has read the
\* same text and the same reasoning, piece by piece, as the one who waits for
\* the whole (OpenAIStreamEncoder.Encode, StreamAggregateState.Apply).
THEOREM ContentAgrees == Spec => []SameContent
<1>1. TypeInv /\ ContentInv => SameContent
  <2> SUFFICES ASSUME TypeInv, ContentInv, ~aggregate.failed
               PROVE  /\ Tell({i \in Of("text") : stream.out[i].val \notin Results}, aggregate.text)
                      /\ Tell(Of("reasoning"), aggregate.thinking)
    BY DEF SameContent
  <2>1. /\ Told(stream.out, OwnText, aggregate.text)
        /\ Told(stream.out, PiecesOf("reasoning"), aggregate.thinking)
    BY DEF ContentInv, ContentTold, Thoughts
  <2>2. /\ Tell({i \in DOMAIN stream.out : stream.out[i] \in OwnText}, aggregate.text)
        /\ Tell({i \in DOMAIN stream.out : stream.out[i] \in PiecesOf("reasoning")},
                aggregate.thinking)
    BY <2>1, ToldTells
  <2> QED BY <2>2, KindPositions
<1>2. Spec => []ContentInv
  BY TypeInvariant, InitContent, StepContent, PTL DEF Spec
<1> QED BY <1>1, <1>2, TypeInvariant, PTL

(* --------------------- an upstream that conforms: the end --------------- *)

\* The finish reason and the usage report end a line, in this order.
LastInTurn(events) ==
  \A i, j \in DOMAIN events :
    i < j /\ Turn(events[i]) \in {6, 7} => Turn(events[i]) < Turn(events[j])

\* What of the end is still to take, and what was taken of it.
EndsInTurn ==
  /\ LastInTurn(pending)
  /\ Has(pending, "message_stop") <=> aggregate.stopReason = Empty /\ upstream.phase # "content"
  /\ Has(pending, "usage_final") <=> stream.usageResult = NoUsage /\ upstream.phase = "reported"
  /\ upstream.phase = "content" => aggregate.stopReason = Empty
  /\ upstream.phase # "reported" => stream.usageResult = NoUsage
  /\ aggregate.stopReason # Empty => \A i \in DOMAIN pending : pending[i].type = "usage_final"

\* A conforming stream ends between two lines, and finished if it says so.
StopsInTurn ==
  /\ status # "reading" => pending = <<>>
  /\ status = "ended" => upstream.phase # "content"
  /\ aggregate.failed => status = "broken"

Texts == PiecesOf("text")
Finishes == PiecesOf("finish")
UsagePieces == PiecesOf("usage")

Footer(s, a) ==
  IF a.stopReason # Empty /\ s.webSearchResults # NoResults
  THEN <<s.webSearchResults>> ELSE <<>>

Finish(a) == IF a.stopReason = Empty THEN <<>> ELSE <<a.stopReason>>

Report(s) == IF s.usageResult = NoUsage THEN <<>> ELSE <<s.usageResult>>

\* The text comes before the finish reason.
Ordered(out) == \A i \in At(out, Finishes) : \A j \in At(out, Texts) : j < i

AnswerAt(out, text, finish, usage) ==
  /\ Told(out, Texts, text) /\ Told(out, Finishes, finish) /\ Told(out, UsagePieces, usage)
  /\ Ordered(out)

\* SameAnswer, as far as the stream has come.
AnswerTold(s, a) ==
  /\ s.usageResult = a.usage
  /\ AnswerAt(s.out, a.text \o Footer(s, a), Finish(a), Report(s))

ResultsAgree ==
  stream.webSearchResults = IF hasWebSearch THEN aggregate.webSearchResults ELSE NoResults

AnswerInv ==
  upstream.conforming => /\ EndsInTurn /\ StopsInTurn /\ ResultsAgree
                         /\ AnswerTold(stream, aggregate)

\* The events before the end of a line.
EarlyEvent == {ev \in DecodedEvent : Turn(ev) \in 1..5}

LEMMA EarlyField ==
  ASSUME NEW type \in {"thinking_delta", "thinking_signature", "text_delta",
                       "tool_call_start", "tool_call_delta"},
         NEW index, NEW v,
         v # Empty => Event(type, index, v) \in DecodedEvent
  PROVE  FieldEvent(type, index, v) \in Seq(EarlyEvent)
<1>1. Turn(Event(type, index, v)) \in 1..5
  BY EventTurn
<1> DEFINE x == Event(type, index, v)
<1>2. v # Empty => x \in EarlyEvent
  BY <1>1 DEF EarlyEvent
<1>3. FieldEvent(type, index, v) = IF v = Empty THEN <<>> ELSE <<x>>
  BY DEF FieldEvent
<1> HIDE DEF x
<1> QED BY <1>2, <1>3

\* A line is its early events, its finish reason and its usage report.
EarlyPart(c) ==
  FieldEvent("thinking_delta", 0, c.thinking)
    \o FieldEvent("thinking_signature", 0, c.signature)
    \o FieldEvent("text_delta", 0, c.text)
    \o FlattenSeq([i \in DOMAIN c.tools |-> FragmentEvents(c.tools[i])])

FinishPart(c) == FieldEvent("message_stop", 0, c.finish)

UsagePart(c) == IF c.usage = NoUsage THEN <<>> ELSE <<Event("usage_final", 0, c.usage)>>

LEMMA LineParts ==
  ASSUME NEW c \in Chunk
  PROVE  /\ DecodeOpenAIStreamLine(c) = (EarlyPart(c) \o FinishPart(c)) \o UsagePart(c)
         /\ EarlyPart(c) \in Seq(EarlyEvent)
         /\ FinishPart(c) = IF c.finish = Empty THEN <<>>
                            ELSE <<Event("message_stop", 0, c.finish)>>
<1> DEFINE fragments == [i \in DOMAIN c.tools |-> FragmentEvents(c.tools[i])]
<1>1. c.tools \in Seq(Fragment)
  BY ChunkEvents
<1>2. fragments \in Seq(Seq(EarlyEvent))
  <2>1. ASSUME NEW f \in Fragment PROVE FragmentEvents(f) \in Seq(EarlyEvent)
    <3>1. /\ FieldEvent("tool_call_start", f.index, f.id) \in Seq(EarlyEvent)
          /\ FieldEvent("tool_call_delta", f.index, f.args) \in Seq(EarlyEvent)
      BY FragmentType, EarlyField
    <3> QED BY <3>1 DEF FragmentEvents
  <2>2. DOMAIN c.tools = 1..Len(c.tools) /\ Len(c.tools) \in Nat
    BY <1>1
  <2>3. \A i \in DOMAIN c.tools : FragmentEvents(c.tools[i]) \in Seq(EarlyEvent)
    BY <1>1, <2>1
  <2> QED BY <2>2, <2>3
<1>3. FlattenSeq(fragments) \in Seq(EarlyEvent)
  <2> HIDE DEF fragments
  <2> QED BY <1>2, FlattenSeqType
<1>4. /\ FieldEvent("thinking_delta", 0, c.thinking) \in Seq(EarlyEvent)
      /\ FieldEvent("thinking_signature", 0, c.signature) \in Seq(EarlyEvent)
      /\ FieldEvent("text_delta", 0, c.text) \in Seq(EarlyEvent)
  BY ChunkEvents, EarlyField
<1>5. EarlyPart(c) = FieldEvent("thinking_delta", 0, c.thinking)
                       \o FieldEvent("thinking_signature", 0, c.signature)
                       \o FieldEvent("text_delta", 0, c.text)
                       \o FlattenSeq(fragments)
  BY DEF EarlyPart
<1> HIDE DEF fragments
<1>6. EarlyPart(c) \in Seq(EarlyEvent)
  BY <1>3, <1>4, <1>5
<1>7. DecodeOpenAIStreamLine(c) = (EarlyPart(c) \o FinishPart(c)) \o UsagePart(c)
  BY DEF DecodeOpenAIStreamLine, EarlyPart, FinishPart, UsagePart
<1> QED BY <1>6, <1>7 DEF FinishPart, FieldEvent

LEMMA LastConcat ==
  ASSUME NEW s \in Seq(DecodedEvent), NEW t \in Seq(DecodedEvent),
         LastInTurn(s), LastInTurn(t),
         \A i \in DOMAIN s : \A j \in DOMAIN t :
           Turn(s[i]) \in {6, 7} => Turn(s[i]) < Turn(t[j])
  PROVE  LastInTurn(s \o t)
<1> DEFINE u == s \o t
           m == Len(s)
           n == Len(t)
<1>1. /\ m \in Nat /\ n \in Nat /\ DOMAIN s = 1..m /\ DOMAIN t = 1..n /\ DOMAIN u = 1..(m + n)
      /\ \A i \in 1..(m + n) : u[i] = IF i <= m THEN s[i] ELSE t[i - m]
  BY ConcatFacts
<1> HIDE DEF u, m, n
<1>2. ASSUME NEW i \in 1..(m + n), NEW j \in 1..(m + n), i < j, Turn(u[i]) \in {6, 7}
      PROVE  Turn(u[i]) < Turn(u[j])
  <2>1. CASE j <= m
    <3>1. i \in 1..m /\ j \in 1..m /\ u[i] = s[i] /\ u[j] = s[j]
      BY <1>1, <1>2, <2>1
    <3> QED BY <3>1, <1>1, <1>2 DEF LastInTurn
  <2>2. CASE i <= m /\ m < j
    <3>1. i \in 1..m /\ j - m \in 1..n /\ u[i] = s[i] /\ u[j] = t[j - m]
      BY <1>1, <1>2, <2>2
    <3> QED BY <3>1, <1>1, <1>2
  <2>3. CASE m < i
    <3> DEFINE a == i - m
               b == j - m
    <3>1. a \in 1..n /\ b \in 1..n /\ a < b /\ u[i] = t[a] /\ u[j] = t[b]
      BY <1>1, <1>2, <2>3
    <3> HIDE DEF a, b
    <3> QED BY <3>1, <1>1, <1>2 DEF LastInTurn
  <2> QED BY <2>1, <2>2, <2>3, <1>1, <1>2
<1> QED BY <1>1, <1>2 DEF LastInTurn, u

LEMMA HasConcat ==
  ASSUME NEW s \in Seq(DecodedEvent), NEW t \in Seq(DecodedEvent), NEW type
  PROVE  Has(s \o t, type) <=> Has(s, type) \/ Has(t, type)
BY ConcatIn, HasIn

LEMMA DecodeEnds ==
  ASSUME NEW c \in Chunk
  PROVE  LET d == DecodeOpenAIStreamLine(c)
         IN  /\ LastInTurn(d)
             /\ Has(d, "message_stop") <=> c.finish # Empty
             /\ Has(d, "usage_final") <=> c.usage # NoUsage
<1> DEFINE e == EarlyPart(c)
           f == FinishPart(c)
           u == UsagePart(c)
           x == Event("message_stop", 0, c.finish)
           y == Event("usage_final", 0, c.usage)
<1>1. /\ DecodeOpenAIStreamLine(c) = (e \o f) \o u
      /\ e \in Seq(EarlyEvent)
      /\ f = IF c.finish = Empty THEN <<>> ELSE <<x>>
  BY LineParts
<1>2. u = IF c.usage = NoUsage THEN <<>> ELSE <<y>>
  BY DEF UsagePart
<1>3. c.finish # Empty => x \in DecodedEvent
  BY ChunkEvents
<1>4. c.usage # NoUsage => y \in DecodedEvent
  BY ChunkEvents
<1>5. Turn(x) = 6 /\ x.type = "message_stop" /\ Turn(y) = 7 /\ y.type = "usage_final"
  BY EventTurn, EventFields
<1> HIDE DEF e, f, u, x, y
<1>6. e \in Seq(DecodedEvent) /\ f \in Seq(DecodedEvent) /\ u \in Seq(DecodedEvent)
  <2>1. EarlyEvent \subseteq DecodedEvent
    BY DEF EarlyEvent
  <2> QED BY <2>1, <1>1, <1>2, <1>3, <1>4
<1>7. \A i \in DOMAIN e : Turn(e[i]) \in 1..5 /\ e[i] \in DecodedEvent
  BY <1>1 DEF EarlyEvent
<1>8. /\ \A i \in DOMAIN f : f[i] = x
      /\ DOMAIN f = IF c.finish = Empty THEN {} ELSE {1}
  BY <1>1
<1>9. /\ \A i \in DOMAIN u : u[i] = y
      /\ DOMAIN u = IF c.usage = NoUsage THEN {} ELSE {1}
  BY <1>2
<1>10. LastInTurn(e) /\ LastInTurn(f) /\ LastInTurn(u)
  <2>1. \A i \in DOMAIN e : Turn(e[i]) \notin {6, 7}
    BY <1>7
  <2>2. \A i, j \in DOMAIN f : ~(i < j)
    BY <1>8
  <2>3. \A i, j \in DOMAIN u : ~(i < j)
    BY <1>9
  <2> QED BY <2>1, <2>2, <2>3 DEF LastInTurn
<1> DEFINE ef == e \o f
<1>11. LastInTurn(ef)
  BY <1>6, <1>7, <1>10, LastConcat
<1>12. ef \in Seq(DecodedEvent)
  BY <1>6
<1>13. \A i \in DOMAIN ef : Turn(ef[i]) \in 1..6
  <2>1. ASSUME NEW ev, In(ev, ef) PROVE Turn(ev) \in 1..6
    <3>1. In(ev, e) \/ In(ev, f)
      BY <2>1, <1>6, ConcatIn
    <3> QED BY <3>1, <1>5, <1>7, <1>8 DEF In
  <2> HIDE DEF ef
  <2> QED BY <2>1 DEF In
<1>14. /\ ~Has(e, "message_stop") /\ ~Has(e, "usage_final")
       /\ Has(f, "message_stop") <=> c.finish # Empty
       /\ ~Has(f, "usage_final") /\ ~Has(u, "message_stop")
       /\ Has(u, "usage_final") <=> c.usage # NoUsage
  <2>1. \A i \in DOMAIN e : e[i].type \notin {"message_stop", "usage_final"}
    BY <1>7, TurnType, DecodedIsEvent
  <2> QED BY <2>1, <1>5, <1>8, <1>9 DEF Has
<1>15. \A type : Has(ef, type) <=> Has(e, type) \/ Has(f, type)
  BY <1>6, HasConcat
<1> HIDE DEF ef
<1>16. LastInTurn(ef \o u)
  <2>1. \A i \in DOMAIN ef : \A j \in DOMAIN u : Turn(ef[i]) \in {6, 7} => Turn(ef[i]) < Turn(u[j])
    BY <1>5, <1>9, <1>13
  <2> QED BY <2>1, <1>6, <1>10, <1>11, <1>12, LastConcat
<1>17. \A type : Has(ef \o u, type) <=> Has(ef, type) \/ Has(u, type)
  BY <1>6, <1>12, HasConcat
<1>18. DecodeOpenAIStreamLine(c) = ef \o u
  BY <1>1 DEF ef
<1> QED BY <1>14, <1>15, <1>16, <1>17, <1>18

LEMMA NoneAt ==
  ASSUME NEW out \in Seq(PieceSet), NEW S, Told(out, S, <<>>)
  PROVE  At(out, S) = {}
<1>1. IsFiniteSet(At(out, S))
  <2>1. At(out, S) \subseteq 1..Len(out) /\ Len(out) \in Nat
    BY DEF At
  <2>2. IsFiniteSet(1..Len(out))
    BY <2>1, FS_Interval
  <2> QED BY <2>1, <2>2, FS_Subset
<1>2. Cardinality(At(out, S)) = 0
  BY DEF Told
<1> QED BY <1>1, <1>2, FS_EmptySet

\* Where a chunk of a kind goes.
LEMMA KindWrote ==
  ASSUME NEW out \in Seq(PieceSet), NEW next, NEW kind, NEW index, NEW val,
         Wrote(out, next, kind, index, val), NEW k
  PROVE  /\ k = kind => At(next, PiecesOf(k)) = At(out, PiecesOf(k)) \cup {Len(out) + 1}
         /\ k # kind => At(next, PiecesOf(k)) = At(out, PiecesOf(k))
         /\ At(out, PiecesOf(k)) \subseteq 1..Len(out)
<1>1. PICK p \in PieceSet : p.kind = kind /\ next = Append(out, p)
  BY DEF Wrote
<1>2. p \in PiecesOf(k) <=> k = kind
  BY <1>1 DEF PiecesOf
<1> QED BY <1>1, <1>2, AtAppend

LEMMA KindTold ==
  ASSUME NEW out \in Seq(PieceSet), NEW next, NEW kind, NEW index, NEW val,
         Wrote(out, next, kind, index, val), NEW k, NEW vals \in Seq(Vals),
         Told(out, PiecesOf(k), vals)
  PROVE  /\ k = kind => Told(next, PiecesOf(k), Append(vals, val))
         /\ k # kind => Told(next, PiecesOf(k), vals)
<1>1. ASSUME k = kind PROVE Told(next, PiecesOf(k), Append(vals, val))
  <2>1. \A p \in PieceSet : p.kind = kind /\ p.index = index /\ p.val = val => p \in PiecesOf(k)
    BY <1>1 DEF PiecesOf
  <2> QED BY <2>1, ToldNext
<1>2. ASSUME k # kind PROVE Told(next, PiecesOf(k), vals)
  <2>1. \A p \in PieceSet : p.kind = kind /\ p.index = index /\ p.val = val => p \notin PiecesOf(k)
    BY <1>2 DEF PiecesOf
  <2> QED BY <2>1, ToldKept
<1> QED BY <1>1, <1>2

LEMMA AnswerOther ==
  ASSUME NEW out \in Seq(PieceSet), NEW next, NEW kind, NEW index, NEW val,
         Wrote(out, next, kind, index, val), kind \notin {"text", "finish", "usage"},
         NEW text \in Seq(Vals), NEW finish \in Seq(Vals), NEW usage \in Seq(Vals),
         AnswerAt(out, text, finish, usage)
  PROVE  AnswerAt(next, text, finish, usage)
<1>1. Told(next, Texts, text) /\ Told(next, Finishes, finish) /\ Told(next, UsagePieces, usage)
  BY KindTold DEF AnswerAt, Texts, Finishes, UsagePieces
<1>2. At(next, Texts) = At(out, Texts) /\ At(next, Finishes) = At(out, Finishes)
  BY KindWrote DEF Texts, Finishes
<1> QED BY <1>1, <1>2 DEF AnswerAt, Ordered

LEMMA AnswerText ==
  ASSUME NEW out \in Seq(PieceSet), NEW next, NEW index, NEW val,
         Wrote(out, next, "text", index, val),
         NEW text \in Seq(Vals), NEW usage \in Seq(Vals),
         AnswerAt(out, text, <<>>, usage)
  PROVE  AnswerAt(next, Append(text, val), <<>>, usage)
<1>1. <<>> \in Seq(Vals)
  OBVIOUS
<1>2. /\ Told(next, Texts, Append(text, val)) /\ Told(next, Finishes, <<>>)
      /\ Told(next, UsagePieces, usage)
  BY <1>1, KindTold DEF AnswerAt, Texts, Finishes, UsagePieces
<1>3. next \in Seq(PieceSet)
  BY WroteType
<1>4. At(next, Finishes) = {}
  BY <1>2, <1>3, NoneAt
<1> QED BY <1>2, <1>4 DEF AnswerAt, Ordered

LEMMA AnswerFinish ==
  ASSUME NEW out \in Seq(PieceSet), NEW next, NEW index, NEW val,
         Wrote(out, next, "finish", index, val),
         NEW text \in Seq(Vals), NEW usage \in Seq(Vals),
         AnswerAt(out, text, <<>>, usage)
  PROVE  AnswerAt(next, text, <<val>>, usage)
<1>1. <<>> \in Seq(Vals) /\ Append(<<>>, val) = <<val>>
  OBVIOUS
<1>2. /\ Told(next, Texts, text) /\ Told(next, Finishes, Append(<<>>, val))
      /\ Told(next, UsagePieces, usage)
  BY <1>1, KindTold DEF AnswerAt, Texts, Finishes, UsagePieces
<1>3. At(out, Finishes) = {}
  BY NoneAt DEF AnswerAt
<1>4. /\ At(next, Texts) = At(out, Texts) /\ At(out, Texts) \subseteq 1..Len(out)
      /\ At(next, Finishes) = {Len(out) + 1}
  BY <1>3, KindWrote DEF Texts, Finishes
<1>5. \A j \in 1..Len(out) : j < Len(out) + 1
  OBVIOUS
<1> QED BY <1>1, <1>2, <1>4, <1>5 DEF AnswerAt, Ordered

LEMMA AnswerUsage ==
  ASSUME NEW out \in Seq(PieceSet), NEW next, NEW index, NEW val,
         Wrote(out, next, "usage", index, val),
         NEW text \in Seq(Vals), NEW finish \in Seq(Vals),
         AnswerAt(out, text, finish, <<>>)
  PROVE  AnswerAt(next, text, finish, <<val>>)
<1>1. <<>> \in Seq(Vals) /\ Append(<<>>, val) = <<val>>
  OBVIOUS
<1>2. /\ Told(next, Texts, text) /\ Told(next, Finishes, finish)
      /\ Told(next, UsagePieces, Append(<<>>, val))
  BY <1>1, KindTold DEF AnswerAt, Texts, Finishes, UsagePieces
<1>3. At(next, Texts) = At(out, Texts) /\ At(next, Finishes) = At(out, Finishes)
  BY KindWrote DEF Texts, Finishes
<1> QED BY <1>1, <1>2, <1>3 DEF AnswerAt, Ordered

LEMMA ElementsIn ==
  ASSUME NEW S, NEW s \in Seq(S)
  PROVE  \A i \in DOMAIN s : s[i] \in S
OBVIOUS

LEMMA TailEnds ==
  ASSUME NEW s \in Seq(DecodedEvent), s # <<>>, LastInTurn(s)
  PROVE  LET t == Tail(s)
         IN  /\ t \in Seq(DecodedEvent) /\ LastInTurn(t)
             /\ \A type : Has(s, type) <=> Head(s).type = type \/ Has(t, type)
             /\ Head(s).type = "message_stop" => \A i \in DOMAIN t : t[i].type = "usage_final"
             /\ Head(s).type = "usage_final" => \A type : ~Has(t, type)
             /\ \A i \in DOMAIN t : \E j \in DOMAIN s : t[i] = s[j]
             /\ Head(s) \in DecodedEvent /\ \E j \in DOMAIN s : Head(s) = s[j]
<1> DEFINE t == Tail(s)
           n == Len(s)
<1>1. n \in Nat /\ n > 0 /\ DOMAIN s = 1..n /\ Head(s) = s[1] /\ Head(s) \in DecodedEvent
  OBVIOUS
<1>2. t \in Seq(DecodedEvent) /\ DOMAIN t = 1..(n - 1) /\ \A i \in 1..(n - 1) : t[i] = s[i + 1]
  OBVIOUS
<1> HIDE DEF t, n
<1>3. \A i \in 1..(n - 1) : i + 1 \in 1..n /\ 1 < i + 1
  BY <1>1
<1>4. 1 \in 1..n
  BY <1>1
<1>5. LastInTurn(t)
  <2>1. ASSUME NEW i \in DOMAIN t, NEW j \in DOMAIN t, i < j, Turn(t[i]) \in {6, 7}
        PROVE  Turn(t[i]) < Turn(t[j])
    <3>1. i + 1 \in DOMAIN s /\ j + 1 \in DOMAIN s /\ i + 1 < j + 1
      BY <1>1, <1>2, <1>3, <2>1
    <3>2. t[i] = s[i + 1] /\ t[j] = s[j + 1]
      BY <1>2
    <3> QED BY <2>1, <3>1, <3>2 DEF LastInTurn
  <2> QED BY <2>1 DEF LastInTurn
<1>6. \A type : Has(s, type) <=> Head(s).type = type \/ Has(t, type)
  <2> TAKE type
  <2>1. ASSUME Has(s, type) PROVE Head(s).type = type \/ Has(t, type)
    <3>1. PICK i \in 1..n : s[i].type = type
      BY <1>1, <2>1 DEF Has
    <3>2. CASE i = 1
      BY <1>1, <3>1, <3>2
    <3>3. CASE i # 1
      <4>1. i - 1 \in 1..(n - 1) /\ t[i - 1] = s[i]
        BY <1>1, <1>2, <3>3
      <4> QED BY <1>2, <3>1, <4>1 DEF Has
    <3> QED BY <3>2, <3>3
  <2>2. ASSUME Has(t, type) PROVE Has(s, type)
    <3>1. PICK i \in 1..(n - 1) : t[i].type = type
      BY <1>2, <2>2 DEF Has
    <3> QED BY <1>1, <1>2, <1>3, <3>1 DEF Has
  <2>3. ASSUME Head(s).type = type PROVE Has(s, type)
    BY <1>1, <1>4, <2>3 DEF Has
  <2> QED BY <2>1, <2>2, <2>3
<1>7. \A i \in DOMAIN t : Turn(Head(s)) \in {6, 7} => Turn(Head(s)) < Turn(t[i])
  BY <1>1, <1>2, <1>3, <1>4 DEF LastInTurn
<1>8. \A i \in DOMAIN t : t[i] \in DecodedEvent /\ Turn(t[i]) \in 1..7
  <2>1. \A i \in DOMAIN t : t[i] \in DecodedEvent
    BY <1>2, ElementsIn
  <2>2. \A ev \in DecodedEvent : Turn(ev) \in 1..7
    BY DecodedIsEvent, TurnType
  <2> QED BY <2>1, <2>2
<1>9. ASSUME Head(s).type = "message_stop" PROVE \A i \in DOMAIN t : t[i].type = "usage_final"
  <2>1. Turn(Head(s)) = 6
    BY <1>9 DEF Turn
  <2>2. ASSUME NEW i \in DOMAIN t PROVE Turn(t[i]) = 7
    <3>1. 6 < Turn(t[i])
      BY <1>7, <2>1
    <3>2. Turn(t[i]) \in 1..7
      BY <1>8
    <3> QED BY <3>1, <3>2
  <2> QED BY <1>8, <2>2, DecodedIsEvent, TurnType
<1>10. ASSUME Head(s).type = "usage_final" PROVE \A type : ~Has(t, type)
  <2>1. Turn(Head(s)) = 7
    BY <1>10 DEF Turn
  <2>2. ASSUME NEW i \in DOMAIN t PROVE FALSE
    <3>1. 7 < Turn(t[i])
      BY <1>7, <2>1
    <3>2. Turn(t[i]) \in 1..7
      BY <1>8
    <3> QED BY <3>1, <3>2
  <2> QED BY <2>2 DEF Has
<1> QED BY <1>1, <1>2, <1>3, <1>4, <1>5, <1>6, <1>9, <1>10 DEF t

LEMMA ApplyFields ==
  ASSUME NEW s \in AggregateState, NEW ev \in DecodedEvent
  PROVE  /\ Apply(s, ev).text = IF ev.type = "text_delta" THEN Append(s.text, ev.val) ELSE s.text
         /\ Apply(s, ev).stopReason = IF ev.type = "message_stop" THEN ev.val ELSE s.stopReason
<1>1. ev.type \in EventTypes
  BY DecodedIsEvent
<1>2. CASE ev.type = "tool_call_delta"
  <2>1. ev.index \in ToolIndices /\ ev.val \in Pieces
    BY <1>2, DecodedIsEvent
  <2>2. Apply(s, ev) = ExtendCall(s, ev.index, ev.val)
    BY <1>2 DEF Apply
  <2>3. /\ ExtendCall(s, ev.index, ev.val).text = s.text
        /\ ExtendCall(s, ev.index, ev.val).stopReason = s.stopReason
    BY <2>1, ExtendCallFields, ExtendedType
  <2> QED BY <1>2, <2>2, <2>3
<1>3. CASE ev.type # "tool_call_delta"
  BY <1>1, <1>3 DEF Apply, StartCall, AggregateState, EventTypes
<1> QED BY <1>2, <1>3

LEMMA AnswerTypes ==
  ASSUME NEW s \in StreamState, NEW a \in AggregateState
  PROVE  /\ s.out \in Seq(PieceSet) /\ a.text \in Seq(Vals)
         /\ Footer(s, a) \in Seq(Vals) /\ a.text \o Footer(s, a) \in Seq(Vals)
         /\ Finish(a) \in Seq(Vals) /\ Report(s) \in Seq(Vals)
<1>1. a.text \in Seq(Pieces) /\ Pieces \subseteq Vals
  BY DEF AggregateState, Vals
<1>2. a.text \in Seq(Vals)
  BY <1>1
<1>3. s.webSearchResults # NoResults => s.webSearchResults \in Vals
  BY DEF StreamState, Vals
<1>4. a.stopReason \in Vals
  BY DEF AggregateState, Vals
<1>5. s.usageResult # NoUsage => s.usageResult \in Vals
  BY DEF StreamState, Vals
<1>6. Footer(s, a) \in Seq(Vals) /\ Finish(a) \in Seq(Vals) /\ Report(s) \in Seq(Vals)
  BY <1>3, <1>4, <1>5 DEF Footer, Finish, Report
<1>7. a.text \o Footer(s, a) \in Seq(Vals)
  BY <1>2, <1>6
<1> QED BY <1>2, <1>6, <1>7 DEF StreamState

LEMMA Others ==
  \A kind \in {"reasoning", "role", "call", "args", "done"} :
    kind \notin {"text", "finish", "usage"}
OBVIOUS

\* The answer is the same after each event that comes in turn.
LEMMA AnswerTake ==
  ASSUME NEW s \in StreamState, NEW a \in AggregateState, NEW ev \in DecodedEvent,
         AnswerTold(s, a),
         ev.type # "usage_final" => a.stopReason = Empty,
         ev.type = "usage_final" => s.usageResult = NoUsage
  PROVE  AnswerTold(TakeEvent(s, ev), Apply(a, ev))
<1> DEFINE t == TakeEvent(s, ev)
           b == Apply(a, ev)
           out == s.out
           next == t.out
           text == a.text
           usage == Report(s)
           r == s.webSearchResults
<1>1. ev.type \in EventTypes
  BY DecodedIsEvent
<1>2. out \in Seq(PieceSet) /\ text \in Seq(Vals) /\ usage \in Seq(Vals) /\ <<>> \in Seq(Vals)
  BY AnswerTypes
<1>3. /\ t \in StreamState /\ t.webSearchResults = r
      /\ t.usageResult = IF ev.type = "usage_final" THEN ev.val ELSE s.usageResult
  BY TakeEventType
<1>4. /\ b.text = IF ev.type = "text_delta" THEN Append(text, ev.val) ELSE text
      /\ b.stopReason = IF ev.type = "message_stop" THEN ev.val ELSE a.stopReason
      /\ b.usage = IF ev.type = "usage_final" THEN MergeUsage(a.usage, ev.val) ELSE a.usage
  BY ApplyFields, ApplyUsage
<1>5. s.usageResult = a.usage
  BY DEF AnswerTold
<1>6. ASSUME ev.type # "usage_final"
      PROVE  /\ AnswerAt(out, text, <<>>, usage) /\ Report(t) = usage /\ t.usageResult = b.usage
  <2>1. Footer(s, a) = <<>> /\ Finish(a) = <<>>
    BY <1>6 DEF Footer, Finish
  <2>2. text \o <<>> = text
    BY <1>2
  <2>3. AnswerAt(out, text, <<>>, usage)
    BY <2>1, <2>2 DEF AnswerTold
  <2>4. t.usageResult = s.usageResult /\ b.usage = a.usage
    BY <1>3, <1>4, <1>6
  <2> QED BY <2>3, <2>4, <1>5 DEF Report
<1>7. ASSUME ev.type \notin {"message_stop", "usage_final"}
      PROVE  Footer(t, b) = <<>> /\ Finish(b) = <<>> /\ b.text \o <<>> = b.text
  <2>1. b.stopReason = Empty
    BY <1>4, <1>7
  <2>2. b.text \in Seq(Pieces)
    BY ApplyType DEF AggregateState
  <2>3. b.text \o <<>> = b.text
    BY <2>2
  <2> QED BY <2>1, <2>3 DEF Footer, Finish
<1>8. ASSUME ev.type \notin {"message_stop", "usage_final"}, AnswerAt(next, b.text, <<>>, usage)
      PROVE  AnswerTold(t, b)
  BY <1>6, <1>7, <1>8 DEF AnswerTold
<1>9. CASE ev.type = "text_delta"
  <2>1. Wrote(out, next, "text", 0, ev.val)
    BY <1>9, TakeWrites
  <2>2. AnswerAt(out, text, <<>>, usage) /\ b.text = Append(text, ev.val)
    BY <1>9, <1>6, <1>4
  <2> HIDE DEF t, b, out, next, text, usage
  <2>3. AnswerAt(next, Append(text, ev.val), <<>>, usage)
    BY <1>2, <2>1, <2>2, AnswerText
  <2> QED BY <1>8, <1>9, <2>2, <2>3 DEF t, b
<1>10. ASSUME ev.type \in {"thinking_delta", "thinking_signature", "tool_call_start",
                           "tool_call_delta"}
       PROVE  AnswerTold(t, b)
  <2>1. AnswerAt(out, text, <<>>, usage) /\ b.text = text
    BY <1>10, <1>6, <1>4
  <2>2. AnswerAt(next, text, <<>>, usage)
    <3>1. CASE ev.type = "thinking_signature"
      BY <3>1, <2>1, TakeWrites
    <3>2. CASE ev.type = "thinking_delta"
      <4>1. Wrote(out, next, "reasoning", 0, ev.val)
        BY <3>2, TakeWrites
      <4> HIDE DEF out, next, text, usage
      <4> QED BY <4>1, <1>2, <2>1, Others, AnswerOther
    <3>3. CASE ev.type = "tool_call_delta"
      <4>1. Wrote(out, next, "args", ev.index, ev.val)
        BY <3>3, TakeWrites
      <4> HIDE DEF out, next, text, usage
      <4> QED BY <4>1, <1>2, <2>1, Others, AnswerOther
    <3>4. CASE ev.type = "tool_call_start"
      <4> DEFINE o == Announced(s).out
      <4>1. Wrote(o, next, "call", ev.index, ev.val)
        BY <3>4, TakeWrites
      <4>2. o = out \/ Wrote(out, o, "role", 0, Empty)
        BY AnnouncedWrites
      <4> HIDE DEF o, out, next, text, usage
      <4>3. AnswerAt(o, text, <<>>, usage) /\ o \in Seq(PieceSet)
        <5>1. CASE o = out
          BY <5>1, <1>2, <2>1
        <5>2. CASE Wrote(out, o, "role", 0, Empty)
          BY <5>2, <1>2, <2>1, AnswerOther, WroteType
        <5> QED BY <5>1, <5>2, <4>2
      <4> QED BY <4>1, <4>3, <1>2, Others, AnswerOther
    <3> QED BY <3>1, <3>2, <3>3, <3>4, <1>10
  <2> QED BY <1>8, <1>10, <2>1, <2>2
<1>11. CASE ev.type = "message_stop"
  <2> DEFINE o == Footed(s).out
             all == text \o Footer(t, b)
  <2>1. Wrote(o, next, "finish", 0, ev.val)
    BY <1>11, TakeWrites
  <2>2. IF r = NoResults THEN o = out ELSE Wrote(out, o, "text", 0, r)
    BY FootedWrites
  <2>3. b.stopReason = ev.val /\ ev.val # Empty /\ b.text = text
    BY <1>4, <1>11, DecodedIsEvent, EventsAssumption
  <2>4. all = IF r = NoResults THEN text ELSE Append(text, r)
    <3>1. Footer(t, b) = IF r = NoResults THEN <<>> ELSE <<r>>
      BY <1>3, <2>3 DEF Footer
    <3>2. text \o <<>> = text /\ text \o <<r>> = Append(text, r)
      BY <1>2
    <3> QED BY <3>1, <3>2
  <2>5. AnswerAt(out, text, <<>>, usage) /\ Report(t) = usage /\ t.usageResult = b.usage
    BY <1>6, <1>11
  <2>6. Finish(b) = <<ev.val>>
    BY <2>3 DEF Finish
  <2>7. r # NoResults => r \in Vals
    BY DEF StreamState, Vals
  <2> HIDE DEF o, all, t, b, out, next, text, usage, r
  <2>8. AnswerAt(o, all, <<>>, usage) /\ o \in Seq(PieceSet) /\ all \in Seq(Vals)
    <3>1. CASE r = NoResults
      BY <3>1, <1>2, <2>2, <2>4, <2>5
    <3>2. CASE r # NoResults
      <4>1. Wrote(out, o, "text", 0, r) /\ all = Append(text, r) /\ r \in Vals
        BY <3>2, <2>2, <2>4, <2>7
      <4>2. AnswerAt(o, Append(text, r), <<>>, usage) /\ o \in Seq(PieceSet)
        BY <4>1, <1>2, <2>5, AnswerText, WroteType
      <4> QED BY <4>1, <4>2, <1>2
    <3> QED BY <3>1, <3>2
  <2>9. AnswerAt(next, all, <<ev.val>>, usage)
    BY <1>2, <2>1, <2>8, AnswerFinish
  <2> QED BY <2>3, <2>5, <2>6, <2>9 DEF AnswerTold, all, next, t, b
<1>12. CASE ev.type = "usage_final"
  <2> DEFINE all == text \o Footer(s, a)
             finish == Finish(a)
  <2>1. Wrote(out, next, "usage", 0, ev.val)
    BY <1>12, TakeWrites
  <2>2. ev.val \in Usages /\ ev.val # NoUsage /\ s.usageResult = NoUsage
    BY <1>12, DecodedIsEvent, EventsAssumption
  <2>3. t.usageResult = ev.val /\ b.usage = ev.val
    BY <1>3, <1>4, <1>5, <1>12, <2>2, MergeType DEF AggregateState
  <2>4. Footer(t, b) = Footer(s, a) /\ Finish(b) = finish /\ b.text = text
    BY <1>3, <1>4, <1>12 DEF Footer, Finish
  <2>5. usage = <<>> /\ Report(t) = <<ev.val>>
    BY <2>2, <2>3 DEF Report
  <2>6. AnswerAt(out, all, finish, <<>>) /\ all \in Seq(Vals) /\ finish \in Seq(Vals)
    BY <2>5, AnswerTypes DEF AnswerTold
  <2> HIDE DEF all, finish, t, b, out, next, text, usage, r
  <2>7. AnswerAt(next, all, finish, <<ev.val>>)
    BY <1>2, <2>1, <2>6, AnswerUsage
  <2> QED BY <2>3, <2>4, <2>5, <2>7 DEF AnswerTold, all, next, t, b
<1> QED BY <1>1, <1>9, <1>10, <1>11, <1>12 DEF EventTypes

LEMMA InitAnswer == Init => AnswerInv
<1> SUFFICES ASSUME Init PROVE AnswerInv
  OBVIOUS
<1>1. pending = <<>> /\ status = "reading" /\ upstream.phase = "content"
  BY DEF Init
<1>2. /\ stream.out = <<>> /\ stream.usageResult = NoUsage /\ stream.webSearchResults = NoResults
      /\ aggregate.text = <<>> /\ aggregate.stopReason = Empty /\ aggregate.usage = NoUsage
      /\ aggregate.webSearchResults = NoResults /\ aggregate.failed = FALSE
  BY DEF Init, NewStream, NewAggregate
<1>3. EndsInTurn
  BY <1>1, <1>2 DEF EndsInTurn, LastInTurn, Has
<1>4. StopsInTurn
  BY <1>1, <1>2 DEF StopsInTurn
<1>5. ResultsAgree
  BY <1>2 DEF ResultsAgree
<1>6. AnswerAt(<<>>, <<>>, <<>>, <<>>)
  <2>1. \A S : At(<<>>, S) = {}
    BY DEF At
  <2> QED BY <2>1, ToldNothing DEF AnswerAt, Ordered
<1>7. /\ aggregate.text \o Footer(stream, aggregate) = <<>>
      /\ Finish(aggregate) = <<>> /\ Report(stream) = <<>>
  BY <1>2 DEF Footer, Finish, Report
<1>8. AnswerTold(stream, aggregate)
  BY <1>2, <1>6, <1>7 DEF AnswerTold
<1> QED BY <1>3, <1>4, <1>5, <1>8 DEF AnswerInv

\* A line that comes in order ends the answer in order.
LEMMA ReadChunkEnds ==
  ASSUME TypeInv, NEW c \in Chunk, InOrder(c), EndsInTurn, pending = <<>>
  PROVE  LET phase == Sent(c).phase
             line == DecodeOpenAIStreamLine(c)
             done == aggregate.stopReason
             used == stream.usageResult
         IN  /\ LastInTurn(line)
             /\ Has(line, "message_stop") <=> done = Empty /\ phase # "content"
             /\ Has(line, "usage_final") <=> used = NoUsage /\ phase = "reported"
             /\ phase = "content" => done = Empty
             /\ phase # "reported" => used = NoUsage
             /\ done # Empty => \A i \in DOMAIN line : line[i].type = "usage_final"
<1> DEFINE phase == Sent(c).phase
           line == DecodeOpenAIStreamLine(c)
           done == aggregate.stopReason
           used == stream.usageResult
<1>1. phase = IF c.usage # NoUsage THEN "reported"
              ELSE IF c.finish # Empty THEN "finished" ELSE upstream.phase
  BY SentType DEF TypeInv
<1>2. /\ LastInTurn(line)
      /\ Has(line, "message_stop") <=> c.finish # Empty
      /\ Has(line, "usage_final") <=> c.usage # NoUsage
  BY DecodeEnds
<1>3. ~Has(pending, "message_stop") /\ ~Has(pending, "usage_final")
  BY DEF Has
<1>4. /\ ~(done = Empty /\ upstream.phase # "content")
      /\ ~(used = NoUsage /\ upstream.phase = "reported")
      /\ upstream.phase = "content" => done = Empty
      /\ upstream.phase # "reported" => used = NoUsage
  BY <1>3 DEF EndsInTurn
<1>5. CASE upstream.phase = "content" /\ (c.usage # NoUsage => c.finish # Empty)
  <2> HIDE DEF phase, line, done, used
  <2> QED BY <1>1, <1>2, <1>4, <1>5 DEF phase, line, done, used
<1>6. CASE /\ upstream.phase = "finished" /\ c.usage # NoUsage
           /\ c = [NoChunk EXCEPT !.usage = c.usage]
  <2>1. /\ c.finish = Empty /\ c.thinking = Empty /\ c.signature = Empty /\ c.text = Empty
        /\ c.tools = <<>>
    BY <1>6 DEF NoChunk
  <2>2. line = <<Event("usage_final", 0, c.usage)>>
    <3>1. EarlyPart(c) = <<>>
      <4>1. [i \in DOMAIN c.tools |-> FragmentEvents(c.tools[i])] = <<>>
        BY <2>1
      <4>2. FlattenSeq(<<>>) = <<>>
        BY DEF FlattenSeq
      <4> QED BY <4>1, <4>2, <2>1 DEF EarlyPart, FieldEvent
    <3>2. FinishPart(c) = <<>>
      BY <2>1 DEF FinishPart, FieldEvent
    <3>3. UsagePart(c) = <<Event("usage_final", 0, c.usage)>>
      BY <1>6 DEF UsagePart
    <3>4. line = (<<>> \o <<>>) \o <<Event("usage_final", 0, c.usage)>>
      BY <3>1, <3>2, <3>3, LineParts
    <3> HIDE DEF line
    <3> QED BY <3>4
  <2>3. \A i \in DOMAIN line : line[i].type = "usage_final"
    BY <2>2, EventFields
  <2> HIDE DEF phase, line, done, used
  <2> QED BY <1>1, <1>2, <1>4, <1>6, <2>1, <2>3 DEF phase, line, done, used
<1>7. \/ upstream.phase = "content" /\ (c.usage # NoUsage => c.finish # Empty)
      \/ /\ upstream.phase = "finished" /\ c.usage # NoUsage
         /\ c = [NoChunk EXCEPT !.usage = c.usage]
  BY DEF InOrder
<1> QED BY <1>5, <1>6, <1>7

\* Taking the next event of a line keeps the end in order.
LEMMA TakeNextEnds ==
  ASSUME TypeInv, EndsInTurn, pending # <<>>
  PROVE  LET ev == Head(pending)
             rest == Tail(pending)
             done == Apply(aggregate, ev).stopReason
             used == TakeEvent(stream, ev).usageResult
         IN  /\ ev.type # "usage_final" => aggregate.stopReason = Empty
             /\ ev.type = "usage_final" => stream.usageResult = NoUsage
             /\ LastInTurn(rest)
             /\ Has(rest, "message_stop") <=> done = Empty /\ upstream.phase # "content"
             /\ Has(rest, "usage_final") <=> used = NoUsage /\ upstream.phase = "reported"
             /\ upstream.phase = "content" => done = Empty
             /\ upstream.phase # "reported" => used = NoUsage
             /\ done # Empty => \A i \in DOMAIN rest : rest[i].type = "usage_final"
<1> DEFINE ev == Head(pending)
           rest == Tail(pending)
           done == Apply(aggregate, ev).stopReason
           used == TakeEvent(stream, ev).usageResult
<1>1. pending \in Seq(DecodedEvent) /\ stream \in StreamState /\ aggregate \in AggregateState
  BY DEF TypeInv
<1>2. /\ LastInTurn(rest)
      /\ \A type : Has(pending, type) <=> ev.type = type \/ Has(rest, type)
      /\ ev.type = "message_stop" => \A i \in DOMAIN rest : rest[i].type = "usage_final"
      /\ ev.type = "usage_final" => \A type : ~Has(rest, type)
      /\ \A i \in DOMAIN rest : \E j \in DOMAIN pending : rest[i] = pending[j]
      /\ ev \in DecodedEvent /\ \E j \in DOMAIN pending : ev = pending[j]
  BY <1>1, TailEnds DEF EndsInTurn
<1>3. done = IF ev.type = "message_stop" THEN ev.val ELSE aggregate.stopReason
  BY <1>1, <1>2, ApplyFields
<1>4. used = IF ev.type = "usage_final" THEN ev.val ELSE stream.usageResult
  BY <1>1, <1>2, TakeEventType
<1>5. /\ ev.type = "message_stop" => ev.val # Empty
      /\ ev.type = "usage_final" => ev.val # NoUsage
  BY <1>2, DecodedIsEvent, EventsAssumption
<1>6. /\ Has(pending, "message_stop") <=> aggregate.stopReason = Empty /\ upstream.phase # "content"
      /\ Has(pending, "usage_final") <=> stream.usageResult = NoUsage /\ upstream.phase = "reported"
      /\ upstream.phase = "content" => aggregate.stopReason = Empty
      /\ upstream.phase # "reported" => stream.usageResult = NoUsage
      /\ aggregate.stopReason # Empty => \A i \in DOMAIN pending : pending[i].type = "usage_final"
  BY DEF EndsInTurn
<1> HIDE DEF ev, rest, done, used
<1>7. aggregate.stopReason # Empty => /\ ev.type = "usage_final"
                                      /\ \A i \in DOMAIN rest : rest[i].type = "usage_final"
  BY <1>2, <1>6
<1>8. ev.type = "message_stop" => ~Has(rest, "message_stop")
  BY <1>2 DEF Has
<1>9. CASE ev.type = "message_stop"
  BY <1>2, <1>3, <1>4, <1>5, <1>6, <1>7, <1>8, <1>9 DEF ev, rest, done, used
<1>10. CASE ev.type = "usage_final"
  <2>1. ~Has(rest, "message_stop") /\ ~Has(rest, "usage_final")
    BY <1>2, <1>10
  <2> QED BY <2>1, <1>2, <1>3, <1>4, <1>5, <1>6, <1>7, <1>10 DEF ev, rest, done, used
<1>11. CASE ev.type \notin {"message_stop", "usage_final"}
  BY <1>2, <1>3, <1>4, <1>6, <1>7, <1>11 DEF ev, rest, done, used
<1> QED BY <1>9, <1>10, <1>11

LEMMA StepAnswer == TypeInv /\ AnswerInv /\ [Next]_vars => AnswerInv'
<1> SUFFICES ASSUME TypeInv, AnswerInv, [Next]_vars, upstream'.conforming
             PROVE  (EndsInTurn /\ StopsInTurn /\ ResultsAgree)' /\ AnswerTold(stream', aggregate')
  BY DEF AnswerInv
<1>0. /\ stream \in StreamState /\ aggregate \in AggregateState /\ aggregate.failed \in BOOLEAN
      /\ pending \in Seq(DecodedEvent) /\ upstream \in Upstreams
  BY DEF TypeInv, AggregateState
<1>1. ASSUME NEW c \in Chunks[upstream.conforming], ReadChunk(c)
      PROVE  (EndsInTurn /\ StopsInTurn /\ ResultsAgree)' /\ AnswerTold(stream', aggregate')
  <2>1. /\ status = "reading" /\ pending = <<>> /\ status' = status
        /\ pending' = DecodeOpenAIStreamLine(c) /\ upstream' = Sent(c)
        /\ stream' = stream /\ aggregate' = aggregate /\ hasWebSearch' = hasWebSearch
    BY <1>1 DEF ReadChunk, Reading
  <2>2. c \in Chunk /\ upstream.conforming
    BY <1>0, <2>1, ChunksType, SentType
  <2>3. InOrder(c) /\ EndsInTurn /\ StopsInTurn /\ ResultsAgree /\ AnswerTold(stream, aggregate)
    BY <1>1, <2>2 DEF ReadChunk, AnswerInv
  <2>4. EndsInTurn'
    BY <2>1, <2>2, <2>3, ReadChunkEnds DEF EndsInTurn
  <2> QED BY <2>1, <2>3, <2>4 DEF StopsInTurn, ResultsAgree
<1>2. CASE TakeNext
  <2> DEFINE ev == Head(pending)
             rest == Tail(pending)
  <2>1. /\ pending # <<>> /\ status' = status /\ upstream' = upstream
        /\ hasWebSearch' = hasWebSearch /\ pending' = rest
        /\ stream' = TakeEvent(stream, ev) /\ aggregate' = AggregateEvent(aggregate, ev)
    BY <1>2 DEF TakeNext
  <2>2. EndsInTurn /\ StopsInTurn /\ ResultsAgree /\ AnswerTold(stream, aggregate)
    BY <2>1 DEF AnswerInv
  <2>3. status = "reading" /\ ~aggregate.failed
    BY <2>1, <2>2 DEF StopsInTurn
  <2>4. aggregate' = Apply(aggregate, ev) /\ ev \in DecodedEvent
    BY <1>0, <2>1, <2>3 DEF AggregateEvent
  <2>5. EndsInTurn'
    BY <2>1, <2>2, <2>4, TakeNextEnds DEF EndsInTurn
  <2>6. StopsInTurn'
    BY <1>0, <2>1, <2>3, <2>4, ApplyType DEF StopsInTurn
  <2>7. ResultsAgree'
    BY <1>0, <2>1, <2>2, <2>4, ApplyType, TakeEventType DEF ResultsAgree
  <2>8. AnswerTold(stream', aggregate')
    <3>1. /\ ev.type # "usage_final" => aggregate.stopReason = Empty
          /\ ev.type = "usage_final" => stream.usageResult = NoUsage
      BY <2>1, <2>2, TakeNextEnds
    <3> QED BY <1>0, <2>1, <2>2, <2>4, <3>1, AnswerTake
  <2> QED BY <2>5, <2>6, <2>7, <2>8
<1>3. ASSUME NEW results \in Results, ReadSources(results)
      PROVE  (EndsInTurn /\ StopsInTurn /\ ResultsAgree)' /\ AnswerTold(stream', aggregate')
  <2>1. /\ status = "reading" /\ status' = status /\ upstream' = upstream
        /\ hasWebSearch' = hasWebSearch /\ pending' = pending
        /\ stream' = StreamSources(stream, hasWebSearch, results)
        /\ aggregate' = AggregateSources(aggregate, results)
        /\ upstream.phase = "content"
    BY <1>3 DEF ReadSources, Reading
  <2>2. EndsInTurn /\ StopsInTurn /\ ResultsAgree /\ AnswerTold(stream, aggregate)
    BY <2>1 DEF AnswerInv
  <2>3. ~aggregate.failed /\ aggregate.stopReason = Empty
    BY <2>1, <2>2 DEF StopsInTurn, EndsInTurn
  <2>4. /\ stream'.out = stream.out /\ stream'.usageResult = stream.usageResult
        /\ stream'.webSearchResults = IF hasWebSearch THEN results ELSE stream.webSearchResults
    BY <1>0, <2>1 DEF StreamSources, StreamState
  <2>5. /\ aggregate'.text = aggregate.text /\ aggregate'.stopReason = aggregate.stopReason
        /\ aggregate'.usage = aggregate.usage /\ aggregate'.failed = aggregate.failed
        /\ aggregate'.webSearchResults = results
    BY <1>0, <2>1, <2>3 DEF AggregateSources, AggregateState
  <2>6. EndsInTurn'
    BY <2>1, <2>2, <2>4, <2>5 DEF EndsInTurn
  <2>7. StopsInTurn'
    BY <2>1, <2>2, <2>5 DEF StopsInTurn
  <2>8. ResultsAgree'
    BY <2>1, <2>2, <2>4, <2>5 DEF ResultsAgree
  <2>9. AnswerTold(stream', aggregate')
    <3>1. /\ Footer(stream', aggregate') = Footer(stream, aggregate)
          /\ Finish(aggregate') = Finish(aggregate) /\ Report(stream') = Report(stream)
      BY <2>3, <2>4, <2>5 DEF Footer, Finish, Report
    <3> QED BY <2>2, <2>4, <2>5, <3>1 DEF AnswerTold
  <2> QED BY <2>6, <2>7, <2>8, <2>9
<1>4. CASE ReadDone
  <2>1. /\ status = "reading" /\ pending = <<>> /\ status' = "ended" /\ upstream' = upstream
        /\ hasWebSearch' = hasWebSearch /\ pending' = pending /\ aggregate' = aggregate
        /\ stream' = StreamDone(stream) /\ upstream.phase # "content"
    BY <1>4 DEF ReadDone, Reading
  <2>2. EndsInTurn /\ StopsInTurn /\ ResultsAgree /\ AnswerTold(stream, aggregate)
    BY <2>1 DEF AnswerInv
  <2>3. stream'.usageResult = stream.usageResult /\ stream'.webSearchResults = stream.webSearchResults
    BY <1>0, <2>1, StreamTypes, WriteFields DEF StreamDone, DonePiece
  <2>4. EndsInTurn'
    BY <2>1, <2>2, <2>3 DEF EndsInTurn
  <2>5. StopsInTurn' /\ ResultsAgree'
    BY <2>1, <2>2, <2>3 DEF StopsInTurn, ResultsAgree
  <2>6. AnswerTold(stream', aggregate')
    <3> DEFINE out == stream.out
               next == stream'.out
               text == aggregate.text \o Footer(stream, aggregate)
               finish == Finish(aggregate)
               usage == Report(stream)
    <3>1. Wrote(out, next, "done", 0, Empty)
      BY <1>0, <2>1, DoneWrites
    <3>2. /\ out \in Seq(PieceSet) /\ text \in Seq(Vals) /\ finish \in Seq(Vals)
          /\ usage \in Seq(Vals)
      BY <1>0, AnswerTypes
    <3>3. AnswerAt(out, text, finish, usage)
      BY <2>2 DEF AnswerTold
    <3>4. /\ Footer(stream', aggregate) = Footer(stream, aggregate)
          /\ Report(stream') = usage
      BY <2>3 DEF Footer, Report
    <3> HIDE DEF out, next, text, finish, usage
    <3>5. AnswerAt(next, text, finish, usage)
      BY <3>1, <3>2, <3>3, Others, AnswerOther
    <3> QED BY <2>1, <2>2, <2>3, <3>4, <3>5 DEF AnswerTold, next, text, finish, usage
  <2> QED BY <2>4, <2>5, <2>6
<1>5. CASE ReadEOF
  BY <1>5 DEF ReadEOF, AnswerInv, EndsInTurn, StopsInTurn, ResultsAgree
<1>6. CASE ReadFails
  <2>1. /\ pending = <<>> /\ status' = "broken" /\ upstream' = upstream
        /\ hasWebSearch' = hasWebSearch /\ pending' = pending /\ stream' = stream
    BY <1>6 DEF ReadFails
  <2>2. EndsInTurn /\ StopsInTurn /\ ResultsAgree /\ AnswerTold(stream, aggregate)
    BY <2>1 DEF AnswerInv
  <2>3. /\ aggregate'.text = aggregate.text /\ aggregate'.stopReason = aggregate.stopReason
        /\ aggregate'.usage = aggregate.usage
        /\ aggregate'.webSearchResults = aggregate.webSearchResults
    BY <1>0, <1>6 DEF ReadFails, AggregateFails, AggregateState
  <2>4. EndsInTurn' /\ StopsInTurn' /\ ResultsAgree'
    BY <2>1, <2>2, <2>3 DEF EndsInTurn, StopsInTurn, ResultsAgree
  <2>5. AnswerTold(stream', aggregate')
    BY <2>1, <2>2, <2>3 DEF AnswerTold, Footer, Finish, Report
  <2> QED BY <2>4, <2>5
<1>7. CASE ReadMalformed
  BY <1>7 DEF ReadMalformed
<1>8. CASE Returned \/ UNCHANGED vars
  BY <1>8 DEF Returned, vars, AnswerInv, EndsInTurn, StopsInTurn, ResultsAgree
<1> QED BY <1>1, <1>2, <1>3, <1>4, <1>5, <1>6, <1>7, <1>8 DEF Next

\* With an upstream that keeps to the API, a finished answer reads the same in
\* both modes: the text with its sources, before the finish reason; the reason;
\* the usage, told and recorded (streamOpenAIToOpenAIClient, aggregateStream).
THEOREM AnswersAgree == Spec => []SameAnswer
<1>1. TypeInv /\ AnswerInv => SameAnswer
  <2> DEFINE answer == Answer(aggregate, hasWebSearch)
  <2> SUFFICES ASSUME TypeInv, AnswerInv, upstream.conforming, status = "ended"
               PROVE  /\ Tell(Of("text"), answer.text)
                      /\ Tell(Of("finish"), <<answer.finish>>)
                      /\ Tell(Of("usage"),
                              IF answer.usage = NoUsage THEN <<>> ELSE <<answer.usage>>)
                      /\ stream.usageResult = answer.usage
                      /\ \A i \in Of("finish"), j \in Of("text") : j < i
    BY DEF SameAnswer
  <2>1. EndsInTurn /\ StopsInTurn /\ ResultsAgree /\ AnswerTold(stream, aggregate)
    BY DEF AnswerInv
  <2>2. aggregate.stopReason # Empty
    <3>1. pending = <<>> /\ upstream.phase # "content"
      BY <2>1 DEF StopsInTurn
    <3>2. ~Has(pending, "message_stop")
      BY <3>1 DEF Has
    <3> QED BY <2>1, <3>1, <3>2 DEF EndsInTurn
  <2>3. /\ answer.text = aggregate.text \o
             (IF hasWebSearch /\ aggregate.webSearchResults # NoResults
              THEN <<aggregate.webSearchResults>> ELSE <<>>)
        /\ answer.finish = aggregate.stopReason /\ answer.usage = aggregate.usage
    BY DEF Answer
  <2>4. Footer(stream, aggregate) = IF hasWebSearch /\ aggregate.webSearchResults # NoResults
                                    THEN <<aggregate.webSearchResults>> ELSE <<>>
    BY <2>1, <2>2 DEF Footer, ResultsAgree
  <2>5. answer.text = aggregate.text \o Footer(stream, aggregate)
    BY <2>3, <2>4
  <2>6. Finish(aggregate) = <<answer.finish>>
    BY <2>2, <2>3 DEF Finish
  <2>7. stream.usageResult = answer.usage
    BY <2>1, <2>3 DEF AnswerTold
  <2>8. Report(stream) = IF answer.usage = NoUsage THEN <<>> ELSE <<answer.usage>>
    BY <2>7 DEF Report
  <2> HIDE DEF answer
  <2>9. /\ Told(stream.out, PiecesOf("text"), answer.text)
        /\ Told(stream.out, PiecesOf("finish"), <<answer.finish>>)
        /\ Told(stream.out, PiecesOf("usage"), Report(stream))
        /\ Ordered(stream.out)
    BY <2>1, <2>5, <2>6 DEF AnswerTold, AnswerAt, Texts, Finishes, UsagePieces
  <2>10. \A kind, vals : Told(stream.out, PiecesOf(kind), vals) => Tell(Of(kind), vals)
    BY ToldTells, KindPositions
  <2>11. \A i \in Of("finish"), j \in Of("text") : j < i
    BY <2>9, KindPositions DEF Ordered, Texts, Finishes, At
  <2> QED BY <2>7, <2>8, <2>9, <2>10, <2>11 DEF answer
<1>2. Spec => []AnswerInv
  BY TypeInvariant, InitAnswer, StepAnswer, PTL DEF Spec
<1> QED BY <1>1, <1>2, TypeInvariant, PTL

(* --------------------- an upstream that conforms: calls ----------------- *)

\* The events of a line number the calls they start, from the n-th on, and
\* extend calls that were started.
Numbered(events, first, last) ==
  \E count \in [0..Len(events) -> first..last] :
    /\ count[0] = first /\ count[Len(events)] = last
    /\ \A i \in 1..Len(events) :
         /\ count[i] = count[i - 1] + (IF events[i].type = "tool_call_start" THEN 1 ELSE 0)
         /\ events[i].type = "tool_call_start" => events[i].index = count[i - 1]
         /\ events[i].type = "tool_call_delta" => events[i].index < count[i]

IdTold(a, index) == IF index < Len(a.toolCalls) THEN <<a.toolCalls[index + 1].id>> ELSE <<>>

ArgsTold(a, index) == IF index < Len(a.toolCalls) THEN a.toolCalls[index + 1].args ELSE <<>>

CallAt(out, index, ids, args) ==
  /\ Told(out, CallPieces("call", index), ids)
  /\ Told(out, CallPieces("args", index), args)

CallsAt(out, a) ==
  \A index \in ToolIndices : CallAt(out, index, IdTold(a, index), ArgsTold(a, index))

\* SameCalls, as far as the stream has come.
CallsTold(s, a) ==
  /\ \A i \in DOMAIN a.toolCalls : a.toolCalls[i].index = i - 1
  /\ CallsAt(s.out, a)

CallsInv ==
  upstream.conforming => /\ Numbered(pending, Len(aggregate.toolCalls), upstream.tools)
                         /\ CallsTold(stream, aggregate)

LEMMA NumberedNone ==
  ASSUME NEW a \in Nat
  PROVE  Numbered(<<>>, a, a)
<1> DEFINE count == [i \in 0..0 |-> a]
<1>1. count \in [0..Len(<<>>) -> a..a] /\ count[0] = a /\ count[Len(<<>>)] = a
  OBVIOUS
<1>2. 1..Len(<<>>) = {}
  OBVIOUS
<1> HIDE DEF count
<1> QED BY <1>1, <1>2 DEF Numbered

LEMMA NumberedOne ==
  ASSUME NEW ev, NEW a \in Nat
  PROVE  /\ ev.type = "tool_call_start" /\ ev.index = a => Numbered(<<ev>>, a, a + 1)
         /\ ev.type = "tool_call_delta" /\ ev.index < a => Numbered(<<ev>>, a, a)
         /\ ev.type \notin {"tool_call_start", "tool_call_delta"} => Numbered(<<ev>>, a, a)
<1> DEFINE b == IF ev.type = "tool_call_start" THEN a + 1 ELSE a
           count == [i \in 0..1 |-> IF i = 0 THEN a ELSE b]
           s == <<ev>>
<1>1. b \in Nat /\ b = a + (IF ev.type = "tool_call_start" THEN 1 ELSE 0) /\ a <= b
  OBVIOUS
<1>2. Len(s) = 1 /\ s[1] = ev
  OBVIOUS
<1>3. 1..Len(s) = {1} /\ 0..Len(s) = 0..1 /\ 1 - 1 = 0
  OBVIOUS
<1>4. count \in [0..1 -> a..b] /\ count[0] = a /\ count[1] = b
  <2>1. a \in a..b /\ b \in a..b
    BY <1>1
  <2> HIDE DEF b
  <2> QED BY <2>1
<1> HIDE DEF count, b, s
<1>5. ASSUME ev.type = "tool_call_start" => ev.index = a,
             ev.type = "tool_call_delta" => ev.index < b
      PROVE  Numbered(s, a, b)
  <2>1. \A i \in 1..Len(s) :
         /\ count[i] = count[i - 1] + (IF s[i].type = "tool_call_start" THEN 1 ELSE 0)
         /\ s[i].type = "tool_call_start" => s[i].index = count[i - 1]
         /\ s[i].type = "tool_call_delta" => s[i].index < count[i]
    BY <1>1, <1>2, <1>3, <1>4, <1>5
  <2> QED BY <1>2, <1>3, <1>4, <2>1 DEF Numbered
<1>6. CASE ev.type = "tool_call_start"
  <2>1. b = a + 1
    BY <1>6 DEF b
  <2> QED BY <1>5, <1>6, <2>1 DEF s
<1>7. CASE ev.type # "tool_call_start"
  <2>1. b = a
    BY <1>7 DEF b
  <2> QED BY <1>5, <1>7, <2>1 DEF s
<1> QED BY <1>6, <1>7

LEMMA NumberedConcat ==
  ASSUME NEW s \in Seq(DecodedEvent), NEW t \in Seq(DecodedEvent),
         NEW a \in Nat, NEW b \in Nat, NEW c \in Nat,
         Numbered(s, a, b), Numbered(t, b, c)
  PROVE  Numbered(s \o t, a, c)
<1> DEFINE u == s \o t
           m == Len(s)
           n == Len(t)
<1>1. /\ m \in Nat /\ n \in Nat /\ Len(u) = m + n
      /\ \A i \in 1..(m + n) : u[i] = IF i <= m THEN s[i] ELSE t[i - m]
  BY ConcatFacts
<1>2. PICK f \in [0..m -> a..b] :
         /\ f[0] = a /\ f[m] = b
         /\ \A i \in 1..m :
              /\ f[i] = f[i - 1] + (IF s[i].type = "tool_call_start" THEN 1 ELSE 0)
              /\ s[i].type = "tool_call_start" => s[i].index = f[i - 1]
              /\ s[i].type = "tool_call_delta" => s[i].index < f[i]
  BY DEF Numbered
<1>3. PICK g \in [0..n -> b..c] :
         /\ g[0] = b /\ g[n] = c
         /\ \A i \in 1..n :
              /\ g[i] = g[i - 1] + (IF t[i].type = "tool_call_start" THEN 1 ELSE 0)
              /\ t[i].type = "tool_call_start" => t[i].index = g[i - 1]
              /\ t[i].type = "tool_call_delta" => t[i].index < g[i]
  BY DEF Numbered
<1> HIDE DEF u, m, n
<1>4. a <= b /\ b <= c
  <2>1. m \in 0..m /\ n \in 0..n
    BY <1>1
  <2>2. f[m] \in a..b /\ g[n] \in b..c
    BY <2>1
  <2> QED BY <1>2, <1>3, <2>2
<1> DEFINE h == [i \in 0..(m + n) |-> IF i <= m THEN f[i] ELSE g[i - m]]
<1>5. h \in [0..(m + n) -> a..c]
  <2>1. ASSUME NEW i \in 0..(m + n) PROVE (IF i <= m THEN f[i] ELSE g[i - m]) \in a..c
    <3>1. CASE i <= m
      <4>1. i \in 0..m
        BY <3>1, <1>1
      <4>2. f[i] \in a..b
        BY <4>1
      <4> QED BY <3>1, <4>2, <1>4
    <3>2. CASE ~(i <= m)
      <4>1. i - m \in 0..n
        BY <3>2, <1>1
      <4>2. g[i - m] \in b..c
        BY <4>1
      <4> QED BY <3>2, <4>2, <1>4
    <3> QED BY <3>1, <3>2
  <2> QED BY <2>1
<1>6. \A i \in 0..m : h[i] = f[i]
  BY <1>1
<1>7. \A i \in 0..n : h[m + i] = g[i]
  <2>1. TAKE i \in 0..n
  <2>2. m + i \in 0..(m + n) /\ (m + i) - m = i
    BY <1>1
  <2>3. CASE i = 0
    <3>1. m + i = m /\ m \in 0..m
      BY <1>1, <2>3
    <3> HIDE DEF h
    <3> QED BY <1>2, <1>3, <1>6, <2>3, <3>1
  <2>4. CASE i # 0
    <3>1. ~(m + i <= m)
      BY <1>1, <2>4
    <3> QED BY <2>2, <3>1
  <2> QED BY <2>3, <2>4
<1> HIDE DEF h
<1>8. ASSUME NEW i \in 1..(m + n)
      PROVE  /\ h[i] = h[i - 1] + (IF u[i].type = "tool_call_start" THEN 1 ELSE 0)
             /\ u[i].type = "tool_call_start" => u[i].index = h[i - 1]
             /\ u[i].type = "tool_call_delta" => u[i].index < h[i]
  <2>1. CASE i <= m
    <3>1. m \in Nat /\ n \in Nat
      BY <1>1
    <3>2. i \in 1..m
      BY <2>1, <3>1
    <3>3. i \in 0..m /\ i - 1 \in 0..m
      BY <3>1, <3>2
    <3>4. u[i] = s[i]
      BY <1>1, <3>2
    <3>5. h[i] = f[i] /\ h[i - 1] = f[i - 1]
      BY <1>6, <3>3
    <3> QED BY <1>2, <3>2, <3>4, <3>5
  <2>2. CASE ~(i <= m)
    <3> DEFINE k == i - m
    <3>1. k \in 1..n /\ k \in 0..n /\ k - 1 \in 0..n /\ u[i] = t[k]
      BY <1>1, <2>2
    <3>2. m + k = i /\ m + (k - 1) = i - 1
      BY <1>1
    <3> HIDE DEF k
    <3>3. h[i] = g[k] /\ h[i - 1] = g[k - 1]
      BY <1>7, <3>1, <3>2
    <3> QED BY <1>3, <3>1, <3>3
  <2> QED BY <2>1, <2>2
<1>9. h[0] = a /\ h[m + n] = c
  <2>1. 0 \in 0..m /\ n \in 0..n
    BY <1>1
  <2> QED BY <1>2, <1>3, <1>6, <1>7, <2>1
<1>10. Numbered(u, a, c)
  BY <1>1, <1>5, <1>8, <1>9 DEF Numbered
<1> QED BY <1>10 DEF u

LEMMA NumberedTail ==
  ASSUME NEW s \in Seq(DecodedEvent), s # <<>>, NEW a \in Nat, NEW b \in Nat,
         Numbered(s, a, b)
  PROVE  LET ev == Head(s)
             next == a + (IF ev.type = "tool_call_start" THEN 1 ELSE 0)
         IN  /\ Numbered(Tail(s), next, b)
             /\ ev.type = "tool_call_start" => ev.index = a
             /\ ev.type = "tool_call_delta" => ev.index < a
<1> DEFINE ev == Head(s)
           one == IF ev.type = "tool_call_start" THEN 1 ELSE 0
           next == a + one
           t == Tail(s)
           n == Len(s)
           m == n - 1
<1>1. n \in Nat /\ n > 0 /\ ev = s[1] /\ Len(t) = m /\ m \in Nat
  OBVIOUS
<1>2. \A i \in 1..m : t[i] = s[i + 1]
  OBVIOUS
<1>3. PICK f \in [0..n -> a..b] :
         /\ f[0] = a /\ f[n] = b
         /\ \A i \in 1..n :
              /\ f[i] = f[i - 1] + (IF s[i].type = "tool_call_start" THEN 1 ELSE 0)
              /\ s[i].type = "tool_call_start" => s[i].index = f[i - 1]
              /\ s[i].type = "tool_call_delta" => s[i].index < f[i]
  BY DEF Numbered
<1>4. one \in {0, 1} /\ n = m + 1
  BY <1>1
<1> HIDE DEF ev, t, n, m
<1>5. /\ f[1] = next
      /\ ev.type = "tool_call_start" => ev.index = a
      /\ ev.type = "tool_call_delta" => ev.index < a
  <2>1. 1 \in 1..n /\ 1 - 1 = 0
    BY <1>1
  <2>2. /\ f[1] = f[0] + one
        /\ s[1].type = "tool_call_start" => s[1].index = f[0]
        /\ s[1].type = "tool_call_delta" => s[1].index < f[1]
    BY <1>1, <1>3, <2>1
  <2> QED BY <1>1, <1>3, <2>2
<1> HIDE DEF one
<1> DEFINE g == [i \in 0..m |-> f[i + 1]]
<1>6. /\ \A i \in 0..m : i + 1 \in 0..n /\ i + 1 \in 1..n
      /\ \A i \in 0..m : g[i] = f[i + 1]
  BY <1>4, <1>1
<1>7. \A i \in 0..m : next <= g[i] /\ g[i] \in a..b
  <2> DEFINE T == {k \in Nat : k <= m => next <= f[k + 1]}
  <2>1. 0 \in T
    BY <1>4, <1>5
  <2>2. ASSUME NEW k \in Nat, k \in T PROVE k + 1 \in T
    <3>1. SUFFICES ASSUME k + 1 <= m PROVE next <= f[(k + 1) + 1]
      OBVIOUS
    <3> DEFINE j == k + 1
               l == j + 1
    <3>2. l \in 1..n /\ j \in 0..n /\ l \in 0..n /\ l - 1 = j
      BY <3>1, <1>4, <1>1
    <3>3. next <= f[j]
      BY <2>2, <3>1, <1>1
    <3> HIDE DEF j, l
    <3>4. f[l] = f[j] + (IF s[l].type = "tool_call_start" THEN 1 ELSE 0)
      BY <1>3, <3>2
    <3>5. f[j] \in Int /\ f[l] \in Int /\ next \in Int
      BY <3>2, <1>4
    <3>6. next <= f[l]
      BY <3>3, <3>4, <3>5
    <3> QED BY <3>6 DEF l, j
  <2>3. Nat \subseteq T
    <3> HIDE DEF T
    <3> QED BY <2>1, <2>2, SetInduction
  <2>4. ASSUME NEW i \in 0..m PROVE next <= f[i + 1] /\ f[i + 1] \in a..b
    <3>1. i \in T /\ i <= m
      BY <2>3, <1>1
    <3>2. i + 1 \in 0..n
      BY <1>6
    <3> QED BY <3>1, <3>2
  <2> QED BY <2>4, <1>6
<1>8. g \in [0..m -> next..b]
  <2>1. next \in Int
    BY <1>4
  <2>2. \A i \in 0..m : g[i] \in next..b
    BY <1>7, <2>1
  <2>3. g = [i \in 0..m |-> g[i]]
    OBVIOUS
  <2> HIDE DEF g
  <2> QED BY <2>2, <2>3
<1> HIDE DEF g
<1>9. ASSUME NEW i \in 1..m
      PROVE  /\ g[i] = g[i - 1] + (IF t[i].type = "tool_call_start" THEN 1 ELSE 0)
             /\ t[i].type = "tool_call_start" => t[i].index = g[i - 1]
             /\ t[i].type = "tool_call_delta" => t[i].index < g[i]
  <2> DEFINE k == i + 1
             h == i - 1
  <2>1. h \in 0..m /\ i \in 0..m /\ k \in 1..n /\ h + 1 = i /\ k - 1 = i
    BY <1>1, <1>4
  <2>2. t[i] = s[k] /\ g[i] = f[k]
    BY <1>2, <1>6, <2>1
  <2> HIDE DEF k, h
  <2>3. g[h] = f[i]
    BY <1>6, <2>1
  <2>4. /\ g[i] = g[h] + (IF t[i].type = "tool_call_start" THEN 1 ELSE 0)
        /\ t[i].type = "tool_call_start" => t[i].index = g[h]
        /\ t[i].type = "tool_call_delta" => t[i].index < g[i]
    BY <1>3, <2>1, <2>2, <2>3
  <2> QED BY <2>4 DEF h
<1>10. g[0] = next /\ g[m] = b
  <2>1. 0 \in 0..m /\ m \in 0..m /\ 0 + 1 = 1
    BY <1>1
  <2>2. g[0] = f[1] /\ g[m] = f[n]
    BY <1>4, <1>6, <2>1
  <2> QED BY <2>2, <1>3, <1>5
<1>11. Numbered(t, next, b)
  BY <1>1, <1>8, <1>9, <1>10 DEF Numbered
<1> QED BY <1>5, <1>11 DEF ev, one, t

\* One fragment more.
LEMMA StartsNext ==
  ASSUME NEW c \in Chunk, NEW k \in Nat, k + 1 <= Len(c.tools)
  PROVE  Starts(c, k + 1) = Starts(c, k) + (IF c.tools[k + 1].id # Empty THEN 1 ELSE 0)
<1> DEFINE P == {i \in 1..k : c.tools[i].id # Empty}
           Q == {i \in 1..(k + 1) : c.tools[i].id # Empty}
<1>1. IsFiniteSet(P)
  <2>1. IsFiniteSet(1..k)
    BY FS_Interval
  <2> QED BY <2>1, FS_Subset
<1>2. k + 1 \notin P /\ 1..(k + 1) = 1..k \cup {k + 1}
  OBVIOUS
<1>3. Q = IF c.tools[k + 1].id # Empty THEN P \cup {k + 1} ELSE P
  BY <1>2
<1>4. Cardinality(P) \in Nat /\ Cardinality(P \cup {k + 1}) = Cardinality(P) + 1
  <2> HIDE DEF P
  <2> QED BY <1>1, <1>2, FS_AddElement, FS_CardinalityType
<1>5. Starts(c, k + 1) = Cardinality(Q) /\ Starts(c, k) = Cardinality(P)
  BY DEF Starts
<1> HIDE DEF P, Q
<1> QED BY <1>3, <1>4, <1>5

LEMMA StartsNone ==
  ASSUME NEW c \in Chunk
  PROVE  Starts(c, 0) = 0
<1>1. {i \in 1..0 : c.tools[i].id # Empty} = {}
  OBVIOUS
<1> QED BY <1>1, FS_EmptySet DEF Starts

LEMMA FragmentNumbered ==
  ASSUME NEW f \in Fragment, NEW a \in Nat, NEW b,
         b = a + (IF f.id # Empty THEN 1 ELSE 0),
         f.id # Empty => f.index = a,
         f.id = Empty => f.index < a
  PROVE  Numbered(FragmentEvents(f), a, b)
<1> DEFINE s == FieldEvent("tool_call_start", f.index, f.id)
           t == FieldEvent("tool_call_delta", f.index, f.args)
           x == Event("tool_call_start", f.index, f.id)
           y == Event("tool_call_delta", f.index, f.args)
<1>1. /\ s = IF f.id = Empty THEN <<>> ELSE <<x>>
      /\ t = IF f.args = Empty THEN <<>> ELSE <<y>>
      /\ FragmentEvents(f) = s \o t
  BY DEF FieldEvent, FragmentEvents
<1>2. /\ f.id # Empty => x \in DecodedEvent
      /\ f.args # Empty => y \in DecodedEvent
  BY FragmentType
<1>3. x.type = "tool_call_start" /\ x.index = f.index /\ y.type = "tool_call_delta" /\ y.index = f.index
  BY EventFields
<1> HIDE DEF s, t, x, y
<1>4. s \in Seq(DecodedEvent) /\ t \in Seq(DecodedEvent) /\ b \in Nat
  BY <1>1, <1>2
<1>5. Numbered(s, a, b)
  <2>1. CASE f.id = Empty
    <3>1. s = <<>> /\ b = a
      BY <1>1, <2>1
    <3> QED BY <3>1, NumberedNone
  <2>2. CASE f.id # Empty
    <3>1. s = <<x>> /\ b = a + 1 /\ x.index = a
      BY <1>1, <1>3, <2>2
    <3> QED BY <3>1, <1>3, NumberedOne
  <2> QED BY <2>1, <2>2
<1>6. Numbered(t, b, b)
  <2>1. CASE f.args = Empty
    <3>1. t = <<>>
      BY <1>1, <2>1
    <3> QED BY <3>1, <1>4, NumberedNone
  <2>2. CASE f.args # Empty
    <3>1. t = <<y>> /\ y.index < b
      BY <1>1, <1>3, <2>2
    <3> QED BY <3>1, <1>3, <1>4, NumberedOne
  <2> QED BY <2>1, <2>2
<1>7. Numbered(s \o t, a, b)
  BY <1>4, <1>5, <1>6, NumberedConcat
<1> QED BY <1>1, <1>7

\* The fragments of a chunk come in order, the calls before it numbered up to
\* the n-th.
ToolsInOrder(c, n) ==
  \A i \in DOMAIN c.tools :
    LET started == n + Starts(c, i)
    IN  IF c.tools[i].id # Empty THEN c.tools[i].index = started - 1
                                 ELSE c.tools[i].index < started

LEMMA ToolsNumbered ==
  ASSUME NEW c \in Chunk, NEW n \in Nat, ToolsInOrder(c, n)
  PROVE  LET s == FlattenSeq([i \in DOMAIN c.tools |-> FragmentEvents(c.tools[i])])
         IN  Numbered(s, n, n + Starts(c, Len(c.tools))) /\ s \in Seq(DecodedEvent)
<1> DEFINE tools == c.tools
           N == Len(tools)
           fragments == [i \in DOMAIN tools |-> FragmentEvents(tools[i])]
           s == FlattenSeq(fragments)
<1>1. tools \in Seq(Fragment) /\ DOMAIN tools = 1..N /\ N \in Nat
  BY ChunkEvents
<1>2. \A i \in 1..N : tools[i] \in Fragment /\ FragmentEvents(tools[i]) \in Seq(DecodedEvent)
  BY <1>1, FragmentType
<1>3. fragments \in Seq(Seq(DecodedEvent)) /\ Len(fragments) = N
  BY <1>1, <1>2
<1>4. \A i \in 1..N : fragments[i] = FragmentEvents(tools[i])
  BY <1>1
<1>5. \A i \in 0..N : Starts(c, i) \in Nat
  BY StartsType
<1> HIDE DEF fragments
<1>6. s \in Seq(DecodedEvent)
  BY <1>3, FlattenSeqType
<1>7. ASSUME NEW k \in Nat, k + 1 <= N
      PROVE  Numbered(fragments[k + 1], n + Starts(c, k), n + Starts(c, k + 1))
  <2> DEFINE l == k + 1
             f == tools[l]
             a == n + Starts(c, k)
             b == n + Starts(c, l)
  <2>1. l \in 1..N /\ k \in 0..N
    BY <1>1, <1>7
  <2>2. Starts(c, l) = Starts(c, k) + (IF f.id # Empty THEN 1 ELSE 0)
    BY <1>7, StartsNext
  <2>3. f \in Fragment /\ fragments[l] = FragmentEvents(f)
    BY <1>2, <1>4, <2>1
  <2>4. IF f.id # Empty THEN f.index = b - 1 ELSE f.index < b
    BY <1>1, <2>1 DEF ToolsInOrder
  <2>5. Starts(c, k) \in Nat
    BY <1>5, <2>1
  <2> HIDE DEF l, f
  <2>6. a \in Nat /\ b = a + (IF f.id # Empty THEN 1 ELSE 0)
    BY <2>2, <2>5
  <2> HIDE DEF a, b
  <2>7. /\ f.id # Empty => f.index = a
        /\ f.id = Empty => f.index < a
    BY <2>4, <2>6
  <2>8. Numbered(FragmentEvents(f), a, b)
    BY <2>3, <2>6, <2>7, FragmentNumbered
  <2> QED BY <2>3, <2>8 DEF a, b, l
<1>8. CASE N = 0
  <2>1. s = <<>>
    BY <1>3, <1>8 DEF FlattenSeq
  <2>2. Starts(c, N) = 0
    BY <1>8, StartsNone
  <2>3. Numbered(<<>>, n, n)
    BY NumberedNone
  <2> HIDE DEF s
  <2>4. n + Starts(c, N) = n
    BY <2>2
  <2> QED BY <2>1, <2>3, <2>4, <1>6 DEF s, fragments
<1>9. CASE N # 0
  <2>1. PICK f \in [1..N -> Seq(DecodedEvent)] :
           /\ s = f[N] /\ f[1] = fragments[1]
           /\ \A k \in Nat : k # 0 /\ k + 1 <= N => f[k + 1] = f[k] \o fragments[k + 1]
    <3>1. Len(fragments) # 0
      BY <1>3, <1>9
    <3>2. \E f \in [1..Len(fragments) -> Seq(DecodedEvent)] :
            /\ FlattenSeq(fragments) = f[Len(fragments)]
            /\ f[1] = fragments[1]
            /\ \A k \in Nat : k # 0 /\ k + 1 <= Len(fragments) =>
                 f[k + 1] = f[k] \o fragments[k + 1]
      BY <1>3, <3>1, FlattenUnfold
    <3> HIDE DEF N
    <3> QED BY <1>3, <3>2
  <2> DEFINE T == {k \in Nat : k \in 1..N => Numbered(f[k], n, n + Starts(c, k))}
  <2>2. 0 \in T
    OBVIOUS
  <2>3. ASSUME NEW k \in Nat, k \in T PROVE k + 1 \in T
    <3>1. SUFFICES ASSUME k + 1 \in 1..N PROVE Numbered(f[k + 1], n, n + Starts(c, k + 1))
      OBVIOUS
    <3>2. k + 1 <= N
      BY <3>1, <1>1
    <3>3. Numbered(fragments[k + 1], n + Starts(c, k), n + Starts(c, k + 1))
      BY <1>7, <3>2
    <3>4. CASE k = 0
      <4>1. k + 1 = 1 /\ Starts(c, k) = 0 /\ n + Starts(c, k) = n
        BY <3>4, StartsNone
      <4> QED BY <2>1, <3>3, <4>1
    <3>5. CASE k # 0
      <4> DEFINE a == n + Starts(c, k)
                 b == n + Starts(c, k + 1)
                 g == fragments[k + 1]
                 h == f[k]
      <4>1. k \in 1..N /\ k \in 0..N /\ k + 1 \in 0..N
        BY <3>2, <3>5, <1>1
      <4>2. a \in Nat /\ b \in Nat
        BY <1>5, <4>1
      <4>3. Numbered(h, n, a) /\ Numbered(g, a, b)
        BY <2>3, <3>3, <4>1
      <4>4. h \in Seq(DecodedEvent)
        BY <4>1
      <4>5. g \in Seq(DecodedEvent)
        BY <1>2, <1>4, <3>1
      <4>6. f[k + 1] = h \o g
        BY <2>1, <3>2, <3>5
      <4> HIDE DEF a, b, g, h
      <4>7. Numbered(h \o g, n, b)
        BY <4>2, <4>3, <4>4, <4>5, NumberedConcat
      <4> QED BY <4>6, <4>7 DEF b
    <3> QED BY <3>4, <3>5
  <2>4. N \in T
    <3> HIDE DEF T
    <3> QED BY <2>2, <2>3, <1>1, SetInduction
  <2>5. Numbered(f[N], n, n + Starts(c, N))
    BY <2>4, <1>1, <1>9
  <2> HIDE DEF s, N
  <2> QED BY <2>1, <2>5, <1>6 DEF s, N, fragments
<1> QED BY <1>8, <1>9

LEMMA NumberedField ==
  ASSUME NEW type, NEW index, NEW v, type \notin {"tool_call_start", "tool_call_delta"},
         NEW n \in Nat
  PROVE  Numbered(FieldEvent(type, index, v), n, n)
<1> DEFINE x == Event(type, index, v)
<1>1. x.type = type
  BY EventFields
<1>2. FieldEvent(type, index, v) = IF v = Empty THEN <<>> ELSE <<x>>
  BY DEF FieldEvent
<1> HIDE DEF x
<1>3. Numbered(<<x>>, n, n)
  BY <1>1, NumberedOne
<1> QED BY <1>2, <1>3, NumberedNone

LEMMA LineNumbered ==
  ASSUME NEW c \in Chunk, NEW n \in Nat, ToolsInOrder(c, n)
  PROVE  Numbered(DecodeOpenAIStreamLine(c), n, n + Starts(c, Len(c.tools)))
<1> DEFINE p1 == FieldEvent("thinking_delta", 0, c.thinking)
           p2 == FieldEvent("thinking_signature", 0, c.signature)
           p3 == FieldEvent("text_delta", 0, c.text)
           p4 == FlattenSeq([i \in DOMAIN c.tools |-> FragmentEvents(c.tools[i])])
           p5 == FinishPart(c)
           p6 == UsagePart(c)
           b == n + Starts(c, Len(c.tools))
           y == Event("usage_final", 0, c.usage)
<1>1. DecodeOpenAIStreamLine(c) = p1 \o p2 \o p3 \o p4 \o p5 \o p6
  BY DEF DecodeOpenAIStreamLine, FinishPart, UsagePart
<1>2. b \in Nat
  <2>1. Len(c.tools) \in Nat
    BY ChunkEvents
  <2> QED BY <2>1, StartsType
<1>3. Numbered(p1, n, n) /\ Numbered(p2, n, n) /\ Numbered(p3, n, n)
  BY NumberedField
<1>4. Numbered(p4, n, b) /\ p4 \in Seq(DecodedEvent)
  BY ToolsNumbered
<1>5. Numbered(p5, b, b)
  BY <1>2, NumberedField DEF FinishPart
<1>6. Numbered(p6, b, b)
  <2>1. y.type = "usage_final"
    BY EventFields
  <2>2. p6 = IF c.usage = NoUsage THEN <<>> ELSE <<y>>
    BY DEF UsagePart
  <2> HIDE DEF p6, y, b
  <2>3. Numbered(<<y>>, b, b) /\ Numbered(<<>>, b, b)
    BY <1>2, <2>1, NumberedOne, NumberedNone
  <2> QED BY <2>2, <2>3
<1>7. /\ p1 \in Seq(DecodedEvent) /\ p2 \in Seq(DecodedEvent) /\ p3 \in Seq(DecodedEvent)
      /\ p5 \in Seq(DecodedEvent)
  BY ChunkEvents, SeqFieldType DEF FinishPart
<1>8. p6 \in Seq(DecodedEvent)
  BY ChunkEvents DEF UsagePart
<1> HIDE DEF p1, p2, p3, p4, p5, p6, b
<1> DEFINE q2 == p1 \o p2
           q3 == q2 \o p3
           q4 == q3 \o p4
           q5 == q4 \o p5
<1>9. Numbered(q2, n, n) /\ q2 \in Seq(DecodedEvent)
  BY <1>3, <1>7, NumberedConcat
<1> HIDE DEF q2
<1>10. Numbered(q3, n, n) /\ q3 \in Seq(DecodedEvent)
  BY <1>3, <1>7, <1>9, NumberedConcat
<1> HIDE DEF q3
<1>11. Numbered(q4, n, b) /\ q4 \in Seq(DecodedEvent)
  BY <1>2, <1>4, <1>10, NumberedConcat
<1> HIDE DEF q4
<1>12. Numbered(q5, n, b) /\ q5 \in Seq(DecodedEvent)
  BY <1>2, <1>5, <1>7, <1>11, NumberedConcat
<1> HIDE DEF q5
<1>13. Numbered(q5 \o p6, n, b)
  BY <1>2, <1>6, <1>8, <1>12, NumberedConcat
<1> QED BY <1>1, <1>13 DEF q5, q4, q3, q2, b

LEMMA CallOther ==
  ASSUME NEW out \in Seq(PieceSet), NEW next, NEW kind, NEW i, NEW val,
         Wrote(out, next, kind, i, val), NEW index,
         kind \notin {"call", "args"} \/ i # index,
         NEW ids \in Seq(Vals), NEW args \in Seq(Vals),
         CallAt(out, index, ids, args)
  PROVE  CallAt(next, index, ids, args)
<1>1. \A p \in PieceSet :
        p.kind = kind /\ p.index = i /\ p.val = val => p \notin CallPieces("call", index)
  BY DEF CallPieces
<1>2. \A p \in PieceSet :
        p.kind = kind /\ p.index = i /\ p.val = val => p \notin CallPieces("args", index)
  BY DEF CallPieces
<1> QED BY <1>1, <1>2, ToldKept DEF CallAt

LEMMA CallStart ==
  ASSUME NEW out \in Seq(PieceSet), NEW next, NEW index, NEW val,
         Wrote(out, next, "call", index, val), NEW args \in Seq(Vals),
         CallAt(out, index, <<>>, args)
  PROVE  CallAt(next, index, <<val>>, args)
<1>1. \A p \in PieceSet :
        p.kind = "call" /\ p.index = index /\ p.val = val => p \in CallPieces("call", index)
  BY DEF CallPieces
<1>2. \A p \in PieceSet :
        p.kind = "call" /\ p.index = index /\ p.val = val => p \notin CallPieces("args", index)
  BY DEF CallPieces
<1>3. <<>> \in Seq(Vals) /\ Append(<<>>, val) = <<val>>
  OBVIOUS
<1>4. Told(next, CallPieces("call", index), Append(<<>>, val))
  <2> DEFINE none == <<>>
             S == CallPieces("call", index)
  <2>1. none \in Seq(Vals) /\ Told(out, S, none)
    BY DEF CallAt
  <2>2. \A p \in PieceSet : p.kind = "call" /\ p.index = index /\ p.val = val => p \in S
    BY <1>1
  <2> HIDE DEF none, S
  <2>3. Told(next, S, Append(none, val))
    BY <2>1, <2>2, ToldNext
  <2> QED BY <2>3 DEF none, S
<1>5. Told(next, CallPieces("args", index), args)
  BY <1>2, ToldKept DEF CallAt
<1> QED BY <1>3, <1>4, <1>5 DEF CallAt

LEMMA CallArgs ==
  ASSUME NEW out \in Seq(PieceSet), NEW next, NEW index, NEW val,
         Wrote(out, next, "args", index, val),
         NEW ids \in Seq(Vals), NEW args \in Seq(Vals),
         CallAt(out, index, ids, args)
  PROVE  CallAt(next, index, ids, Append(args, val))
<1>1. \A p \in PieceSet :
        p.kind = "args" /\ p.index = index /\ p.val = val => p \notin CallPieces("call", index)
  BY DEF CallPieces
<1>2. \A p \in PieceSet :
        p.kind = "args" /\ p.index = index /\ p.val = val => p \in CallPieces("args", index)
  BY DEF CallPieces
<1>3. Told(next, CallPieces("args", index), Append(args, val))
  BY <1>2, ToldNext DEF CallAt
<1>4. Told(next, CallPieces("call", index), ids)
  BY <1>1, ToldKept DEF CallAt
<1> QED BY <1>3, <1>4 DEF CallAt

LEMMA CallTypes ==
  ASSUME NEW a \in AggregateState, NEW index \in ToolIndices
  PROVE  IdTold(a, index) \in Seq(Vals) /\ ArgsTold(a, index) \in Seq(Vals)
<1> DEFINE n == Len(a.toolCalls)
           k == index + 1
<1>1. a.toolCalls \in Seq(Calls) /\ index \in Nat /\ n \in Nat
  BY EventsAssumption DEF AggregateState
<1>2. index < n => k \in 1..n
  BY <1>1
<1>3. index < n => a.toolCalls[k] \in Calls
  BY <1>1, <1>2
<1>4. index < n => a.toolCalls[k].id \in Vals /\ a.toolCalls[k].args \in Seq(Pieces)
  BY <1>3 DEF Calls, Vals
<1>5. Pieces \subseteq Vals
  BY DEF Vals
<1> HIDE DEF k, n
<1>6. index < n => <<a.toolCalls[k].id>> \in Seq(Vals) /\ a.toolCalls[k].args \in Seq(Vals)
  BY <1>4, <1>5
<1> QED BY <1>6 DEF IdTold, ArgsTold, k, n

\* A chunk of another kind.
LEMMA CallsOther ==
  ASSUME NEW out \in Seq(PieceSet), NEW next, NEW kind, NEW i, NEW val,
         Wrote(out, next, kind, i, val), kind \notin {"call", "args"},
         NEW a \in AggregateState, CallsAt(out, a)
  PROVE  CallsAt(next, a)
<1>1. ASSUME NEW index \in ToolIndices
      PROVE  CallAt(next, index, IdTold(a, index), ArgsTold(a, index))
  <2> DEFINE ids == IdTold(a, index)
             args == ArgsTold(a, index)
  <2>1. ids \in Seq(Vals) /\ args \in Seq(Vals) /\ CallAt(out, index, ids, args)
    BY CallTypes DEF CallsAt
  <2> HIDE DEF ids, args
  <2>2. CallAt(next, index, ids, args)
    BY <2>1, CallOther
  <2> QED BY <2>2 DEF ids, args
<1> QED BY <1>1 DEF CallsAt

LEMMA SameToolCalls ==
  ASSUME NEW a, NEW b, b.toolCalls = a.toolCalls
  PROVE  /\ \A out : CallsAt(out, a) => CallsAt(out, b)
         /\ \A s : CallsTold(s, a) => CallsTold(s, b)
BY DEF CallsAt, CallsTold, IdTold, ArgsTold

\* The call that starts is the next.
LEMMA CallsStart ==
  ASSUME NEW out \in Seq(PieceSet), NEW next, NEW a \in AggregateState,
         NEW index \in ToolIndices, NEW id \in ToolIDs, index = Len(a.toolCalls),
         Wrote(out, next, "call", index, id), CallsAt(out, a),
         \A i \in DOMAIN a.toolCalls : a.toolCalls[i].index = i - 1
  PROVE  LET b == StartCall(a, index, id)
         IN  /\ \A i \in DOMAIN b.toolCalls : b.toolCalls[i].index = i - 1
             /\ CallsAt(next, b)
<1> DEFINE b == StartCall(a, index, id)
           calls == a.toolCalls
           all == b.toolCalls
           n == Len(calls)
           x == [index |-> index, id |-> id, args |-> <<>>]
<1>1. calls \in Seq(Calls) /\ x \in Calls /\ n \in Nat /\ DOMAIN calls = 1..n
  BY DEF AggregateState, Calls
<1>2. all = Append(calls, x)
  BY DEF StartCall, AggregateState
<1>3. /\ Len(all) = n + 1 /\ DOMAIN all = 1..(n + 1) /\ all[n + 1] = x
      /\ \A i \in 1..n : all[i] = calls[i]
  BY <1>1, <1>2
<1>4. x.index = index /\ x.id = id /\ x.args = <<>>
  OBVIOUS
<1>5. index = n
  OBVIOUS
<1>6. \A k \in ToolIndices : k \in Nat
  BY EventsAssumption
<1>7. \A k \in ToolIndices :
        /\ IdTold(a, k) = IF k < n THEN <<calls[k + 1].id>> ELSE <<>>
        /\ IdTold(b, k) = IF k < Len(all) THEN <<all[k + 1].id>> ELSE <<>>
        /\ ArgsTold(a, k) = IF k < n THEN calls[k + 1].args ELSE <<>>
        /\ ArgsTold(b, k) = IF k < Len(all) THEN all[k + 1].args ELSE <<>>
  BY DEF IdTold, ArgsTold
<1> HIDE DEF b, calls, all, n, x
<1>8. \A i \in DOMAIN all : all[i].index = i - 1
  <2>1. ASSUME NEW i \in 1..(n + 1) PROVE all[i].index = i - 1
    <3>1. CASE i = n + 1
      <4>1. i - 1 = n /\ all[i] = x
        BY <1>1, <1>3, <3>1
      <4> QED BY <4>1, <1>4, <1>5
    <3>2. CASE i # n + 1
      <4>1. i \in 1..n
        BY <1>1, <3>2
      <4> QED BY <4>1, <1>1, <1>3 DEF calls
    <3> QED BY <3>1, <3>2
  <2> QED BY <2>1, <1>3
<1>9. ASSUME NEW k \in ToolIndices
      PROVE  CallAt(next, k, IdTold(b, k), ArgsTold(b, k))
  <2>1. k \in Nat
    BY <1>6
  <2>2. CASE k = index
    <3>1. k = n /\ k + 1 = n + 1 /\ k < Len(all) /\ ~(k < n)
      BY <1>1, <1>3, <1>5, <2>2
    <3>2. IdTold(a, k) = <<>> /\ ArgsTold(a, k) = <<>>
      BY <1>7, <3>1
    <3>3. IdTold(b, k) = <<id>> /\ ArgsTold(b, k) = <<>>
      <4>1. all[k + 1] = x
        BY <1>3, <3>1
      <4> QED BY <1>4, <1>7, <3>1, <4>1
    <3>4. CallAt(out, index, <<>>, <<>>)
      BY <3>2, <2>2 DEF CallsAt
    <3>5. CallAt(next, index, <<id>>, <<>>)
      <4> DEFINE none == <<>>
      <4>1. none \in Seq(Vals) /\ CallAt(out, index, <<>>, none)
        BY <3>4
      <4> HIDE DEF none
      <4>2. CallAt(next, index, <<id>>, none)
        BY <4>1, CallStart
      <4> QED BY <4>2 DEF none
    <3> QED BY <3>3, <3>5, <2>2
  <2>3. CASE k # index
    <3> DEFINE ids == IdTold(a, k)
               args == ArgsTold(a, k)
    <3>1. ids \in Seq(Vals) /\ args \in Seq(Vals) /\ CallAt(out, k, ids, args)
      BY CallTypes DEF CallsAt
    <3>2. IdTold(b, k) = ids /\ ArgsTold(b, k) = args
      <4>1. CASE k < n
        <5>1. k + 1 \in 1..n /\ k < Len(all)
          BY <1>1, <1>3, <2>1, <4>1
        <5>2. all[k + 1] = calls[k + 1]
          BY <1>3, <5>1
        <5> QED BY <1>7, <4>1, <5>1, <5>2
      <4>2. CASE ~(k < n)
        <5>1. ~(k < Len(all))
          BY <1>1, <1>3, <1>5, <2>1, <2>3, <4>2
        <5> QED BY <1>7, <4>2, <5>1
      <4> QED BY <4>1, <4>2
    <3> HIDE DEF ids, args
    <3>3. CallAt(next, k, ids, args)
      BY <2>3, <3>1, CallOther
    <3> QED BY <3>2, <3>3
  <2> QED BY <2>2, <2>3
<1>10. CallsAt(next, b)
  BY <1>9 DEF CallsAt
<1> QED BY <1>8, <1>10 DEF all, b

\* The arguments reach the call with their index.
LEMMA CallsExtend ==
  ASSUME NEW out \in Seq(PieceSet), NEW next, NEW a \in AggregateState,
         NEW index \in ToolIndices, NEW val \in Pieces, index < Len(a.toolCalls),
         Wrote(out, next, "args", index, val), CallsAt(out, a),
         \A i \in DOMAIN a.toolCalls : a.toolCalls[i].index = i - 1
  PROVE  LET b == ExtendCall(a, index, val)
         IN  /\ Len(b.toolCalls) = Len(a.toolCalls)
             /\ \A i \in DOMAIN b.toolCalls : b.toolCalls[i].index = i - 1
             /\ CallsAt(next, b)
<1> DEFINE b == ExtendCall(a, index, val)
           calls == a.toolCalls
           all == b.toolCalls
           n == Len(calls)
           m == index + 1
<1>1. calls \in Seq(Calls) /\ n \in Nat /\ DOMAIN calls = 1..n /\ index \in Nat
  BY EventsAssumption DEF AggregateState
<1>2. m \in 1..n /\ m - 1 = index
  BY <1>1
<1>3. calls[m].index = index
  BY <1>1, <1>2
<1>4. b = Extended(a, m, val)
  <2>1. \/ b = a /\ \A i \in DOMAIN calls : calls[i].index # index
        \/ \E k \in DOMAIN calls : calls[k].index = index /\ b = Extended(a, k, val)
    BY ExtendCallFields
  <2>2. PICK k \in DOMAIN calls : calls[k].index = index /\ b = Extended(a, k, val)
    BY <1>1, <1>2, <1>3, <2>1
  <2>3. k - 1 = index /\ k \in 1..n
    BY <1>1, <2>2
  <2>4. k = m
    BY <2>3, <1>1
  <2> QED BY <2>2, <2>4
<1>5. /\ b \in AggregateState /\ Len(all) = n
      /\ \A i \in 1..n :
           /\ all[i].index = calls[i].index /\ all[i].id = calls[i].id
           /\ all[i].args = IF i = m THEN Append(calls[i].args, val) ELSE calls[i].args
  BY <1>1, <1>2, <1>4, ExtendedType
<1>6. DOMAIN all = 1..n
  BY <1>5 DEF AggregateState
<1>7. \A k \in ToolIndices :
        /\ k \in Nat
        /\ IdTold(a, k) = IF k < n THEN <<calls[k + 1].id>> ELSE <<>>
        /\ IdTold(b, k) = IF k < Len(all) THEN <<all[k + 1].id>> ELSE <<>>
        /\ ArgsTold(a, k) = IF k < n THEN calls[k + 1].args ELSE <<>>
        /\ ArgsTold(b, k) = IF k < Len(all) THEN all[k + 1].args ELSE <<>>
  BY EventsAssumption DEF IdTold, ArgsTold
<1>8. \A i \in DOMAIN all : all[i].index = i - 1
  BY <1>1, <1>5, <1>6
<1>9. index < n
  OBVIOUS
<1> HIDE DEF b, calls, all, n
<1>10. ASSUME NEW k \in ToolIndices
       PROVE  CallAt(next, k, IdTold(b, k), ArgsTold(b, k))
  <2> DEFINE ids == IdTold(a, k)
             args == ArgsTold(a, k)
             l == k + 1
  <2>1. ids \in Seq(Vals) /\ args \in Seq(Vals) /\ CallAt(out, k, ids, args)
    BY CallTypes DEF CallsAt
  <2>2. k < n => l \in 1..n
    BY <1>1, <1>7
  <2>3. IdTold(b, k) = ids
    BY <1>5, <1>7, <2>2
  <2>4. CASE k = index
    <3>1. k < n /\ l = m
      BY <1>9, <2>4
    <3>2. all[l].args = Append(calls[l].args, val)
      BY <1>5, <2>2, <3>1
    <3>3. ArgsTold(b, k) = Append(args, val)
      BY <1>5, <1>7, <3>1, <3>2
    <3> HIDE DEF ids, args
    <3>4. CallAt(next, k, ids, Append(args, val))
      BY <2>1, <2>4, CallArgs
    <3> QED BY <2>3, <3>3, <3>4
  <2>5. CASE k # index
    <3>1. ArgsTold(b, k) = args
      <4>1. CASE k < n
        <5>1. l \in 1..n /\ l # m
          BY <1>1, <1>7, <2>2, <2>5, <4>1
        <5>2. all[l].args = calls[l].args
          BY <1>5, <5>1
        <5> QED BY <1>5, <1>7, <4>1, <5>2
      <4>2. CASE ~(k < n)
        BY <1>5, <1>7, <4>2
      <4> QED BY <4>1, <4>2
    <3> HIDE DEF ids, args
    <3>2. CallAt(next, k, ids, args)
      BY <2>1, <2>5, CallOther
    <3> QED BY <2>3, <3>1, <3>2
  <2> QED BY <2>4, <2>5
<1>11. CallsAt(next, b)
  BY <1>10 DEF CallsAt
<1> QED BY <1>5, <1>8, <1>11 DEF b, all, calls, n

LEMMA ApplyCalls ==
  ASSUME NEW s \in AggregateState, NEW ev \in DecodedEvent
  PROVE  /\ ev.type = "tool_call_start" => Apply(s, ev) = StartCall(s, ev.index, ev.val)
         /\ ev.type = "tool_call_delta" => Apply(s, ev) = ExtendCall(s, ev.index, ev.val)
         /\ ev.type \notin {"tool_call_start", "tool_call_delta"} =>
              Apply(s, ev).toolCalls = s.toolCalls
<1>1. ev.type \in EventTypes
  BY DecodedIsEvent
<1>2. ASSUME ev.type \notin {"tool_call_start", "tool_call_delta"}
      PROVE  Apply(s, ev).toolCalls = s.toolCalls
  BY <1>1, <1>2 DEF Apply, AggregateState, EventTypes
<1> QED BY <1>2 DEF Apply

\* The calls are the same after each event that is numbered.
LEMMA CallsTake ==
  ASSUME NEW s \in StreamState, NEW a \in AggregateState, NEW ev \in DecodedEvent,
         CallsTold(s, a),
         ev.type = "tool_call_start" => ev.index = Len(a.toolCalls),
         ev.type = "tool_call_delta" => ev.index < Len(a.toolCalls)
  PROVE  /\ CallsTold(TakeEvent(s, ev), Apply(a, ev))
         /\ Len(Apply(a, ev).toolCalls) =
              Len(a.toolCalls) + (IF ev.type = "tool_call_start" THEN 1 ELSE 0)
<1> DEFINE t == TakeEvent(s, ev)
           b == Apply(a, ev)
           out == s.out
           next == t.out
<1>1. ev.type \in EventTypes
  BY DecodedIsEvent
<1>2. /\ out \in Seq(PieceSet) /\ CallsAt(out, a) /\ a.toolCalls \in Seq(Calls)
      /\ \A i \in DOMAIN a.toolCalls : a.toolCalls[i].index = i - 1
  BY AnswerTypes DEF CallsTold, AggregateState
<1>3. CASE ev.type = "tool_call_start"
  <2> DEFINE o == Announced(s).out
  <2>1. Wrote(o, next, "call", ev.index, ev.val)
    BY <1>3, TakeWrites
  <2>2. o = out \/ Wrote(out, o, "role", 0, Empty)
    BY AnnouncedWrites
  <2>3. /\ ev.index \in ToolIndices /\ ev.val \in ToolIDs /\ ev.index = Len(a.toolCalls)
        /\ b = StartCall(a, ev.index, ev.val)
    BY <1>3, DecodedIsEvent, ApplyCalls
  <2>4. Len(b.toolCalls) = Len(a.toolCalls) + 1
    BY <1>2, <2>3 DEF StartCall, AggregateState
  <2> HIDE DEF o, out, t, next, b
  <2>5. CallsAt(o, a) /\ o \in Seq(PieceSet)
    <3>1. CASE o = out
      BY <3>1, <1>2
    <3>2. CASE Wrote(out, o, "role", 0, Empty)
      BY <3>2, <1>2, CallsOther, WroteType
    <3> QED BY <3>1, <3>2, <2>2
  <2>6. /\ \A i \in DOMAIN b.toolCalls : b.toolCalls[i].index = i - 1
        /\ CallsAt(next, b)
    BY <1>2, <2>1, <2>3, <2>5, CallsStart
  <2> QED BY <1>3, <2>4, <2>6 DEF CallsTold, next, t, b
<1>4. CASE ev.type = "tool_call_delta"
  <2>1. Wrote(out, next, "args", ev.index, ev.val)
    BY <1>4, TakeWrites
  <2>2. /\ ev.index \in ToolIndices /\ ev.val \in Pieces /\ ev.index < Len(a.toolCalls)
        /\ b = ExtendCall(a, ev.index, ev.val)
    BY <1>4, DecodedIsEvent, ApplyCalls
  <2> HIDE DEF out, t, next, b
  <2>3. /\ Len(b.toolCalls) = Len(a.toolCalls)
        /\ \A i \in DOMAIN b.toolCalls : b.toolCalls[i].index = i - 1
        /\ CallsAt(next, b)
    BY <1>2, <2>1, <2>2, CallsExtend
  <2>4. Len(a.toolCalls) + 0 = Len(a.toolCalls)
    BY <1>2
  <2> QED BY <1>4, <2>3, <2>4 DEF CallsTold, next, t, b
<1>5. CASE ev.type \notin {"tool_call_start", "tool_call_delta"}
  <2>1. b.toolCalls = a.toolCalls
    BY <1>5, ApplyCalls
  <2>2. Len(a.toolCalls) + 0 = Len(a.toolCalls)
    BY <1>2
  <2>3. CallsAt(next, a)
    <3>1. CASE ev.type = "thinking_signature"
      BY <3>1, <1>2, TakeWrites
    <3>2. CASE ev.type \in {"text_delta", "thinking_delta", "usage_final"}
      <4>1. \E kind \in {"text", "reasoning", "usage"} : Wrote(out, next, kind, 0, ev.val)
        BY <3>2, TakeWrites
      <4> HIDE DEF out, t, next, b
      <4>2. PICK kind \in {"text", "reasoning", "usage"} : Wrote(out, next, kind, 0, ev.val)
        BY <4>1
      <4>3. kind \notin {"call", "args"}
        OBVIOUS
      <4> QED BY <1>2, <4>2, <4>3, CallsOther
    <3>3. CASE ev.type = "message_stop"
      <4> DEFINE o == Footed(s).out
                 r == s.webSearchResults
      <4>1. Wrote(o, next, "finish", 0, ev.val)
        BY <3>3, TakeWrites
      <4>2. o = out \/ Wrote(out, o, "text", 0, r)
        BY FootedWrites
      <4> HIDE DEF o, out, t, next, b, r
      <4>3. CallsAt(o, a) /\ o \in Seq(PieceSet)
        <5>1. CASE o = out
          BY <5>1, <1>2
        <5>2. CASE Wrote(out, o, "text", 0, r)
          BY <5>2, <1>2, CallsOther, WroteType
        <5> QED BY <5>1, <5>2, <4>2
      <4> QED BY <4>1, <4>3, CallsOther
    <3> QED BY <3>1, <3>2, <3>3, <1>1, <1>5 DEF EventTypes
  <2> HIDE DEF out, t, next, b
  <2>4. CallsAt(next, b) /\ \A i \in DOMAIN b.toolCalls : b.toolCalls[i].index = i - 1
    BY <1>2, <2>1, <2>3, SameToolCalls
  <2> QED BY <1>5, <2>1, <2>2, <2>4 DEF CallsTold, next, t, b
<1> QED BY <1>3, <1>4, <1>5

LEMMA InitCalls == Init => CallsInv
<1> SUFFICES ASSUME Init PROVE CallsInv
  OBVIOUS
<1>1. pending = <<>> /\ upstream.tools = 0
  BY DEF Init
<1>2. stream.out = <<>> /\ aggregate.toolCalls = <<>>
  BY DEF Init, NewStream, NewAggregate
<1>3. Len(aggregate.toolCalls) = 0
  BY <1>2
<1>4. Numbered(pending, Len(aggregate.toolCalls), upstream.tools)
  BY <1>1, <1>3, NumberedNone
<1>5. CallsAt(<<>>, aggregate)
  <2>1. ASSUME NEW index \in ToolIndices
        PROVE  IdTold(aggregate, index) = <<>> /\ ArgsTold(aggregate, index) = <<>>
    <3>1. ~(index < 0)
      BY EventsAssumption
    <3> QED BY <1>3, <3>1 DEF IdTold, ArgsTold
  <2> QED BY <2>1, ToldNothing DEF CallsAt, CallAt
<1>6. \A i \in DOMAIN aggregate.toolCalls : aggregate.toolCalls[i].index = i - 1
  BY <1>2
<1> QED BY <1>2, <1>4, <1>5, <1>6 DEF CallsInv, CallsTold

\* Between two lines, the calls that started are the upstream's.
LEMMA NumberedAll ==
  ASSUME NEW a, NEW b, Numbered(<<>>, a, b)
  PROVE  a = b
BY DEF Numbered

\* A line that comes in order is numbered from where the one before ended.
LEMMA ReadChunkNumbered ==
  ASSUME TypeInv, NEW c \in Chunk, InOrder(c)
  PROVE  Numbered(DecodeOpenAIStreamLine(c), upstream.tools, Sent(c).tools)
<1>1. upstream \in Upstreams /\ upstream.tools \in Nat
  BY DEF TypeInv, Upstreams
<1>2. Sent(c).tools = upstream.tools + Starts(c, Len(c.tools))
  BY <1>1 DEF Sent, Upstreams
<1>3. ToolsInOrder(c, upstream.tools)
  <2>1. CASE upstream.phase = "content"
    BY <2>1 DEF InOrder, ToolsInOrder
  <2>2. CASE c = [NoChunk EXCEPT !.usage = c.usage]
    <3>1. c.tools = <<>>
      BY <2>2 DEF NoChunk
    <3>2. DOMAIN c.tools = {}
      BY <3>1
    <3> QED BY <3>2 DEF ToolsInOrder
  <2> QED BY <2>1, <2>2 DEF InOrder
<1> QED BY <1>1, <1>2, <1>3, LineNumbered

LEMMA StepCalls == TypeInv /\ AnswerInv /\ CallsInv /\ [Next]_vars => CallsInv'
<1> SUFFICES ASSUME TypeInv, AnswerInv, CallsInv, [Next]_vars, upstream'.conforming
             PROVE  /\ Numbered(pending', Len(aggregate'.toolCalls), upstream'.tools)
                    /\ CallsTold(stream', aggregate')
  BY DEF CallsInv
<1> DEFINE Goal == /\ Numbered(pending', Len(aggregate'.toolCalls), upstream'.tools)
                   /\ CallsTold(stream', aggregate')
<1>0. /\ stream \in StreamState /\ aggregate \in AggregateState
      /\ pending \in Seq(DecodedEvent) /\ upstream \in Upstreams
      /\ Len(aggregate.toolCalls) \in Nat /\ upstream.tools \in Nat
  BY DEF TypeInv, AggregateState, Upstreams
<1>1. ASSUME NEW c \in Chunks[upstream.conforming], ReadChunk(c)
      PROVE  Goal
  <2>1. /\ pending = <<>> /\ pending' = DecodeOpenAIStreamLine(c) /\ upstream' = Sent(c)
        /\ stream' = stream /\ aggregate' = aggregate
    BY <1>1 DEF ReadChunk, Reading
  <2>2. c \in Chunk /\ upstream.conforming
    BY <1>0, <2>1, ChunksType, SentType
  <2>3. /\ InOrder(c) /\ CallsTold(stream, aggregate)
        /\ Numbered(<<>>, Len(aggregate.toolCalls), upstream.tools)
    BY <1>1, <2>1, <2>2 DEF ReadChunk, CallsInv
  <2>4. Len(aggregate.toolCalls) = upstream.tools
    BY <2>3, NumberedAll
  <2>5. Numbered(DecodeOpenAIStreamLine(c), upstream.tools, Sent(c).tools)
    BY <2>2, <2>3, ReadChunkNumbered
  <2> QED BY <2>1, <2>3, <2>4, <2>5
<1>2. CASE TakeNext
  <2> DEFINE ev == Head(pending)
             rest == Tail(pending)
             n == Len(aggregate.toolCalls)
             next == n + (IF ev.type = "tool_call_start" THEN 1 ELSE 0)
  <2>1. /\ pending # <<>> /\ upstream' = upstream /\ pending' = rest
        /\ stream' = TakeEvent(stream, ev) /\ aggregate' = AggregateEvent(aggregate, ev)
    BY <1>2 DEF TakeNext
  <2>2. /\ StopsInTurn /\ CallsTold(stream, aggregate)
        /\ Numbered(pending, n, upstream.tools)
    BY <2>1 DEF AnswerInv, CallsInv
  <2>3. ~aggregate.failed
    BY <2>1, <2>2 DEF StopsInTurn
  <2>4. aggregate' = Apply(aggregate, ev) /\ ev \in DecodedEvent
    BY <1>0, <2>1, <2>3 DEF AggregateEvent
  <2>5. /\ Numbered(rest, next, upstream.tools)
        /\ ev.type = "tool_call_start" => ev.index = n
        /\ ev.type = "tool_call_delta" => ev.index < n
    BY <1>0, <2>1, <2>2, NumberedTail
  <2>6. CallsTold(stream', aggregate') /\ Len(aggregate'.toolCalls) = next
    BY <1>0, <2>1, <2>2, <2>4, <2>5, CallsTake
  <2> QED BY <2>1, <2>5, <2>6
<1>3. ASSUME stream'.out = stream.out, aggregate'.toolCalls = aggregate.toolCalls,
             pending' = pending, upstream' = upstream
      PROVE  Goal
  <2>1. /\ CallsTold(stream, aggregate)
        /\ Numbered(pending, Len(aggregate.toolCalls), upstream.tools)
    BY <1>3 DEF CallsInv
  <2>2. CallsTold(stream, aggregate')
    BY <1>3, <2>1, SameToolCalls
  <2>3. CallsTold(stream', aggregate')
    BY <1>3, <2>2 DEF CallsTold
  <2> QED BY <1>3, <2>1, <2>3
<1>4. ASSUME NEW results \in Results, ReadSources(results)
      PROVE  Goal
  <2>1. stream'.out = stream.out
    BY <1>0, <1>4 DEF ReadSources, StreamSources, StreamState
  <2>2. aggregate'.toolCalls = aggregate.toolCalls
    BY <1>0, <1>4 DEF ReadSources, AggregateSources, AggregateState
  <2> QED BY <1>3, <1>4, <2>1, <2>2 DEF ReadSources
<1>5. CASE ReadDone
  <2>1. /\ stream' = StreamDone(stream) /\ aggregate' = aggregate
        /\ pending' = pending /\ upstream' = upstream
    BY <1>5 DEF ReadDone
  <2>2. /\ CallsTold(stream, aggregate)
        /\ Numbered(pending, Len(aggregate.toolCalls), upstream.tools)
    BY <2>1 DEF CallsInv
  <2>3. Wrote(stream.out, stream'.out, "done", 0, Empty)
    BY <1>0, <2>1, DoneWrites
  <2>4. CallsAt(stream.out, aggregate) /\ stream.out \in Seq(PieceSet)
    BY <1>0, <2>2 DEF CallsTold, StreamState
  <2>5. CallsAt(stream'.out, aggregate)
    BY <1>0, <2>3, <2>4, CallsOther
  <2>6. CallsTold(stream', aggregate)
    BY <2>2, <2>5 DEF CallsTold
  <2> QED BY <2>1, <2>2, <2>6
<1>6. CASE ReadEOF
  BY <1>3, <1>6 DEF ReadEOF
<1>7. CASE ReadFails
  <2>1. aggregate'.toolCalls = aggregate.toolCalls
    BY <1>0, <1>7 DEF ReadFails, AggregateFails, AggregateState
  <2> QED BY <1>3, <1>7, <2>1 DEF ReadFails
<1>8. CASE ReadMalformed
  BY <1>8 DEF ReadMalformed, CallsInv
<1>9. CASE Returned \/ UNCHANGED vars
  BY <1>3, <1>9 DEF Returned, vars
<1> QED BY <1>1, <1>2, <1>4, <1>5, <1>6, <1>7, <1>8, <1>9 DEF Next

LEMMA CallsInvariant == Spec => [](TypeInv /\ CallsInv)
<1>1. TypeInv /\ AnswerInv /\ CallsInv /\ [Next]_vars => (AnswerInv /\ CallsInv)'
  BY StepAnswer, StepCalls
<1>2. Init => AnswerInv /\ CallsInv
  BY InitAnswer, InitCalls
<1>3. Spec => [](AnswerInv /\ CallsInv)
  BY <1>1, <1>2, TypeInvariant, PTL DEF Spec
<1> QED BY <1>3, TypeInvariant, PTL

\* The chunks tell one sequence of values.
LEMMA TellsOne ==
  ASSUME NEW S, NEW u \in Seq(Vals), NEW v \in Seq(Vals), Told(stream.out, S, u),
         Tell({i \in DOMAIN stream.out : stream.out[i] \in S}, v)
  PROVE  u = v
<1> DEFINE P == At(stream.out, S)
<1>1. /\ Cardinality(P) = Len(u)
      /\ \A i \in P : stream.out[i].val = u[Rank(P, i)]
      /\ \A k \in 1..Len(u) : \E i \in P : Rank(P, i) = k
  BY DEF Told
<1>2. /\ Cardinality(P) = Len(v)
      /\ \A i \in P : stream.out[i].val = v[Rank(P, i)]
  BY DEF Tell, At
<1> HIDE DEF P
<1>3. Len(u) = Len(v)
  BY <1>1, <1>2
<1>4. ASSUME NEW k \in 1..Len(u) PROVE u[k] = v[k]
  <2>1. PICK i \in P : Rank(P, i) = k
    BY <1>1
  <2> QED BY <2>1, <1>1, <1>2
<1> QED BY <1>3, <1>4

\* With such an upstream, a finished answer has the calls it started in both
\* modes, each with the arguments that followed it: where these are JSON, as they
\* are in the stream, and as Reparsed leaves them in the whole response
\* (EncodeCall, StreamAggregateState.Apply, Finalize).
THEOREM CallsAgree == Spec => []SameCalls
<1>1. TypeInv /\ AnswerInv /\ CallsInv => SameCalls
  <2> DEFINE calls == Answer(aggregate, hasWebSearch).calls
             kept == aggregate.toolCalls
  <2> SUFFICES ASSUME TypeInv, AnswerInv, CallsInv, upstream.conforming, status = "ended"
               PROVE  /\ Len(calls) = upstream.tools
                      /\ \A i \in DOMAIN calls :
                           /\ Tell(OfCall("call", i - 1), <<calls[i].id>>)
                           /\ \A args \in Objects :
                                Tell(OfCall("args", i - 1), args) => calls[i].args = Reparsed[args]
    BY DEF SameCalls
  <2>1. pending = <<>>
    BY DEF AnswerInv, StopsInTurn
  <2>2. /\ Numbered(<<>>, Len(kept), upstream.tools)
        /\ \A i \in DOMAIN kept : kept[i].index = i - 1
        /\ CallsAt(stream.out, aggregate)
    BY <2>1 DEF CallsInv, CallsTold
  <2>3. kept \in Seq(Calls) /\ DOMAIN kept = 1..Len(kept) /\ Len(kept) \in Nat
    BY DEF TypeInv, AggregateState
  <2>4. calls = [i \in DOMAIN kept |-> [id |-> kept[i].id, args |-> Arguments(kept[i].args)]]
    BY DEF Answer
  <2>5. Len(calls) = upstream.tools
    <3>1. Len(kept) = upstream.tools
      BY <2>2, NumberedAll
    <3> HIDE DEF calls, kept
    <3>2. calls = [i \in 1..Len(kept) |-> [id |-> kept[i].id, args |-> Arguments(kept[i].args)]]
      BY <2>3, <2>4
    <3>3. Len(calls) = Len(kept)
      BY <2>3, <3>2
    <3> QED BY <3>1, <3>3
  <2>6. DOMAIN calls = DOMAIN kept
    BY <2>4
  <2>7. ASSUME NEW i \in DOMAIN kept
        PROVE  /\ Tell(OfCall("call", i - 1), <<calls[i].id>>)
               /\ \A args \in Objects :
                    Tell(OfCall("args", i - 1), args) => calls[i].args = Reparsed[args]
    <3> DEFINE index == i - 1
               call == kept[i]
    <3>1. call \in Calls /\ call.index = index /\ i \in 1..Len(kept)
      BY <2>2, <2>3
    <3>2. /\ index \in ToolIndices /\ index < Len(kept) /\ index + 1 = i
          /\ call.args \in Seq(Pieces)
      BY <3>1, <2>3 DEF Calls
    <3>3. calls[i].id = call.id /\ calls[i].args = Arguments(call.args)
      BY <2>4
    <3>4. IdTold(aggregate, index) = <<call.id>> /\ ArgsTold(aggregate, index) = call.args
      BY <3>2 DEF IdTold, ArgsTold
    <3> HIDE DEF call, index, kept, calls
    <3>5. /\ Told(stream.out, CallPieces("call", index), <<call.id>>)
          /\ Told(stream.out, CallPieces("args", index), call.args)
      BY <2>2, <3>2, <3>4 DEF CallsAt, CallAt
    <3>6. \A kind : OfCall(kind, index) =
            {j \in DOMAIN stream.out : stream.out[j] \in CallPieces(kind, index)}
      BY KindPositions
    <3>7. Tell(OfCall("call", index), <<call.id>>)
      BY <3>5, <3>6, ToldTells
    <3>8. ASSUME NEW args \in Objects, Tell(OfCall("args", index), args)
          PROVE  calls[i].args = Reparsed[args]
      <4>1. Pieces \subseteq Vals /\ args \in Seq(Pieces)
        BY AggregateAssumption DEF Vals
      <4>2. args \in Seq(Vals) /\ call.args \in Seq(Vals)
        BY <3>2, <4>1
      <4>3. Tell({j \in DOMAIN stream.out : stream.out[j] \in CallPieces("args", index)}, args)
        BY <3>6, <3>8
      <4>4. call.args = args
        BY <3>5, <4>2, <4>3, TellsOne
      <4> QED BY <3>3, <4>4 DEF Arguments
    <3> QED BY <3>3, <3>7, <3>8 DEF index
  <2> HIDE DEF calls, kept
  <2> QED BY <2>5, <2>6, <2>7
<1>2. Spec => [](TypeInv /\ CallsInv)
  BY CallsInvariant
<1>3. Spec => []AnswerInv
  BY TypeInvariant, InitAnswer, StepAnswer, PTL DEF Spec
<1> QED BY <1>1, <1>2, <1>3, PTL

===============================================================================
