-------------------------- MODULE UsageStore_proofs --------------------------
(***************************************************************************)
(* Proofs about UsageStore, for any number of requests, readers, restarts  *)
(* and failing writes: its types and the mutex, what readers are told, and *)
(* what survives.  The last needs no order of the whole file: it is enough *)
(* to know of each record whether the write just before it ended its line  *)
(* (WrittenInv), and whom the end of the file belongs to (EndInv).         *)
(***************************************************************************)
EXTENDS UsageStore, TLAPS, FiniteSetTheorems

\* The records of which something is in the file, or whose write failed.
Kept == {file[i].rec : i \in DOMAIN file} \cup failed

\* Memory is ahead of the file by the record that is being written.
MemoryInv == memory \subseteq Kept \cup {holder}

\* A write that stands whole on a line of its own.
OwnLine(r) ==
  \E k \in DOMAIN file :
    /\ file[k] = [rec |-> r, kind |-> "whole"]
    /\ k > 1 => file[k - 1].kind = "whole"

\* Where the record i of history is found again.
Written(i) ==
  \/ OwnLine(history[i])
  \/ history[i] \in failed
  \/ i > 1 /\ history[i - 1] \in failed

WrittenInv ==
  \A i \in 1..Len(history) : Written(i) \/ (holder # NoOne /\ i = Len(history))

\* The record being written is the last one of history; a file that ends in the
\* middle of a line was left so by the record before it.
EndInv ==
  LET n == IF holder = NoOne THEN Len(history) ELSE Len(history) - 1
  IN  /\ holder # NoOne => Len(history) > 0 /\ history[Len(history)] = holder
      /\ file # <<>> /\ file[Len(file)].kind # "whole" => n > 0 /\ history[n] \in failed

\* When the process is over nobody is in it, and a stop leaves no handler
\* behind; who has recorded is in history.
PlaceInv ==
  /\ ~running => readers = {} /\ \A r \in Requests : pc[r] \notin InFlight
  /\ ~crashed => \A r \in Requests : pc[r] # "lost"
  /\ \A r \in Requests : pc[r] \in {"writing", "done"} => \E i \in 1..Len(history) : history[i] = r

IInv ==
  /\ TypeOK /\ MemoryInv /\ WrittenInv /\ EndInv /\ PlaceInv
  /\ AnswersAreKept

(* ------------------------------- types --------------------------------- *)

LEMMA LoadType == TypeOK => Load \subseteq Requests
<1> SUFFICES ASSUME TypeOK, NEW i \in DOMAIN file PROVE file[i].rec \in Requests
  BY DEF Load
<1>1. file[i] \in Line
  BY DEF TypeOK
<1> QED
  BY <1>1 DEF Line

LEMMA MatchingType ==
  ASSUME TypeOK, NEW t, NEW from, NEW to
  PROVE  Matching(t, from, to) \subseteq memory /\ Cardinality(Matching(t, from, to)) \in Nat
<1>1. Matching(t, from, to) \subseteq memory
  BY DEF Matching
<1>2. IsFiniteSet(Matching(t, from, to))
  BY <1>1, StoreAssumption, FS_Subset DEF TypeOK
<1> QED
  BY <1>1, <1>2, FS_CardinalityType

LEMMA NoAnswerType == NoAnswer \in Answer
  BY StoreAssumption DEF NoAnswer, Answer

LEMMA InitType == Init => TypeOK
<1> SUFFICES ASSUME Init PROVE TypeOK
  OBVIOUS
<1>1. NoAnswer \in Answer
  BY NoAnswerType
<1>2. answers \in [Readers -> Answer] /\ file \in Seq(Line) /\ history \in Seq(Requests)
  BY <1>1 DEF Init
<1>3. starts \in 0..MaxStarts /\ now \in 1..MaxTime /\ stamp \in [Requests -> 0..MaxTime]
  BY StoreAssumption DEF Init
<1>4. \A r \in Requests : pc[r] = "writing" <=> holder = r
  BY StoreAssumption DEF Init
<1> QED
  BY <1>2, <1>3, <1>4 DEF Init, TypeOK

LEMMA CutOffType ==
  ASSUME TypeOK, NEW r \in Requests
  PROVE  CutOff(r) \subseteq Seq(Line)
<1>1. \A k \in {"torn", "unended"} : [rec |-> r, kind |-> k] \in Line
  BY DEF Line
<1>2. \A k \in {"torn", "unended"} : Append(file, [rec |-> r, kind |-> k]) \in Seq(Line)
  BY <1>1 DEF TypeOK
<1> QED
  BY <1>2 DEF CutOff, TypeOK

\* What an answer holds.
LEMMA AnswerType ==
  ASSUME TypeOK, NEW q \in Readers, NEW t \in Tokens, NEW from \in 0..MaxTime, NEW to \in 0..MaxTime,
         QueryUsage(q, t, from, to) \/ SummaryUsage(q, t, from, to)
  PROVE  \E log \in Seq(Matching(t, from, to)), n \in Nat :
           /\ ReaderAnswers(q, t, log, n)
           /\ n = Cardinality(Matching(t, from, to))
<1> DEFINE M == Matching(t, from, to)
<1>1. Cardinality(M) \in Nat
  BY MatchingType
<1>2. CASE QueryUsage(q, t, from, to)
  <2>1. PICK log \in SetToSeqs(M) : ReaderAnswers(q, t, log, Len(log))
    BY <1>2 DEF QueryUsage
  <2>2. log \in [1..Cardinality(M) -> M]
    BY <2>1 DEF SetToSeqs
  <2>3. log \in Seq(M) /\ Len(log) = Cardinality(M)
    BY <1>1, <2>2
  <2> QED
    BY <1>1, <2>1, <2>3
<1>3. CASE SummaryUsage(q, t, from, to)
  <2>1. <<>> \in Seq(M)
    OBVIOUS
  <2> QED
    BY <1>1, <1>3, <2>1 DEF SummaryUsage
<1> QED
  BY <1>2, <1>3

\* A log holds every record that matches.
LEMMA LogIsComplete ==
  ASSUME TypeOK, NEW q, NEW t, NEW from, NEW to, QueryUsage(q, t, from, to)
  PROVE  Matching(t, from, to) \subseteq Known(answers'[q].records)
<1> DEFINE M == Matching(t, from, to)
           D == 1..Cardinality(M)
<1>1. q \in Readers /\ M \subseteq memory
  BY MatchingType DEF QueryUsage, ReaderAnswers, TypeOK
<1>2. IsFiniteSet(M) /\ Cardinality(M) \in Nat
  BY <1>1, StoreAssumption, FS_Subset, MatchingType DEF TypeOK
<1>3. PICK log \in SetToSeqs(M) : ReaderAnswers(q, t, log, Len(log))
  BY DEF QueryUsage
<1>4. log \in [D -> M] /\ \A i, j \in D : i # j => log[i] # log[j]
  BY <1>3 DEF SetToSeqs
<1>5. log \in Injection(D, M)
  BY <1>4 DEF Injection, IsInjective
<1>6. Cardinality(D) = Cardinality(M)
  BY <1>2, FS_Interval
<1>7. log \in Surjection(D, M)
  BY <1>2, <1>5, <1>6, FS_Injection
<1>8. \A r \in M : \E i \in DOMAIN log : log[i] = r
  BY <1>4, <1>7 DEF Surjection
<1>9. answers'[q].records = log
  BY <1>1, <1>3 DEF ReaderAnswers, TypeOK
<1> QED
  BY <1>8, <1>9 DEF Known

LEMMA StepType == TypeOK /\ [Next]_vars => TypeOK'
<1> SUFFICES ASSUME TypeOK, [Next]_vars PROVE TypeOK'
  OBVIOUS
<1> USE StoreAssumption
<1>1. CASE NewUsageService
  BY <1>1, LoadType DEF TypeOK, NewUsageService
<1>2. ASSUME NEW r \in Requests, AnswerClient(r) PROVE TypeOK'
  BY <1>2 DEF TypeOK, AnswerClient, InFlight
<1>3. ASSUME NEW r \in Requests, StampRecord(r) \/ AskForLock(r) PROVE TypeOK'
  <2>1. CASE StampRecord(r)
    BY <2>1 DEF TypeOK, StampRecord, InFlight
  <2>2. CASE AskForLock(r)
    BY <2>2 DEF TypeOK, AskForLock, InFlight
  <2> QED
    BY <1>3, <2>1, <2>2
<1>4. ASSUME NEW r \in Requests, AppendRecord(r) PROVE TypeOK'
  BY <1>4 DEF TypeOK, AppendRecord, InFlight
<1>5. ASSUME NEW r \in Requests, WriteRecord(r) PROVE TypeOK'
  <2>1. [rec |-> r, kind |-> "whole"] \in Line
    BY DEF Line
  <2>2. file' \in Seq(Line)
    BY <1>5, <2>1 DEF TypeOK, WriteRecord
  <2> QED
    BY <1>5, <2>2 DEF TypeOK, WriteRecord, InFlight
<1>6. ASSUME NEW r \in Requests, WriteFails(r) PROVE TypeOK'
  <2>1. file' \in Seq(Line)
    BY <1>6, CutOffType DEF WriteFails
  <2> QED
    BY <1>6, <2>1 DEF TypeOK, WriteFails, InFlight
<1>7. ASSUME NEW q \in Readers, LockForReading(q) PROVE TypeOK'
  <2>1. NoAnswer \in Answer
    BY NoAnswerType
  <2> QED
    BY <1>7, <2>1 DEF TypeOK, LockForReading
<1>8. ASSUME NEW q \in Readers, NEW t \in Tokens, NEW from \in 0..MaxTime, NEW to \in 0..MaxTime,
             QueryUsage(q, t, from, to) \/ SummaryUsage(q, t, from, to)
      PROVE  TypeOK'
  <2>1. PICK log \in Seq(Matching(t, from, to)), n \in Nat : ReaderAnswers(q, t, log, n)
    BY <1>8, AnswerType
  <2>2. log \in Seq(Requests)
    BY <2>1, MatchingType DEF TypeOK
  <2>3. [token |-> t, records |-> log, count |-> n] \in Answer
    BY <2>2 DEF Answer
  <2> QED
    BY <2>1, <2>3 DEF TypeOK, ReaderAnswers
<1>9. CASE Shutdown
  BY <1>9 DEF TypeOK, Shutdown, Gone, InFlight
<1>10. CASE Killed
  <2>1. file' \in Seq(Line) /\ failed' \subseteq Requests
    <3>1. CASE holder = NoOne
      BY <1>10, <3>1 DEF Killed, TypeOK
    <3>2. CASE holder # NoOne
      <4>1. holder \in Requests
        BY <3>2 DEF TypeOK
      <4>2. [rec |-> holder, kind |-> "whole"] \in Line
        BY <4>1 DEF Line
      <4>3. Append(file, [rec |-> holder, kind |-> "whole"]) \in Seq(Line)
        BY <4>2 DEF TypeOK
      <4>4. \/ file' \in CutOff(holder) /\ failed' = failed \cup {holder}
            \/ /\ file' = Append(file, [rec |-> holder, kind |-> "whole"])
               /\ failed' = failed
        BY <1>10, <3>2 DEF Killed
      <4>5. CutOff(holder) \subseteq Seq(Line) /\ failed \subseteq Requests
        BY <4>1, CutOffType DEF TypeOK
      <4> QED
        BY <4>1, <4>3, <4>4, <4>5
    <3> QED
      BY <3>1, <3>2
  <2> QED
    BY <1>10, <2>1 DEF TypeOK, Killed, Gone, InFlight
<1>11. CASE Stopped \/ UNCHANGED vars
  BY <1>11 DEF TypeOK, Stopped, vars
<1> QED
  BY <1>1, <1>2, <1>3, <1>4, <1>5, <1>6, <1>7, <1>8, <1>9, <1>10, <1>11 DEF Next

\* The types of the store, and the mutex: one writer, and no reader beside it.
THEOREM StoreTypes == Spec => []TypeOK
<1> QED
  BY InitType, StepType, PTL DEF Spec

(* ------------------------ what a step does ------------------------------ *)

\* The write of the record in hand ends, by success, failure or the end of the
\* process.
Ends ==
  /\ holder \in Requests /\ holder' = NoOne
  /\ history' = history
  /\ memory' \in {memory, {}}
  /\ \/ file' = Append(file, [rec |-> holder, kind |-> "whole"]) /\ failed' = failed
     \/ file' \in CutOff(holder) /\ failed' = failed \cup {holder}

\* A record gets in hand.
Begins ==
  \E r \in Requests :
    /\ holder = NoOne /\ holder' = r
    /\ history' = Append(history, r)
    /\ memory' = memory \cup {r}
    /\ file' = file /\ failed' = failed

\* Neither, but memory may be gone, or loaded.
Neither ==
  /\ holder' = holder /\ history' = history /\ file' = file /\ failed' = failed
  /\ memory' \in {memory, {}, Load}

LEMMA KindsOfStep == TypeOK /\ [Next]_vars => Ends \/ Begins \/ Neither
<1> SUFFICES ASSUME TypeOK, [Next]_vars PROVE Ends \/ Begins \/ Neither
  OBVIOUS
<1>1. CASE NewUsageService
  BY <1>1 DEF NewUsageService, Neither
<1>2. ASSUME NEW r \in Requests, AnswerClient(r) \/ StampRecord(r) \/ AskForLock(r) PROVE Neither
  BY <1>2 DEF AnswerClient, StampRecord, AskForLock, Neither
<1>3. ASSUME NEW r \in Requests, AppendRecord(r) PROVE Begins
  BY <1>3 DEF AppendRecord, Begins
<1>4. ASSUME NEW r \in Requests, WriteRecord(r) \/ WriteFails(r) PROVE Ends
  <2>1. holder = r
    BY <1>4 DEF TypeOK, WriteRecord, WriteFails
  <2> QED
    BY <1>4, <2>1 DEF WriteRecord, WriteFails, Ends
<1>5. ASSUME NEW q \in Readers, LockForReading(q) PROVE Neither
  BY <1>5 DEF LockForReading, Neither
<1>6. ASSUME NEW q \in Readers, NEW t \in Tokens, NEW from \in 0..MaxTime, NEW to \in 0..MaxTime,
             QueryUsage(q, t, from, to) \/ SummaryUsage(q, t, from, to)
      PROVE  Neither
  BY <1>6, AnswerType DEF ReaderAnswers, Neither
<1>7. CASE Shutdown
  <2>1. holder = NoOne
    BY <1>7 DEF TypeOK, Shutdown, InFlight
  <2> QED
    BY <1>7, <2>1 DEF Shutdown, Gone, Neither
<1>8. CASE Killed
  <2>1. CASE holder = NoOne
    BY <1>8, <2>1 DEF Killed, Gone, Neither
  <2>2. CASE holder # NoOne
    BY <1>8, <2>2 DEF Killed, Gone, Ends, TypeOK
  <2> QED
    BY <2>1, <2>2
<1>9. CASE Stopped \/ UNCHANGED vars
  BY <1>9 DEF Stopped, vars, Neither
<1> QED
  BY <1>1, <1>2, <1>3, <1>4, <1>5, <1>6, <1>7, <1>8, <1>9 DEF Next

\* A file grows by at most one write, of the record in hand.
LEMMA FileGrows ==
  ASSUME TypeOK, [Next]_vars
  PROVE  \/ file' = file
         \/ \E kind \in {"whole", "torn", "unended"} :
              holder \in Requests /\ file' = Append(file, [rec |-> holder, kind |-> kind])
  BY KindsOfStep DEF Ends, Begins, Neither, CutOff

LEMMA KeptGrows ==
  ASSUME TypeOK, [Next]_vars
  PROVE  /\ Kept \subseteq Kept' /\ Kept' \subseteq Kept \cup {holder}
         /\ Ends => holder \in Kept'
<1>1. failed \subseteq failed' /\ failed' \subseteq failed \cup {holder}
  BY KindsOfStep DEF Ends, Begins, Neither
<1>2. CASE file' = file
  <2>1. Ends => holder \in failed'
    <3> SUFFICES ASSUME Ends, holder \notin failed' PROVE FALSE
      OBVIOUS
    <3>1. file' = Append(file, [rec |-> holder, kind |-> "whole"])
      BY DEF Ends
    <3>2. Len(file') = Len(file) + 1
      BY <3>1 DEF TypeOK
    <3> QED
      BY <1>2, <3>2 DEF TypeOK
  <2> QED
    BY <1>1, <1>2, <2>1 DEF Kept
<1>3. ASSUME NEW kind \in {"whole", "torn", "unended"}, holder \in Requests,
             file' = Append(file, [rec |-> holder, kind |-> kind])
      PROVE  /\ Kept \subseteq Kept' /\ Kept' \subseteq Kept \cup {holder}
             /\ holder \in Kept'
  <2> DEFINE e == [rec |-> holder, kind |-> kind]
             n == Len(file)
  <2>1. e \in Line /\ e.rec = holder
    BY <1>3 DEF Line
  <2>2. /\ n \in Nat /\ DOMAIN file = 1..n /\ DOMAIN file' = 1..(n + 1)
        /\ \A i \in 1..n : file'[i] = file[i]
        /\ file'[n + 1] = e
    BY <1>3, <2>1 DEF TypeOK
  <2> HIDE DEF e, n
  <2>3. {file'[i].rec : i \in DOMAIN file'} = {file[i].rec : i \in DOMAIN file} \cup {holder}
    <3>1. ASSUME NEW x \in {file'[i].rec : i \in DOMAIN file'}
          PROVE  x \in {file[i].rec : i \in DOMAIN file} \cup {holder}
      <4>1. PICK i \in 1..(n + 1) : x = file'[i].rec
        BY <2>2, <3>1
      <4>2. i \in 1..n \/ i = n + 1
        BY <2>2
      <4> QED
        BY <2>1, <2>2, <4>1, <4>2
    <3>2. ASSUME NEW i \in 1..n
          PROVE  file[i].rec \in {file'[j].rec : j \in DOMAIN file'}
      <4>1. i \in 1..(n + 1)
        BY <2>2
      <4> QED
        BY <2>2, <4>1
    <3>3. holder \in {file'[j].rec : j \in DOMAIN file'}
      <4>1. n + 1 \in 1..(n + 1)
        BY <2>2
      <4> QED
        BY <2>1, <2>2, <4>1
    <3> QED
      BY <2>2, <3>1, <3>2, <3>3
  <2> QED
    BY <1>1, <2>3 DEF Kept
<1> QED
  BY <1>2, <1>3, FileGrows

LEMMA LoadIsKept == Load \subseteq Kept
  BY DEF Load, Kept

LEMMA KeptType == TypeOK => Kept \subseteq Requests /\ IsFiniteSet(Kept)
<1> SUFFICES ASSUME TypeOK PROVE Kept \subseteq Requests /\ IsFiniteSet(Kept)
  OBVIOUS
<1>1. \A i \in DOMAIN file : file[i] \in Line
  BY DEF TypeOK
<1>2. Kept \subseteq Requests
  BY <1>1 DEF Kept, Line, TypeOK
<1> QED
  BY <1>2, StoreAssumption, FS_Subset

LEMMA KeptTypeNext == TypeOK /\ [Next]_vars => Kept' \subseteq Requests /\ IsFiniteSet(Kept')
<1>1. TypeOK' => (Kept \subseteq Requests /\ IsFiniteSet(Kept))'
  BY KeptType, PTL
<1> QED
  BY <1>1, StepType

(* ------------------------- what readers are told ------------------------ *)

LEMMA StepMemory == TypeOK /\ MemoryInv /\ [Next]_vars => MemoryInv'
<1> SUFFICES ASSUME TypeOK, MemoryInv, [Next]_vars PROVE MemoryInv'
  OBVIOUS
<1>1. Kept \subseteq Kept' /\ (Ends => holder \in Kept')
  BY KeptGrows
<1>2. CASE Ends
  BY <1>1, <1>2 DEF Ends, MemoryInv
<1>3. CASE Begins
  <2>1. memory \subseteq Kept
    BY <1>3, StoreAssumption DEF Begins, MemoryInv, TypeOK
  <2> QED
    BY <1>1, <1>3, <2>1 DEF Begins, MemoryInv
<1>4. CASE Neither
  BY <1>1, <1>4, LoadIsKept DEF Neither, MemoryInv
<1> QED
  BY <1>2, <1>3, <1>4, KindsOfStep

\* Only a query changes what a reader was told; a new one begins with nothing.
LEMMA AnswersChange ==
  ASSUME TypeOK, [Next]_vars
  PROVE  \/ answers' = answers
         \/ \E q \in Readers : answers' = [answers EXCEPT ![q] = NoAnswer]
         \/ \E q \in Readers, t \in Tokens, from, to \in 0..MaxTime :
              QueryUsage(q, t, from, to) \/ SummaryUsage(q, t, from, to)
  BY DEF Next, NewUsageService, Shutdown, Killed, Gone, Stopped, AnswerClient, StampRecord,
         AskForLock, AppendRecord, WriteRecord, WriteFails, LockForReading, vars

LEMMA StepAnswers == TypeOK /\ MemoryInv /\ AnswersAreKept /\ [Next]_vars => AnswersAreKept'
<1> SUFFICES ASSUME TypeOK, MemoryInv, AnswersAreKept, [Next]_vars, NEW p \in Readers
             PROVE  /\ Known(answers'[p].records) \subseteq Kept'
                    /\ answers'[p].count <= Cardinality({r \in Kept' : TokenOf[r] = answers'[p].token})
  BY DEF AnswersAreKept, Kept
<1> DEFINE Own(K, t) == {r \in K : TokenOf[r] = t}
<1>1. Kept \subseteq Kept' /\ IsFiniteSet(Kept')
  BY KeptGrows, KeptTypeNext
<1>2. ASSUME NEW M, NEW t, M \subseteq Own(Kept', t)
      PROVE  Cardinality(M) <= Cardinality(Own(Kept', t))
  BY <1>1, <1>2, FS_Subset
<1>3. CASE answers'[p] = answers[p]
  <2>1. /\ Known(answers[p].records) \subseteq Kept
        /\ answers[p].count <= Cardinality(Own(Kept, answers[p].token))
    BY DEF AnswersAreKept, Kept
  <2>2. Own(Kept, answers[p].token) \subseteq Own(Kept', answers[p].token)
    BY <1>1
  <2>3. IsFiniteSet(Own(Kept, answers[p].token)) /\ IsFiniteSet(Own(Kept', answers[p].token))
    BY <1>1, KeptType, FS_Subset
  <2>4. /\ Cardinality(Own(Kept, answers[p].token)) \in Nat
        /\ Cardinality(Own(Kept', answers[p].token)) \in Nat
        /\ Cardinality(Own(Kept, answers[p].token)) <= Cardinality(Own(Kept', answers[p].token))
    BY <1>2, <2>2, <2>3, FS_CardinalityType
  <2>5. answers[p].count \in Nat
    BY DEF TypeOK, Answer
  <2> QED
    BY <1>1, <1>3, <2>1, <2>4, <2>5
<1>4. ASSUME NEW q \in Readers, NEW t \in Tokens, NEW from \in 0..MaxTime, NEW to \in 0..MaxTime,
             QueryUsage(q, t, from, to) \/ SummaryUsage(q, t, from, to), p = q
      PROVE  /\ Known(answers'[p].records) \subseteq Kept'
             /\ answers'[p].count <= Cardinality(Own(Kept', answers'[p].token))
  <2>1. PICK log \in Seq(Matching(t, from, to)), n \in Nat :
          ReaderAnswers(q, t, log, n) /\ n = Cardinality(Matching(t, from, to))
    BY <1>4, AnswerType
  <2>2. answers'[p] = [token |-> t, records |-> log, count |-> n]
    BY <1>4, <2>1 DEF ReaderAnswers, TypeOK
  <2>3. memory \subseteq Kept
    BY <2>1, StoreAssumption DEF ReaderAnswers, TypeOK, MemoryInv
  <2>4. Matching(t, from, to) \subseteq Own(Kept', t)
    BY <1>1, <2>3 DEF Matching
  <2>5. Known(log) \subseteq Matching(t, from, to)
    BY DEF Known
  <2>6. Known(log) \subseteq Kept'
    BY <2>4, <2>5
  <2>7. n <= Cardinality(Own(Kept', t))
    BY <1>2, <2>1, <2>4
  <2> QED
    BY <2>2, <2>6, <2>7
<1>5. ASSUME NEW q \in Readers, NEW t \in Tokens, NEW from \in 0..MaxTime, NEW to \in 0..MaxTime,
             QueryUsage(q, t, from, to) \/ SummaryUsage(q, t, from, to), p # q
      PROVE  answers'[p] = answers[p]
  BY <1>5, AnswerType DEF ReaderAnswers, TypeOK
<1>6. CASE answers'[p] = NoAnswer
  <2>1. Known(answers'[p].records) = {} /\ answers'[p].count = 0
    BY <1>6 DEF NoAnswer, Known
  <2>2. Cardinality(Own(Kept', answers'[p].token)) \in Nat
    BY <1>1, FS_Subset, FS_CardinalityType
  <2> QED
    BY <2>1, <2>2
<1>7. ASSUME NEW q \in Readers, answers' = [answers EXCEPT ![q] = NoAnswer]
      PROVE  answers'[p] = answers[p] \/ answers'[p] = NoAnswer
  BY <1>7 DEF TypeOK
<1> QED
  BY <1>3, <1>4, <1>5, <1>6, <1>7, AnswersChange

(* ---------------------------- what survives ----------------------------- *)

LEMMA HistoryGrows ==
  ASSUME TypeOK, [Next]_vars
  PROVE  \/ history' = history
         \/ /\ Begins /\ Len(history') = Len(history) + 1
            /\ history'[Len(history) + 1] = holder'
            /\ \A i \in 1..Len(history) : history'[i] = history[i]
<1>1. CASE Begins
  BY <1>1 DEF Begins, TypeOK
<1> QED
  BY <1>1, KindsOfStep DEF Ends, Neither

\* The writes of a file that grows stay where they are.
LEMMA AppendKeeps ==
  ASSUME TypeOK, [Next]_vars
  PROVE  /\ Len(file) \in Nat /\ Len(file') \in Nat
         /\ Len(file) <= Len(file')
         /\ \A k \in 1..Len(file) : file'[k] = file[k]
<1>1. CASE file' = file
  BY <1>1 DEF TypeOK
<1>2. ASSUME NEW kind \in {"whole", "torn", "unended"}, holder \in Requests,
             file' = Append(file, [rec |-> holder, kind |-> kind])
      PROVE  /\ Len(file) \in Nat /\ Len(file') \in Nat
             /\ Len(file) <= Len(file')
             /\ \A k \in 1..Len(file) : file'[k] = file[k]
  BY <1>2 DEF TypeOK
<1> QED
  BY <1>1, <1>2, FileGrows

LEMMA OwnLineStays ==
  ASSUME TypeOK, [Next]_vars, NEW r, OwnLine(r)
  PROVE  \E k \in DOMAIN file' :
           /\ file'[k] = [rec |-> r, kind |-> "whole"]
           /\ k > 1 => file'[k - 1].kind = "whole"
<1>1. PICK k \in 1..Len(file) :
        /\ file[k] = [rec |-> r, kind |-> "whole"]
        /\ k > 1 => file[k - 1].kind = "whole"
  BY DEF OwnLine, TypeOK
<1>2. k \in DOMAIN file'
  <2>1. TypeOK'
    BY StepType
  <2> QED
    BY <2>1, AppendKeeps DEF TypeOK
<1>3. k > 1 => k - 1 \in 1..Len(file)
  BY AppendKeeps
<1> QED
  BY <1>1, <1>2, <1>3, AppendKeeps

LEMMA WrittenStays ==
  ASSUME TypeOK, [Next]_vars, NEW i \in 1..Len(history), Written(i)
  PROVE  Written(i)'
<1>1. failed \subseteq failed'
  BY KindsOfStep DEF Ends, Begins, Neither
<1>2. history'[i] = history[i] /\ (i > 1 => history'[i - 1] = history[i - 1])
  <2>1. i > 1 => i - 1 \in 1..Len(history)
    BY DEF TypeOK
  <2> QED
    BY <2>1, HistoryGrows
<1>3. OwnLine(history[i]) => OwnLine(history[i])'
  BY <1>2, OwnLineStays DEF OwnLine
<1> QED
  BY <1>1, <1>2, <1>3 DEF Written, OwnLine

\* A write that succeeds stands on a line of its own, unless it follows one
\* that did not end its line.
LEMMA EndsWritten ==
  ASSUME TypeOK, EndInv, [Next]_vars, Ends
  PROVE  Len(history) > 0 /\ Written(Len(history))'
<1> DEFINE n == Len(history)
           m == Len(file)
<1>1. n \in Nat /\ n > 0 /\ history[n] = holder /\ history' = history /\ holder # NoOne
  BY StoreAssumption DEF Ends, EndInv, TypeOK
<1>2. CASE failed' = failed \cup {holder}
  BY <1>1, <1>2 DEF Written
<1>3. CASE file' = Append(file, [rec |-> holder, kind |-> "whole"]) /\ failed' = failed
  <2>1. /\ m \in Nat /\ DOMAIN file' = 1..(m + 1)
        /\ \A i \in 1..m : file'[i] = file[i]
        /\ file'[m + 1] = [rec |-> holder, kind |-> "whole"]
    BY <1>3 DEF TypeOK, Line, Ends
  <2>2. CASE m > 0 /\ file[m].kind # "whole"
    <3>1. file # <<>>
      BY <2>2
    <3>2. n - 1 > 0 /\ history[n - 1] \in failed
      BY <1>1, <2>2, <3>1 DEF EndInv
    <3> QED
      BY <1>1, <1>3, <3>2 DEF Written
  <2>3. CASE m = 0 \/ file[m].kind = "whole"
    <3>1. m + 1 \in DOMAIN file' /\ (m + 1 > 1 => file'[m].kind = "whole") /\ (m + 1) - 1 = m
      BY <2>1, <2>3
    <3>2. \E k \in DOMAIN file' :
            /\ file'[k] = [rec |-> holder, kind |-> "whole"]
            /\ k > 1 => file'[k - 1].kind = "whole"
      BY <2>1, <3>1
    <3> QED
      BY <1>1, <3>2 DEF Written, OwnLine
  <2> QED
    BY <2>1, <2>2, <2>3
<1> QED
  BY <1>1, <1>2, <1>3 DEF Ends

LEMMA StepWritten == TypeOK /\ EndInv /\ WrittenInv /\ [Next]_vars => WrittenInv'
<1> SUFFICES ASSUME TypeOK, EndInv, WrittenInv, [Next]_vars, NEW i \in 1..Len(history')
             PROVE  Written(i)' \/ (holder' # NoOne /\ i = Len(history'))
  BY DEF WrittenInv
<1>1. CASE Ends
  <2>1. history' = history /\ holder' = NoOne /\ Len(history) \in Nat
    BY <1>1 DEF Ends, TypeOK
  <2>2. CASE i = Len(history)
    BY <1>1, <2>1, <2>2, EndsWritten DEF Written, OwnLine
  <2>3. CASE i # Len(history)
    <3>1. i \in 1..Len(history) /\ Written(i)
      BY <2>1, <2>3 DEF WrittenInv
    <3> QED
      BY <3>1, WrittenStays
  <2> QED
    BY <2>2, <2>3
<1>2. CASE Begins
  <2>1. holder = NoOne /\ holder' # NoOne /\ Len(history') = Len(history) + 1 /\ Len(history) \in Nat
    BY <1>2, StoreAssumption DEF Begins, TypeOK
  <2>2. CASE i = Len(history')
    BY <2>1, <2>2
  <2>3. CASE i # Len(history')
    <3>1. i \in 1..Len(history) /\ Written(i)
      BY <2>1, <2>3 DEF WrittenInv
    <3> QED
      BY <3>1, WrittenStays
  <2> QED
    BY <2>2, <2>3
<1>3. CASE Neither
  <2>1. history' = history /\ holder' = holder
    BY <1>3 DEF Neither
  <2>2. CASE Written(i)
    BY <2>1, <2>2, WrittenStays
  <2>3. CASE ~Written(i)
    BY <2>1, <2>3 DEF WrittenInv
  <2> QED
    BY <2>2, <2>3
<1> QED
  BY <1>1, <1>2, <1>3, KindsOfStep

LEMMA StepEnd == TypeOK /\ EndInv /\ [Next]_vars => EndInv'
<1> SUFFICES ASSUME TypeOK, EndInv, [Next]_vars PROVE EndInv'
  OBVIOUS
<1>1. Len(history) \in Nat
  BY DEF TypeOK
<1>2. CASE Ends
  <2>1. /\ Len(history) > 0 /\ history[Len(history)] = holder
        /\ history' = history /\ holder' = NoOne
    BY <1>2, StoreAssumption DEF Ends, EndInv
  <2>2. CASE failed' = failed \cup {holder}
    BY <2>1, <2>2 DEF EndInv
  <2>3. CASE file' = Append(file, [rec |-> holder, kind |-> "whole"])
    <3>1. file'[Len(file')].kind = "whole"
      BY <1>2, <2>3 DEF TypeOK, Line, Ends
    <3> QED
      BY <2>1, <3>1 DEF EndInv
  <2> QED
    BY <1>2, <2>2, <2>3 DEF Ends
<1>3. CASE Begins
  <2>1. /\ holder = NoOne /\ holder' # NoOne /\ file' = file /\ failed' = failed
        /\ Len(history') = Len(history) + 1 /\ history'[Len(history')] = holder'
        /\ \A i \in 1..Len(history) : history'[i] = history[i]
    BY <1>3, StoreAssumption DEF Begins, TypeOK
  <2>2. Len(history') - 1 = Len(history) /\ Len(history') > 0
    BY <1>1, <2>1
  <2> QED
    BY <1>1, <2>1, <2>2 DEF EndInv
<1>4. CASE Neither
  BY <1>4 DEF Neither, EndInv
<1> QED
  BY <1>2, <1>3, <1>4, KindsOfStep

\* Where the requests are: who has recorded is in history.
LEMMA StepPlace == TypeOK /\ PlaceInv /\ [Next]_vars => PlaceInv'
<1> SUFFICES ASSUME TypeOK, PlaceInv, [Next]_vars PROVE PlaceInv'
  OBVIOUS
<1>1. CASE NewUsageService
  BY <1>1 DEF NewUsageService, PlaceInv
<1>2. ASSUME NEW r \in Requests, AnswerClient(r) PROVE PlaceInv'
  BY <1>2 DEF AnswerClient, PlaceInv, TypeOK, InFlight
<1>3. ASSUME NEW r \in Requests, StampRecord(r) \/ AskForLock(r) PROVE PlaceInv'
  BY <1>3 DEF StampRecord, AskForLock, PlaceInv, TypeOK, InFlight
<1>4. ASSUME NEW r \in Requests, AppendRecord(r) PROVE PlaceInv'
  <2>1. /\ \A i \in 1..Len(history) : history'[i] = history[i] /\ i \in 1..Len(history')
        /\ Len(history') \in 1..Len(history') /\ history'[Len(history')] = r
    BY <1>4 DEF AppendRecord, TypeOK
  <2>2. ASSUME NEW o \in Requests, pc'[o] \in {"writing", "done"}
        PROVE  \E i \in 1..Len(history') : history'[i] = o
    <3>1. CASE o = r
      BY <2>1, <3>1
    <3>2. CASE o # r
      <4>1. pc[o] \in {"writing", "done"}
        BY <1>4, <2>2, <3>2 DEF AppendRecord, TypeOK
      <4>2. PICK i \in 1..Len(history) : history[i] = o
        BY <4>1 DEF PlaceInv
      <4> QED
        BY <2>1, <4>2
    <3> QED
      BY <3>1, <3>2
  <2>3. running' = running /\ crashed' = crashed /\ running
    BY <1>4 DEF AppendRecord, PlaceInv, InFlight
  <2>4. \A o \in Requests : pc'[o] = "lost" => pc[o] = "lost"
    BY <1>4 DEF AppendRecord, TypeOK
  <2> QED
    BY <2>2, <2>3, <2>4 DEF PlaceInv
<1>5. ASSUME NEW r \in Requests, WriteRecord(r) \/ WriteFails(r) PROVE PlaceInv'
  BY <1>5 DEF WriteRecord, WriteFails, PlaceInv, TypeOK, InFlight
<1>6. ASSUME NEW q \in Readers, LockForReading(q) PROVE PlaceInv'
  BY <1>6 DEF LockForReading, PlaceInv
<1>7. ASSUME NEW q \in Readers, NEW t \in Tokens, NEW from \in 0..MaxTime, NEW to \in 0..MaxTime,
             QueryUsage(q, t, from, to) \/ SummaryUsage(q, t, from, to)
      PROVE  PlaceInv'
  BY <1>7, AnswerType DEF ReaderAnswers, PlaceInv
<1>8. CASE Shutdown
  BY <1>8 DEF Shutdown, Gone, PlaceInv, TypeOK, InFlight
<1>9. CASE Killed
  BY <1>9 DEF Killed, Gone, PlaceInv, TypeOK, InFlight
<1>10. CASE Stopped \/ UNCHANGED vars
  BY <1>10 DEF Stopped, vars, PlaceInv
<1> QED
  BY <1>1, <1>2, <1>3, <1>4, <1>5, <1>6, <1>7, <1>8, <1>9, <1>10 DEF Next

LEMMA InitIInv == Init => IInv
<1> SUFFICES ASSUME Init PROVE IInv
  OBVIOUS
<1>1. TypeOK
  BY InitType
<1>2. Len(history) = 0 /\ DOMAIN file = {} /\ Kept = {} /\ 1..Len(history) = {}
  BY DEF Init, Kept
<1>3. MemoryInv /\ PlaceInv
  BY <1>2 DEF Init, MemoryInv, PlaceInv, InFlight
<1>4. WrittenInv
  BY <1>2 DEF WrittenInv
<1>5. EndInv
  BY DEF Init, EndInv
<1>6. \A q \in Readers : answers[q].records = <<>> /\ answers[q].count = 0
  BY DEF Init, NoAnswer
<1>7. AnswersAreKept
  <2> SUFFICES ASSUME NEW q \in Readers
               PROVE  /\ Known(answers[q].records) \subseteq Kept
                      /\ answers[q].count <= Cardinality({r \in Kept : TokenOf[r] = answers[q].token})
    BY DEF AnswersAreKept, Kept
  <2>1. {r \in Kept : TokenOf[r] = answers[q].token} = {}
    BY <1>2
  <2>2. Cardinality({r \in Kept : TokenOf[r] = answers[q].token}) = 0
    BY <2>1, FS_EmptySet
  <2>3. Known(answers[q].records) = {}
    BY <1>6 DEF Known
  <2> QED
    BY <1>6, <2>2, <2>3
<1> QED
  BY <1>1, <1>3, <1>4, <1>5, <1>7 DEF IInv

LEMMA StepIInv == IInv /\ [Next]_vars => IInv'
  BY StepType, StepMemory, StepWritten, StepEnd, StepPlace, StepAnswers DEF IInv

LEMMA Invariance == Spec => []IInv
  BY InitIInv, StepIInv, PTL DEF Spec

\* Readers are told of nothing that is not in the file, or failed to get there.
THEOREM AnswersKept == Spec => []AnswersAreKept
<1>1. IInv => AnswersAreKept
  BY DEF IInv
<1> QED
  BY <1>1, Invariance, PTL

\* Unless a line is too long for the scanner, the load finds every line that
\* stands whole on its own.
LEMMA OwnLineLoads ==
  ASSUME Long = {}, TypeOK, NEW r, OwnLine(r)
  PROVE  r \in Load
<1>1. PICK k \in DOMAIN file :
        /\ file[k] = [rec |-> r, kind |-> "whole"]
        /\ k > 1 => file[k - 1].kind = "whole"
  BY DEF OwnLine
<1>2. Readable(k) /\ Scanned(k) /\ file[k].rec = r
  BY <1>1 DEF Readable, Scanned
<1> QED
  BY <1>2 DEF Load

LEMMA FoundAgain ==
  ASSUME Long = {}
  PROVE  IInv /\ ~running =>
           \A i \in DOMAIN history : history[i] \in Load \/ Damaged(i)
<1> SUFFICES ASSUME IInv, ~running, NEW i \in DOMAIN history
             PROVE  history[i] \in Load \/ Damaged(i)
  OBVIOUS
<1>1. holder = NoOne
  BY DEF IInv, TypeOK, PlaceInv, InFlight
<1>2. Written(i)
  BY <1>1 DEF IInv, TypeOK, WrittenInv
<1> QED
  BY <1>2, OwnLineLoads DEF Written, Damaged, IInv

\* What a step does to memory.
LEMMA MemoryOfStep ==
  ASSUME TypeOK, [Next]_vars
  PROVE  \/ ~running'
         \/ running /\ memory \subseteq memory'
         \/ ~running /\ memory' = Load /\ history' = history /\ failed' = failed
<1>1. CASE NewUsageService \/ Shutdown \/ Killed
  BY <1>1 DEF NewUsageService, Shutdown, Killed, Gone
<1>2. ASSUME NEW r \in Requests,
             \/ AnswerClient(r) \/ StampRecord(r) \/ AskForLock(r) \/ AppendRecord(r)
             \/ WriteRecord(r) \/ WriteFails(r)
      PROVE  running' = running /\ memory \subseteq memory'
  BY <1>2 DEF AnswerClient, StampRecord, AskForLock, AppendRecord, WriteRecord, WriteFails
<1>3. ASSUME NEW q \in Readers, LockForReading(q)
      PROVE  running' = running /\ memory' = memory
  BY <1>3 DEF LockForReading
<1>4. ASSUME NEW q \in Readers, NEW t \in Tokens, NEW from \in 0..MaxTime, NEW to \in 0..MaxTime,
             QueryUsage(q, t, from, to) \/ SummaryUsage(q, t, from, to)
      PROVE  running' = running /\ memory' = memory
  BY <1>4, AnswerType DEF ReaderAnswers
<1>5. CASE Stopped \/ UNCHANGED vars
  BY <1>5 DEF Stopped, vars
<1> QED
  BY <1>1, <1>2, <1>3, <1>4, <1>5 DEF Next

LEMMA StepDamage ==
  ASSUME TypeOK, DamageIsLocal, [Next]_vars, running'
  PROVE  DamageIsLocal'
<1>1. TypeOK'
  BY StepType
<1> SUFFICES ASSUME NEW i \in DOMAIN history'
             PROVE  \/ history'[i] \in IF running' THEN memory' ELSE Load'
                    \/ history'[i] \in failed'
                    \/ i > 1 /\ history'[i - 1] \in failed'
  BY DEF DamageIsLocal, Damaged
<1>2. i \in 1..Len(history')
  BY <1>1 DEF TypeOK
<1>3. failed \subseteq failed'
  BY KindsOfStep DEF Ends, Begins, Neither
<1>4. CASE running' /\ running /\ memory \subseteq memory'
  <2>1. CASE i \in 1..Len(history)
    <3>1. i > 1 => i - 1 \in 1..Len(history)
      BY <2>1 DEF TypeOK
    <3>2. history'[i] = history[i] /\ (i > 1 => history'[i - 1] = history[i - 1])
      BY <2>1, <3>1, HistoryGrows
    <3>3. i \in DOMAIN history
      BY <2>1 DEF TypeOK
    <3> QED
      BY <1>3, <1>4, <3>2, <3>3 DEF DamageIsLocal, Damaged
  <2>2. CASE i \notin 1..Len(history)
    <3>1. Len(history) \in Nat
      BY DEF TypeOK
    <3>2. Begins /\ i = Len(history) + 1 /\ history'[Len(history) + 1] = holder'
      BY <1>2, <2>2, <3>1, HistoryGrows
    <3> QED
      BY <1>4, <3>2 DEF Begins
  <2> QED
    BY <2>1, <2>2
<1>5. CASE running' /\ ~running /\ memory' = Load /\ history' = history /\ failed' = failed
  BY <1>5 DEF DamageIsLocal, Damaged
<1> QED
  BY <1>4, <1>5, MemoryOfStep

\* A record that was in memory is there again after every restart, unless its
\* write or the one before it failed.
THEOREM DamageLocal == ASSUME Long = {} PROVE Spec => []DamageIsLocal
<1>1. Init => DamageIsLocal
  BY DEF Init, DamageIsLocal
<1>2. IInv /\ DamageIsLocal /\ [Next]_vars /\ running' => DamageIsLocal'
  BY StepDamage DEF IInv
<1>3. IInv /\ ~running => DamageIsLocal
  BY FoundAgain DEF DamageIsLocal
<1> QED
  BY <1>1, <1>2, <1>3, Invariance, PTL DEF Spec

\* What was answered is found again by the next start, as long as the process
\* is stopped by signals and given the time it takes.
THEOREM StopsKeep == ASSUME Long = {} PROVE Spec => []StopsKeepAnswered
<1>1. IInv => StopsKeepAnswered
  <2> SUFFICES ASSUME IInv, ~running, ~crashed, NEW r \in Requests, pc[r] # "idle"
               PROVE  \E i \in DOMAIN history :
                        /\ history[i] = r
                        /\ r \in Load \/ Damaged(i)
    BY DEF StopsKeepAnswered
  <2>1. pc[r] = "done"
    BY DEF IInv, TypeOK, PlaceInv, InFlight
  <2>2. PICK i \in 1..Len(history) : history[i] = r
    BY <2>1 DEF IInv, PlaceInv
  <2>3. i \in DOMAIN history
    BY DEF IInv, TypeOK
  <2> QED
    BY <2>2, <2>3, FoundAgain
<1> QED
  BY <1>1, Invariance, PTL

\* While the process is up, nothing that was stored and is not damaged is missing
\* from memory, so a query tells of it.
LEMMA StepTold ==
  ASSUME TypeOK, PlaceInv, DamageIsLocal, NEW q \in readers, NEW t, NEW from, NEW to
  PROVE  ToldInFull(q, t, from, to)
<1> DEFINE M == Matching(t, from, to)
<1>1. running
  BY DEF PlaceInv
<1>2. \A k \in DOMAIN history : ~Damaged(k) => history[k] \in memory
  BY <1>1 DEF DamageIsLocal
<1>3. Asked(t, from, to) \subseteq M
  BY <1>2 DEF Asked, Matching
<1>4. ASSUME QueryUsage(q, t, from, to)
      PROVE  Asked(t, from, to) \subseteq Known(answers'[q].records)
  BY <1>3, <1>4, LogIsComplete
<1>5. ASSUME SummaryUsage(q, t, from, to)
      PROVE  Cardinality(Asked(t, from, to)) <= answers'[q].count
  <2>1. q \in Readers /\ answers'[q].count = Cardinality(M)
    BY <1>5 DEF SummaryUsage, ReaderAnswers, TypeOK
  <2>2. IsFiniteSet(M)
    BY StoreAssumption, MatchingType, FS_Subset DEF TypeOK
  <2>3. Cardinality(Asked(t, from, to)) <= Cardinality(M)
    BY <1>3, <2>2, FS_Subset
  <2> QED
    BY <2>1, <2>3
<1> QED
  BY <1>4, <1>5 DEF ToldInFull

\* A query leaves out nothing that was ever stored in its window, in whatever
\* order it was stored, unless damage took it.
THEOREM StoredAlwaysTold == ASSUME Long = {} PROVE Spec => StoredIsTold
<1>1. IInv => TypeOK /\ PlaceInv
  BY DEF IInv
<1>2. TypeOK /\ PlaceInv /\ DamageIsLocal =>
        [\A q \in readers \ readers' : \A from, to \in 0..MaxTime :
           ToldInFull(q, answers'[q].token, from, to)]_vars
  BY StepTold
<1> QED
  BY <1>1, <1>2, Invariance, DamageLocal, PTL DEF StoredIsTold

=============================================================================
