----------------------------- MODULE UsageStore -----------------------------
(***************************************************************************)
(* UsageService: the usage records in memory, their JSONL file, the        *)
(* RWMutex between the handlers that record and those that query, and the  *)
(* process around them, which may be stopped or killed and started again.  *)
(*                                                                         *)
(* A record is known by its request; the records in memory are a set, as   *)
(* nobody sees the order of the slice.  The file is a sequence of writes.  *)
(* Only a "whole" one ends its line, so that a write that was cut off is   *)
(* glued to the next one: it is "torn", or "unended" when nothing but the  *)
(* newline is missing.  A file system that loses what was written is left  *)
(* out: the code never syncs, and promises nothing there.                  *)
(***************************************************************************)
EXTENDS Integers, FiniteSets, SequencesExt

CONSTANTS
  Requests,    \* the requests to be recorded
  Tokens,      \* token ids
  TokenOf,     \* the token of each request
  Long,        \* the requests whose record is longer than a line of bufio.Scanner
  Readers,     \* the clients of /api/logs and /api/usage
  MaxTime,     \* bound on the clock
  MaxStarts,   \* bound on the lives of the process
  MaxFailures, \* bound on failing writes
  NoOne        \* no request

ASSUME StoreAssumption ==
  /\ TokenOf \in [Requests -> Tokens]
  /\ Long \subseteq Requests
  /\ {MaxTime, MaxStarts, MaxFailures} \subseteq Nat /\ MaxTime > 0
  /\ IsFiniteSet(Requests) /\ NoOne \notin Requests
  /\ Tokens # {}

VARIABLES
  running,  \* whether the process is up
  starts,   \* number of times it was started
  now,      \* the clock
  pc,       \* where each request is in RecordUsage
  stamp,    \* the timestamp of its record
  holder,   \* the request that holds the mutex for writing
  readers,  \* the readers that hold it for reading
  memory,   \* UsageService.records
  file,     \* what was written to the file
  answers,  \* the answer to each reader's query, once it has one
  history,  \* every record that ever was in memory, in order
  failed,   \* the records whose write failed or was cut off
  crashed   \* whether the process ever ended with handlers at work

vars == <<running, starts, now, pc, stamp, holder, readers, memory, file,
          answers, history, failed, crashed>>

Line == [rec : Requests, kind : {"whole", "torn", "unended"}]

Answer == [token : Tokens, records : Seq(Requests), count : Nat]

NoAnswer == [token |-> CHOOSE t \in Tokens : TRUE, records |-> <<>>, count |-> 0]

(* ------------------------------- loading ------------------------------- *)

\* A write that forms a line of its own: json.Unmarshal accepts it.
Readable(i) ==
  /\ i > 1 => file[i - 1].kind = "whole"
  /\ \/ file[i].kind = "whole"
     \/ file[i].kind = "unended" /\ i = Len(file)

\* bufio.Scanner gives up at a line that is too long, and the loop ends
\* without an error.
Scanned(i) == \A j \in 1..i : file[j].kind # "torn" => file[j].rec \notin Long

\* Mutant of Load: the first malformed line ends it.
LoadStrict ==
  {file[i].rec : i \in {k \in DOMAIN file : \A j \in 1..k : Readable(j) /\ Scanned(j)}}

\* The loop of NewUsageService.
Load == {file[i].rec : i \in {k \in DOMAIN file : Readable(k) /\ Scanned(k)}}

(* ------------------------------- actions ------------------------------- *)

Init ==
  /\ running = FALSE
  /\ starts = 0
  /\ now = 1
  /\ pc = [r \in Requests |-> "idle"]
  /\ stamp = [r \in Requests |-> 0]
  /\ holder = NoOne
  /\ readers = {}
  /\ memory = {}
  /\ file = <<>>
  /\ answers = [q \in Readers |-> NoAnswer]
  /\ history = <<>>
  /\ failed = {}
  /\ crashed = FALSE

\* main creates the service and listens.
NewUsageService ==
  /\ ~running
  /\ starts < MaxStarts
  /\ running' = TRUE
  /\ starts' = starts + 1
  /\ memory' = Load
  /\ UNCHANGED <<now, pc, stamp, holder, readers, file, answers, history, failed, crashed>>

\* The handler has written the response; its last call is recordUsage.
AnswerClient(r) ==
  /\ running
  /\ pc[r] = "idle"
  /\ pc' = [pc EXCEPT ![r] = "answered"]
  /\ UNCHANGED <<running, starts, now, stamp, holder, readers, memory, file, answers,
                 history, failed, crashed>>

\* recordUsage takes the time and calls RecordUsage.
StampRecord(r) ==
  /\ pc[r] = "answered"
  /\ now' \in now..MaxTime
  /\ stamp' = [stamp EXCEPT ![r] = now']
  /\ pc' = [pc EXCEPT ![r] = "stamped"]
  /\ UNCHANGED <<running, starts, holder, readers, memory, file, answers, history, failed, crashed>>

\* RecordUsage has encoded the record and asks for the lock; others may have
\* been stamped, stored and told meanwhile.
AskForLock(r) ==
  /\ pc[r] = "stamped"
  /\ pc' = [pc EXCEPT ![r] = "waiting"]
  /\ UNCHANGED <<running, starts, now, stamp, holder, readers, memory, file, answers,
                 history, failed, crashed>>

\* Mutant of AppendRecord: the lock covers the append only.
AppendRecordBriefly(r) ==
  /\ pc[r] = "waiting"
  /\ holder = NoOne /\ readers = {}
  /\ memory' = memory \cup {r}
  /\ history' = Append(history, r)
  /\ pc' = [pc EXCEPT ![r] = "writing"]
  /\ UNCHANGED <<running, starts, now, stamp, holder, readers, file, answers, failed, crashed>>

\* RecordUsage gets the lock and appends to the records in memory.
AppendRecord(r) ==
  /\ pc[r] = "waiting"
  /\ holder = NoOne /\ readers = {}
  /\ holder' = r
  /\ memory' = memory \cup {r}
  /\ history' = Append(history, r)
  /\ pc' = [pc EXCEPT ![r] = "writing"]
  /\ UNCHANGED <<running, starts, now, stamp, readers, file, answers, failed, crashed>>

\* The line is in the file; RecordUsage returns and unlocks.
WriteRecord(r) ==
  /\ pc[r] = "writing"
  /\ file' = Append(file, [rec |-> r, kind |-> "whole"])
  /\ holder' = NoOne
  /\ pc' = [pc EXCEPT ![r] = "done"]
  /\ UNCHANGED <<running, starts, now, stamp, readers, memory, answers, history, failed, crashed>>

\* What a write leaves that did not succeed.
CutOff(r) ==
  {file} \cup {Append(file, [rec |-> r, kind |-> k]) : k \in {"torn", "unended"}}

\* Mutant of WriteFails: RecordUsage returns without unlocking.
WriteFailsLocked(r) ==
  /\ pc[r] = "writing"
  /\ Cardinality(failed) < MaxFailures
  /\ file' \in CutOff(r)
  /\ failed' = failed \cup {r}
  /\ pc' = [pc EXCEPT ![r] = "done"]
  /\ UNCHANGED <<running, starts, now, stamp, holder, readers, memory, answers, history, crashed>>

\* The write fails after some or none of its bytes.  The error is logged; the
\* record stays in memory.
WriteFails(r) ==
  /\ pc[r] = "writing"
  /\ Cardinality(failed) < MaxFailures
  /\ file' \in CutOff(r)
  /\ failed' = failed \cup {r}
  /\ holder' = NoOne
  /\ pc' = [pc EXCEPT ![r] = "done"]
  /\ UNCHANGED <<running, starts, now, stamp, readers, memory, answers, history, crashed>>

\* A reader gets its read lock for a new query, which a waiting writer holds up.
LockForReading(q) ==
  /\ running
  /\ q \notin readers
  /\ holder = NoOne
  /\ \A r \in Requests : pc[r] # "waiting"
  /\ readers' = readers \cup {q}
  /\ answers' = [answers EXCEPT ![q] = NoAnswer]
  /\ UNCHANGED <<running, starts, now, pc, stamp, holder, memory, file, history, failed,
                 crashed>>

\* A time lies in the window of a query; 0 is a bound that is not set.
Within(time, from, to) ==
  /\ from # 0 => time >= from
  /\ to # 0 => time <= to

\* Mutant of Matching: the loop comes from the end and stops at the first
\* record that is too old.
MatchingFromEnd(token, from, to) ==
  {r \in memory :
     /\ TokenOf[r] = token
     /\ Within(stamp[r], from, to)
     /\ \A i, j \in DOMAIN history :
          i < j /\ history[i] = r /\ history[j] \in memory => stamp[history[j]] >= from}

\* The loop over the records, the same in QueryUsage and SummaryUsage.
Matching(token, from, to) ==
  {r \in memory : TokenOf[r] = token /\ Within(stamp[r], from, to)}

\* The reader has its answer and unlocks.
ReaderAnswers(q, token, records, count) ==
  /\ q \in readers
  /\ readers' = readers \ {q}
  /\ answers' = [answers EXCEPT ![q] =
                   [token |-> token, records |-> records, count |-> count]]
  /\ UNCHANGED <<running, starts, now, pc, stamp, holder, memory, file, history, failed,
                 crashed>>

\* The first of a log is no older than the last.
Sorted(log) ==
  \A i, j \in DOMAIN log : i < j => stamp[log[i]] >= stamp[log[j]]

\* The matching records, sorted by time, the newest first; sort.Slice leaves
\* the order of equal times open.
QueryUsage(q, token, from, to) ==
  \E log \in SetToSeqs(Matching(token, from, to)) :
    Sorted(log) /\ ReaderAnswers(q, token, log, Len(log))

SummaryUsage(q, token, from, to) ==
  ReaderAnswers(q, token, <<>>, Cardinality(Matching(token, from, to)))

\* Where a handler is that has answered its client and not yet returned.
InFlight == {"answered", "stamped", "waiting", "writing"}

\* The process is over: memory, locks and the requests in flight are gone.
Gone ==
  /\ running' = FALSE
  /\ memory' = {}
  /\ holder' = NoOne
  /\ readers' = {}
  /\ pc' = [r \in Requests |-> IF pc[r] \in InFlight THEN "lost" ELSE pc[r]]
  /\ UNCHANGED <<starts, now, stamp, answers, history>>

\* Mutant of Shutdown: it waits until every client has its response.
ShutdownAnswered ==
  /\ running
  /\ \A r \in Requests : pc[r] # "writing"
  /\ readers = {}
  /\ Gone
  /\ UNCHANGED <<file, failed, crashed>>

\* After a signal: http.Server.Shutdown returns when every handler has.
Shutdown ==
  /\ running
  /\ \A r \in Requests : pc[r] \notin InFlight
  /\ readers = {}
  /\ Gone
  /\ UNCHANGED <<file, failed, crashed>>

\* The process is killed, or Shutdown's five seconds are over: a write may be
\* cut off.
Killed ==
  /\ running
  /\ Gone
  /\ crashed' = TRUE
  /\ IF holder = NoOne
     THEN UNCHANGED <<file, failed>>
     ELSE \/ /\ file' \in CutOff(holder)
             /\ failed' = failed \cup {holder}
          \/ /\ file' = Append(file, [rec |-> holder, kind |-> "whole"])
             /\ UNCHANGED failed

Stopped == ~running /\ starts = MaxStarts /\ UNCHANGED vars

Next ==
  \/ NewUsageService \/ Shutdown \/ Killed \/ Stopped
  \/ \E r \in Requests :
       \/ AnswerClient(r) \/ StampRecord(r) \/ AskForLock(r)
       \/ AppendRecord(r) \/ WriteRecord(r) \/ WriteFails(r)
  \/ \E q \in Readers :
       \/ LockForReading(q)
       \/ \E t \in Tokens, from, to \in 0..MaxTime :
            QueryUsage(q, t, from, to) \/ SummaryUsage(q, t, from, to)

Spec == Init /\ [][Next]_vars

\* The scheduler runs every handler: a mutex that is free goes to a waiting
\* writer, a write returns, a reader finishes its loop.
FairSpec ==
  /\ Spec
  /\ \A r \in Requests :
       /\ WF_vars(StampRecord(r)) /\ WF_vars(AskForLock(r)) /\ WF_vars(AppendRecord(r))
       /\ WF_vars(WriteRecord(r) \/ WriteFails(r))
  /\ \A q \in Readers :
       WF_vars(\E t \in Tokens, from, to \in 0..MaxTime :
                 QueryUsage(q, t, from, to) \/ SummaryUsage(q, t, from, to))

(* ----------------------------- properties ------------------------------ *)

\* The types, and the mutex: its holder is the one request that writes, and no
\* reader is in while it does.
TypeOK ==
  /\ running \in BOOLEAN
  /\ starts \in 0..MaxStarts
  /\ now \in 1..MaxTime
  /\ pc \in [Requests -> InFlight \cup {"idle", "done", "lost"}]
  /\ stamp \in [Requests -> 0..MaxTime]
  /\ readers \subseteq Readers
  /\ memory \subseteq Requests
  /\ file \in Seq(Line)
  /\ answers \in [Readers -> Answer]
  /\ history \in Seq(Requests)
  /\ failed \subseteq Requests
  /\ crashed \in BOOLEAN
  /\ holder \in Requests \cup {NoOne}
  /\ \A r \in Requests : pc[r] = "writing" <=> holder = r
  /\ holder # NoOne => readers = {}

Known(records) == {records[i] : i \in DOMAIN records}

\* What may cost the record i of history its place: its own write failed or was
\* cut off, or the write just before did.
Damaged(i) ==
  \/ history[i] \in failed
  \/ i > 1 /\ history[i - 1] \in failed

\* A record that was in memory is there again after any number of restarts,
\* unless its own write failed or was cut off, or the write just before did
\* (skipping malformed lines, and appending to a file that may end mid-line).
DamageIsLocal ==
  \A i \in DOMAIN history :
    history[i] \in (IF running THEN memory ELSE Load) \/ Damaged(i)

\* As long as the process is only stopped by signals that leave it its five
\* seconds (main.go:66), every request a client was answered is found in the
\* file by the next start, however late in the handler its record is written,
\* unless its own write or the one before failed.
StopsKeepAnswered ==
  ~running /\ ~crashed =>
    \A r \in Requests : pc[r] # "idle" =>
      \E i \in DOMAIN history :
        /\ history[i] = r
        /\ r \in Load \/ Damaged(i)

\* No reader is told of a record that is not in the file yet, unless its write
\* failed: append and write are one step to those who query.
AnswersAreKept ==
  LET kept == {file[i].rec : i \in DOMAIN file} \cup failed
  IN  \A q \in Readers :
        /\ Known(answers[q].records) \subseteq kept
        /\ answers[q].count <= Cardinality({r \in kept : TokenOf[r] = answers[q].token})

\* The records of a token and a window that were ever stored, but for the
\* damaged ones.
Asked(token, from, to) ==
  {history[i] : i \in {k \in DOMAIN history : /\ TokenOf[history[k]] = token
                                             /\ Within(stamp[history[k]], from, to)
                                             /\ ~Damaged(k)}}

ToldInFull(q, token, from, to) ==
  /\ QueryUsage(q, token, from, to) => Asked(token, from, to) \subseteq Known(answers'[q].records)
  /\ SummaryUsage(q, token, from, to) => Cardinality(Asked(token, from, to)) <= answers'[q].count

\* A log leaves out no record of its token and its window that was ever stored,
\* and a summary counts every one, in this life of the process or an earlier one,
\* unless damage took it.  A record is stamped before the lock and may be stored
\* after others with a later stamp, so that its place among them tells a query
\* nothing of its time.
StoredIsTold ==
  [][\A q \in readers \ readers' : \A from, to \in 0..MaxTime :
       ToldInFull(q, answers'[q].token, from, to)]_vars

\* A handler that has answered its client gets its record stored and returns,
\* though the write may fail and queries keep coming, unless the process ends.
RecordingReturns ==
  \A r \in Requests : pc[r] = "answered" ~> pc[r] \in {"done", "lost"}

(* ------------------- what the repository says of it --------------------- *)

\* "skip malformed lines" (server/usage.go:28): the load skips a line it cannot
\* use and goes on, so that every well-formed line of ordinary length is loaded.
BadLinesAreSkipped ==
  running => \A i \in DOMAIN file :
    file[i].kind = "whole" /\ (i > 1 => file[i - 1].kind = "whole") /\ file[i].rec \notin Long
      => file[i].rec \in memory

=============================================================================
