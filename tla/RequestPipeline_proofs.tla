----------------------- MODULE RequestPipeline_proofs -----------------------
(***************************************************************************)
(* Proofs about RequestPipeline, for any requests, models, rules and       *)
(* selections: its calls, its records, what a client is told, and that it  *)
(* implements RequestContract, since every step of the pipeline is a step  *)
(* of the contract or none.                                                *)
(***************************************************************************)
EXTENDS RequestPipeline, TLAPS

(* ---------------------- the inductive invariant ------------------------ *)

\* What the loops have while they run: a model the selector was asked for,
\* indices in range, and a call once one was made.
WellPlaced(r) ==
  /\ pc[r] \notin {"idle", "done"} => req[r].model \in Models
  /\ LoopsInRange(r)
  /\ pc[r] \in {"executing", "answering", "streaming"} => calls[r] # <<>>

Located == \A r \in Requests : WellPlaced(r)

TypeInv == Typed /\ Located

(* ------------------------------- lemmas -------------------------------- *)

LastOf(cs) == cs[Len(cs)]

\* Replacing the last element of a sequence leaves the others alone.
LEMMA ReplaceLast ==
  ASSUME NEW S, NEW s \in Seq(S), s # <<>>, NEW e \in S
  PROVE  LET t == [s EXCEPT ![Len(s)] = e]
         IN  /\ t \in Seq(S)
             /\ Len(t) = Len(s)
             /\ Len(s) \in 1..Len(s)
             /\ t[Len(s)] = e
             /\ \A i \in 1..(Len(s) - 1) : t[i] = s[i]
  OBVIOUS

\* A rule in range is one of the configuration's.
LEMMA RuleType ==
  ASSUME NEW r \in Requests, req[r].model \in Models, sel[r] \in 1..Len(Candidates(r))
  PROVE  Rule(r) \in Rules
  BY PipelineAssumption DEF Rule, Candidates

\* The record of an error is a usage record.
LEMMA FailureType ==
  ASSUME NEW m \in Models \cup {NoName}, NEW u \in Rules \cup {NoName},
         NEW status \in Statuses
  PROVE  Failure(m, u, status) \in Record
  BY DEF Failure, Record

\* A handler that returns, with a response and at most records, keeps the types.
LEMMA ReturnType ==
  ASSUME Typed, NEW r \in Requests, NEW response \in Response,
         NEW recorded \in Seq(Record), Return(r, response, recorded)
  PROVE  /\ pc' \in [Requests -> PCs]
         /\ resp' \in [Requests -> Response]
         /\ records' \in [Requests -> Seq(Record)]
  <1>1. records[r] \o recorded \in Seq(Record)
    BY DEF Typed
  <1>2. QED
    BY <1>1 DEF Typed, Return, PCs

\* The deferred flush sets a Boolean.
LEMMA FlushType ==
  ASSUME Typed, NEW r \in Requests, NEW status, NEW mustFlush,
         DeferredFlush(r, status, mustFlush)
  PROVE  flushed' \in [Requests -> BOOLEAN]
  <1> DEFINE b == Debug /\ (status >= 400 \/ mustFlush)
  <1>1. b \in BOOLEAN
    OBVIOUS
  <1> HIDE DEF b
  <1>2. QED
    BY <1>1 DEF Typed, DeferredFlush, b

\* respondError and recordUsage keep the types.
LEMMA RespondErrorType ==
  ASSUME Typed, NEW r \in Requests, NEW status \in Statuses,
         NEW m \in Models \cup {NoName}, NEW u \in Rules \cup {NoName},
         RespondError(r, status, m, u)
  PROVE  /\ pc' \in [Requests -> PCs]
         /\ resp' \in [Requests -> Response]
         /\ records' \in [Requests -> Seq(Record)]
         /\ flushed' \in [Requests -> BOOLEAN]
  <1> DEFINE response == [kind |-> "error", status |-> status, whole |-> TRUE]
  <1>1. response \in Response
    BY DEF Response
  <1>2. <<Failure(m, u, status)>> \in Seq(Record)
    BY FailureType
  <1>3. Return(r, response, <<Failure(m, u, status)>>)
    BY DEF RespondError
  <1>4. flushed' \in [Requests -> BOOLEAN]
    BY FlushType DEF RespondError
  <1>5. QED
    BY <1>1, <1>2, <1>3, <1>4, ReturnType

\* What Execute returned is added to the last call, and to nothing else.
LEMMA ReturnedCalls ==
  ASSUME Typed, NEW r \in Requests, calls[r] # <<>>,
         NEW outcome \in {"pending", "ok", "failed"}, NEW status \in Statuses,
         Returned(r, outcome, status)
  PROVE  /\ calls' \in [Requests -> Seq(Call)]
         /\ \A q \in Requests \ {r} : calls'[q] = calls[q]
         /\ Len(calls'[r]) = Len(calls[r])
         /\ calls'[r] # <<>>
         /\ LastOf(calls'[r]).sel = LastOf(calls[r]).sel
         /\ LastOf(calls'[r]).attempt = LastOf(calls[r]).attempt
         /\ LastOf(calls'[r]).late = LastOf(calls[r]).late
         /\ LastOf(calls'[r]).outcome = outcome
         /\ LastOf(calls'[r]).status = status
         /\ \A i \in 1..(Len(calls[r]) - 1) : calls'[r][i] = calls[r][i]
  <1> DEFINE last == LastOf(calls[r])
             e == [last EXCEPT !.outcome = outcome, !.status = status]
             t == [calls[r] EXCEPT ![Len(calls[r])] = e]
  <1>1. calls[r] \in Seq(Call) /\ last \in Call
    BY DEF Typed, LastOf
  <1>2. /\ e \in Call
        /\ e.sel = last.sel /\ e.attempt = last.attempt /\ e.late = last.late
        /\ e.outcome = outcome /\ e.status = status
    BY <1>1 DEF Call
  <1>3. calls' = [calls EXCEPT ![r] = t]
    BY DEF Returned, LastOf
  <1>4. calls'[r] = t
    BY <1>3 DEF Typed
  <1>5. /\ t \in Seq(Call) /\ Len(t) = Len(calls[r]) /\ t[Len(calls[r])] = e
        /\ \A i \in 1..(Len(calls[r]) - 1) : t[i] = calls[r][i]
    <2> HIDE DEF e
    <2>1. QED
      BY <1>1, <1>2, ReplaceLast
  <1> HIDE DEF t, e, last
  <1>6. calls' \in [Requests -> Seq(Call)] /\ \A q \in Requests \ {r} : calls'[q] = calls[q]
    BY <1>3, <1>5 DEF Typed
  <1>7. LastOf(calls'[r]) = e
    BY <1>4, <1>5 DEF LastOf
  <1>8. calls'[r] # <<>>
    BY <1>1, <1>4, <1>5
  <1>9. QED
    BY <1>2, <1>4, <1>5, <1>6, <1>7, <1>8 DEF last

(* -------------------------- type correctness --------------------------- *)

\* The handlers start well typed.
LEMMA TypeInit == Init => TypeInv
  <1>1. Unanswered \in Response
    BY DEF Unanswered, Response, Statuses
  <1>2. QED
    BY <1>1 DEF Init, TypeInv, Typed, Located, WellPlaced, LoopsInRange, PCs, maxRetries

\* The four ways a failed attempt goes on.
LEMMA AttemptFailsType ==
  ASSUME TypeInv, NEW r \in Requests, pc[r] = "executing",
         NEW status \in {NoResult} \cup 200..999, AttemptFails(r, status)
  PROVE  TypeInv'
  <1> DEFINE code == StatusCode(status)
  <1>1. code \in Statuses /\ status \in Statuses
    BY DEF StatusCode, NoResult, BadGateway, Statuses
  <1>2. /\ req[r].model \in Models
        /\ sel[r] \in 1..Len(Candidates(r))
        /\ calls[r] # <<>>
        /\ Rule(r) \in Rules
        /\ Candidates(r) \in Seq(Rules)
    BY RuleType, PipelineAssumption DEF TypeInv, Located, WellPlaced, LoopsInRange, Candidates
  <1>3. /\ calls' \in [Requests -> Seq(Call)]
        /\ \A q \in Requests \ {r} : calls'[q] = calls[q]
        /\ calls'[r] # <<>>
    <2>1. Typed /\ Returned(r, "failed", status)
      BY DEF TypeInv, AttemptFails
    <2>2. QED
      BY <1>1, <1>2, <2>1, ReturnedCalls
  <1>4. /\ live' \in [Requests -> Int]
        /\ client' \in [Requests -> {"here", "gone"}]
        /\ req' \in [Requests -> [model : Models \cup {NoName}, stream : BOOLEAN]]
        /\ UNCHANGED <<client, req>>
    BY DEF AttemptFails, TypeInv, Typed
  <1> HIDE DEF code
  <1>5. CASE Abandon(r)
    <2>1. resp[r] \in Response /\ <<>> \in Seq(Record) /\ Return(r, resp[r], <<>>)
      BY <1>5 DEF TypeInv, Typed, Abandon
    <2>2. Typed /\ DeferredFlush(r, resp[r].status, FALSE)
      BY <1>5 DEF TypeInv, Abandon
    <2>3. /\ pc' \in [Requests -> PCs] /\ resp' \in [Requests -> Response]
          /\ records' \in [Requests -> Seq(Record)]
      BY <2>1, <2>2, ReturnType
    <2>4. flushed' \in [Requests -> BOOLEAN]
      BY <2>2, FlushType
    <2>5. QED
      BY <1>2, <1>3, <1>4, <1>5, <2>3, <2>4
      DEF TypeInv, Typed, Located, WellPlaced, LoopsInRange, Abandon, Return, Candidates
  <1>6. CASE Retry(r, code)
    <2>1. attempt[r] + 1 \in 1..maxRetries
      <3>1. attempt[r] \in 0..3
        BY DEF TypeInv, Typed, maxRetries
      <3>2. attempt[r] < 3
        BY <1>6 DEF Retry, maxRetries
      <3>3. QED
        BY <3>1, <3>2 DEF maxRetries
    <2>2. /\ pc' = [pc EXCEPT ![r] = "attempt"]
          /\ attempt' = [attempt EXCEPT ![r] = @ + 1]
          /\ UNCHANGED <<sel, resp, records, flushed>>
      BY <1>6 DEF Retry
    <2>3. Typed'
      <3>1. pc' \in [Requests -> PCs]
        BY <2>2 DEF TypeInv, Typed, PCs
      <3>2. attempt' \in [Requests -> 0..maxRetries]
        BY <2>1, <2>2 DEF TypeInv, Typed, maxRetries
      <3>3. QED
        BY <1>3, <1>4, <2>2, <3>1, <3>2 DEF TypeInv, Typed
    <2>4. Located'
      <3>1. \A q \in Requests : Len(Candidates(q))' = Len(Candidates(q))
        BY <1>4 DEF Candidates
      <3>2. \A q \in Requests \ {r} :
              /\ pc'[q] = pc[q] /\ sel'[q] = sel[q] /\ attempt'[q] = attempt[q]
              /\ req'[q] = req[q] /\ calls'[q] = calls[q]
        BY <1>3, <1>4, <2>2 DEF TypeInv, Typed
      <3>3. pc'[r] = "attempt" /\ attempt'[r] \in 1..maxRetries /\ sel'[r] = sel[r]
        BY <2>1, <2>2 DEF TypeInv, Typed
      <3>4. ASSUME NEW q \in Requests, q # r PROVE WellPlaced(q)'
        BY <3>1, <3>2, <3>4 DEF TypeInv, Located, WellPlaced, LoopsInRange, Candidates
      <3>5. WellPlaced(r)'
        BY <1>2, <1>3, <1>4, <3>1, <3>3 DEF WellPlaced, LoopsInRange
      <3>6. QED
        BY <3>4, <3>5 DEF Located
    <2>5. QED
      BY <2>3, <2>4 DEF TypeInv
  <1>7. CASE FallBack(r, code)
    <2>1. /\ pc' = [pc EXCEPT ![r] = "plan"] /\ sel' = [sel EXCEPT ![r] = @ + 1]
          /\ UNCHANGED <<attempt, resp, records, flushed>>
      BY <1>7 DEF FallBack
    <2>2. sel[r] + 1 \in 1..Len(Candidates(r))
      BY <1>2, <1>7 DEF FallBack
    <2>3. Typed'
      <3>1. pc' \in [Requests -> PCs]
        BY <2>1 DEF TypeInv, Typed, PCs
      <3>2. sel' \in [Requests -> Nat]
        BY <1>2, <2>1 DEF TypeInv, Typed
      <3>3. QED
        BY <1>3, <1>4, <2>1, <3>1, <3>2 DEF TypeInv, Typed
    <2>4. Located'
      <3>1. \A q \in Requests : Len(Candidates(q))' = Len(Candidates(q))
        BY <1>4 DEF Candidates
      <3>2. \A q \in Requests \ {r} :
              /\ pc'[q] = pc[q] /\ sel'[q] = sel[q] /\ attempt'[q] = attempt[q]
              /\ req'[q] = req[q] /\ calls'[q] = calls[q]
        BY <1>3, <1>4, <2>1 DEF TypeInv, Typed
      <3>3. pc'[r] = "plan" /\ sel'[r] = sel[r] + 1
        BY <2>1 DEF TypeInv, Typed
      <3>4. ASSUME NEW q \in Requests, q # r PROVE WellPlaced(q)'
        BY <3>1, <3>2, <3>4 DEF TypeInv, Located, WellPlaced, LoopsInRange, Candidates
      <3>5. WellPlaced(r)'
        BY <1>2, <1>3, <1>4, <2>2, <3>1, <3>3 DEF WellPlaced, LoopsInRange
      <3>6. QED
        BY <3>4, <3>5 DEF Located
    <2>5. QED
      BY <2>3, <2>4 DEF TypeInv
  <1>8. CASE GiveUp(r, code)
    <2>1. /\ pc' \in [Requests -> PCs] /\ resp' \in [Requests -> Response]
          /\ records' \in [Requests -> Seq(Record)]
          /\ flushed' \in [Requests -> BOOLEAN]
      <3>1. CASE code = 499
        <4>1. resp[r] \in Response /\ <<>> \in Seq(Record) /\ Return(r, resp[r], <<>>)
          BY <1>8, <3>1 DEF TypeInv, Typed, GiveUp
        <4>2. flushed' \in [Requests -> BOOLEAN]
          BY <1>8, <3>1, FlushType DEF TypeInv, GiveUp
        <4>3. QED
          BY <4>1, <4>2, ReturnType DEF TypeInv
      <3>2. CASE code # 499
        <4>1. RespondError(r, code, req[r].model, Rule(r))
          BY <1>8, <3>2 DEF GiveUp
        <4>2. QED
          BY <1>1, <1>2, <4>1, RespondErrorType DEF TypeInv
      <3>3. QED
        BY <3>1, <3>2
    <2>2. UNCHANGED <<sel, attempt>> /\ pc' = [pc EXCEPT ![r] = "done"]
      BY <1>8 DEF GiveUp, RespondError, Return
    <2>3. QED
      BY <1>2, <1>3, <1>4, <2>1, <2>2 DEF TypeInv, Typed, Located, WellPlaced, LoopsInRange, Candidates
  <1>9. QED
    BY <1>5, <1>6, <1>7, <1>8 DEF AttemptFails, code

\* Every action keeps the types, and the place of the two loops.
LEMMA TypeNext == TypeInv /\ [Next]_vars => TypeInv'
  <1> SUFFICES ASSUME TypeInv, [Next]_vars PROVE TypeInv'
    OBVIOUS
  <1>1. CASE UNCHANGED vars
    BY <1>1 DEF TypeInv, Typed, Located, WellPlaced, LoopsInRange, Candidates, vars
  <1>2. ASSUME NEW r \in Requests, RejectToken(r) PROVE TypeInv'
    <2>1. /\ [kind |-> "rejected", status |-> 401, whole |-> TRUE] \in Response
          /\ <<>> \in Seq(Record)
      BY DEF Response, Statuses
    <2>2. /\ pc' \in [Requests -> PCs] /\ resp' \in [Requests -> Response]
          /\ records' \in [Requests -> Seq(Record)]
      BY <1>2, <2>1, ReturnType DEF RejectToken, TypeInv
    <2>3. QED
      BY <1>2, <2>2 DEF TypeInv, Typed, Located, WellPlaced, LoopsInRange, RejectToken, Return, Candidates
  <1>3. ASSUME NEW r \in Requests, Arrive(r) PROVE TypeInv'
    BY <1>3 DEF TypeInv, Typed, Located, WellPlaced, LoopsInRange, Arrive, PCs, Candidates
  <1>4. ASSUME NEW r \in Requests, BodyFails(r) PROVE TypeInv'
    <2>1. PICK status \in {400, 413} :
            Return(r, [kind |-> "error", status |-> status, whole |-> TRUE],
                   <<Failure(NoName, NoName, status)>>)
      BY <1>4 DEF BodyFails
    <2>2. /\ [kind |-> "error", status |-> status, whole |-> TRUE] \in Response
          /\ <<Failure(NoName, NoName, status)>> \in Seq(Record)
      BY FailureType DEF Response, Statuses
    <2> DEFINE response == [kind |-> "error", status |-> status, whole |-> TRUE]
               recorded == <<Failure(NoName, NoName, status)>>
    <2>3. /\ Typed /\ response \in Response /\ recorded \in Seq(Record)
          /\ Return(r, response, recorded)
      BY <2>1, <2>2 DEF TypeInv
    <2> HIDE DEF response, recorded
    <2>4. /\ pc' \in [Requests -> PCs] /\ resp' \in [Requests -> Response]
          /\ records' \in [Requests -> Seq(Record)]
      BY <2>3, ReturnType
    <2>5. pc' = [pc EXCEPT ![r] = "done"]
      BY <2>3 DEF Return
    <2>6. QED
      BY <1>4, <2>4, <2>5 DEF TypeInv, Typed, Located, WellPlaced, LoopsInRange, BodyFails, Candidates
  <1>5. ASSUME NEW r \in Requests, DecodeFails(r) PROVE TypeInv'
    <2>1. /\ pc' \in [Requests -> PCs] /\ resp' \in [Requests -> Response]
          /\ records' \in [Requests -> Seq(Record)]
          /\ flushed' \in [Requests -> BOOLEAN]
      <3>1. 400 \in Statuses /\ RespondError(r, 400, NoName, NoName)
        BY <1>5 DEF DecodeFails, Statuses
      <3>2. QED
        BY <3>1, RespondErrorType DEF TypeInv
    <2>2. QED
      BY <1>5, <2>1
      DEF TypeInv, Typed, Located, WellPlaced, LoopsInRange, DecodeFails, RespondError, Return, Candidates
  <1>6. ASSUME NEW r \in Requests, ModelUnknown(r) PROVE TypeInv'
    <2>1. /\ pc' \in [Requests -> PCs] /\ resp' \in [Requests -> Response]
          /\ records' \in [Requests -> Seq(Record)]
          /\ flushed' \in [Requests -> BOOLEAN]
      <3>1. /\ 404 \in Statuses /\ req[r].model \in Models
            /\ RespondError(r, 404, req[r].model, NoName)
        BY <1>6 DEF ModelUnknown, TypeInv, Located, WellPlaced, LoopsInRange, Statuses
      <3>2. QED
        BY <3>1, RespondErrorType DEF TypeInv
    <2>2. QED
      BY <1>6, <2>1
      DEF TypeInv, Typed, Located, WellPlaced, LoopsInRange, ModelUnknown, RespondError, Return, Candidates
  <1>7. ASSUME NEW r \in Requests, Accept(r) PROVE TypeInv'
    <2>1. Candidates(r) \in Seq(Rules)
      BY <1>7, PipelineAssumption DEF TypeInv, Located, WellPlaced, LoopsInRange, Accept, Candidates
    <2>2. 1 \in 1..Len(Candidates(r))
      BY <1>7, <2>1 DEF Accept
    <2>3. QED
      BY <1>7, <2>2 DEF TypeInv, Typed, Located, WellPlaced, LoopsInRange, Accept, PCs, Candidates
  <1>8. ASSUME NEW r \in Requests, EncodeFails(r) PROVE TypeInv'
    <2>1. req[r].model \in Models /\ Rule(r) \in Rules
      BY <1>8, RuleType DEF TypeInv, Located, WellPlaced, LoopsInRange, EncodeFails
    <2>2. /\ pc' \in [Requests -> PCs] /\ resp' \in [Requests -> Response]
          /\ records' \in [Requests -> Seq(Record)]
          /\ flushed' \in [Requests -> BOOLEAN]
      <3>1. 500 \in Statuses /\ RespondError(r, 500, req[r].model, Rule(r))
        BY <1>8 DEF EncodeFails, Statuses
      <3>2. QED
        BY <2>1, <3>1, RespondErrorType DEF TypeInv
    <2>3. QED
      BY <1>8, <2>2
      DEF TypeInv, Typed, Located, WellPlaced, LoopsInRange, EncodeFails, RespondError, Return, Candidates
  <1>9. ASSUME NEW r \in Requests, PlanSelection(r) PROVE TypeInv'
    BY <1>9 DEF TypeInv, Typed, Located, WellPlaced, LoopsInRange, PlanSelection, PCs, Candidates, maxRetries
  <1>10. ASSUME NEW r \in Requests, StartAttempt(r) PROVE TypeInv'
    <2> DEFINE gone == client[r] = "gone"
               c == [sel |-> sel[r], attempt |-> attempt[r], late |-> gone,
                     outcome |-> "pending", status |-> NoResult]
    <2>a. gone \in BOOLEAN /\ NoResult \in Statuses
      BY DEF Statuses, NoResult
    <2>b. calls' = [calls EXCEPT ![r] = Append(@, c)]
      BY <1>10 DEF StartAttempt
    <2>c. sel[r] \in Nat /\ attempt[r] \in 1..maxRetries /\ calls[r] \in Seq(Call)
      BY <1>10 DEF TypeInv, Typed, Located, WellPlaced, LoopsInRange, StartAttempt
    <2> HIDE DEF gone
    <2>1. c \in Call
      BY <2>a, <2>c DEF Call
    <2> HIDE DEF c
    <2>2. /\ Append(calls[r], c) \in Seq(Call)
          /\ Len(Append(calls[r], c)) = Len(calls[r]) + 1
          /\ Append(calls[r], c) # <<>>
      BY <2>1, <2>c
    <2>3. QED
      BY <1>10, <2>2, <2>b DEF TypeInv, Typed, Located, WellPlaced, LoopsInRange, StartAttempt, PCs, Candidates
  <1>11. ASSUME NEW r \in Requests, ExecuteSucceeds(r) PROVE TypeInv'
    <2>1. calls[r] # <<>>
      BY <1>11 DEF TypeInv, Located, WellPlaced, LoopsInRange, ExecuteSucceeds
    <2>2. /\ calls' \in [Requests -> Seq(Call)]
          /\ \A q \in Requests \ {r} : calls'[q] = calls[q]
          /\ calls'[r] # <<>>
      <3>1. 200 \in Statuses /\ Returned(r, "ok", 200)
        BY <1>11 DEF ExecuteSucceeds, Statuses
      <3>2. QED
        BY <2>1, <3>1, ReturnedCalls DEF TypeInv
    <2>3. QED
      BY <1>11, <2>2 DEF TypeInv, Typed, Located, WellPlaced, LoopsInRange, ExecuteSucceeds, PCs, Candidates
  <1>12. ASSUME NEW r \in Requests, ExecuteFails(r) PROVE TypeInv'
    <2>1. PICK status \in FailedStatuses(Mode(r)) : AttemptFails(r, status)
      BY <1>12 DEF ExecuteFails
    <2>2. status \in {NoResult} \cup 200..999
      BY PipelineAssumption DEF FailedStatuses
    <2>3. QED
      BY <1>12, <2>1, <2>2, AttemptFailsType DEF ExecuteFails
  <1>13. ASSUME NEW r \in Requests, ContextEnds(r) PROVE TypeInv'
    BY <1>13, AttemptFailsType DEF ContextEnds
  <1>14. ASSUME NEW r \in Requests, AnswerNonStream(r) PROVE TypeInv'
    <2>1. req[r].model \in Models /\ Rule(r) \in Rules
      BY <1>14, RuleType DEF TypeInv, Located, WellPlaced, LoopsInRange, AnswerNonStream
    <2>2. CASE RespondError(r, BadGateway, req[r].model, Rule(r))
      <3>1. /\ pc' \in [Requests -> PCs] /\ resp' \in [Requests -> Response]
            /\ records' \in [Requests -> Seq(Record)]
            /\ flushed' \in [Requests -> BOOLEAN]
        <4>1. BadGateway \in Statuses
          BY DEF Statuses, BadGateway
        <4>2. QED
          BY <2>1, <2>2, <4>1, RespondErrorType DEF TypeInv
      <3>2. QED
        BY <1>14, <2>2, <3>1
        DEF TypeInv, Typed, Located, WellPlaced, LoopsInRange, AnswerNonStream, RespondError, Return, Candidates
    <2>3. CASE /\ Return(r, [kind |-> "message", status |-> 200, whole |-> TRUE],
                          <<[model |-> req[r].model, upstream |-> Rule(r),
                             success |-> TRUE, code |-> 0]>>)
               /\ DeferredFlush(r, 200, FALSE)
      <3>1. /\ [kind |-> "message", status |-> 200, whole |-> TRUE] \in Response
            /\ <<[model |-> req[r].model, upstream |-> Rule(r),
                  success |-> TRUE, code |-> 0]>> \in Seq(Record)
        BY <2>1 DEF Response, Record, Statuses
      <3>2. /\ pc' \in [Requests -> PCs] /\ resp' \in [Requests -> Response]
            /\ records' \in [Requests -> Seq(Record)]
        BY <2>3, <3>1, ReturnType DEF TypeInv
      <3>3. flushed' \in [Requests -> BOOLEAN]
        BY <2>3, FlushType DEF TypeInv
      <3>4. QED
        BY <1>14, <2>3, <3>2, <3>3
        DEF TypeInv, Typed, Located, WellPlaced, LoopsInRange, AnswerNonStream, Return, Candidates
    <2>4. QED
      BY <1>14, <2>2, <2>3 DEF AnswerNonStream
  <1>15. ASSUME NEW r \in Requests, NEW whole \in BOOLEAN, NEW scanError \in BOOLEAN,
                StreamReturns(r, whole, scanError)
         PROVE  TypeInv'
    <2>1. req[r].model \in Models /\ Rule(r) \in Rules
      BY <1>15, RuleType DEF TypeInv, Located, WellPlaced, LoopsInRange, StreamReturns
    <2>2. /\ [kind |-> "stream", status |-> 200, whole |-> whole] \in Response
          /\ <<[model |-> req[r].model, upstream |-> Rule(r),
                success |-> TRUE, code |-> 0]>> \in Seq(Record)
      BY <2>1 DEF Response, Record, Statuses
    <2>3. /\ pc' \in [Requests -> PCs] /\ resp' \in [Requests -> Response]
          /\ records' \in [Requests -> Seq(Record)]
      BY <1>15, <2>2, ReturnType DEF StreamReturns, TypeInv
    <2>4. flushed' \in [Requests -> BOOLEAN]
      BY <1>15, FlushType DEF StreamReturns, TypeInv
    <2>5. QED
      BY <1>15, <2>3, <2>4
      DEF TypeInv, Typed, Located, WellPlaced, LoopsInRange, StreamReturns, Return, Candidates
  <1>16. ASSUME NEW r \in Requests, Disconnect(r) PROVE TypeInv'
    BY <1>16 DEF TypeInv, Typed, Located, WellPlaced, LoopsInRange, Disconnect, Candidates
  <1>17. QED
    BY <1>1, <1>2, <1>3, <1>4, <1>5, <1>6, <1>7, <1>8, <1>9, <1>10, <1>11,
       <1>12, <1>13, <1>14, <1>15, <1>16
    DEF Next, Finished, UpstreamEndsStream, StreamContextEnds

\* Every state of the pipeline is well typed, and the indices of its two loops
\* are in range, however many requests, models and candidates there are.
THEOREM TypeCorrect == Spec => []TypeOK
  <1>1. Spec => []TypeInv
    BY TypeInit, TypeNext, PTL DEF Spec
  <1>2. TypeInv => TypeOK
    BY DEF TypeInv, Located, WellPlaced, TypeOK
  <1>3. QED
    BY <1>1, <1>2, PTL

(* ------------------------ the order of the calls ----------------------- *)

\* What the history cs of a request says when its goroutine is at p, its loops
\* at selection s and attempt a, and its client cl.  CallOrder and LateIsLast
\* are the first three conjuncts; the others say where the last call is.
HistoryOf(cs, p, s, a, cl) ==
  /\ cs # <<>> => cs[1].sel = 1 /\ cs[1].attempt = 1
  /\ \A i \in 1..(Len(cs) - 1) : Follows(cs[i], cs[i + 1])
  /\ \A i \in 1..Len(cs) : cs[i].late => i = Len(cs) /\ cl = "gone"
  /\ p \in {"idle", "body"} => cs = <<>>
  /\ p = "plan" => IF cs = <<>> THEN s = 1
                   ELSE ~LastOf(cs).late /\ Follows(LastOf(cs), [sel |-> s, attempt |-> 1])
  /\ p = "attempt" => IF cs = <<>> THEN s = 1 /\ a = 1
                      ELSE ~LastOf(cs).late /\ Follows(LastOf(cs), [sel |-> s, attempt |-> a])
  /\ p = "executing" => /\ cs # <<>>
                        /\ LastOf(cs).sel = s /\ LastOf(cs).attempt = a
  /\ p \in {"answering", "streaming"} =>
       /\ cs # <<>>
       /\ LastOf(cs).sel = s /\ LastOf(cs).outcome = "ok"

History ==
  \A r \in Requests : HistoryOf(calls[r], pc[r], sel[r], attempt[r], client[r])

\* A turn of executeWithRetry adds a call that follows the last one.
LEMMA AppendCall ==
  ASSUME NEW cs \in Seq(Call), NEW s \in Nat, NEW a \in 1..maxRetries, NEW cl,
         HistoryOf(cs, "attempt", s, a, cl),
         NEW c \in Call, c.sel = s, c.attempt = a, c.late => cl = "gone"
  PROVE  HistoryOf(Append(cs, c), "executing", s, a, cl)
  <1> DEFINE ds == Append(cs, c)
  <1>1. /\ ds \in Seq(Call) /\ Len(ds) = Len(cs) + 1 /\ ds[Len(cs) + 1] = c
        /\ \A i \in 1..Len(cs) : ds[i] = cs[i]
        /\ ds # <<>> /\ Len(cs) \in Nat
    OBVIOUS
  <1>2. LastOf(ds) = c
    BY <1>1 DEF LastOf
  <1>3. ds[1].sel = 1 /\ ds[1].attempt = 1
    <2>1. CASE cs = <<>>
      BY <1>1, <2>1 DEF HistoryOf
    <2>2. CASE cs # <<>>
      BY <1>1, <2>2 DEF HistoryOf
    <2>3. QED
      BY <2>1, <2>2
  <1>4. ASSUME NEW i \in 1..(Len(ds) - 1) PROVE Follows(ds[i], ds[i + 1])
    <2>1. CASE i < Len(cs)
      <3>1. ds[i] = cs[i] /\ ds[i + 1] = cs[i + 1] /\ i \in 1..(Len(cs) - 1)
        BY <1>1, <2>1
      <3>2. QED
        BY <3>1 DEF HistoryOf
    <2>2. CASE i = Len(cs)
      <3>1. cs # <<>> /\ ds[i] = LastOf(cs) /\ ds[i + 1] = c
        BY <1>1, <2>2 DEF LastOf
      <3>2. Follows(LastOf(cs), [sel |-> s, attempt |-> a])
        BY <3>1 DEF HistoryOf
      <3>3. QED
        BY <3>1, <3>2 DEF Follows
    <2>3. QED
      BY <1>1, <2>1, <2>2
  <1>5. ASSUME NEW i \in 1..Len(ds), ds[i].late PROVE i = Len(ds) /\ cl = "gone"
    <2>1. CASE i = Len(ds)
      BY <1>1, <1>5, <2>1
    <2>2. CASE i # Len(ds)
      <3>1. i \in 1..Len(cs) /\ cs[i].late /\ cs # <<>>
        BY <1>1, <1>5, <2>2
      <3>2. i = Len(cs)
        BY <3>1 DEF HistoryOf
      <3>3. ~LastOf(cs).late
        BY <3>1 DEF HistoryOf
      <3>4. QED
        BY <3>1, <3>2, <3>3 DEF LastOf
    <2>3. QED
      BY <2>1, <2>2
  <1> HIDE DEF ds
  <1>6. HistoryOf(ds, "executing", s, a, cl)
    BY <1>1, <1>2, <1>3, <1>4, <1>5 DEF HistoryOf
  <1>7. QED
    BY <1>6 DEF ds

\* What Execute returned changes the outcome of the last call, not its place.
LEMMA UpdateCall ==
  ASSUME NEW cs \in Seq(Call), NEW ds \in Seq(Call), NEW s, NEW a, NEW cl,
         NEW p, p \notin {"plan", "attempt", "idle", "body"},
         HistoryOf(cs, "executing", s, a, cl),
         Len(ds) = Len(cs),
         \A i \in 1..(Len(cs) - 1) : ds[i] = cs[i],
         LastOf(ds).sel = LastOf(cs).sel,
         LastOf(ds).attempt = LastOf(cs).attempt,
         LastOf(ds).late = LastOf(cs).late,
         p \in {"answering", "streaming"} => LastOf(ds).outcome = "ok"
  PROVE  HistoryOf(ds, p, s, a, cl)
  <1> DEFINE n == Len(cs)
  <1>1. n \in Nat /\ n > 0 /\ cs # <<>> /\ ds # <<>> /\ Len(ds) = n
    BY DEF HistoryOf
  <1>2. LastOf(cs) = cs[n] /\ LastOf(ds) = ds[n]
    BY DEF LastOf
  <1>3. \A i \in 1..n : /\ ds[i].sel = cs[i].sel /\ ds[i].attempt = cs[i].attempt
                         /\ ds[i].late = cs[i].late
    <2>1. ASSUME NEW i \in 1..n
          PROVE  /\ ds[i].sel = cs[i].sel /\ ds[i].attempt = cs[i].attempt
                 /\ ds[i].late = cs[i].late
      <3>1. CASE i = n
        BY <1>2, <3>1
      <3>2. CASE i # n
        BY <1>1, <3>2
      <3>3. QED
        BY <3>1, <3>2
    <2>2. QED
      BY <2>1
  <1>4. ds[1].sel = 1 /\ ds[1].attempt = 1
    BY <1>1, <1>3 DEF HistoryOf
  <1>5. ASSUME NEW i \in 1..(n - 1) PROVE Follows(ds[i], ds[i + 1])
    <2>1. ds[i] = cs[i] /\ i + 1 \in 1..n
      BY <1>1
    <2>2. ds[i + 1].sel = cs[i + 1].sel /\ ds[i + 1].attempt = cs[i + 1].attempt
      BY <1>3, <2>1
    <2>3. Follows(cs[i], cs[i + 1])
      BY DEF HistoryOf
    <2>4. QED
      BY <2>1, <2>2, <2>3 DEF Follows
  <1>6. \A i \in 1..n : ds[i].late => i = n /\ cl = "gone"
    BY <1>3 DEF HistoryOf
  <1>7. LastOf(ds).sel = s /\ (p = "executing" => LastOf(ds).attempt = a)
    BY DEF HistoryOf
  <1> HIDE DEF n
  <1>8. QED
    BY <1>1, <1>4, <1>5, <1>6, <1>7 DEF HistoryOf

\* A step of request r leaves the histories of the others as they are.
LEMMA OneRequest ==
  ASSUME Typed, History, NEW r \in Requests,
         \A q \in Requests \ {r} :
           /\ calls'[q] = calls[q] /\ pc'[q] = pc[q] /\ sel'[q] = sel[q]
           /\ attempt'[q] = attempt[q] /\ client'[q] = client[q],
         HistoryOf(calls'[r], pc'[r], sel'[r], attempt'[r], client'[r])
  PROVE  History'
  BY DEF History

\* A handler that returns leaves its history as it is.
LEMMA HistoryAtEnd ==
  ASSUME NEW cs, NEW p, NEW s, NEW a, NEW cl, NEW t, NEW b,
         HistoryOf(cs, p, s, a, cl)
  PROVE  HistoryOf(cs, "done", t, b, cl)
  BY DEF HistoryOf

\* A request without calls has a history in order.
LEMMA HistoryInit == Init => History
  <1> SUFFICES ASSUME Init, NEW r \in Requests
               PROVE  HistoryOf(calls[r], pc[r], sel[r], attempt[r], client[r])
    BY DEF History
  <1>1. calls[r] = <<>> /\ pc[r] = "idle" /\ Len(calls[r]) = 0
    BY DEF Init
  <1>2. QED
    BY <1>1 DEF HistoryOf

\* The four ways a failed attempt goes on, for the history.
LEMMA AttemptFailsHistory ==
  ASSUME TypeInv, History, NEW r \in Requests, pc[r] = "executing",
         NEW status \in {NoResult} \cup 200..999, AttemptFails(r, status)
  PROVE  History'
  <1> DEFINE code == StatusCode(status)
             cs == calls[r]
             ds == calls'[r]
  <1>1. status \in Statuses /\ cs # <<>> /\ cs \in Seq(Call)
    BY DEF Statuses, NoResult, TypeInv, Typed, Located, WellPlaced, LoopsInRange
  <1>2. /\ calls' \in [Requests -> Seq(Call)]
        /\ \A q \in Requests \ {r} : calls'[q] = calls[q]
        /\ Len(ds) = Len(cs) /\ ds # <<>> /\ ds \in Seq(Call)
        /\ LastOf(ds).sel = LastOf(cs).sel /\ LastOf(ds).attempt = LastOf(cs).attempt
        /\ LastOf(ds).late = LastOf(cs).late
        /\ LastOf(ds).outcome = "failed" /\ LastOf(ds).status = status
        /\ \A i \in 1..(Len(cs) - 1) : ds[i] = cs[i]
    <2>1. Typed /\ Returned(r, "failed", status)
      BY DEF TypeInv, AttemptFails
    <2>2. QED
      BY <1>1, <2>1, ReturnedCalls
  <1>3. HistoryOf(cs, "executing", sel[r], attempt[r], client[r])
    BY DEF History
  <1> HIDE DEF cs, ds
  <1>4. HistoryOf(ds, "executing", sel[r], attempt[r], client[r])
    BY <1>1, <1>2, <1>3, UpdateCall
  <1>5. /\ \A q \in Requests \ {r} : client'[q] = client[q]
        /\ client'[r] = client[r]
        /\ LastOf(ds).sel = sel[r] /\ LastOf(ds).attempt = attempt[r]
    BY <1>4 DEF AttemptFails, HistoryOf
  <1>6. client[r] = "here" => ~LastOf(ds).late
    <2>1. Len(ds) \in 1..Len(ds)
      BY <1>2
    <2>2. QED
      BY <1>4, <2>1 DEF HistoryOf, LastOf
  <1>7. ASSUME pc' = [pc EXCEPT ![r] = "done"], UNCHANGED <<sel, attempt>>
        PROVE  History'
    <2>1. pc'[r] = "done" /\ sel'[r] = sel[r] /\ attempt'[r] = attempt[r]
      BY <1>7 DEF TypeInv, Typed
    <2>2. HistoryOf(ds, "done", sel[r], attempt[r], client[r])
      BY <1>4, HistoryAtEnd
    <2>3. HistoryOf(ds, pc'[r], sel'[r], attempt'[r], client'[r])
      BY <1>5, <2>1, <2>2
    <2>4. \A q \in Requests \ {r} : /\ pc'[q] = pc[q] /\ sel'[q] = sel[q]
                                    /\ attempt'[q] = attempt[q]
      BY <1>7 DEF TypeInv, Typed
    <2>5. Typed
      BY DEF TypeInv
    <2>6. QED
      BY <1>2, <1>5, <2>3, <2>4, <2>5, OneRequest DEF ds
  <1>8. CASE Abandon(r)
    BY <1>7, <1>8 DEF Abandon, Return
  <1>9. CASE Retry(r, code)
    <2>1. /\ pc'[r] = "attempt" /\ attempt'[r] = attempt[r] + 1 /\ sel'[r] = sel[r]
          /\ \A q \in Requests \ {r} : /\ pc'[q] = pc[q] /\ sel'[q] = sel[q]
                                       /\ attempt'[q] = attempt[q]
      BY <1>9 DEF Retry, TypeInv, Typed
    <2>2. Follows(LastOf(ds), [sel |-> sel'[r], attempt |-> attempt'[r]])
      BY <1>2, <1>5, <1>9, <2>1 DEF Follows, Retry
    <2>3. HistoryOf(ds, pc'[r], sel'[r], attempt'[r], client'[r])
      BY <1>2, <1>4, <1>5, <1>6, <1>9, <2>1, <2>2 DEF HistoryOf, Retry
    <2>4. QED
      BY <1>2, <1>5, <2>1, <2>3, OneRequest DEF TypeInv, ds
  <1>10. CASE FallBack(r, code)
    <2>1. /\ pc'[r] = "plan" /\ sel'[r] = sel[r] + 1 /\ attempt[r] = maxRetries
          /\ \A q \in Requests \ {r} : /\ pc'[q] = pc[q] /\ sel'[q] = sel[q]
                                       /\ attempt'[q] = attempt[q]
      BY <1>10 DEF FallBack, TypeInv, Typed
    <2>2. Follows(LastOf(ds), [sel |-> sel'[r], attempt |-> 1])
      BY <1>2, <1>5, <1>10, <2>1 DEF Follows, FallBack
    <2>3. HistoryOf(ds, pc'[r], sel'[r], attempt'[r], client'[r])
      BY <1>2, <1>4, <1>5, <1>6, <1>10, <2>1, <2>2 DEF HistoryOf, FallBack
    <2>4. QED
      BY <1>2, <1>5, <2>1, <2>3, OneRequest DEF TypeInv, ds
  <1>11. CASE GiveUp(r, code)
    BY <1>7, <1>11 DEF GiveUp, RespondError, Return
  <1>12. QED
    BY <1>8, <1>9, <1>10, <1>11 DEF AttemptFails

\* Every action keeps the history in order, and its end in step with the loops.
LEMMA HistoryNext == TypeInv /\ History /\ [Next]_vars => History'
  <1> SUFFICES ASSUME TypeInv, History, [Next]_vars PROVE History'
    OBVIOUS
  <1>1. CASE UNCHANGED vars
    BY <1>1 DEF History, vars
  <1>2. ASSUME NEW r \in Requests, RejectToken(r) PROVE History'
    <2>1. /\ UNCHANGED <<calls, sel, attempt, client>>
          /\ pc' = [pc EXCEPT ![r] = "done"]
      BY <1>2 DEF RejectToken, Return
    <2>2. QED
      BY <2>1, HistoryAtEnd DEF History, TypeInv, Typed
  <1>3. ASSUME NEW r \in Requests, BodyFails(r) PROVE History'
    <2>1. /\ UNCHANGED <<calls, sel, attempt, client>>
          /\ pc' = [pc EXCEPT ![r] = "done"]
      BY <1>3 DEF BodyFails, Return
    <2>2. QED
      BY <2>1, HistoryAtEnd DEF History, TypeInv, Typed
  <1>4. ASSUME NEW r \in Requests, DecodeFails(r) PROVE History'
    <2>1. /\ UNCHANGED <<calls, sel, attempt, client>>
          /\ pc' = [pc EXCEPT ![r] = "done"]
      BY <1>4 DEF DecodeFails, RespondError, Return
    <2>2. QED
      BY <2>1, HistoryAtEnd DEF History, TypeInv, Typed
  <1>5. ASSUME NEW r \in Requests, ModelUnknown(r) PROVE History'
    <2>1. /\ UNCHANGED <<calls, sel, attempt, client>>
          /\ pc' = [pc EXCEPT ![r] = "done"]
      BY <1>5 DEF ModelUnknown, RespondError, Return
    <2>2. QED
      BY <2>1, HistoryAtEnd DEF History, TypeInv, Typed
  <1>6. ASSUME NEW r \in Requests, EncodeFails(r) PROVE History'
    <2>1. /\ UNCHANGED <<calls, sel, attempt, client>>
          /\ pc' = [pc EXCEPT ![r] = "done"]
      BY <1>6 DEF EncodeFails, RespondError, Return
    <2>2. QED
      BY <2>1, HistoryAtEnd DEF History, TypeInv, Typed
  <1>7. ASSUME NEW r \in Requests, AnswerNonStream(r) PROVE History'
    <2>1. /\ UNCHANGED <<calls, sel, attempt, client>>
          /\ pc' = [pc EXCEPT ![r] = "done"]
      BY <1>7 DEF AnswerNonStream, RespondError, Return
    <2>2. QED
      BY <2>1, HistoryAtEnd DEF History, TypeInv, Typed
  <1>8. ASSUME NEW r \in Requests, NEW whole, NEW scanError,
                StreamReturns(r, whole, scanError)
         PROVE  History'
    <2>1. /\ UNCHANGED <<calls, sel, attempt, client>>
          /\ pc' = [pc EXCEPT ![r] = "done"]
      BY <1>8 DEF StreamReturns, Return
    <2>2. QED
      BY <2>1, HistoryAtEnd DEF History, TypeInv, Typed
  <1>9. ASSUME NEW r \in Requests, Arrive(r) PROVE History'
    <2>1. HistoryOf(calls[r], pc[r], sel[r], attempt[r], client[r])
      BY DEF History
    <2>2. HistoryOf(calls'[r], pc'[r], sel'[r], attempt'[r], client'[r])
      BY <1>9, <2>1 DEF HistoryOf, Arrive, TypeInv, Typed
    <2>3. QED
      BY <1>9, <2>2, OneRequest DEF Arrive, TypeInv, Typed
  <1>10. ASSUME NEW r \in Requests, Accept(r) PROVE History'
    <2>1. HistoryOf(calls[r], pc[r], sel[r], attempt[r], client[r])
      BY DEF History
    <2>2. HistoryOf(calls'[r], pc'[r], sel'[r], attempt'[r], client'[r])
      BY <1>10, <2>1 DEF HistoryOf, Accept, TypeInv, Typed
    <2>3. QED
      BY <1>10, <2>2, OneRequest DEF Accept, TypeInv, Typed
  <1>11. ASSUME NEW r \in Requests, PlanSelection(r) PROVE History'
    <2>1. HistoryOf(calls[r], pc[r], sel[r], attempt[r], client[r])
      BY DEF History
    <2>2. HistoryOf(calls'[r], pc'[r], sel'[r], attempt'[r], client'[r])
      BY <1>11, <2>1 DEF HistoryOf, PlanSelection, TypeInv, Typed
    <2>3. QED
      BY <1>11, <2>2, OneRequest DEF PlanSelection, TypeInv, Typed
  <1>12. ASSUME NEW r \in Requests, Disconnect(r) PROVE History'
    <2>1. HistoryOf(calls[r], pc[r], sel[r], attempt[r], client[r])
      BY DEF History
    <2>2. HistoryOf(calls'[r], pc'[r], sel'[r], attempt'[r], client'[r])
      BY <1>12, <2>1 DEF HistoryOf, Disconnect, TypeInv, Typed
    <2>3. QED
      BY <1>12, <2>2, OneRequest DEF Disconnect, TypeInv, Typed
  <1>13. ASSUME NEW r \in Requests, StartAttempt(r) PROVE History'
    <2> DEFINE gone == client[r] = "gone"
               c == [sel |-> sel[r], attempt |-> attempt[r], late |-> gone,
                     outcome |-> "pending", status |-> NoResult]
    <2>1. /\ HistoryOf(calls[r], "attempt", sel[r], attempt[r], client[r])
          /\ calls[r] \in Seq(Call) /\ sel[r] \in Nat /\ attempt[r] \in 1..maxRetries
      BY <1>13 DEF History, StartAttempt, TypeInv, Typed, Located, WellPlaced, LoopsInRange
    <2>2. calls' = [calls EXCEPT ![r] = Append(@, c)]
      BY <1>13 DEF StartAttempt
    <2>3. gone \in BOOLEAN /\ NoResult \in Statuses /\ (gone => client[r] = "gone")
      BY DEF Statuses, NoResult
    <2> HIDE DEF gone
    <2>4. c \in Call /\ c.sel = sel[r] /\ c.attempt = attempt[r] /\ c.late = gone
      BY <2>1, <2>3 DEF Call
    <2> HIDE DEF c
    <2>5. HistoryOf(Append(calls[r], c), "executing", sel[r], attempt[r], client[r])
      BY <2>1, <2>3, <2>4, AppendCall
    <2>6. QED
      BY <1>13, <2>2, <2>5, OneRequest DEF StartAttempt, TypeInv, Typed
  <1>14. ASSUME NEW r \in Requests, ExecuteSucceeds(r) PROVE History'
    <2>1. /\ 200 \in Statuses /\ Returned(r, "ok", 200) /\ calls[r] # <<>>
          /\ Typed /\ calls[r] \in Seq(Call)
          /\ HistoryOf(calls[r], "executing", sel[r], attempt[r], client[r])
      BY <1>14 DEF ExecuteSucceeds, Statuses, TypeInv, Typed, Located, WellPlaced, LoopsInRange, History
    <2>2. /\ calls' \in [Requests -> Seq(Call)]
          /\ \A q \in Requests \ {r} : calls'[q] = calls[q]
          /\ Len(calls'[r]) = Len(calls[r])
          /\ LastOf(calls'[r]).sel = LastOf(calls[r]).sel
          /\ LastOf(calls'[r]).attempt = LastOf(calls[r]).attempt
          /\ LastOf(calls'[r]).late = LastOf(calls[r]).late
          /\ LastOf(calls'[r]).outcome = "ok"
          /\ \A i \in 1..(Len(calls[r]) - 1) : calls'[r][i] = calls[r][i]
      BY <2>1, ReturnedCalls
    <2>3. pc'[r] \in {"answering", "streaming"} /\ UNCHANGED <<sel, attempt, client>>
      BY <1>14 DEF ExecuteSucceeds, TypeInv, Typed
    <2>4. calls'[r] \in Seq(Call)
      BY <2>2
    <2>5. HistoryOf(calls'[r], pc'[r], sel[r], attempt[r], client[r])
      BY <2>1, <2>2, <2>3, <2>4, UpdateCall
    <2>6. \A q \in Requests \ {r} : pc'[q] = pc[q]
      BY <1>14 DEF ExecuteSucceeds, TypeInv, Typed
    <2>7. QED
      BY <2>1, <2>2, <2>3, <2>5, <2>6, OneRequest
  <1>15. ASSUME NEW r \in Requests, ExecuteFails(r) PROVE History'
    <2>1. PICK status \in FailedStatuses(Mode(r)) : AttemptFails(r, status)
      BY <1>15 DEF ExecuteFails
    <2>2. status \in {NoResult} \cup 200..999
      BY PipelineAssumption DEF FailedStatuses
    <2>3. QED
      BY <1>15, <2>1, <2>2, AttemptFailsHistory DEF ExecuteFails
  <1>16. ASSUME NEW r \in Requests, ContextEnds(r) PROVE History'
    BY <1>16, AttemptFailsHistory DEF ContextEnds
  <1>17. QED
    BY <1>1, <1>2, <1>3, <1>4, <1>5, <1>6, <1>7, <1>8, <1>9, <1>10, <1>11, <1>12, <1>13, <1>14, <1>15, <1>16
    DEF Next, Finished, UpstreamEndsStream, StreamContextEnds

\* The upstreams are called in order, without a gap or a repetition, for every
\* configuration.
THEOREM CallsInOrder == Spec => []CallOrder
  <1>1. TypeInv /\ History => CallOrder
    BY DEF History, HistoryOf, CallOrder
  <1>2. QED
    BY <1>1, TypeInit, TypeNext, HistoryInit, HistoryNext, PTL DEF Spec

\* At most one attempt begins after the client has gone, for every configuration
\* and every moment of its leaving.
THEOREM LateCallIsLast == Spec => []LateIsLast
  <1>1. TypeInv /\ History => LateIsLast
    BY DEF History, HistoryOf, LateIsLast
  <1>2. QED
    BY <1>1, TypeInit, TypeNext, HistoryInit, HistoryNext, PTL DEF Spec

(* ---------------- contexts, records and responses ---------------------- *)

\* No context is alive at the start.
LEMMA ContextsInit == Init => ContextsReleased
  BY DEF Init, ContextsReleased

\* A context is made by StartAttempt and cancelled by the step that leaves it.
LEMMA ContextsNext == TypeInv /\ ContextsReleased /\ [Next]_vars => ContextsReleased'
  <1> SUFFICES ASSUME TypeInv, ContextsReleased, [Next]_vars PROVE ContextsReleased'
    OBVIOUS
  <1> USE DEF ContextsReleased, TypeInv, Typed
  <1>1. CASE UNCHANGED vars
    BY <1>1 DEF vars
  <1>2. ASSUME NEW r \in Requests,
               \/ RejectToken(r) \/ Arrive(r) \/ BodyFails(r) \/ DecodeFails(r)
               \/ ModelUnknown(r) \/ Accept(r) \/ EncodeFails(r) \/ PlanSelection(r)
        PROVE  ContextsReleased'
    <2>1. live' = live
      BY <1>2 DEF RejectToken, Arrive, BodyFails, DecodeFails, ModelUnknown, Accept,
                  EncodeFails, PlanSelection
    <2>2. pc[r] \in {"idle", "body", "plan"}
      BY <1>2 DEF RejectToken, Arrive, BodyFails, DecodeFails, ModelUnknown, Accept,
                  EncodeFails, PlanSelection
    <2>3. \E p \in {"body", "plan", "attempt", "done"} : pc' = [pc EXCEPT ![r] = p]
      <3>1. CASE RejectToken(r) \/ BodyFails(r)
        BY <3>1 DEF RejectToken, BodyFails, Return
      <3>2. CASE DecodeFails(r) \/ ModelUnknown(r) \/ EncodeFails(r)
        BY <3>2 DEF DecodeFails, ModelUnknown, EncodeFails, RespondError, Return
      <3>3. CASE Arrive(r) \/ Accept(r) \/ PlanSelection(r)
        BY <3>3 DEF Arrive, Accept, PlanSelection
      <3>4. QED
        BY <1>2, <3>1, <3>2, <3>3
    <2>4. QED
      BY <2>1, <2>2, <2>3
  <1>3. ASSUME NEW r \in Requests, StartAttempt(r) PROVE ContextsReleased'
    BY <1>3 DEF StartAttempt
  <1>4. ASSUME NEW r \in Requests, ExecuteSucceeds(r) PROVE ContextsReleased'
    BY <1>4 DEF ExecuteSucceeds
  <1>5. ASSUME NEW r \in Requests, pc[r] = "executing", NEW status, AttemptFails(r, status)
        PROVE  ContextsReleased'
    <2>1. live' = [live EXCEPT ![r] = @ - 1] /\ live[r] = 1
      BY <1>5 DEF AttemptFails
    <2>2. \E p \in {"done", "attempt", "plan"} : pc' = [pc EXCEPT ![r] = p]
      BY <1>5 DEF AttemptFails, Abandon, Retry, FallBack, GiveUp, RespondError, Return
    <2>3. QED
      BY <2>1, <2>2
  <1>6. ASSUME NEW r \in Requests, AnswerNonStream(r) PROVE ContextsReleased'
    <2>1. live' = [live EXCEPT ![r] = @ - 1] /\ live[r] = 1
      BY <1>6 DEF AnswerNonStream
    <2>2. pc' = [pc EXCEPT ![r] = "done"]
      BY <1>6 DEF AnswerNonStream, RespondError, Return
    <2>3. QED
      BY <2>1, <2>2
  <1>7. ASSUME NEW r \in Requests, NEW whole, NEW scanError,
               StreamReturns(r, whole, scanError)
        PROVE  ContextsReleased'
    BY <1>7 DEF StreamReturns, Return
  <1>8. ASSUME NEW r \in Requests, Disconnect(r) PROVE ContextsReleased'
    BY <1>8 DEF Disconnect
  <1>9. QED
    BY <1>1, <1>2, <1>3, <1>4, <1>5, <1>6, <1>7, <1>8
    DEF Next, Finished, ExecuteFails, ContextEnds, UpstreamEndsStream, StreamContextEnds

\* Every attempt context is cancelled exactly once, on every path through the
\* retries, the fallback and the two ways of answering.
THEOREM NoContextLeaks == Spec => []ContextsReleased
  BY TypeInit, TypeNext, ContextsInit, ContextsNext, PTL DEF Spec

\* Nothing is written or recorded while a handler is busy.
Silent == \A r \in Requests : pc[r] # "done" => resp[r] = Unanswered /\ records[r] = <<>>

OutcomeInv == Silent /\ RecordTellsOutcome

\* A request that has not ended has neither a response nor a record.
LEMMA OutcomeInit == Init => OutcomeInv
  BY DEF Init, OutcomeInv, Silent, RecordTellsOutcome, TellsOutcome

\* The record of a handler that returns is the only one.
LEMMA FirstRecord ==
  ASSUME NEW s, s = <<>>, NEW e
  PROVE  s \o <<e>> = <<e>>
  <1>1. <<>> \o <<e>> = <<e>>
    <2>1. <<>> \in Seq({e}) /\ <<e>> \in Seq({e})
      OBVIOUS
    <2>2. QED
      BY <2>1
  <1>2. QED
    BY <1>1

\* The exit that tells the client an error leaves the record of that error.
LEMMA ErrorOutcome ==
  ASSUME TypeInv, Silent, NEW r \in Requests, pc[r] # "done",
         NEW status, NEW m, NEW u, RespondError(r, status, m, u)
  PROVE  TellsOutcome(r)' /\ pc'[r] = "done"
  <1>1. records[r] \o <<Failure(m, u, status)>> = <<Failure(m, u, status)>>
    BY FirstRecord DEF Silent
  <1>2. /\ pc'[r] = "done"
        /\ resp'[r] = [kind |-> "error", status |-> status, whole |-> TRUE]
        /\ records'[r] = <<Failure(m, u, status)>>
    BY <1>1 DEF RespondError, Return, TypeInv, Typed
  <1>3. Len(records'[r]) = 1 /\ records'[r][1] = Failure(m, u, status)
    BY <1>2
  <1>4. QED
    BY <1>2, <1>3 DEF TellsOutcome, Failure

\* So does the exit of a response: the record names the last call's upstream.
LEMMA SuccessOutcome ==
  ASSUME TypeInv, History, Silent, NEW r \in Requests, pc[r] \in {"answering", "streaming"},
         UNCHANGED <<calls, req>>, NEW kind \in {"message", "stream"}, NEW whole,
         Return(r, [kind |-> kind, status |-> 200, whole |-> whole],
                <<[model |-> req[r].model, upstream |-> Rule(r),
                   success |-> TRUE, code |-> 0]>>)
  PROVE  TellsOutcome(r)' /\ pc'[r] = "done"
  <1> DEFINE record == [model |-> req[r].model, upstream |-> Rule(r),
                        success |-> TRUE, code |-> 0]
  <1>1. LastCall(r).outcome = "ok" /\ Rule(r) = Candidates(r)[LastCall(r).sel]
    BY DEF History, HistoryOf, LastCall, LastOf, Rule
  <1>2. records[r] \o <<record>> = <<record>>
    BY FirstRecord DEF Silent
  <1>3. /\ pc'[r] = "done"
        /\ resp'[r].kind = kind
        /\ records'[r] = <<record>>
    BY <1>2 DEF Return, TypeInv, Typed
  <1>4. /\ LastCall(r)' = LastCall(r) /\ Candidates(r)' = Candidates(r)
        /\ req'[r] = req[r]
    BY DEF LastCall, Candidates
  <1>5. QED
    BY <1>1, <1>3, <1>4 DEF TellsOutcome

\* A request that was dropped has its excuse.
LEMMA DroppedOutcome ==
  ASSUME TypeInv, Silent, NEW r \in Requests, pc[r] # "done",
         Return(r, resp[r], <<>>),
         client'[r] = "gone" \/ LastCall(r)'.status = 499
  PROVE  TellsOutcome(r)' /\ pc'[r] = "done"
  <1>1. records[r] \o <<>> = <<>> /\ resp[r].kind = "none"
    BY DEF Silent, Unanswered
  <1>2. pc'[r] = "done" /\ resp'[r].kind = "none" /\ records'[r] = <<>>
    BY <1>1 DEF Return, TypeInv, Typed
  <1>3. QED
    BY <1>2 DEF TellsOutcome

\* A step of request r leaves the outcomes of the others as they are.
LEMMA OneOutcome ==
  ASSUME TypeInv, OutcomeInv, NEW r \in Requests,
         \A q \in Requests \ {r} :
           /\ calls'[q] = calls[q] /\ pc'[q] = pc[q] /\ req'[q] = req[q]
           /\ resp'[q] = resp[q] /\ records'[q] = records[q] /\ client'[q] = client[q],
         TellsOutcome(r)',
         pc'[r] # "done" => resp'[r] = Unanswered /\ records'[r] = <<>>
  PROVE  OutcomeInv'
  <1>1. ASSUME NEW q \in Requests \ {r} PROVE TellsOutcome(q)'
    <2>1. TellsOutcome(q)
      BY DEF OutcomeInv, RecordTellsOutcome
    <2>2. /\ calls'[q] = calls[q]
          /\ pc'[q] = pc[q] /\ resp'[q] = resp[q] /\ records'[q] = records[q]
          /\ client'[q] = client[q] /\ req'[q] = req[q]
      OBVIOUS
    <2>3. LastCall(q)' = LastCall(q) /\ Candidates(q)' = Candidates(q)
      BY <2>2 DEF LastCall, Candidates
    <2>4. CASE (pc[q] # "done" \/ resp[q].kind = "rejected") /\ records[q] = <<>>
      BY <2>2, <2>4 DEF TellsOutcome
    <2>5. CASE /\ pc[q] = "done" /\ resp[q].kind = "none" /\ records[q] = <<>>
               /\ client[q] = "gone" \/ LastCall(q).status = 499
      BY <2>2, <2>3, <2>5 DEF TellsOutcome
    <2>6. CASE /\ pc[q] = "done" /\ resp[q].kind \in {"message", "stream"}
               /\ LastCall(q).outcome = "ok"
               /\ records[q] =
                    <<[model |-> req[q].model, success |-> TRUE, code |-> 0,
                       upstream |-> Candidates(q)[LastCall(q).sel]]>>
      BY <2>2, <2>3, <2>6 DEF TellsOutcome
    <2>7. CASE /\ pc[q] = "done" /\ resp[q].kind = "error" /\ Len(records[q]) = 1
               /\ ~records[q][1].success /\ records[q][1].code = resp[q].status
      BY <2>2, <2>7 DEF TellsOutcome
    <2>8. QED
      BY <2>1, <2>4, <2>5, <2>6, <2>7 DEF TellsOutcome
  <1>2. QED
    BY <1>1 DEF OutcomeInv, RecordTellsOutcome, Silent

\* The four ways a failed attempt goes on, for the outcome.
LEMMA AttemptFailsOutcome ==
  ASSUME TypeInv, OutcomeInv, NEW r \in Requests, pc[r] = "executing",
         NEW status \in {NoResult} \cup 200..999, AttemptFails(r, status)
  PROVE  OutcomeInv'
  <1> DEFINE code == StatusCode(status)
  <1>1. status \in Statuses /\ calls[r] # <<>> /\ calls[r] \in Seq(Call) /\ LastCall(r) \in Call
    BY DEF Statuses, NoResult, TypeInv, Typed, Located, WellPlaced, LoopsInRange, LastCall
  <1>2. /\ \A q \in Requests \ {r} : calls'[q] = calls[q]
        /\ LastOf(calls'[r]).status = status
    <2>1. Typed /\ Returned(r, "failed", status)
      BY DEF AttemptFails, TypeInv
    <2>2. QED
      BY <1>1, <2>1, ReturnedCalls
  <1>3. LastCall(r)'.status = status
    BY <1>2 DEF LastCall, LastOf
  <1>4. UNCHANGED <<client, req>>
    BY DEF AttemptFails
  <1>5. ASSUME TellsOutcome(r)', pc'[r] = "done",
               pc' = [pc EXCEPT ![r] = "done"],
               NEW response, resp' = [resp EXCEPT ![r] = response],
               NEW added, records' = [records EXCEPT ![r] = added]
        PROVE  OutcomeInv'
    BY <1>2, <1>4, <1>5, OneOutcome DEF TypeInv, Typed
  <1>6. CASE Abandon(r)
    <2>1. TellsOutcome(r)' /\ pc'[r] = "done"
      BY <1>4, <1>6, DroppedOutcome DEF Abandon, OutcomeInv
    <2>2. QED
      BY <1>5, <1>6, <2>1 DEF Abandon, Return
  <1>7. CASE Retry(r, code) \/ FallBack(r, code)
    <2>1. /\ \A q \in Requests \ {r} : pc'[q] = pc[q]
          /\ pc'[r] # "done" /\ UNCHANGED <<resp, records>>
      BY <1>7 DEF Retry, FallBack, TypeInv, Typed
    <2>2. resp[r] = Unanswered /\ records[r] = <<>>
      BY DEF OutcomeInv, Silent
    <2>3. TellsOutcome(r)'
      BY <2>1, <2>2 DEF TellsOutcome
    <2>4. QED
      BY <1>2, <1>4, <2>1, <2>2, <2>3, OneOutcome
  <1>8. CASE GiveUp(r, code)
    <2>1. CASE code = 499
      <3>1. LastCall(r)'.status = 499
        BY <1>3, <2>1 DEF StatusCode, BadGateway
      <3>2. TellsOutcome(r)' /\ pc'[r] = "done"
        BY <1>8, <2>1, <3>1, DroppedOutcome DEF GiveUp, OutcomeInv
      <3>3. QED
        BY <1>5, <1>8, <2>1, <3>2 DEF GiveUp, Return
    <2>2. CASE code # 499
      <3>1. RespondError(r, code, req[r].model, Rule(r))
        BY <1>8, <2>2 DEF GiveUp
      <3>2. TellsOutcome(r)' /\ pc'[r] = "done"
        BY <3>1, ErrorOutcome DEF OutcomeInv
      <3>3. QED
        BY <1>5, <3>1, <3>2 DEF RespondError, Return
    <2>3. QED
      BY <2>1, <2>2
  <1>9. QED
    BY <1>6, <1>7, <1>8 DEF AttemptFails

\* Every action keeps the outcome in agreement with the record.
LEMMA OutcomeNext == TypeInv /\ History /\ OutcomeInv /\ [Next]_vars => OutcomeInv'
  <1> SUFFICES ASSUME TypeInv, History, OutcomeInv, [Next]_vars PROVE OutcomeInv'
    OBVIOUS
  <1>1. CASE UNCHANGED vars
    BY <1>1 DEF OutcomeInv, Silent, RecordTellsOutcome, TellsOutcome, LastCall,
                Candidates, vars
  <1>2. ASSUME NEW r \in Requests, RejectToken(r) PROVE OutcomeInv'
    <2>1. /\ records[r] = <<>> /\ records[r] \o <<>> = <<>>
      BY <1>2 DEF RejectToken, OutcomeInv, Silent
    <2>2. /\ pc'[r] = "done" /\ resp'[r].kind = "rejected" /\ records'[r] = <<>>
          /\ UNCHANGED <<calls, client, req>>
      BY <1>2, <2>1 DEF RejectToken, Return, TypeInv, Typed
    <2>3. TellsOutcome(r)'
      BY <2>2 DEF TellsOutcome
    <2>4. QED
      BY <1>2, <2>2, <2>3, OneOutcome DEF RejectToken, Return, TypeInv, Typed
  <1>3. ASSUME NEW r \in Requests, NEW status, NEW m, NEW u,
               pc[r] # "done", RespondError(r, status, m, u),
               UNCHANGED <<calls, client, req>>
        PROVE  OutcomeInv'
    <2>1. TellsOutcome(r)' /\ pc'[r] = "done"
      BY <1>3, ErrorOutcome DEF OutcomeInv
    <2>2. QED
      BY <1>3, <2>1, OneOutcome DEF RespondError, Return, TypeInv, Typed
  <1>4. ASSUME NEW r \in Requests, BodyFails(r) PROVE OutcomeInv'
    <2>1. PICK status \in {400, 413} :
            Return(r, [kind |-> "error", status |-> status, whole |-> TRUE],
                   <<Failure(NoName, NoName, status)>>)
      BY <1>4 DEF BodyFails
    <2>2. records[r] = <<>> /\ UNCHANGED <<calls, client, req>>
      BY <1>4 DEF BodyFails, OutcomeInv, Silent
    <2>3. records[r] \o <<Failure(NoName, NoName, status)>> = <<Failure(NoName, NoName, status)>>
      BY <2>2
    <2>4. /\ pc'[r] = "done"
          /\ resp'[r] = [kind |-> "error", status |-> status, whole |-> TRUE]
          /\ records'[r] = <<Failure(NoName, NoName, status)>>
      BY <2>1, <2>3 DEF Return, TypeInv, Typed
    <2>5. Len(records'[r]) = 1 /\ records'[r][1] = Failure(NoName, NoName, status)
      BY <2>4
    <2>6. TellsOutcome(r)'
      BY <2>4, <2>5 DEF TellsOutcome, Failure
    <2>7. QED
      BY <2>1, <2>2, <2>4, <2>6, OneOutcome DEF Return, TypeInv, Typed
  <1>5. ASSUME NEW r \in Requests,
               DecodeFails(r) \/ ModelUnknown(r) \/ EncodeFails(r)
        PROVE  OutcomeInv'
    BY <1>3, <1>5 DEF DecodeFails, ModelUnknown, EncodeFails
  <1>6. ASSUME NEW r \in Requests, pc[r] # "done", pc'[r] # "done",
               \A q \in Requests \ {r} :
                 /\ calls'[q] = calls[q] /\ pc'[q] = pc[q] /\ req'[q] = req[q]
                 /\ client'[q] = client[q],
               UNCHANGED <<resp, records>>
        PROVE  OutcomeInv'
    <2>1. resp[r] = Unanswered /\ records[r] = <<>>
      BY <1>6 DEF OutcomeInv, Silent
    <2>2. TellsOutcome(r)'
      BY <1>6, <2>1 DEF TellsOutcome
    <2>3. QED
      BY <1>6, <2>1, <2>2, OneOutcome
  <1>7. ASSUME NEW r \in Requests,
               \/ Arrive(r) \/ Accept(r) \/ PlanSelection(r) \/ StartAttempt(r)
               \/ ExecuteSucceeds(r) \/ Disconnect(r)
        PROVE  OutcomeInv'
    <2>1. /\ pc[r] # "done" /\ pc'[r] # "done"
          /\ \A q \in Requests \ {r} :
                /\ calls'[q] = calls[q] /\ pc'[q] = pc[q] /\ req'[q] = req[q]
                /\ client'[q] = client[q]
          /\ UNCHANGED <<resp, records>>
      BY <1>7 DEF Arrive, Accept, PlanSelection, StartAttempt, ExecuteSucceeds,
                  Returned, Disconnect, TypeInv, Typed
    <2>2. QED
      BY <1>6, <2>1
  <1>8. ASSUME NEW r \in Requests, ExecuteFails(r) PROVE OutcomeInv'
    <2>1. PICK status \in FailedStatuses(Mode(r)) : AttemptFails(r, status)
      BY <1>8 DEF ExecuteFails
    <2>2. status \in {NoResult} \cup 200..999
      BY PipelineAssumption DEF FailedStatuses
    <2>3. QED
      BY <1>8, <2>1, <2>2, AttemptFailsOutcome DEF ExecuteFails
  <1>9. ASSUME NEW r \in Requests, ContextEnds(r) PROVE OutcomeInv'
    BY <1>9, AttemptFailsOutcome DEF ContextEnds
  <1>10. ASSUME NEW r \in Requests, NEW kind \in {"message", "stream"}, NEW whole,
                pc[r] \in {"answering", "streaming"}, UNCHANGED <<calls, req, client>>,
                Return(r, [kind |-> kind, status |-> 200, whole |-> whole],
                       <<[model |-> req[r].model, upstream |-> Rule(r),
                          success |-> TRUE, code |-> 0]>>)
         PROVE  OutcomeInv'
    <2>1. TellsOutcome(r)' /\ pc'[r] = "done"
      BY <1>10, SuccessOutcome DEF OutcomeInv
    <2>2. QED
      BY <1>10, <2>1, OneOutcome DEF Return, TypeInv, Typed
  <1>11. ASSUME NEW r \in Requests, AnswerNonStream(r) PROVE OutcomeInv'
    <2>1. UNCHANGED <<calls, req, client>> /\ pc[r] = "answering" /\ pc[r] # "done"
      BY <1>11 DEF AnswerNonStream
    <2>2. CASE RespondError(r, BadGateway, req[r].model, Rule(r))
      BY <1>3, <2>1, <2>2
    <2>3. CASE Return(r, [kind |-> "message", status |-> 200, whole |-> TRUE],
                      <<[model |-> req[r].model, upstream |-> Rule(r),
                         success |-> TRUE, code |-> 0]>>)
      BY <1>10, <2>1, <2>3
    <2>4. QED
      BY <1>11, <2>2, <2>3 DEF AnswerNonStream
  <1>12. ASSUME NEW r \in Requests, NEW whole, NEW scanError,
                StreamReturns(r, whole, scanError)
         PROVE  OutcomeInv'
    BY <1>10, <1>12 DEF StreamReturns
  <1>13. QED
    BY <1>1, <1>2, <1>4, <1>5, <1>7, <1>8, <1>9, <1>11, <1>12
    DEF Next, Finished, UpstreamEndsStream, StreamContextEnds

\* One record per answered request, that agrees with the answer and names the
\* upstream that gave it; none for a dropped one, which has an excuse.
THEOREM OneTruthfulRecord == Spec => []RecordTellsOutcome
  <1>1. OutcomeInv => RecordTellsOutcome
    BY DEF OutcomeInv
  <1>2. QED
    BY <1>1, TypeInit, TypeNext, HistoryInit, HistoryNext, OutcomeInit, OutcomeNext,
       PTL DEF Spec

(* --------------------------- errors and causes -------------------------- *)

\* Why request r was answered with an error, if it was.
Reason(r) ==
  resp[r].kind = "error" /\ calls[r] # <<>> =>
    \/ LastCall(r).outcome = "ok" /\ resp[r].status = BadGateway
    \/ Rule(r) \in Unencodable /\ resp[r].status = 500
    \/ /\ LastCall(r).outcome = "failed"
       /\ resp[r].status = StatusCode(LastCall(r).status)
       /\ resp[r].status >= 500 =>
            /\ LastCall(r).sel = Len(Candidates(r))
            /\ LastCall(r).attempt = maxRetries

\* A step of request r leaves the reasons of the others as they are.
LEMMA OneReason ==
  ASSUME GivesUpOnlyWhenExhausted, NEW r \in Requests,
         \A q \in Requests \ {r} :
           /\ calls'[q] = calls[q] /\ sel'[q] = sel[q]
           /\ req'[q] = req[q] /\ resp'[q] = resp[q],
         Reason(r)'
  PROVE  GivesUpOnlyWhenExhausted'
  <1>1. ASSUME NEW q \in Requests \ {r} PROVE Reason(q)'
    <2>1. /\ calls'[q] = calls[q] /\ sel'[q] = sel[q] /\ req'[q] = req[q]
          /\ resp'[q] = resp[q]
      OBVIOUS
    <2>2. LastCall(q)' = LastCall(q) /\ Rule(q)' = Rule(q) /\ Candidates(q)' = Candidates(q)
      BY <2>1 DEF LastCall, Rule, Candidates
    <2>3. Reason(q)
      BY DEF GivesUpOnlyWhenExhausted, Reason
    <2> QED
      BY <2>1, <2>2, <2>3 DEF Reason
  <1> QED
    BY <1>1 DEF GivesUpOnlyWhenExhausted, Reason

\* What the client of r is told by respondError.
LEMMA ErrorTold ==
  ASSUME TypeInv, NEW r \in Requests, NEW status, NEW m, NEW u, RespondError(r, status, m, u)
  PROVE  /\ resp'[r].status = status
         /\ \A q \in Requests \ {r} : resp'[q] = resp[q]
  BY DEF RespondError, Return, TypeInv, Typed

\* The four ways a failed attempt goes on, for the reason.
LEMMA AttemptFailsReason ==
  ASSUME TypeInv, History, Silent, GivesUpOnlyWhenExhausted, NEW r \in Requests,
         pc[r] = "executing", NEW status \in {NoResult} \cup 200..999, AttemptFails(r, status)
  PROVE  GivesUpOnlyWhenExhausted'
  <1> DEFINE code == StatusCode(status)
  <1>1. status \in Statuses /\ calls[r] # <<>>
    BY DEF Statuses, NoResult, TypeInv, Located, WellPlaced, LoopsInRange
  <1>2. /\ \A q \in Requests \ {r} : calls'[q] = calls[q]
        /\ LastCall(r)'.status = status
        /\ LastCall(r)'.outcome = "failed"
        /\ LastCall(r)'.sel = LastOf(calls[r]).sel
        /\ LastCall(r)'.attempt = LastOf(calls[r]).attempt
    <2>1. Typed /\ Returned(r, "failed", status)
      BY DEF AttemptFails, TypeInv
    <2> QED
      BY <1>1, <2>1, ReturnedCalls DEF LastCall, LastOf
  <1>3. LastOf(calls[r]).sel = sel[r] /\ LastOf(calls[r]).attempt = attempt[r]
    BY DEF History, HistoryOf
  <1>4. resp[r].kind = "none" /\ req' = req
    BY DEF Silent, Unanswered, AttemptFails
  <1>5. ASSUME sel' = sel \/ sel' = [sel EXCEPT ![r] = @ + 1],
               \A q \in Requests \ {r} : resp'[q] = resp[q],
               Reason(r)'
        PROVE  GivesUpOnlyWhenExhausted'
    BY <1>2, <1>4, <1>5, OneReason DEF TypeInv, Typed
  <1>6. ASSUME Return(r, resp[r], <<>>), sel' = sel PROVE GivesUpOnlyWhenExhausted'
    <2>1. resp' = resp
      BY <1>6 DEF Return, TypeInv, Typed
    <2>2. Reason(r)'
      BY <1>4, <2>1 DEF Reason
    <2> QED
      BY <1>5, <1>6, <2>1, <2>2
  <1>7. CASE Abandon(r)
    BY <1>6, <1>7 DEF Abandon
  <1>8. CASE Retry(r, code) \/ FallBack(r, code)
    <2>1. resp' = resp /\ (sel' = sel \/ sel' = [sel EXCEPT ![r] = @ + 1])
      BY <1>8 DEF Retry, FallBack
    <2>2. Reason(r)'
      BY <1>4, <2>1 DEF Reason
    <2> QED
      BY <1>5, <2>1, <2>2
  <1>9. CASE GiveUp(r, code)
    <2>1. sel' = sel
      BY <1>9 DEF GiveUp
    <2>2. CASE code = 499
      BY <1>6, <1>9, <2>1, <2>2 DEF GiveUp
    <2>3. CASE code # 499
      <3>1. RespondError(r, code, req[r].model, Rule(r))
        BY <1>9, <2>3 DEF GiveUp
      <3>2. resp'[r].status = code /\ \A q \in Requests \ {r} : resp'[q] = resp[q]
        BY <3>1, ErrorTold
      <3>3. code >= 500 => attempt[r] = maxRetries /\ sel[r] = Len(Candidates(r))
        <4>1. code \in Nat
          BY DEF StatusCode, NoResult, BadGateway
        <4> QED
          BY <1>9, <4>1 DEF GiveUp
      <3>4. Candidates(r)' = Candidates(r)
        BY <1>4 DEF Candidates
      <3>5. Reason(r)'
        BY <1>2, <1>3, <3>2, <3>3, <3>4 DEF Reason
      <3> QED
        BY <1>5, <2>1, <3>2, <3>5
    <2> QED
      BY <2>2, <2>3
  <1> QED
    BY <1>7, <1>8, <1>9 DEF AttemptFails

\* Every action keeps errors and their reasons together.
LEMMA ReasonNext ==
  TypeInv /\ History /\ Silent /\ GivesUpOnlyWhenExhausted /\ [Next]_vars
    => GivesUpOnlyWhenExhausted'
  <1> SUFFICES ASSUME TypeInv, History, Silent, GivesUpOnlyWhenExhausted, [Next]_vars
               PROVE  GivesUpOnlyWhenExhausted'
    OBVIOUS
  <1>1. CASE UNCHANGED vars
    BY <1>1 DEF GivesUpOnlyWhenExhausted, LastCall, Rule, Candidates, vars
  <1>2. ASSUME NEW r \in Requests,
               RejectToken(r) \/ BodyFails(r) \/ DecodeFails(r) \/ ModelUnknown(r)
        PROVE  GivesUpOnlyWhenExhausted'
    <2>1. /\ calls' = calls /\ sel' = sel /\ req' = req /\ calls[r] = <<>>
          /\ \E response : resp' = [resp EXCEPT ![r] = response]
      <3>1. pc[r] \in {"idle", "body"}
        BY <1>2 DEF RejectToken, BodyFails, DecodeFails, ModelUnknown
      <3>2. calls[r] = <<>>
        BY <3>1 DEF History, HistoryOf
      <3>3. calls' = calls /\ sel' = sel /\ req' = req
        BY <1>2 DEF RejectToken, BodyFails, DecodeFails, ModelUnknown
      <3>4. \E response : resp' = [resp EXCEPT ![r] = response]
        <4>1. CASE RejectToken(r)
          BY <4>1 DEF RejectToken, Return
        <4>2. CASE BodyFails(r)
          BY <4>2 DEF BodyFails, Return
        <4>3. CASE DecodeFails(r) \/ ModelUnknown(r)
          BY <4>3 DEF DecodeFails, ModelUnknown, RespondError, Return
        <4> QED
          BY <1>2, <4>1, <4>2, <4>3
      <3> QED
        BY <3>2, <3>3, <3>4
    <2>2. Reason(r)'
      BY <2>1 DEF Reason
    <2> QED
      BY <2>1, <2>2, OneReason DEF TypeInv, Typed
  <1>3. ASSUME NEW r \in Requests, EncodeFails(r) PROVE GivesUpOnlyWhenExhausted'
    <2>1. /\ calls' = calls /\ sel' = sel /\ req' = req /\ Rule(r) \in Unencodable
          /\ RespondError(r, 500, req[r].model, Rule(r))
      BY <1>3 DEF EncodeFails
    <2>2. Reason(r)'
      BY <2>1, ErrorTold DEF Reason, Rule, Candidates
    <2> QED
      BY <2>1, <2>2, ErrorTold, OneReason
  <1>4. ASSUME NEW r \in Requests,
               \/ Arrive(r) \/ Accept(r) \/ PlanSelection(r) \/ StartAttempt(r)
               \/ ExecuteSucceeds(r) \/ Disconnect(r)
        PROVE  GivesUpOnlyWhenExhausted'
    <2>1. /\ pc[r] # "done" /\ resp' = resp
          /\ \A q \in Requests \ {r} :
               calls'[q] = calls[q] /\ sel'[q] = sel[q] /\ req'[q] = req[q]
      BY <1>4 DEF Arrive, Accept, PlanSelection, StartAttempt, ExecuteSucceeds, Returned,
                  Disconnect, TypeInv, Typed
    <2>2. Reason(r)'
      BY <2>1 DEF Reason, Silent, Unanswered
    <2> QED
      BY <2>1, <2>2, OneReason
  <1>5. ASSUME NEW r \in Requests, ExecuteFails(r) PROVE GivesUpOnlyWhenExhausted'
    <2>1. PICK status \in FailedStatuses(Mode(r)) : AttemptFails(r, status)
      BY <1>5 DEF ExecuteFails
    <2>2. status \in {NoResult} \cup 200..999
      BY PipelineAssumption DEF FailedStatuses
    <2> QED
      BY <1>5, <2>1, <2>2, AttemptFailsReason DEF ExecuteFails
  <1>6. ASSUME NEW r \in Requests, ContextEnds(r) PROVE GivesUpOnlyWhenExhausted'
    BY <1>6, AttemptFailsReason DEF ContextEnds
  <1>7. ASSUME NEW r \in Requests, AnswerNonStream(r) PROVE GivesUpOnlyWhenExhausted'
    <2>1. /\ calls' = calls /\ sel' = sel /\ req' = req
          /\ LastCall(r).outcome = "ok"
      BY <1>7 DEF AnswerNonStream, History, HistoryOf, LastCall, LastOf
    <2>2. LastCall(r)' = LastCall(r)
      BY <2>1 DEF LastCall
    <2>3. CASE RespondError(r, BadGateway, req[r].model, Rule(r))
      <3>1. Reason(r)'
        BY <2>1, <2>2, <2>3, ErrorTold DEF Reason
      <3> QED
        BY <2>1, <2>3, <3>1, ErrorTold, OneReason
    <2>4. CASE Return(r, [kind |-> "message", status |-> 200, whole |-> TRUE],
                      <<[model |-> req[r].model, upstream |-> Rule(r),
                         success |-> TRUE, code |-> 0]>>)
      <3>1. resp'[r].kind = "message" /\ \A q \in Requests \ {r} : resp'[q] = resp[q]
        BY <2>4 DEF Return, TypeInv, Typed
      <3>2. Reason(r)'
        BY <3>1 DEF Reason
      <3> QED
        BY <2>1, <3>1, <3>2, OneReason
    <2> QED
      BY <1>7, <2>3, <2>4 DEF AnswerNonStream
  <1>8. ASSUME NEW r \in Requests, NEW whole, NEW scanError, StreamReturns(r, whole, scanError)
        PROVE  GivesUpOnlyWhenExhausted'
    <2>1. /\ calls' = calls /\ sel' = sel /\ req' = req
          /\ resp'[r].kind = "stream" /\ \A q \in Requests \ {r} : resp'[q] = resp[q]
      BY <1>8 DEF StreamReturns, Return, TypeInv, Typed
    <2>2. Reason(r)'
      BY <2>1 DEF Reason
    <2> QED
      BY <2>1, <2>2, OneReason
  <1> QED
    BY <1>1, <1>2, <1>3, <1>4, <1>5, <1>6, <1>7, <1>8
    DEF Next, Finished, UpstreamEndsStream, StreamContextEnds

\* An error from an upstream reaches a client only when nobody is left to ask,
\* and it is that of the last call.
THEOREM ErrorsHaveReasons == Spec => []GivesUpOnlyWhenExhausted
  <1>1. Init => GivesUpOnlyWhenExhausted
    BY DEF Init, GivesUpOnlyWhenExhausted
  <1>2. OutcomeInv => Silent
    BY DEF OutcomeInv
  <1> QED
    BY <1>1, <1>2, TypeInit, TypeNext, HistoryInit, HistoryNext, OutcomeInit, OutcomeNext,
       ReasonNext, PTL DEF Spec

(* --------------------------- the contract ------------------------------- *)

\* The call under way has no result yet.
Pending == \A r \in Requests : pc[r] = "executing" => LastCall(r).status = NoResult

LEMMA PendingNext == TypeInv /\ Pending /\ [Next]_vars => Pending'
  <1> SUFFICES ASSUME TypeInv, Pending, [Next]_vars, NEW q \in Requests, pc'[q] = "executing"
               PROVE  LastCall(q)'.status = NoResult
    BY DEF Pending
  <1>1. ASSUME pc[q] = "executing", calls'[q] = calls[q] PROVE LastCall(q)'.status = NoResult
    BY <1>1 DEF Pending, LastCall
  <1>2. CASE UNCHANGED vars
    BY <1>1, <1>2 DEF vars
  <1>3. ASSUME NEW r \in Requests, StartAttempt(r) PROVE LastCall(q)'.status = NoResult
    <2>1. CASE q = r
      <3> DEFINE c == [sel |-> sel[r], attempt |-> attempt[r], late |-> client[r] = "gone",
                       outcome |-> "pending", status |-> NoResult]
      <3>1. calls'[r] = Append(calls[r], c) /\ calls[r] \in Seq(Call) /\ c.status = NoResult
        BY <1>3 DEF StartAttempt, TypeInv, Typed
      <3> HIDE DEF c
      <3>2. LastCall(r)' = c
        BY <3>1 DEF LastCall
      <3> QED
        BY <2>1, <3>1, <3>2
    <2>2. CASE q # r
      BY <1>1, <1>3, <2>2 DEF StartAttempt, TypeInv, Typed
    <2> QED
      BY <2>1, <2>2
  <1>4. ASSUME NEW r \in Requests, NEW p, p # "executing", pc' = [pc EXCEPT ![r] = p],
               \A o \in Requests \ {r} : calls'[o] = calls[o]
        PROVE  LastCall(q)'.status = NoResult
    BY <1>1, <1>4 DEF TypeInv, Typed
  <1>5. ASSUME NEW r \in Requests,
               \/ RejectToken(r) \/ Arrive(r) \/ BodyFails(r) \/ DecodeFails(r)
               \/ ModelUnknown(r) \/ Accept(r) \/ EncodeFails(r) \/ PlanSelection(r)
               \/ AnswerNonStream(r)
        PROVE  LastCall(q)'.status = NoResult
    <2>1. calls' = calls
      BY <1>5 DEF RejectToken, Arrive, BodyFails, DecodeFails, ModelUnknown, Accept,
                  EncodeFails, PlanSelection, AnswerNonStream
    <2>2. \E p \in PCs \ {"executing"} : pc' = [pc EXCEPT ![r] = p]
      BY <1>5 DEF RejectToken, Arrive, BodyFails, DecodeFails, ModelUnknown, Accept,
                  EncodeFails, PlanSelection, AnswerNonStream, RespondError, Return, PCs
    <2> QED
      BY <1>4, <2>1, <2>2
  <1>6. ASSUME NEW r \in Requests, ExecuteSucceeds(r) PROVE LastCall(q)'.status = NoResult
    <2>1. \A o \in Requests \ {r} : calls'[o] = calls[o]
      BY <1>6 DEF ExecuteSucceeds, Returned, TypeInv, Typed
    <2>2. pc' = [pc EXCEPT ![r] = "streaming"] \/ pc' = [pc EXCEPT ![r] = "answering"]
      BY <1>6 DEF ExecuteSucceeds
    <2> QED
      BY <1>4, <2>1, <2>2
  <1>7. ASSUME NEW r \in Requests, NEW status, AttemptFails(r, status)
        PROVE  LastCall(q)'.status = NoResult
    <2>1. \A o \in Requests \ {r} : calls'[o] = calls[o]
      BY <1>7 DEF AttemptFails, Returned, TypeInv, Typed
    <2>2. \E p \in {"done", "attempt", "plan"} : pc' = [pc EXCEPT ![r] = p]
      BY <1>7 DEF AttemptFails, Abandon, Retry, FallBack, GiveUp, RespondError, Return
    <2> QED
      BY <1>4, <2>1, <2>2
  <1>8. ASSUME NEW r \in Requests, NEW whole, NEW scanError, StreamReturns(r, whole, scanError)
        PROVE  LastCall(q)'.status = NoResult
    BY <1>4, <1>8 DEF StreamReturns, Return
  <1>9. ASSUME NEW r \in Requests, Disconnect(r) PROVE LastCall(q)'.status = NoResult
    BY <1>1, <1>9 DEF Disconnect
  <1> QED
    BY <1>2, <1>3, <1>5, <1>6, <1>7, <1>8, <1>9
    DEF Next, Finished, ExecuteFails, ContextEnds, UpstreamEndsStream, StreamContextEnds

\* The phase of a request whose goroutine is at p.
PhaseAt(p) == CASE p = "idle" -> "idle" [] p = "done" -> "closed" [] OTHER -> "open"

LEMMA PhaseMoves ==
  ASSUME TypeInv, NEW r \in Requests, NEW p, pc' = [pc EXCEPT ![r] = p]
  PROVE  Phase' = [Phase EXCEPT ![r] = PhaseAt(p)]
  BY DEF Phase, PhaseAt, TypeInv, Typed

\* What excuses a request without an answer.
ExcusedAt(c, cs) == c = "gone" \/ (cs # <<>> /\ LastOf(cs).status = 499)

LEMMA ExcusedStays ==
  ASSUME NEW r \in Requests,
         \A q \in Requests \ {r} : calls'[q] = calls[q] /\ client'[q] = client[q],
         ExcusedAt(client'[r], calls'[r]) <=> ExcusedAt(client[r], calls[r])
  PROVE  Excused' = Excused
  <1>1. ASSUME NEW q \in Requests
        PROVE  ExcusedAt(client'[q], calls'[q]) = ExcusedAt(client[q], calls[q])
    <2>1. CASE q = r
      BY <2>1 DEF ExcusedAt
    <2>2. CASE q # r
      BY <2>2
    <2> QED
      BY <2>1, <2>2
  <1>2. Excused = [q \in Requests |-> ExcusedAt(client[q], calls[q])]
    BY DEF Excused, ExcusedAt, LastCall, LastOf
  <1>3. Excused' = [q \in Requests |-> ExcusedAt(client'[q], calls'[q])]
    BY DEF Excused, ExcusedAt, LastCall, LastOf
  <1> HIDE DEF ExcusedAt
  <1> QED
    BY <1>1, <1>2, <1>3

LEMMA ExcusedNow ==
  ASSUME NEW r \in Requests,
         \A q \in Requests \ {r} : calls'[q] = calls[q] /\ client'[q] = client[q],
         ExcusedAt(client'[r], calls'[r])
  PROVE  Excused' = [Excused EXCEPT ![r] = TRUE]
  <1>1. ASSUME NEW q \in Requests
        PROVE  ExcusedAt(client'[q], calls'[q]) = IF q = r THEN TRUE ELSE ExcusedAt(client[q], calls[q])
    <2>1. CASE q = r
      BY <2>1 DEF ExcusedAt
    <2>2. CASE q # r
      BY <2>2
    <2> QED
      BY <2>1, <2>2
  <1>2. Excused = [q \in Requests |-> ExcusedAt(client[q], calls[q])]
    BY DEF Excused, ExcusedAt, LastCall, LastOf
  <1>3. Excused' = [q \in Requests |-> ExcusedAt(client'[q], calls'[q])]
    BY DEF Excused, ExcusedAt, LastCall, LastOf
  <1> HIDE DEF ExcusedAt
  <1> QED
    BY <1>1, <1>2, <1>3

\* A request under way is open in the contract.
LEMMA OpenPhase ==
  ASSUME NEW r \in Requests, pc[r] \notin {"idle", "done"}
  PROVE  Phase[r] = "open"
  BY DEF Phase

\* An error and its record.
Told(r, status, m, u) ==
  Return(r, [kind |-> "error", status |-> status, whole |-> TRUE], <<Failure(m, u, status)>>)

\* They are the contract's Fail.
LEMMA FailStep ==
  ASSUME TypeInv, Silent, NEW r \in Requests, pc[r] \notin {"idle", "done"}, Excused' = Excused,
         NEW status \in 200..999, NEW m \in Models \cup {NoName}, NEW u \in Rules \cup {NoName},
         Told(r, status, m, u)
  PROVE  Contract!Next
  <1>1. Phase' = [Phase EXCEPT ![r] = "closed"]
    BY PhaseMoves DEF Told, Return, PhaseAt
  <1>2. records[r] \o <<Failure(m, u, status)>> = <<Failure(m, u, status)>>
    BY FirstRecord DEF Silent
  <1>3. records' = [records EXCEPT ![r] = <<Failure(m, u, status)>>]
    BY <1>2 DEF Told, Return, TypeInv, Typed
  <1>4. Contract!Fail(r)
    BY <1>1, <1>3, OpenPhase DEF Contract!Fail, Told, Return, Failure
  <1> QED
    BY <1>4 DEF Contract!Next

\* A response and its record are the contract's Deliver.
LEMMA DeliverStep ==
  ASSUME TypeInv, Silent, NEW r \in Requests, pc[r] \in {"answering", "streaming"},
         UNCHANGED <<calls, req, client>>,
         NEW kind \in {"message", "stream"}, NEW whole \in BOOLEAN, kind = "message" => whole,
         Return(r, [kind |-> kind, status |-> 200, whole |-> whole],
                <<[model |-> req[r].model, upstream |-> Rule(r),
                   success |-> TRUE, code |-> 0]>>)
  PROVE  Contract!Next
  <1> DEFINE record == [model |-> req[r].model, upstream |-> Rule(r),
                        success |-> TRUE, code |-> 0]
  <1>1. Phase' = [Phase EXCEPT ![r] = "closed"]
    BY PhaseMoves DEF Return, PhaseAt
  <1>2. records[r] \o <<record>> = <<record>>
    BY FirstRecord DEF Silent
  <1>3. records' = [records EXCEPT ![r] = <<record>>]
    BY <1>2 DEF Return, TypeInv, Typed
  <1>4. req[r].model \in Models /\ Rule(r) \in Rules
    BY RuleType DEF TypeInv, Located, WellPlaced, LoopsInRange
  <1>5. Excused' = Excused
    BY ExcusedStays
  <1>6. Contract!Deliver(r)
    BY <1>1, <1>3, <1>4, <1>5, OpenPhase DEF Contract!Deliver, Return
  <1> QED
    BY <1>6 DEF Contract!Next

\* A handler that returns without an answer is the contract's Drop.
LEMMA DropStep ==
  ASSUME TypeInv, Silent, NEW r \in Requests, pc[r] \notin {"idle", "done"},
         Return(r, resp[r], <<>>),
         \A q \in Requests \ {r} : calls'[q] = calls[q] /\ client'[q] = client[q],
         ExcusedAt(client'[r], calls'[r])
  PROVE  Contract!Next
  <1>1. Phase' = [Phase EXCEPT ![r] = "closed"]
    BY PhaseMoves DEF Return, PhaseAt
  <1>2. records[r] = <<>> /\ records[r] \o <<>> = <<>>
    BY DEF Silent
  <1>3. records' = records /\ resp' = resp
    BY <1>2 DEF Return, TypeInv, Typed
  <1>4. Contract!Drop(r)
    BY <1>1, <1>3, ExcusedNow, OpenPhase DEF Contract!Drop
  <1> QED
    BY <1>4 DEF Contract!Next

\* A step from one place of the handler to another is none of the contract's.
LEMMA QuietStep ==
  ASSUME TypeInv, NEW r \in Requests, pc[r] \notin {"idle", "done"},
         NEW p \in PCs \ {"idle", "done"}, pc' = [pc EXCEPT ![r] = p],
         UNCHANGED <<resp, records>>, Excused' = Excused
  PROVE  UNCHANGED Contract!contractVars
  <1>1. Phase' = [Phase EXCEPT ![r] = "open"]
    BY PhaseMoves DEF PhaseAt
  <1>2. Phase[r] = "open" /\ Phase \in [Requests -> {Phase[q] : q \in Requests}]
    BY OpenPhase DEF Phase
  <1>3. Phase' = Phase
    BY <1>1, <1>2
  <1> QED
    BY <1>3 DEF Contract!contractVars

LEMMA AttemptFailsContract ==
  ASSUME TypeInv, Silent, Pending, NEW r \in Requests, pc[r] = "executing",
         NEW status \in {NoResult} \cup 200..999, AttemptFails(r, status)
  PROVE  Contract!Next \/ UNCHANGED Contract!contractVars
  <1> DEFINE code == StatusCode(status)
  <1>1. status \in Statuses /\ calls[r] # <<>> /\ code \in 200..999
    BY DEF Statuses, StatusCode, BadGateway, NoResult, TypeInv, Located, WellPlaced, LoopsInRange
  <1>2. /\ \A q \in Requests \ {r} : calls'[q] = calls[q]
        /\ LastOf(calls'[r]).status = status /\ calls'[r] # <<>>
    <2>1. Typed /\ Returned(r, "failed", status)
      BY DEF AttemptFails, TypeInv
    <2> QED
      BY <1>1, <2>1, ReturnedCalls
  <1>3. client' = client
    BY DEF AttemptFails
  <1>4. ASSUME code # 499 PROVE Excused' = Excused
    <2>1. status # 499
      BY <1>4 DEF StatusCode, NoResult
    <2>2. LastOf(calls[r]).status # 499
      BY DEF Pending, LastCall, LastOf, NoResult
    <2>3. ExcusedAt(client'[r], calls'[r]) <=> ExcusedAt(client[r], calls[r])
      BY <1>2, <1>3, <2>1, <2>2 DEF ExcusedAt
    <2> QED
      BY <1>2, <1>3, <2>3, ExcusedStays
  <1>5. CASE Abandon(r)
    <2>1. ExcusedAt(client'[r], calls'[r])
      BY <1>3, <1>5 DEF Abandon, ExcusedAt
    <2> QED
      BY <1>2, <1>3, <1>5, <2>1, DropStep DEF Abandon
  <1>6. CASE Retry(r, code) \/ FallBack(r, code)
    <2>1. /\ pc' = [pc EXCEPT ![r] = "attempt"] \/ pc' = [pc EXCEPT ![r] = "plan"]
          /\ code >= 500 /\ UNCHANGED <<resp, records>>
      BY <1>6 DEF Retry, FallBack
    <2>2. code # 499
      BY <1>1, <2>1
    <2> QED
      BY <1>4, <2>1, <2>2, QuietStep DEF PCs
  <1>7. CASE GiveUp(r, code)
    <2>1. CASE code = 499
      <3>1. status = 499
        BY <2>1 DEF StatusCode, BadGateway
      <3>2. ExcusedAt(client'[r], calls'[r])
        BY <1>2, <3>1 DEF ExcusedAt
      <3> QED
        BY <1>2, <1>3, <1>7, <2>1, <3>2, DropStep DEF GiveUp
    <2>2. CASE code # 499
      <3>1. req[r].model \in Models /\ Rule(r) \in Rules
        BY RuleType DEF TypeInv, Located, WellPlaced, LoopsInRange
      <3>2. Told(r, code, req[r].model, Rule(r))
        BY <1>7, <2>2 DEF GiveUp, RespondError, Told
      <3>3. Excused' = Excused /\ code \in 200..999 /\ pc[r] \notin {"idle", "done"}
        BY <1>1, <1>4, <2>2
      <3> HIDE DEF code
      <3>4. Contract!Next
        BY <3>1, <3>2, <3>3, FailStep
      <3> QED
        BY <3>4
    <2> QED
      BY <2>1, <2>2
  <1> QED
    BY <1>5, <1>6, <1>7 DEF AttemptFails

\* Every step of the pipeline is one of the contract, or none.
LEMMA ContractStep ==
  TypeInv /\ History /\ Silent /\ Pending /\ [Next]_vars
    => Contract!Next \/ UNCHANGED Contract!contractVars
  <1> SUFFICES ASSUME TypeInv, History, Silent, Pending, [Next]_vars
               PROVE  Contract!Next \/ UNCHANGED Contract!contractVars
    OBVIOUS
  <1>1. CASE UNCHANGED vars
    BY <1>1 DEF vars, Contract!contractVars, Phase, Excused, LastCall
  <1>2. ASSUME NEW r \in Requests, RejectToken(r) PROVE Contract!Next
    <2>1. Phase' = [Phase EXCEPT ![r] = "closed"] /\ Phase[r] = "idle"
      BY <1>2, PhaseMoves DEF RejectToken, Return, PhaseAt, Phase
    <2>2. records[r] = <<>> /\ records[r] \o <<>> = <<>>
      BY <1>2 DEF RejectToken, Silent
    <2>3. records' = records
      BY <1>2, <2>2 DEF RejectToken, Return, TypeInv, Typed
    <2>4. Excused' = Excused
      BY <1>2, ExcusedStays DEF RejectToken
    <2>5. Contract!Refuse(r)
      BY <1>2, <2>1, <2>3, <2>4 DEF RejectToken, Return, Contract!Refuse
    <2> QED
      BY <2>5 DEF Contract!Next
  <1>3. ASSUME NEW r \in Requests, Arrive(r) PROVE Contract!Next
    <2>1. Phase' = [Phase EXCEPT ![r] = "open"]
      <3>1. pc' = [pc EXCEPT ![r] = "body"] /\ PhaseAt("body") = "open"
        BY <1>3 DEF Arrive, PhaseAt
      <3> QED
        BY <3>1, PhaseMoves
    <2>2. Phase[r] = "idle"
      BY <1>3 DEF Arrive, Phase
    <2>3. Excused' = Excused
      BY <1>3, ExcusedStays DEF Arrive
    <2>4. Contract!Take(r)
      BY <1>3, <2>1, <2>2, <2>3 DEF Arrive, Contract!Take
    <2> QED
      BY <2>4 DEF Contract!Next
  <1>4. ASSUME NEW r \in Requests,
               BodyFails(r) \/ DecodeFails(r) \/ ModelUnknown(r) \/ EncodeFails(r)
        PROVE  Contract!Next
    <2>1. pc[r] \in {"body", "plan"} /\ UNCHANGED <<calls, client>>
      BY <1>4 DEF BodyFails, DecodeFails, ModelUnknown, EncodeFails
    <2>2. Excused' = Excused
      BY <2>1, ExcusedStays
    <2>3. req[r].model \in Models /\ (pc[r] = "plan" => Rule(r) \in Rules)
      BY <2>1, RuleType DEF TypeInv, Located, WellPlaced, LoopsInRange
    <2>4. \E status \in {400, 404, 413, 500}, m \in Models \cup {NoName}, u \in Rules \cup {NoName} :
            Told(r, status, m, u)
      <3>1. CASE BodyFails(r)
        <4>1. PICK status \in {400, 413} :
                Return(r, [kind |-> "error", status |-> status, whole |-> TRUE],
                       <<Failure(NoName, NoName, status)>>)
          BY <3>1 DEF BodyFails
        <4>2. Told(r, status, NoName, NoName)
          BY <4>1 DEF Told
        <4> QED
          BY <4>2
      <3>2. CASE DecodeFails(r)
        BY <3>2 DEF DecodeFails, RespondError, Told
      <3>3. CASE ModelUnknown(r)
        BY <2>3, <3>3 DEF ModelUnknown, RespondError, Told
      <3>4. CASE EncodeFails(r)
        BY <2>1, <2>3, <3>4 DEF EncodeFails, RespondError, Told
      <3> QED
        BY <1>4, <3>1, <3>2, <3>3, <3>4
    <2> QED
      BY <2>1, <2>2, <2>4, FailStep
  <1>5. ASSUME NEW r \in Requests, Accept(r) \/ PlanSelection(r)
        PROVE  UNCHANGED Contract!contractVars
    <2>1. /\ pc[r] \notin {"idle", "done"} /\ UNCHANGED <<calls, client, resp, records>>
          /\ pc' = [pc EXCEPT ![r] = "plan"] \/ pc' = [pc EXCEPT ![r] = "attempt"]
      BY <1>5 DEF Accept, PlanSelection
    <2>2. Excused' = Excused
      BY <2>1, ExcusedStays
    <2> QED
      BY <2>1, <2>2, QuietStep DEF PCs
  <1>6. ASSUME NEW r \in Requests, StartAttempt(r) PROVE UNCHANGED Contract!contractVars
    <2>1. /\ pc[r] = "attempt" /\ UNCHANGED <<client, resp, records>>
          /\ pc' = [pc EXCEPT ![r] = "executing"]
          /\ \A q \in Requests \ {r} : calls'[q] = calls[q]
      BY <1>6 DEF StartAttempt, TypeInv, Typed
    <2>2. calls[r] # <<>> => LastOf(calls[r]).status # 499
      BY <2>1 DEF History, HistoryOf, Follows, StatusCode, NoResult, BadGateway
    <2>3. LastOf(calls'[r]).status # 499
      <3>1. /\ Pending' /\ pc'[r] = "executing"
        BY <2>1, PendingNext DEF TypeInv, Typed
      <3> QED
        BY <3>1 DEF Pending, LastCall, LastOf, NoResult
    <2>4. Excused' = Excused
      BY <2>1, <2>2, <2>3, ExcusedStays DEF ExcusedAt
    <2> QED
      BY <2>1, <2>4, QuietStep DEF PCs
  <1>7. ASSUME NEW r \in Requests, ExecuteSucceeds(r) PROVE UNCHANGED Contract!contractVars
    <2>1. /\ pc[r] = "executing" /\ UNCHANGED <<client, resp, records>>
          /\ pc' = [pc EXCEPT ![r] = "streaming"] \/ pc' = [pc EXCEPT ![r] = "answering"]
      BY <1>7 DEF ExecuteSucceeds
    <2>2. /\ \A q \in Requests \ {r} : calls'[q] = calls[q]
          /\ LastOf(calls'[r]).status = 200
      <3>1. Typed /\ Returned(r, "ok", 200) /\ calls[r] # <<>> /\ 200 \in Statuses
        BY <1>7, <2>1 DEF ExecuteSucceeds, TypeInv, Located, WellPlaced, LoopsInRange, Statuses
      <3> QED
        BY <3>1, ReturnedCalls
    <2>3. LastOf(calls[r]).status # 499
      BY <2>1 DEF Pending, LastCall, LastOf, NoResult
    <2>4. Excused' = Excused
      BY <2>1, <2>2, <2>3, ExcusedStays DEF ExcusedAt
    <2> QED
      BY <2>1, <2>4, QuietStep DEF PCs
  <1>8. ASSUME NEW r \in Requests, ExecuteFails(r)
        PROVE  Contract!Next \/ UNCHANGED Contract!contractVars
    <2>1. PICK status \in FailedStatuses(Mode(r)) : AttemptFails(r, status)
      BY <1>8 DEF ExecuteFails
    <2>2. status \in {NoResult} \cup 200..999
      BY PipelineAssumption DEF FailedStatuses
    <2> QED
      BY <1>8, <2>1, <2>2, AttemptFailsContract DEF ExecuteFails
  <1>9. ASSUME NEW r \in Requests, ContextEnds(r)
        PROVE  Contract!Next \/ UNCHANGED Contract!contractVars
    BY <1>9, AttemptFailsContract DEF ContextEnds
  <1>10. ASSUME NEW r \in Requests, AnswerNonStream(r) PROVE Contract!Next
    <2>1. pc[r] = "answering" /\ UNCHANGED <<calls, req, client>>
      BY <1>10 DEF AnswerNonStream
    <2>2. CASE RespondError(r, BadGateway, req[r].model, Rule(r))
      <3>1. Excused' = Excused
        BY <2>1, ExcusedStays
      <3>2. req[r].model \in Models /\ Rule(r) \in Rules
        BY <2>1, RuleType DEF TypeInv, Located, WellPlaced, LoopsInRange
      <3>3. Told(r, BadGateway, req[r].model, Rule(r)) /\ BadGateway \in 200..999
        BY <2>2 DEF RespondError, Told, BadGateway
      <3> QED
        BY <2>1, <3>1, <3>2, <3>3, FailStep
    <2>3. CASE Return(r, [kind |-> "message", status |-> 200, whole |-> TRUE],
                      <<[model |-> req[r].model, upstream |-> Rule(r),
                         success |-> TRUE, code |-> 0]>>)
      BY <2>1, <2>3, DeliverStep
    <2> QED
      BY <1>10, <2>2, <2>3 DEF AnswerNonStream
  <1>11. ASSUME NEW r \in Requests, NEW whole \in BOOLEAN, NEW scanError,
                StreamReturns(r, whole, scanError)
         PROVE  Contract!Next
    BY <1>11, DeliverStep DEF StreamReturns
  <1>12. ASSUME NEW r \in Requests, Disconnect(r) PROVE Contract!Next
    <2>1. /\ pc[r] \notin {"idle", "done"} /\ UNCHANGED <<pc, calls, resp, records>>
          /\ client'[r] = "gone" /\ \A q \in Requests \ {r} : client'[q] = client[q]
      BY <1>12 DEF Disconnect, TypeInv, Typed
    <2>2. Excused' = [Excused EXCEPT ![r] = TRUE]
      BY <2>1, ExcusedNow DEF ExcusedAt
    <2>3. Phase' = Phase
      BY <2>1 DEF Phase
    <2>4. Contract!Excuse(r)
      BY <2>1, <2>2, <2>3, OpenPhase DEF Contract!Excuse
    <2> QED
      BY <2>4 DEF Contract!Next
  <1> QED
    BY <1>1, <1>2, <1>3, <1>4, <1>5, <1>6, <1>7, <1>8, <1>9, <1>10, <1>11, <1>12
    DEF Next, Finished, UpstreamEndsStream, StreamContextEnds

\* The pipeline keeps the contract of each request, whatever the number of
\* requests, candidates and statuses.
THEOREM PipelineKeepsContract == Spec => KeepsContract
  <1>1. Init => Contract!Init /\ Pending
    BY DEF Init, Contract!Init, Contract!NoAnswer, Phase, Excused, Unanswered, Pending
  <1>2. OutcomeInv => Silent
    BY DEF OutcomeInv
  <1>3. TypeInv /\ History /\ Silent /\ Pending /\ [Next]_vars
          => [Contract!Next]_(Contract!contractVars)
    BY ContractStep
  <1> QED
    BY <1>1, <1>2, <1>3, TypeInit, TypeNext, HistoryInit, HistoryNext, OutcomeInit,
       OutcomeNext, PendingNext, PTL DEF Spec, KeepsContract, Contract!Spec

=============================================================================
