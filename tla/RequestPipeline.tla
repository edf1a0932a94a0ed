-------------------------- MODULE RequestPipeline --------------------------
(***************************************************************************)
(* The life of one client request inside the gateway: the token            *)
(* middleware, ProxyHandler / OpenAIProxyHandler (their control flow is    *)
(* the same, line for line), executeWithRetry and Executor.Execute.        *)
(*                                                                         *)
(* A handler runs in the goroutine of its connection.  The other actors    *)
(* are the client, which may disconnect at any moment, the upstream, which *)
(* may answer anything or nothing, and the timer of the context every      *)
(* attempt runs under.  An action of the handler is the code between two   *)
(* points where one of the others can be observed.                         *)
(***************************************************************************)
EXTENDS Integers, Sequences

CONSTANTS
  Requests,        \* the requests that reach the gateway
  Models,          \* the model names clients ask for
  Rules,           \* the (provider, upstream model) pairs of the configuration
  Selections,      \* what Selector.SelectAll finds for each model, best first
  ForceStream,     \* the rules whose provider sets force_stream
  Unencodable,     \* the rules whose override no request can be encoded with
  FailureStatuses, \* the statuses other than 2xx an upstream answers with
  Debug,           \* logging.debug
  NoName           \* the empty model name

ASSUME PipelineAssumption ==
  /\ Selections \in [Models -> Seq(Rules)]
  /\ ForceStream \subseteq Rules
  /\ Unencodable \subseteq Rules
  /\ FailureStatuses \subseteq 300..999
  /\ Debug \in BOOLEAN
  /\ NoName \notin Models \cup Rules

VARIABLES
  pc,       \* where the goroutine of the request is
  client,   \* whether its client is still connected
  req,      \* what the client asked for
  sel,      \* index of the selection being tried
  attempt,  \* number of the attempt executeWithRetry is at
  calls,    \* every Execute so far, in order
  live,     \* attempt contexts created and not yet cancelled
  resp,     \* what the handler wrote to the client
  records,  \* what the handler gave to UsageService.RecordUsage
  flushed   \* whether the debug log went to disk

vars == <<pc, client, req, sel, attempt, calls, live, resp, records, flushed>>

maxRetries == 3

\* The net/http status the code gives an attempt that has no response.
BadGateway == 502

\* ExecutionResult.StatusCode of a nil result.
NoResult == 0

(* ----------------------------- vocabulary ------------------------------ *)

PCs == {"idle", "body", "plan", "attempt", "executing", "answering",
        "streaming", "done"}

Modes == {"direct", "passthrough", "aggregate"}

Statuses == 0..999

\* One use of Executor.Execute: late when it starts with its client gone.
Call == [sel : Nat, attempt : 1..maxRetries, late : BOOLEAN,
         outcome : {"pending", "ok", "failed"}, status : Statuses]

\* kind "none" is a handler that returned without writing: gin then sends an
\* empty response with status 200.
Response == [kind : {"none", "rejected", "error", "message", "stream"},
             status : Statuses, whole : BOOLEAN]

Unanswered == [kind |-> "none", status |-> 200, whole |-> FALSE]

\* The fields of UsageRecord the handler decides; code 0 is a nil ErrorCode.
Record == [model : Models \cup {NoName}, upstream : Rules \cup {NoName},
           success : BOOLEAN, code : Statuses]

Candidates(r) == Selections[req[r].model]

Rule(r) == Candidates(r)[sel[r]]

LastCall(r) == calls[r][Len(calls[r])]

DecideMode(clientStream, forceStream) ==
  IF clientStream THEN "passthrough"
  ELSE IF forceStream THEN "aggregate" ELSE "direct"

Mode(r) == DecideMode(req[r].stream, Rule(r) \in ForceStream)

\* executeWithRetry's classification of a failed attempt.
StatusCode(status) == IF status = NoResult THEN BadGateway ELSE status

\* What Execute may report with its error, once the upstream was reached: no
\* result at all, an upstream status, or the 2xx status of a stream that
\* could not be aggregated.
FailedStatuses(mode) ==
  FailureStatuses \cup {NoResult} \cup (IF mode = "aggregate" THEN {200} ELSE {})

(* ------------------------ leaving the handler -------------------------- *)

Return(r, response, recorded) ==
  /\ pc' = [pc EXCEPT ![r] = "done"]
  /\ resp' = [resp EXCEPT ![r] = response]
  /\ records' = [records EXCEPT ![r] = @ \o recorded]

\* The deferred flush of the debug log, which has content once the body of
\* the request was read.
DeferredFlush(r, status, mustFlush) ==
  flushed' = [flushed EXCEPT ![r] = Debug /\ (status >= 400 \/ mustFlush)]

Failure(model, upstream, status) ==
  [model |-> model, upstream |-> upstream, success |-> FALSE, code |-> status]

\* respondError and recordUsage, the exit of every error the client is told.
RespondError(r, status, model, upstream) ==
  /\ Return(r, [kind |-> "error", status |-> status, whole |-> TRUE],
            <<Failure(model, upstream, status)>>)
  /\ DeferredFlush(r, status, FALSE)

(* ------------------------------ actions -------------------------------- *)

Init ==
  /\ pc = [r \in Requests |-> "idle"]
  /\ client = [r \in Requests |-> "here"]
  /\ req = [r \in Requests |-> [model |-> NoName, stream |-> FALSE]]
  /\ sel = [r \in Requests |-> 0]
  /\ attempt = [r \in Requests |-> 0]
  /\ calls = [r \in Requests |-> <<>>]
  /\ live = [r \in Requests |-> 0]
  /\ resp = [r \in Requests |-> Unanswered]
  /\ records = [r \in Requests |-> <<>>]
  /\ flushed = [r \in Requests |-> FALSE]

\* TokenAuthMiddleware aborts: the handler never runs.
RejectToken(r) ==
  /\ pc[r] = "idle"
  /\ Return(r, [kind |-> "rejected", status |-> 401, whole |-> TRUE], <<>>)
  /\ UNCHANGED <<client, req, sel, attempt, calls, live, flushed>>

\* The token is known: the handler starts to read the body of a request for
\* some model, streamed or not.
Arrive(r) ==
  /\ pc[r] = "idle"
  /\ pc' = [pc EXCEPT ![r] = "body"]
  /\ \E m \in Models, s \in BOOLEAN :
       req' = [req EXCEPT ![r] = [model |-> m, stream |-> s]]
  /\ UNCHANGED <<client, sel, attempt, calls, live, resp, records, flushed>>

\* The body cannot be read, or is larger than max_body_bytes.  The debug log
\* is still empty, so that nothing is flushed.
BodyFails(r) ==
  /\ pc[r] = "body"
  /\ \E status \in {400, 413} :
       Return(r, [kind |-> "error", status |-> status, whole |-> TRUE],
              <<Failure(NoName, NoName, status)>>)
  /\ UNCHANGED <<client, req, sel, attempt, calls, live, flushed>>

DecodeFails(r) ==
  /\ pc[r] = "body"
  /\ RespondError(r, 400, NoName, NoName)
  /\ UNCHANGED <<client, req, sel, attempt, calls, live>>

ModelUnknown(r) ==
  /\ pc[r] = "body"
  /\ Candidates(r) = <<>>
  /\ RespondError(r, 404, req[r].model, NoName)
  /\ UNCHANGED <<client, req, sel, attempt, calls, live>>

\* SelectAll found candidates: the handler enters its loop.
Accept(r) ==
  /\ pc[r] = "body"
  /\ Candidates(r) # <<>>
  /\ pc' = [pc EXCEPT ![r] = "plan"]
  /\ sel' = [sel EXCEPT ![r] = 1]
  /\ UNCHANGED <<client, req, attempt, calls, live, resp, records, flushed>>

\* EncodeOpenAIRequest fails with the override of this selection.  The
\* handler gives up, it does not go on to the next selection.
EncodeFails(r) ==
  /\ pc[r] = "plan"
  /\ Rule(r) \in Unencodable
  /\ RespondError(r, 500, req[r].model, Rule(r))
  /\ UNCHANGED <<client, req, sel, attempt, calls, live>>

\* Steps 4 to 7 of the handler: override, mode, encoding, execution plan.
PlanSelection(r) ==
  /\ pc[r] = "plan"
  /\ Rule(r) \notin Unencodable
  /\ pc' = [pc EXCEPT ![r] = "attempt"]
  /\ attempt' = [attempt EXCEPT ![r] = 1]
  /\ UNCHANGED <<client, req, sel, calls, live, resp, records, flushed>>

\* One turn of executeWithRetry begins: a context with the timeout, derived
\* from the client's, and a call of Execute under it.
StartAttempt(r) ==
  /\ pc[r] = "attempt"
  /\ pc' = [pc EXCEPT ![r] = "executing"]
  /\ live' = [live EXCEPT ![r] = @ + 1]
  /\ calls' = [calls EXCEPT ![r] =
       Append(@, [sel |-> sel[r], attempt |-> attempt[r],
                  late |-> client[r] = "gone", outcome |-> "pending",
                  status |-> NoResult])]
  /\ UNCHANGED <<client, req, sel, attempt, resp, records, flushed>>

\* What Execute returned is added to the history.
Returned(r, outcome, status) ==
  calls' = [calls EXCEPT ![r][Len(calls[r])] =
              [@ EXCEPT !.outcome = outcome, !.status = status]]

\* Execute returns no error.  The context stays alive while the response is
\* handled.
ExecuteSucceeds(r) ==
  /\ pc[r] = "executing"
  /\ ~LastCall(r).late
  /\ Returned(r, "ok", 200)
  /\ pc' = [pc EXCEPT ![r] =
              IF Mode(r) = "passthrough" THEN "streaming" ELSE "answering"]
  /\ UNCHANGED <<client, req, sel, attempt, live, resp, records, flushed>>

\* The client is gone: status 499 for the handler, which returns at once.
Abandon(r) ==
  /\ client[r] = "gone"
  /\ Return(r, resp[r], <<>>)
  /\ DeferredFlush(r, resp[r].status, FALSE)
  /\ UNCHANGED <<sel, attempt>>

\* Mutants of Retry: errors that are not the upstream's own; no look at the
\* client's context.
RetryAnyError(r, status) ==
  /\ client[r] = "here"
  /\ status >= 400
  /\ attempt[r] < maxRetries
  /\ pc' = [pc EXCEPT ![r] = "attempt"]
  /\ attempt' = [attempt EXCEPT ![r] = @ + 1]
  /\ UNCHANGED <<sel, resp, records, flushed>>

RetryUnasked(r, status) ==
  /\ status >= 500
  /\ attempt[r] < maxRetries
  /\ pc' = [pc EXCEPT ![r] = "attempt"]
  /\ attempt' = [attempt EXCEPT ![r] = @ + 1]
  /\ UNCHANGED <<sel, resp, records, flushed>>

\* A 5xx and an attempt left: the loop of executeWithRetry goes on.
Retry(r, status) ==
  /\ client[r] = "here"
  /\ status >= 500
  /\ attempt[r] < maxRetries
  /\ pc' = [pc EXCEPT ![r] = "attempt"]
  /\ attempt' = [attempt EXCEPT ![r] = @ + 1]
  /\ UNCHANGED <<sel, resp, records, flushed>>

\* Mutants of FallBack: one selection too many; the failed selection gets its
\* own usage record.
FallBackPastEnd(r, status) ==
  /\ client[r] = "here"
  /\ status >= 500
  /\ attempt[r] = maxRetries
  /\ sel[r] <= Len(Candidates(r))
  /\ pc' = [pc EXCEPT ![r] = "plan"]
  /\ sel' = [sel EXCEPT ![r] = @ + 1]
  /\ UNCHANGED <<attempt, resp, records, flushed>>

FallBackRecorded(r, status) ==
  /\ client[r] = "here"
  /\ status >= 500
  /\ attempt[r] = maxRetries
  /\ sel[r] < Len(Candidates(r))
  /\ pc' = [pc EXCEPT ![r] = "plan"]
  /\ sel' = [sel EXCEPT ![r] = @ + 1]
  /\ records' = [records EXCEPT ![r] =
                   Append(@, Failure(req[r].model, Rule(r), status))]
  /\ UNCHANGED <<attempt, resp, flushed>>

\* A 5xx after the last attempt and another candidate: the handler's loop
\* goes on with it.
FallBack(r, status) ==
  /\ client[r] = "here"
  /\ status >= 500
  /\ attempt[r] = maxRetries
  /\ sel[r] < Len(Candidates(r))
  /\ pc' = [pc EXCEPT ![r] = "plan"]
  /\ sel' = [sel EXCEPT ![r] = @ + 1]
  /\ UNCHANGED <<attempt, resp, records, flushed>>

\* Mutant of GiveUp: the retries of one selection are the end.
GiveUpEarly(r, status) ==
  /\ client[r] = "here"
  /\ status < 500 \/ attempt[r] = maxRetries
  /\ IF status = 499
     THEN /\ Return(r, resp[r], <<>>)
          /\ DeferredFlush(r, resp[r].status, FALSE)
     ELSE RespondError(r, status, req[r].model, Rule(r))
  /\ UNCHANGED <<sel, attempt>>

\* A definitive answer, or nobody left to ask.  The handler takes a 499 of
\* the upstream for its own mark of a client that is gone.
GiveUp(r, status) ==
  /\ client[r] = "here"
  /\ \/ status < 500
     \/ attempt[r] = maxRetries /\ sel[r] = Len(Candidates(r))
  /\ IF status = 499
     THEN /\ Return(r, resp[r], <<>>)
          /\ DeferredFlush(r, resp[r].status, FALSE)
     ELSE RespondError(r, status, req[r].model, Rule(r))
  /\ UNCHANGED <<sel, attempt>>

\* Mutant of AttemptFails: the attempt's context is left to its timer.
AttemptFailsUncancelled(r, status) ==
  /\ Returned(r, "failed", status)
  /\ \/ Abandon(r)
     \/ Retry(r, StatusCode(status))
     \/ FallBack(r, StatusCode(status))
     \/ GiveUp(r, StatusCode(status))
  /\ UNCHANGED <<client, req, live>>

\* Execute returns an error: the rest of the turn, to the next attempt, the
\* next selection or the end of the handler.
AttemptFails(r, status) ==
  /\ Returned(r, "failed", status)
  /\ live' = [live EXCEPT ![r] = @ - 1]
  /\ \/ Abandon(r)
     \/ Retry(r, StatusCode(status))
     \/ FallBack(r, StatusCode(status))
     \/ GiveUp(r, StatusCode(status))
  /\ UNCHANGED <<client, req>>

\* The upstream refuses, breaks the connection, or streams what cannot be
\* aggregated.
ExecuteFails(r) ==
  /\ pc[r] = "executing"
  /\ ~LastCall(r).late
  /\ \E status \in FailedStatuses(Mode(r)) : AttemptFails(r, status)

\* Mutant of ContextEnds: the attempt runs under the client's context alone.
ContextEndsUntimed(r) ==
  /\ pc[r] = "executing"
  /\ client[r] = "gone"
  /\ AttemptFails(r, NoResult)

\* The context of the attempt ends, by its timeout or because the client is
\* gone, before the upstream answered or while its answer is read.
ContextEnds(r) ==
  /\ pc[r] = "executing"
  /\ \/ AttemptFails(r, NoResult)
     \/ /\ ~LastCall(r).late
        /\ Mode(r) = "aggregate"
        /\ AttemptFails(r, 200)

\* Mutant of AnswerNonStream: success is decided before the body is decoded.
AnswerNonStreamHastily(r) ==
  /\ pc[r] = "answering"
  /\ live' = [live EXCEPT ![r] = @ - 1]
  /\ \E kind \in {"message", "error"} :
       Return(r, [kind |-> kind, whole |-> TRUE,
                  status |-> IF kind = "error" THEN BadGateway ELSE 200],
              <<[model |-> req[r].model, upstream |-> Rule(r),
                 success |-> TRUE, code |-> 0]>>)
  /\ UNCHANGED <<client, req, sel, attempt, calls, flushed>>

\* Steps 9 and 10 for a whole response; the body of a direct one may not
\* decode.
AnswerNonStream(r) ==
  /\ pc[r] = "answering"
  /\ live' = [live EXCEPT ![r] = @ - 1]
  /\ \/ /\ Return(r, [kind |-> "message", status |-> 200, whole |-> TRUE],
                  <<[model |-> req[r].model, upstream |-> Rule(r),
                     success |-> TRUE, code |-> 0]>>)
        /\ DeferredFlush(r, 200, FALSE)
     \/ /\ Mode(r) = "direct"
        /\ RespondError(r, BadGateway, req[r].model, Rule(r))
  /\ UNCHANGED <<client, req, sel, attempt, calls>>

\* Steps 9 and 10 for a stream.  Its status was sent with its first byte, so
\* that a stream that broke off counts as a success.
StreamReturns(r, whole, scanError) ==
  /\ pc[r] = "streaming"
  /\ live' = [live EXCEPT ![r] = @ - 1]
  /\ Return(r, [kind |-> "stream", status |-> 200, whole |-> whole],
            <<[model |-> req[r].model, upstream |-> Rule(r),
               success |-> TRUE, code |-> 0]>>)
  /\ DeferredFlush(r, 200, scanError)
  /\ UNCHANGED <<client, req, sel, attempt, calls>>

\* The upstream ends its stream: with [DONE], without it, or by an error.
UpstreamEndsStream(r) ==
  \/ StreamReturns(r, TRUE, FALSE)
  \/ StreamReturns(r, FALSE, FALSE)
  \/ StreamReturns(r, FALSE, TRUE)

\* The context of a stream ends: its timeout, or its client's disconnection.
StreamContextEnds(r) == StreamReturns(r, FALSE, TRUE)

\* The client closes its connection, which cancels the request's context.
Disconnect(r) ==
  /\ pc[r] \notin {"idle", "done"}
  /\ client[r] = "here"
  /\ client' = [client EXCEPT ![r] = "gone"]
  /\ UNCHANGED <<pc, req, sel, attempt, calls, live, resp, records, flushed>>

\* The steps the scheduler owes the goroutine of the request, its timer
\* included.  The client's body and the upstream's answers are nobody's duty.
HandlerStep(r) ==
  \/ EncodeFails(r) \/ PlanSelection(r) \/ StartAttempt(r)
  \/ ContextEnds(r) \/ AnswerNonStream(r) \/ StreamContextEnds(r)

\* Every request was served: the only way for this model to stand still.
Finished == (\A r \in Requests : pc[r] = "done") /\ UNCHANGED vars

Next ==
  \/ Finished
  \/ \E r \in Requests :
       \/ RejectToken(r) \/ Arrive(r)
       \/ BodyFails(r) \/ DecodeFails(r) \/ ModelUnknown(r) \/ Accept(r)
       \/ EncodeFails(r) \/ PlanSelection(r) \/ StartAttempt(r)
       \/ ExecuteSucceeds(r) \/ ExecuteFails(r) \/ ContextEnds(r)
       \/ AnswerNonStream(r) \/ UpstreamEndsStream(r) \/ StreamContextEnds(r)
       \/ Disconnect(r)

Spec == Init /\ [][Next]_vars

FairSpec == Spec /\ \A r \in Requests : WF_vars(HandlerStep(r))

(* ---------------------------- properties ------------------------------- *)

Typed ==
  /\ pc \in [Requests -> PCs]
  /\ client \in [Requests -> {"here", "gone"}]
  /\ req \in [Requests -> [model : Models \cup {NoName}, stream : BOOLEAN]]
  /\ sel \in [Requests -> Nat]
  /\ attempt \in [Requests -> 0..maxRetries]
  /\ calls \in [Requests -> Seq(Call)]
  /\ live \in [Requests -> Int]
  /\ resp \in [Requests -> Response]
  /\ records \in [Requests -> Seq(Record)]
  /\ flushed \in [Requests -> BOOLEAN]

\* The two loops have valid indices while they run: the selection is one of
\* those SelectAll found, the attempt one of executeWithRetry's three.
LoopsInRange(r) ==
  /\ pc[r] \in {"plan", "attempt", "executing", "answering", "streaming"}
       => sel[r] \in 1..Len(Candidates(r))
  /\ pc[r] \in {"attempt", "executing"} => attempt[r] \in 1..maxRetries

\* Every variable keeps its type, and the handler's loop over the selections
\* and the loop of executeWithRetry index nothing outside their ranges.
TypeOK == Typed /\ \A r \in Requests : LoopsInRange(r)

\* d is the call executeWithRetry and the handler's loop make after c failed.
Follows(c, d) ==
  /\ c.outcome = "failed"
  /\ StatusCode(c.status) >= 500
  /\ \/ c.attempt < maxRetries /\ d.sel = c.sel /\ d.attempt = c.attempt + 1
     \/ c.attempt = maxRetries /\ d.sel = c.sel + 1 /\ d.attempt = 1

\* The upstreams are called in the order of priority, each at most three
\* times, the next call only after a 5xx or no answer: no upstream is skipped,
\* asked again later, or asked after a definitive answer (the two loops of
\* ProxyHandler and executeWithRetry together).
CallOrder ==
  \A r \in Requests :
    /\ calls[r] # <<>> => calls[r][1].sel = 1 /\ calls[r][1].attempt = 1
    /\ \A i \in 1..(Len(calls[r]) - 1) : Follows(calls[r][i], calls[r][i + 1])

\* An attempt that starts after its client has gone is the last one, whatever
\* the moment the client left: the look at the request's context after each
\* failure bounds the upstream work done for nobody.
LateIsLast ==
  \A r \in Requests :
    \A i \in 1..Len(calls[r]) : calls[r][i].late => i = Len(calls[r])

\* No attempt context outlives its request, none is cancelled twice, and the
\* response is read under a live one (cancel and rr.Cancel on every path).
ContextsReleased ==
  \A r \in Requests :
    live[r] = IF pc[r] \in {"executing", "answering", "streaming"} THEN 1 ELSE 0

\* The client gets a 5xx only when the last candidate has failed its last
\* attempt, or when the gateway itself could not encode or decode; and it is
\* the failure of the last call that the client is told.
GivesUpOnlyWhenExhausted ==
  \A r \in Requests :
    resp[r].kind = "error" /\ calls[r] # <<>> =>
      \/ LastCall(r).outcome = "ok" /\ resp[r].status = BadGateway
      \/ Rule(r) \in Unencodable /\ resp[r].status = 500
      \/ /\ LastCall(r).outcome = "failed"
         /\ resp[r].status = StatusCode(LastCall(r).status)
         /\ resp[r].status >= 500 =>
              /\ LastCall(r).sel = Len(Candidates(r))
              /\ LastCall(r).attempt = maxRetries

\* A request leaves exactly one usage record, when it ends, that agrees with
\* what its client was sent and names the upstream that did the work; only a
\* request dropped without an answer leaves none, and it is dropped because its
\* client has gone or its upstream answered 499.
TellsOutcome(r) ==
  \/ /\ pc[r] # "done" \/ resp[r].kind = "rejected"
     /\ records[r] = <<>>
  \/ /\ pc[r] = "done" /\ resp[r].kind = "none"
     /\ records[r] = <<>>
     /\ client[r] = "gone" \/ LastCall(r).status = 499
  \/ /\ pc[r] = "done" /\ resp[r].kind \in {"message", "stream"}
     /\ LastCall(r).outcome = "ok"
     /\ records[r] = <<[model |-> req[r].model, success |-> TRUE, code |-> 0,
                        upstream |-> Candidates(r)[LastCall(r).sel]]>>
  \/ /\ pc[r] = "done" /\ resp[r].kind = "error"
     /\ Len(records[r]) = 1
     /\ ~records[r][1].success
     /\ records[r][1].code = resp[r].status

RecordTellsOutcome == \A r \in Requests : TellsOutcome(r)

\* A request that was accepted is over some day, whatever its upstreams do:
\* every attempt and every stream runs under a timeout, and both loops end.
AcceptedRequestsEnd == \A r \in Requests : pc[r] = "plan" ~> pc[r] = "done"

(* ------------------- what the repository says of it --------------------- *)

\* "JSONL-backed per-request tracking" (README.md:13), for the requests whose
\* client stayed to the end.
PresentClientsAreTracked ==
  \A r \in Requests :
    pc[r] = "done" /\ resp[r].kind # "rejected" /\ client[r] = "here"
      => records[r] # <<>>

\* "failed request should record success=false" (server/server_test.go:192),
\* for a response that broke off before the upstream had ended it.
FailuresAreRecordedAsFailures ==
  \A r \in Requests :
    pc[r] = "done" /\ records[r] # <<>> /\ records[r][1].success => resp[r].whole

\* The debug log is "flush[ed] to disk on errors" (server/logging.go:19): with
\* logging.debug, a request answered with an error leaves its packets on disk.
ErrorsAreFlushed ==
  \A r \in Requests :
    Debug /\ resp[r].kind = "error" /\ calls[r] # <<>> => flushed[r]

(* ----------------------- the contract it keeps ------------------------- *)

Phase == [r \in Requests |->
  CASE pc[r] = "idle" -> "idle" [] pc[r] = "done" -> "closed" [] OTHER -> "open"]

Excused == [r \in Requests |->
  \/ client[r] = "gone"
  \/ calls[r] # <<>> /\ LastCall(r).status = 499]

Contract == INSTANCE RequestContract
  WITH phase <- Phase, excused <- Excused, answer <- resp, receipts <- records

\* The pipeline, with all its attempts and selections, keeps the contract of
\* one request: an answer and its receipt in one step, or an excuse.
KeepsContract == Contract!Spec

=============================================================================
