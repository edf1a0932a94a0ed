--------------------------- MODULE RequestContract ---------------------------
(***************************************************************************)
(* What the gateway promises about one request, whatever happens inside:   *)
(* it is refused at the door, or it is closed with an answer and, in the   *)
(* same step, the one receipt that agrees with the answer, or it is closed *)
(* without either, which takes an excuse.  Nothing changes afterwards.     *)
(***************************************************************************)
EXTENDS Integers, Sequences

CONSTANTS Requests, Models, Rules, NoName

VARIABLES
  phase,    \* "idle", "open" or "closed"
  excused,  \* the client has gone, or the upstream said that it has
  answer,   \* what was sent to the client
  receipts  \* the usage records of the request

contractVars == <<phase, excused, answer, receipts>>

NoAnswer == [kind |-> "none", status |-> 200, whole |-> FALSE]

Init ==
  /\ phase = [r \in Requests |-> "idle"]
  /\ excused = [r \in Requests |-> FALSE]
  /\ answer = [r \in Requests |-> NoAnswer]
  /\ receipts = [r \in Requests |-> <<>>]

Refuse(r) ==
  /\ phase[r] = "idle"
  /\ phase' = [phase EXCEPT ![r] = "closed"]
  /\ answer' = [answer EXCEPT ![r] =
                  [kind |-> "rejected", status |-> 401, whole |-> TRUE]]
  /\ UNCHANGED <<excused, receipts>>

Take(r) ==
  /\ phase[r] = "idle"
  /\ phase' = [phase EXCEPT ![r] = "open"]
  /\ UNCHANGED <<excused, answer, receipts>>

Excuse(r) ==
  /\ phase[r] = "open"
  /\ excused' = [excused EXCEPT ![r] = TRUE]
  /\ UNCHANGED <<phase, answer, receipts>>

\* An error, and its receipt with the same status.
Fail(r) ==
  /\ phase[r] = "open"
  /\ phase' = [phase EXCEPT ![r] = "closed"]
  /\ \E status \in 200..999, m \in Models \cup {NoName}, u \in Rules \cup {NoName} :
       /\ answer' = [answer EXCEPT ![r] =
                       [kind |-> "error", status |-> status, whole |-> TRUE]]
       /\ receipts' = [receipts EXCEPT ![r] =
            <<[model |-> m, upstream |-> u, success |-> FALSE, code |-> status]>>]
  /\ UNCHANGED excused

\* A message or a stream, and a receipt for the upstream that produced it.
Deliver(r) ==
  /\ phase[r] = "open"
  /\ phase' = [phase EXCEPT ![r] = "closed"]
  /\ \E kind \in {"message", "stream"}, whole \in BOOLEAN, m \in Models, u \in Rules :
       /\ kind = "message" => whole
       /\ answer' = [answer EXCEPT ![r] =
                       [kind |-> kind, status |-> 200, whole |-> whole]]
       /\ receipts' = [receipts EXCEPT ![r] =
            <<[model |-> m, upstream |-> u, success |-> TRUE, code |-> 0]>>]
  /\ UNCHANGED excused

\* No answer and no receipt: with an excuse, at the latest now.
Drop(r) ==
  /\ phase[r] = "open"
  /\ phase' = [phase EXCEPT ![r] = "closed"]
  /\ excused' = [excused EXCEPT ![r] = TRUE]
  /\ UNCHANGED <<answer, receipts>>

Next ==
  \E r \in Requests :
    Refuse(r) \/ Take(r) \/ Excuse(r) \/ Fail(r) \/ Deliver(r) \/ Drop(r)

Spec == Init /\ [][Next]_contractVars

=============================================================================
