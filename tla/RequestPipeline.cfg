\* One request; a model with two candidates, the second one streaming only, a
\* model whose second candidate no request can be encoded for, and an unknown
\* one.  The statuses: a redirect, two client errors, one the gateway itself
\* uses as a mark, a server error.  The fairness of FairSpec is for
\* AcceptedRequestsEnd.
SPECIFICATION FairSpec
CONSTANTS
  r1 = r1
  known = known
  tail = tail
  unknown = unknown
  first = first
  second = second
  broken = broken
  NoName = NoName
  Requests = {r1}
  Models = {known, tail, unknown}
  Rules = {first, second, broken}
  Selections <- MCSelections
  ForceStream = {second}
  Unencodable = {broken}
  FailureStatuses = {304, 429, 499, 500}
  Debug = TRUE
INVARIANTS
  TypeOK
  CallOrder
  LateIsLast
  ContextsReleased
  GivesUpOnlyWhenExhausted
  RecordTellsOutcome
PROPERTIES
  KeepsContract
  AcceptedRequestsEnd
