\* The instance of RequestPipeline.cfg; the status that matters is 499.
SPECIFICATION Spec
CONSTANTS
  r1 = r1
  known = known
  tail = tail
  unknown = unknown
  first = first
  second = second
  broken = broken
  NoName = NoName
  Requests = {r1}
  Models = {known, tail, unknown}
  Rules = {first, second, broken}
  Selections <- MCSelections
  ForceStream = {second}
  Unencodable = {broken}
  FailureStatuses = {304, 429, 499, 500}
  Debug = TRUE
INVARIANT PresentClientsAreTracked
