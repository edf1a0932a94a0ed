\* The instance of RequestPipeline.cfg without the redirect, whose status is
\* below 400 as well: the 2xx status of an aggregate is left to show the point.
SPECIFICATION Spec
CONSTANTS
  r1 = r1
  known = known
  tail = tail
  unknown = unknown
  first = first
  second = second
  broken = broken
  NoName = NoName
  Requests = {r1}
  Models = {known, tail, unknown}
  Rules = {first, second, broken}
  Selections <- MCSelections
  ForceStream = {second}
  Unencodable = {broken}
  FailureStatuses = {429, 499, 500}
  Debug = TRUE
INVARIANT ErrorsAreFlushed
