\* Four lines of anything, or six lines in the order of the API: two parallel
\* calls of two fragments, a finish reason, a usage report and [DONE], or text
\* and sources in their place.
SPECIFICATION Spec
CONSTANTS
  a = a
  b = b
  id0 = id0
  id1 = id1
  stop = stop
  length = length
  found = found
  other = other
  Empty = Empty
  NoUsage = NoUsage
  NoResults = NoResults
  NotCounted = NotCounted
  Null = Null
  Pieces = {a, b}
  ToolIndices = {0, 1}
  ToolIDs = {id0, id1}
  Usages <- MCUsages
  Reasons = {stop, length}
  Results = {found, other}
  Counts = {1, 2}
  Objects <- MCObjects
  Reparsed <- MCReparsed
  Chunks <- MCChunks
  MaxLines <- MCMaxLines
INVARIANTS
  TypeOK
  RoleComesFirst
  SameContent
  SameTokens
  SameAnswer
  SameCalls
