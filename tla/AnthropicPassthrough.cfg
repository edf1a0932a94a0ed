\* Four lines of anything, or six in the order of the API: reasoning, text, two
\* tool calls, a finish reason, a usage report and [DONE] in their places.
SPECIFICATION Spec
CONSTANTS
  hello = hello
  world = world
  id0 = id0
  id1 = id1
  stop = stop
  news = news
  other = other
  Empty = Empty
  NoUsage = NoUsage
  NoReason = NoReason
  EndTurn = EndTurn
  NoResults = NoResults
  NotCounted = NotCounted
  Null = Null
  Pieces = {hello, world}
  ToolIndices = {0, 1}
  ToolIDs = {id0, id1}
  Usages <- MCUsages
  Reasons = {stop}
  Results = {news, other}
  Counts = {0, 1, 2}
  Objects <- MCObjects
  Reparsed <- MCReparsed
  Chunks <- MCChunks
  MaxLines <- MCMaxLines
INVARIANTS
  TypeOK
  BlocksWellFormed
  MessageFraming
  NothingLost
  SearchBeforeText
  ToolDeltasLand
  EndsAsRecorded
  SameMessage
