\* One of the records is longer than bufio.Scanner takes.
SPECIFICATION Spec
CONSTANTS
  r1 = r1
  r2 = r2
  r3 = r3
  ours = ours
  theirs = theirs
  q1 = q1
  NoOne = NoOne
  Requests = {r1, r2, r3}
  Tokens = {ours, theirs}
  TokenOf <- MCTokenOf
  Long = {r2}
  Readers = {q1}
  MaxTime = 1
  MaxStarts = 2
  MaxFailures = 0
INVARIANT BadLinesAreSkipped
