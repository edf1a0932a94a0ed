\* Three records, two lives of the process and what a third one would load, one
\* failing write and the ones cut off when it is killed: enough for a damaged
\* line before, between and after whole ones, and for a restart to meet what an
\* earlier one left.  The fairness of FairSpec is for RecordingReturns.
SPECIFICATION FairSpec
CONSTANTS
  r1 = r1
  r2 = r2
  r3 = r3
  ours = ours
  theirs = theirs
  q1 = q1
  NoOne = NoOne
  Requests = {r1, r2, r3}
  Tokens = {ours, theirs}
  TokenOf <- MCTokenOf
  Long = {}
  Readers = {q1}
  MaxTime = 2
  MaxStarts = 2
  MaxFailures = 1
INVARIANTS
  TypeOK
  DamageIsLocal
  StopsKeepAnswered
  AnswersAreKept
PROPERTIES
  RecordingReturns
  StoredIsTold
