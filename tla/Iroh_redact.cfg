\* Redactions in bulk and one by one, indexing and a backfill at the same time.
SPECIFICATION FairSpec
CONSTANTS
  a = a
  b = b
  q1 = q1
  q2 = q2
  q3 = q3
  s1 = s1
  Ids = {a, b}
  Legacy = {a}
  Excluded = {}
  Segments = {s1}
  Pages = 1
  PageOf <- OnePage
  Requests = {q1, q2}
  Scope <- BatchScope
  IsRedacted <- BatchFlag
  Modes = {FALSE}
  MaxAttempts = 1
  MaxRuns = 1
INVARIANT DenylistFollowsTable
PROPERTY RedactionsArrive
CHECK_DEADLOCK FALSE
