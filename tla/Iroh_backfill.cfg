\* The backfill is killed, resumed, rehearsed and repeated, while a is redacted.
SPECIFICATION FairSpec
CONSTANTS
  a = a
  b = b
  q1 = q1
  q2 = q2
  q3 = q3
  s1 = s1
  Ids = {a, b}
  Legacy = {a, b}
  Excluded = {}
  Segments = {s1}
  Pages = 2
  PageOf <- TwoPages
  Requests = {q3}
  Scope <- BatchScope
  IsRedacted <- BatchFlag
  Modes = {FALSE, TRUE}
  MaxAttempts = 2
  MaxRuns = 2
INVARIANTS
  TypeOK
  BackfillMissesNothing
PROPERTIES
  SegmentsAdvance
  RunsEnd
CHECK_DEADLOCK FALSE
