\* Two requests with the same metadata, dated or not: the 60 s window, the sweeper,
\* and what must happen in the end.
SPECIFICATION FairSpec
CONSTANTS
  r1 = r1
  r2 = r2
  r3 = r3
  d1 = d1
  d2 = d2
  d3 = d3
  alice = alice
  bob = bob
  None = None
  Requests = {r1, r2}
  Declarations = {d1}
  Declarers = {alice}
  DeclarationOf <- ResubmitOf
  Declarer <- ResubmitDeclarer
  Supersedes <- ResubmitSupersedes
  MaxDeliveries = 1
INVARIANTS
  TypeOK
  TrackedIsVisible
  SuccessIsSearchable
PROPERTIES
  SweeperSparesOutcomes
  OnlyStaleTimesOut
  PendingIsResolved
CHECK_DEADLOCK FALSE
