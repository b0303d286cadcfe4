\* Three deliveries of two declarations through two containers.
SPECIFICATION FairSpec
CONSTANTS
  d1 = d1
  d2 = d2
  w1 = w1
  w2 = w2
  None = None
  Declarations = {d1, d2}
  Containers = {w1, w2}
  MaxDeliveries = 3
INVARIANTS
  MarkedIsCounted
PROPERTIES
  StatsCatchUp
CHECK_DEADLOCK FALSE
