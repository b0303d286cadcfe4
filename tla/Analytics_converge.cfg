\* Two deliveries through two containers, and two jobs that overlap, one of which
\* may die.
SPECIFICATION FairSpec
CONSTANTS
  d1 = d1
  d2 = d2
  x = x
  w1 = w1
  w2 = w2
  j1 = j1
  j2 = j2
  None = None
  Declarations = {d1, d2}
  IsccOf <- OneIscc
  Containers = {w1, w2}
  Jobs = {j1, j2}
  MaxDeliveries = 2
  MaxDeaths = 1
PROPERTIES
  CountersConverge
  SettlingIsForGood
CHECK_DEADLOCK FALSE
