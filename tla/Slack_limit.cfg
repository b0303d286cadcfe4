\* Three containers race for two notifications in a window of three ticks, with
\* calls that last up to a tick.
SPECIFICATION Spec
CONSTANTS
  c1 = c1
  c2 = c2
  c3 = c3
  Containers = {c1, c2, c3}
  Max = 2
  Window = 3
  MaxLag = 1
  Grace = 0
SYMMETRY AnyContainers
INVARIANTS
  CapHolds
  LocalCapHolds
  ContentionIsSettled
  NoWindowIsStuck
CHECK_DEADLOCK FALSE
