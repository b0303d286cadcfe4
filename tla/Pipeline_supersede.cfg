\* Three declarations, two of which supersede the first: the tables and their links.
SPECIFICATION Spec
CONSTANTS
  r1 = r1
  r2 = r2
  r3 = r3
  d1 = d1
  d2 = d2
  d3 = d3
  alice = alice
  bob = bob
  None = None
  Requests = {r1, r2, r3}
  Declarations = {d1, d2, d3}
  Declarers = {alice, bob}
  DeclarationOf <- FamilyOf
  Declarer <- FamilyDeclarer
  Supersedes <- FamilySupersedes
  MaxDeliveries = 2
CONSTRAINT WithinTheMinute
INVARIANTS
  SuccessIsSearchable
  PointersResolve
  SupersedeLinksAreSound
PROPERTIES
  ImplementsContract
  ImplementsDelivery
CHECK_DEADLOCK FALSE
