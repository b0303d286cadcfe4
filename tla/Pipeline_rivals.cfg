\* Two declarations of one declarer supersede the same third one.
SPECIFICATION Spec
CONSTANTS
  r1 = r1
  r2 = r2
  r3 = r3
  d1 = d1
  d2 = d2
  d3 = d3
  alice = alice
  bob = bob
  None = None
  Requests = {r1, r2, r3}
  Declarations = {d1, d2, d3}
  Declarers = {alice, bob}
  DeclarationOf <- FamilyOf
  Declarer <- RivalDeclarer
  Supersedes <- FamilySupersedes
  MaxDeliveries = 1
CONSTRAINT WithoutFaults
PROPERTY SupersededOnce
CHECK_DEADLOCK FALSE
