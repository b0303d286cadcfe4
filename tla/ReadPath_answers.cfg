\* One call of an endpoint of each kind, while two declarations are indexed and
\* redacted.
SPECIFICATION Spec
CONSTANTS
  i1 = i1
  i2 = i2
  i3 = i3
  d1 = d1
  d2 = d2
  p = p
  q1 = q1
  None = None
  Items = {i1, i2, i3}
  Declarations = {d1, d2}
  Products = {p}
  ItemOf <- TwoDeclarations
  ProductOf <- FirstHasProduct
  Score <- NearAndFar
  Screened <- DeniedToRandom
  Legacy = {d2}
  Readers = {q1}
  Endpoints = {"search", "searchIscc", "searchByDeclarer", "latest", "random",
               "full", "byIdentifier", "byDecId"}
  HitLimit = 2
  BatchMax = 1
INVARIANTS
  RedactedIsHidden
  AnswersAreComplete
CONSTRAINT Bounded
CHECK_DEADLOCK FALSE
