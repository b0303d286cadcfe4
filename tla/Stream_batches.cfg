\* Ten records, two of them poison, with the batch size and the retries of the real
\* event source.
SPECIFICATION FairSpec
CONSTANTS
  N = 10
  Poison = {3, 8}
  BatchSize = 10
  RetryAttempts = 3
INVARIANTS
  NothingIsForgotten
  GoodAreProcessed
PROPERTIES
  ImplementsDelivery
  StreamDrains
CHECK_DEADLOCK FALSE
