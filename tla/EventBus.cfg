\* Every interleaving of two publishers with one stream; channels of one event.
SPECIFICATION FairSpec
CONSTANTS
  p1 = p1
  p2 = p2
  Publishers <- MCPublishers
  Cap = 1
  Keep = 2
  PruneEvery = 2
  MaxSeq = 3
  MaxConnects = 2
INVARIANTS
  LosslessUnlessEndangered
PROPERTIES
  IdsIncrease
  EventReceived
CHECK_DEADLOCK FALSE
