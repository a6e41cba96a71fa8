\* Two requests at a time, a cache of one artifact, one interruption.
SPECIFICATION Spec
CONSTANTS
  c1 = c1
  c2 = c2
  k1 = k1
  k2 = k2
  k3 = k3
  Clients <- MCClients
  Keys <- MCKeys
  Originals <- MCOriginals
  Batches <- MCBatches
  Budget = 1
  MaxRows = 3
  MaxInterruptions = 1
SYMMETRY MCSymmetry
INVARIANTS
  WakeNotLost
  ReadyHasFile
  WithinBudget
  SettledIsTold
PROPERTY NoNeedlessEviction
CHECK_DEADLOCK FALSE
