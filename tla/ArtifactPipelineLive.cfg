\* One request at a time and room to ask again for what was evicted.
SPECIFICATION FairSpec
CONSTANTS
  c1 = c1
  c2 = c2
  k1 = k1
  k2 = k2
  k3 = k3
  Clients <- MCOneClient
  Keys <- MCKeys
  Originals <- MCOriginals
  Batches <- MCBatches
  Budget = 1
  MaxRows = 4
  MaxInterruptions = 1
PROPERTY SettlesUnlessCut
CHECK_DEADLOCK FALSE
