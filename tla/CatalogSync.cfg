SPECIFICATION FairSpec
CONSTANTS
  Rows = {1, 2}
  PageSize = 1
  MaxSeq = 2
INVARIANT CompleteUnlessOverlapped
PROPERTY SyncCatchesUp
