SPECIFICATION Spec
CONSTANTS
  Jobs = {j1, j2}
  Roots = {r1, r2}
  NoRoot = NoRoot
  MaxSources = 2
  MaxGen = 3
  MaxRequests = 1
  MaxRestarts = 1
SYMMETRY Symmetry
INVARIANTS OperationExclusive OnlyLinkedRows PendingScanHasStarter ChangesAnnounced ResetsNotLost CloseJoins
PROPERTIES StaleForever PassSeesResets
CHECK_DEADLOCK FALSE
