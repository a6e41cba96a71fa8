\* A playlist of eleven, in pages of three.
SPECIFICATION Spec
CONSTANTS
  Limit = 3
  MaxItems = 11
  MaxRemovals = 1
INVARIANTS
  EachItemOnce
CHECK_DEADLOCK FALSE
