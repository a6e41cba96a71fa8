\* One play session that is inserted twice, two connections, one interruption.
SPECIFICATION Spec
CONSTANTS
  p1 = p1
  Plays <- MCPlays
  MaxLives = 2
  MaxConns = 2
  MaxInterruptions = 1
INVARIANTS
  AnnouncedOnce
  PurgesOnlyRefused
PROPERTIES
  KeepsPromise
  PlaysSettle
CHECK_DEADLOCK FALSE
