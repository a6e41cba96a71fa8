\* Two files, three contents that share artist or title, two failures.
SPECIFICATION Spec
CONSTANTS
  x = x
  y = y
  t = t
  u = u
  h = h
  None = None
  Files <- MCFiles
  Contents <- MCContents
  MaxAlbums = 4
  MaxEdits = 2
  MaxFaults = 2
INVARIANTS
  CacheHonest
  FiledByTags
PROPERTIES
  StaysWhileReadable
  CatchesUp
CHECK_DEADLOCK FALSE
