\* Three albums with one track each, two releases of one group.
SPECIFICATION Spec
CONSTANTS
  a1 = a1
  a2 = a2
  a3 = a3
  t1 = t1
  t2 = t2
  t3 = t3
  p1 = p1
  r1 = r1
  r2 = r2
  g1 = g1
  None = None
  Albums <- MCAlbums
  Tracks <- MCTracks
  Profiles <- MCProfiles
  Releases <- MCReleases
  Title <- MCTitle
  Filed <- MCFiled
  Taggings <- MCTaggings
  Group <- MCGroup
  Fit <- MCFit
  MaxScans = 1
  MaxLoves = 2
INVARIANTS
  OpinionsFollow
  VisibleTogether
PROPERTIES
  ReleasesSurvive
  PassEnds
CHECK_DEADLOCK FALSE
