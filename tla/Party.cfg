\* A host and two guests, two requests at a time.
SPECIFICATION Spec
CONSTANTS
  p1 = p1
  p2 = p2
  p3 = p3
  h1 = h1
  h2 = h2
  Profiles <- MCProfiles
  Host = p1
  Handlers <- MCHandlers
  MaxOps = 4
  MaxFaults = 1
SYMMETRY MCSymmetry
INVARIANTS
  EveryoneTold
  InvitedAreTold
CHECK_DEADLOCK FALSE
