\* One of each, two polls and two callbacks at a time, two devices.
SPECIFICATION Spec
CONSTANTS
  p1 = p1
  q1 = q1
  g1 = g1
  h1 = h1
  h2 = h2
  l1 = l1
  b1 = b1
  b2 = b2
  a1 = a1
  None = None
  Profiles <- MCProfiles
  Listener = p1
  Pairings <- MCPairings
  Codes <- MCCodes
  Polls <- MCPolls
  Logins <- MCLogins
  Callbacks <- MCCallbacks
  Attempts <- MCAttempts
  MaxDevices = 2
SYMMETRY MCSymmetry
INVARIANTS
  OneDeviceEach
  TokensAreGranted
  DisconnectIsFinal
  LeaseProtects
CHECK_DEADLOCK FALSE
