SPECIFICATION FairSpec
CONSTANTS
  Jobs = {j1, j2}
  Roots = {r1}
  NoRoot = NoRoot
  MaxSources = 2
  MaxGen = 1
  MaxRequests = 1
  MaxRestarts = 1
PROPERTIES LinkedSourceIsScanned TriggerIsServed CloseReturns
CHECK_DEADLOCK FALSE
