SPECIFICATION FairSpec
CONSTANTS
  Jobs = {j1, j2, j3}
  Workers = {w1, w2}
  ClaimLimit = 2
  MaxCrashes = 1
CHECK_DEADLOCK FALSE
INVARIANTS
  BroadcastsOncePerWorker
PROPERTIES
  JobGetsResult
