SPECIFICATION Spec
CONSTANTS
  Receipts = {r1, r2}
  Clients = {c1, c2}
  Workers = {w1}
  MaxAttempts = 2
  ClaimLimit = 1
  Immediate = TRUE
  MaxRequests = 3
  MaxCrashes = 1
CHECK_DEADLOCK FALSE
INVARIANTS BroadcastsWithinAttempts

