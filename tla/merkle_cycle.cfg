SPECIFICATION FairSpec
CONSTANTS
  Networks = {net1, net2}
  Disabled = {net2}
  Ids = {a}
  Workers = {w1, w2}
  MaxBatches = 2
  BatchLimit = 1
  ListLimit = 1
  MaxAttempts = 2
  Prompt = FALSE
  MaxCrashes = 2
INVARIANTS
  ReceiptsAgree
  BroadcastsAccountedFor
  MembershipAgrees
PROPERTIES
  BatchIsResolved
