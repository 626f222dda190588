SPECIFICATION Spec
CONSTANTS
  Roots = {1}
  Workers = {w1, w2}
  Operators = {o1}
  Networks = {"testnet"}
  MainnetDisabled = TRUE
  MaxSubmissions = 1
  ListLimit = 80
  ConfirmCap = 1
  MaxRetries = 1
  MaxCrashes = 0
SYMMETRY Symmetry
INVARIANTS
  MirrorAfterCanonical
  BroadcastsAccountedFor
