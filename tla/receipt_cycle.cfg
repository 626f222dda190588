SPECIFICATION FairSpec
CONSTANTS
  Roots = {1, 2}
  Workers = {w1}
  Operators = {}
  Networks = {"testnet", "invalid"}
  MainnetDisabled = TRUE
  MaxSubmissions = 2
  ListLimit = 2
  ConfirmCap = 1
  MaxRetries = 0
  MaxCrashes = 1
INVARIANTS
  ConfirmedIsDeep
PROPERTIES
  ConfirmedIsFinal
  QueuedIsAttempted
