SPECIFICATION FairSpec
CONSTANTS
  Receipts = {r1, r2}
  Clients = {c1, c2}
  Workers = {w1, w2}
  MaxAttempts = 2
  ClaimLimit = 1
  Immediate = FALSE
  MaxRequests = 2
  MaxCrashes = 1
PROPERTIES
  ReceiptTxidIsFinal
  QueueIsKept
  PendingIsResolved
