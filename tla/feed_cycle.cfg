SPECIFICATION FairSpec
CONSTANTS
  Events = {e1, e2}
  Workers = {w1, w2}
  ClaimLimit = 1
  MaxAttempts = 2
  Slow = {e2}
  MaxOvertaken = 2
  MaxCrashes = 1
INVARIANTS
  EventFollowsJob
PROPERTIES
  QueueIsKept
  EventIsSettled
