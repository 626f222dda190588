SPECIFICATION Spec
CONSTANTS
  Tabs = {t1}
  Anons = {a1, a2}
  Agreements = {g1, g2}
  Conts = {k1}
  Procs = {p1, p2}
  User = User
  Local = Local
  Returning = Returning
  None = None
  MaxPurchases = 1
  MaxFaults = 1
SYMMETRY Symmetry
CHECK_DEADLOCK FALSE
INVARIANTS
  ClaimedSessionIsEmpty
  UsedContinuationSettles
  UserDraftsAreEntitled
