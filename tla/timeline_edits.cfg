SPECIFICATION Spec
CONSTANTS
  Contents = {a, b}
  Clients = {c1, c2}
  MaxIndex = 1
SYMMETRY Symmetry
CHECK_DEADLOCK FALSE
INVARIANTS
  FrozenManifestCoversEvents
  IdsNameIndexes
