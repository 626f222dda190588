SPECIFICATION Spec
CONSTANTS
  Browsers = {b1}
  Signers = {s1, s2}
  Texts = {t1, t2}
  None = None
  Closed = Closed
  MaxSaves = 3
  MaxVersions = 2
SYMMETRY Symmetry
CHECK_DEADLOCK FALSE
INVARIANTS
  SignedTextWasLocked
  SignaturesMatchText
  SeenIsRecorded
