SPECIFICATION Spec
CONSTANTS
    Recipients = {r1}
    Owner = owner
    Requests = {q1, q2}
    None = none
    MaxCancels = 1
    MaxRebuilds = 1
    MaxFaults = 1
SYMMETRY Symmetry
CHECK_DEADLOCK FALSE
INVARIANTS
  ArtefactsRestOnSignatures
  OtherMarksAreRecorded
  MailingsAccountedFor
  FinishedIsAccountedFor
PROPERTIES
  LedgerIsKept
