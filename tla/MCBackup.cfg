CONSTANTS
  Proc = {p1, p2}
  Key = {1, 2}
  Value = {v1, v2}
  Unset = Unset
  NoFile = NoFile
  Torn = Torn
  NoDir = NoDir
  OldDoc <- MCOldDoc
  MaxCommands = 3
  MaxBackups = 2
SPECIFICATION Spec
INVARIANTS VerifiedOnlyHere NothingLost
SYMMETRY MCSymmetry
CHECK_DEADLOCK FALSE
