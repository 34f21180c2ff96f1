CONSTANTS
  Home = {a, b}
  Terminal = {p1, p2}
  Slot = {c1}
  Field = {f1}
  Absent = Absent
  Torn = Torn
  Nobody = Nobody
  MaxCommands = 3
  MaxOverlaps = 1
  MaxCopies = 1
  MaxEdits = 1
SPECIFICATION Spec
INVARIANTS CodesHonoured SettingsKept
SYMMETRY Symmetry
CHECK_DEADLOCK FALSE
