CONSTANTS
  BOUNDED_MATCH_LIMIT = 8
  Texts <- MCTexts
  Budgets = {5, 8, 100}
  HighEntropy <- MCHighEntropy
  Owner = {o1, o2}
  Server = {s1, s2}
  Text = {t1, t2}
  NoText = NoText
  Absent = Absent
  Torn = Torn
  Sealed = Sealed
  MaxCommands = 3
  MaxCalls = 2
  MIN_MASKED_LEN = 2
  MAX_ERROR_MESSAGE_LEN = 3
  Token = 0
  Redacted = 9
  Separator = 8
  Ellipsis = 7
  Digest = 6
  Docs <- MCDocs
  Saying <- MCSaying
  Names <- MCNames
SPECIFICATION MCSpec
INVARIANTS RedactedExactly LastWordStands NothingLeavesUnmasked
SYMMETRY MCSymmetry
CHECK_DEADLOCK FALSE
