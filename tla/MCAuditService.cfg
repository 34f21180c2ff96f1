CONSTANTS
  Event = {e1, e2}
  OldEvent = {old}
  LayoutCommitted = committed
  EmptyTag = EmptyTag
  Proc = {p1, p2}
  NoProc = NoProc
  QueueCap = 2
  StorageFaults = FALSE
  WRITE_LOCK_ATTEMPTS = 2
  InitialLogs <- MCInitialLogs
  Opener = {p1, p2}
  Nobody = NoProc
  Databases <- MCDatabases
  Number = {0, 1}
  Words <- MCWords
  Codes <- MCCodes
SPECIFICATION ServiceSpec
SYMMETRY MCSymmetry
INVARIANTS SchemaSound RowsToldApart ChainVerifies AnswersMatchLog
PROPERTIES PinnedRowsFrozen ImplementsAuditLog
CHECK_DEADLOCK FALSE
