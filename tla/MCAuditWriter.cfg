CONSTANTS
  Event = {e1}
  OldEvent = {old}
  LayoutCommitted = committed
  EmptyTag = EmptyTag
  Proc = {p1, p2}
  NoProc = NoProc
  QueueCap = 1
  StorageFaults = TRUE
  WRITE_LOCK_ATTEMPTS = 2
  InitialLogs <- MCInitialLogs
SPECIFICATION Spec
INVARIANTS ExportsVerifyAsLog
PROPERTIES NeverLaundered EveryCallAnswered
CHECK_DEADLOCK FALSE
