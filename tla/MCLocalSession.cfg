CONSTANTS
  Proc = {p1, p2}
  Nobody = Nobody
  NoFile = NoFile
  Host = {h1, h2}
  Ttl = {0, 1, 2}
  MinTtl = 1
  MaxTtl = 1
  DefaultTtl = 1
  MaxTime = 1
  MaxWrites = 2
  w1 = w1
  w2 = w2
  Password = {w1, w2}
  None = None
  MaxCommands = 2
  MaxLaunches = 1
  MaxEdits = 1
  Workspace = {1, 2}
  MaxChanges = 1
SPECIFICATION MCSpec
INVARIANTS FilesAgree WithinMaxTtl ServerComesUp ReportedAsServed
PROPERTIES EveryCommandEnds
CHECK_DEADLOCK FALSE
