CONSTANTS
  Proc = {s1, s2}
  Inode = {i1, i2, i3}
  NoInode = NoInode
  NoSession = NoSession
  Ttl = 2
  Lead = 1
  MaxTime = 2
  MaxToken = 3
SPECIFICATION TokensSpec
INVARIANTS TokenOnDiskUsable
PROPERTIES SessionOnlyRenewed EveryRefreshEnds
