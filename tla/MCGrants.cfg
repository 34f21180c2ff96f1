CONSTANTS
  Proc = {p1, p2}
  Inode = {i1, i2}
  NoInode = NoInode
  Root = {r1, r2}
  Op = {o1}
  IdleCap = 1
  NoGrant = NoGrant
  Torn = Torn
  MaxTime = 1
  MaxGrant = 2
SPECIFICATION GrantsSpec
INVARIANTS AppliesOnlyAsIssued KeysAgree RevokedIsGone
SYMMETRY Symmetric
CONSTANT MaxVerdict = 1
