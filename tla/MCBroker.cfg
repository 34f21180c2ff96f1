CONSTANTS
  p1 = p1
  p2 = p2
  o1 = o1
  o2 = o2
  NoPolicy = NoPolicy
  NoCall = NoCall
  Profile = {p1}
  Name = {p1, p2}
  Op = {o1, o2}
  Policy <- MCPolicy
  Call <- MCCall
  Config <- MCConfig
  DefaultConfig <- MCDefault
  EnvMode = "silent"
  RawEnabled <- MCRaw
  Remote = {TRUE}
  CacheTtl = 1
  MaxTime = 1
  MaxVars = 2
  MaxEdits = 1
  Workspace = {w1, w2}
  Template = {t, u}
  Unusable = {u}
  Shell = {sh}
  Server = Server
  Nil = Nil
  MaxJwt = 1
  MaxVersion = 2
  MaxPasses = 2
  MaxCalls = 1
  MaxChanges = 1
SPECIFICATION MCSpec
SYMMETRY MCSymmetry
INVARIANTS
  AdmittedAsSigned
  QuotaHolds
  MaskedUnlessChanged
  HealedWhole
  BarredUntilWhole
PROPERTIES
  CacheHitBacked
