CONSTANTS
  Value <- MCValue
  Absent = Absent
  GitUrl = {"git-a", "git-b"}
  RepoOf <- MCRepoOf
  OwnerOf <- MCOwnerOf
  Malformed = {"a/b/c"}
  S3Uri = {"s3-b1", "s3-b2"}
  BucketOf <- MCBucketOf
  Path <- MCPath
  Inside <- MCInside
  Top = "/"
  Nowhere = Nowhere
  Dangling = Dangling
  BrokerDir = "home"
  Canary = {"url-canary"}
  Wildcard = "*"
  Mutating = {"POST"}
  Interpreter = {"sh"}
  GitBinary = "git"
  GitConfig = {"-x"}
  Samples = {"work", "home"}
  Token <- MCToken
  NonString = NonString
  Empty = ""
  Allowlist <- MCAllowlist
  NoList = NoList
  Never = Never
  Call <- MCCall
  World <- MCWorld
  MaxDay = 1
  MaxEdits = 2
  PER_PAGE = 2
  DEFAULT_PAGES = 2
  MAX_PAGES = 3
  U32 = 8
  AskedPages = {0, 1, 4, 8, 9}
  Issue = {1, 2, 3, 4, 5, 6, 7}
  Topic = {t1, t2, t3}
  NonTopic = NonTopic
  Texts = {plain, Secret}
  Secret = Secret
  Scrubbed = Scrubbed
  MaxOthers = 2
  BURST = 2
  REFILL = 2
  Trees <- MCTrees
  Typed <- MCTyped
  Arguments <- MCArguments
  Profiles <- MCProfiles
  Unset = Unset
  MaxClock = 3
  MaxChanges = 1
  MaxCalls = 2
  Inherited <- MCInherited
  Secrets <- MCSecrets
  Directories <- MCDirectories
  NotJson = NotJson
  Missing = Missing
  MaxRuns = 1
  MaxTurns = 1
SPECIFICATION MCSpec
INVARIANTS WithinPolicy OptedInUnlessOpen VariableMatters PrimitivesAnswerTrue ResolvedAsMeant
CHECK_DEADLOCK FALSE
