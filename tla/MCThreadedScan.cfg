SPECIFICATION FairSpec
CONSTANTS
  a = a
  b = b
  x = x
  root = root
  other = other
  sub = sub
  NoPath = NoPath
  NoDir = NoDir
  Paths <- MCPaths
  ValidPaths <- MCPaths
  Wordlist <- MCOne
  NativeCorpus = FALSE
  ThreadCount = 2
  Dirs <- MCDirs
  Subdirs <- MCRoot
  Child <- MCChild
  Link <- MCLink
  CommitBatchSize = 2
  MoreUrls = TRUE
  Deadlines = TRUE
  Failures = {"skip","error"}
  MaxSignals = 1
INVARIANTS
  ClaimsIntact
  PauseSound
  CheckpointSound
  DrainedAtFinish
PROPERTIES
  ScanEnds
