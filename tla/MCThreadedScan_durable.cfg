SPECIFICATION Spec
CONSTANTS
  a = a
  b = b
  x = x
  root = root
  other = other
  sub = sub
  NoPath = NoPath
  NoDir = NoDir
  Paths <- MCPaths
  ValidPaths <- MCPaths
  Wordlist <- MCTwo
  NativeCorpus = FALSE
  ThreadCount = 2
  Dirs <- MCDirs
  Subdirs <- MCRoot
  Child <- MCChild
  Link <- MCLink
  CommitBatchSize = 2
  MoreUrls = TRUE
  Deadlines = FALSE
  Failures = {}
  MaxSignals = 1
INVARIANTS
  CheckpointDurable
