SPECIFICATION FairSpec
CONSTANTS
  a = a
  b = b
  x = x
  NoPath = NoPath
  Paths <- MCPaths
  ValidPaths <- MCPaths
  Wordlist <- MCTwo
  NativeCorpus = TRUE
  ClaimSize = 2
  Calibrations = 1
  Link <- MCLink
  Failures = {"engine", "skip"}
  Directories = 2
  MoreUrls = TRUE
  Deadlines = TRUE
  MaxSignals = 1
INVARIANTS
  ScanAccounts
  PauseQuiescent
  ContinueSound
PROPERTIES
  CheckpointExact
  TargetEnds
