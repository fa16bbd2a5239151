SPECIFICATION AsyncSpec
CONSTANTS
  a = a
  b = b
  x = x
  Paths <- MCPaths
  ValidPaths <- MCPaths
  Wordlist <- MCWordlist
  NativeCorpus = FALSE
  Workers = {w1, w2}
  NativeRequests = FALSE
  ChunkSize = 1
  NoPath = NoPath
  MaxExtra = 4
  Directories = 2
  BatchSize = 2
  MaxSignals = 1
INVARIANTS AsyncCheckpoint NoLateWrite
PROPERTIES ImplementsClaims AsyncEnds
CHECK_DEADLOCK FALSE
