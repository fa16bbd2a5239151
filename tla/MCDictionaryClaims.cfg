SPECIFICATION MCSpec
CONSTANTS
  a = a
  b = b
  x = x
  bad = bad
  Paths <- MCPaths
  ValidPaths <- MCValidPaths
  Wordlist <- MCWordlist
  NativeCorpus = TRUE
  Workers = {w1}
  NativeRequests = TRUE
  ChunkSize = 2
  NoPath = NoPath
  MaxExtra = 4
INVARIANTS
  Conservation
  DiscoveredOnce
  ReleaseNeverFails
