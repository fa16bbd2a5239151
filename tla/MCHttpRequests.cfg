SPECIFICATION HttpSpec
CONSTANTS
  Workers = {0, 1}
  MaxRate = 1
  Window = 2
  Poll = 1
  Requests = 3
  MaxTime = 0
  Configs <- MCConfigs
  MaxRetries = 1
  MaxRedirects = 2
  RawPaths = {0}
  MaxNonces = 2
CHECK_DEADLOCK FALSE
INVARIANTS
  WindowBound
  HopScope
  OwnConnection
  NonceCounts
PROPERTIES
  SleepsForward
  RequestsEnd
