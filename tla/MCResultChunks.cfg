SPECIFICATION FairSpec
CONSTANTS
  w1 = w1
  w2 = w2
  Workers = {w1, w2}
  Count = 3
  ChunkSize = 2
INVARIANTS
  DeliveredExact
PROPERTIES
  ImplementsCall
  CallReturns
