SPECIFICATION Spec
CONSTANTS
  Rows = {r1, r2}
  MaxRows = 4
INVARIANTS
  Recoverable
  NeverDisappeared
  FlushedMeansPublished
PROPERTIES
  ImplementsLog
