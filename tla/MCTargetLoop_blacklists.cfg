SPECIFICATION Spec
CONSTANTS
  Stores = {"s1"}
  LegacyStores = {}
  NoSession = NoSession
  LegacySession <- MCLegacy
  Targets <- MCTargets
  Subdirs <- MCSubdirs
  Found = {"d"}
  Refused = {"x"}
  Words = 1
  MaxErrors = 1
  Threshold = 2
  MaxSignals = 1
  MaxProcesses = 2
INVARIANT BlacklistsApplied
CHECK_DEADLOCK FALSE
