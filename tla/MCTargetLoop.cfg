SPECIFICATION Spec
CONSTANTS
  Stores = {"s1"}
  LegacyStores = {"s1"}
  NoSession = NoSession
  LegacySession <- MCLegacy
  Targets <- MCTargets
  Subdirs <- MCSubdirs
  Found = {"d"}
  Refused = {"x"}
  Words = 1
  MaxErrors = 1
  Threshold = 2
  MaxSignals = 2
  MaxProcesses = 2
INVARIANTS NothingLost NothingRepeated SessionSound ErrorsEarned
CHECK_DEADLOCK FALSE
