CONSTANTS
  Jobs = {j1}
  Workers = {w1, w2}
  MaxAttempts = 3
  MaxCrashes = 2
  Faults = {"overlap", "database error", "lost answer"}
SPECIFICATION Spec
INVARIANTS TypeOK StatusTellsTruth NothingDropped FileOutlivesImport PendingHasTask
PROPERTIES EveryMessageSettles
CHECK_DEADLOCK FALSE
