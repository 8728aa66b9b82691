CONSTANTS
  Jobs = {j1}
  Workers = {w1, w2}
  MaxAttempts = 3
  MaxCrashes = 1
  Faults = {"database error"}
SPECIFICATION Spec
INVARIANTS AtMostOnce
CHECK_DEADLOCK FALSE
