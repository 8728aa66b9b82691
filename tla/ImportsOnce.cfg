CONSTANTS
  Jobs = {j1, j2}
  Workers = {w1, w2}
  MaxAttempts = 3
  MaxCrashes = 1
  Faults = {"overlap"}
SPECIFICATION Spec
SYMMETRY Symmetry
INVARIANTS AtMostOnce
PROPERTIES DoneIsFinal
CHECK_DEADLOCK FALSE
