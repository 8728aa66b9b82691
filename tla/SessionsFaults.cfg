CONSTANTS
  Tabs = {b1, b2}
  Requests = {r1, r2, r3, r4}
  Faults = {"reload", "lost answer", "overlap", "expiry"}
  Null = Null
SPECIFICATION Spec
SYMMETRY Symmetry
INVARIANTS TypeOK OneLiveToken EndedStaysEnded LeftStaysLeft
CHECK_DEADLOCK FALSE
