CONSTANTS
  Tabs = {b1}
  Requests = {r1, r2, r3, r4, r5}
  Faults = {"expiry"}
  Null = Null
SPECIFICATION Spec
INVARIANTS NoFalseReplay SignedInCanRefresh
PROPERTIES LoadingEnds
CHECK_DEADLOCK FALSE
