SPECIFICATION Spec
CONSTANTS
  f1 = f1
  f2 = f2
  Null = Null
  Families = {f1, f2}
  Watched <- ListAndGuard
  Visited <- FewPages
  Joined <- BothAtTheGuard
  MaxWrites <- WritesInOneFamily
  Faults = TRUE
CHECK_DEADLOCK FALSE
PROPERTIES OwnWriteAppears GuardCatchesUp
