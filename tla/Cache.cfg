SPECIFICATION Spec
CONSTANTS
  f1 = f1
  f2 = f2
  Null = Null
  Families = {f1, f2}
  Watched <- OneOfEach
  Visited <- PagesFor
  Joined <- OnlyF1
  MaxWrites <- WritesInOneFamily
  Faults = FALSE
CHECK_DEADLOCK FALSE
INVARIANTS TypeOK OwnWritesShown GuardTellsToken
