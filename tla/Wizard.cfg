SPECIFICATION MCSpec
CONSTANTS
  one = one
  other = other
  bank = bank
  card = card
  l1 = l1
  bad = bad
  Null = Null
  Families = {one, other}
  Accounts = {bank, card}
  Credit = {card}
  Lines = {l1, bad}
  Malformed = {bad}
  Value <- Statement
  MaxMounts = 2
  MaxTries = 2
  Faults = TRUE
INVARIANTS TypeOK OneJobPerPress AnalysedForItsAccount NoBlindDouble ConventionAsShown
PROPERTIES ImportComesToRest
