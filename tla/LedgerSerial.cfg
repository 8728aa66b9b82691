CONSTANTS
  alice = alice
  bob = bob
  checking = checking
  savings = savings
  Users = {alice, bob}
  Tenants = {smiths}
  Accounts = {checking, savings}
  Txns = {t1, t2}
  Requests = {r1, r2, r3}
  Jobs = {j1}
  Amounts = {1, 2}
  Balances = {0}
  Owner <- TwoOwners
  Writers <- EveryoneWrites
  MaxLines = 1
  Null = Null
SPECIFICATION SerialSpec
SYMMETRY Symmetry
INVARIANTS BooksAlwaysBalance
CHECK_DEADLOCK FALSE
