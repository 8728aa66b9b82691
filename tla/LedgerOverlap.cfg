CONSTANTS
  alice = alice
  bob = bob
  checking = checking
  savings = savings
  Users = {alice}
  Tenants = {smiths}
  Accounts = {checking}
  Txns = {t1, t2}
  Requests = {r1, r2}
  Jobs = {}
  Amounts = {1, 2}
  Balances = {0}
  Owner <- OneOwner
  Writers <- EveryoneWrites
  MaxLines = 1
  Null = Null
SPECIFICATION Spec
INVARIANTS BooksAlwaysBalance
CHECK_DEADLOCK FALSE
