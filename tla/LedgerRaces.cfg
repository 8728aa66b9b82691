CONSTANTS
  alice = alice
  bob = bob
  checking = checking
  savings = savings
  Users = {alice}
  Tenants = {smiths}
  Accounts = {checking, savings}
  Txns = {t1, t2, t3}
  Requests = {r1, r2}
  Jobs = {j1}
  Amounts = {1, 2}
  Balances = {0}
  Owner <- OneOwner
  Writers <- EveryoneWrites
  MaxLines = 2
  Null = Null
SPECIFICATION Spec
SYMMETRY Symmetry
INVARIANTS TypeOK BooksBalance PostedIsSum ReferentialIntegrity SessionsOK
PROPERTIES ImplementsAtomicLedger
CHECK_DEADLOCK FALSE
