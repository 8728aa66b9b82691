CONSTANTS
  ann = ann
  bob = bob
  m1 = m1
  m2 = m2
  m3 = m3
  food = food
  fruit = fruit
  apple = apple
  fun = fun
  more = more
  t1 = t1
  t2 = t2
  b1 = b1
  b2 = b2
  shared = shared
  r1 = r1
  r2 = r2
  Users = {ann, bob}
  Rows = {m1, m2, m3}
  Accounts = {shared}
  Owner <- OfBob
  Requests = {r1, r2}
  Categories = {food, fruit, apple, fun, more}
  Transactions = {t1, t2}
  Budgets = {b1, b2}
  Seeded <- Start
  Null = Null
  Gone = Gone
SPECIFICATION Spec
SYMMETRY Symmetry
INVARIANTS TypeOK OwnerRemains SharesFollowMembers CategoriesFormTree TreeIsWhole LinksAsIntended SpentAgrees
CHECK_DEADLOCK FALSE
