---------------------------- MODULE MCHousehold ----------------------------
EXTENDS Household, TLC
CONSTANTS ann, bob, m1, m2, m3, food, fruit, apple, fun, more, t1, t2, b1, b2, shared, r1, r2

\* Two owners, and a tree of three levels with one transaction.
Family == [m \in Rows |->
  CASE m = m1 -> [user |-> ann, role |-> "owner", status |-> "active"]
    [] m = m2 -> [user |-> bob, role |-> "owner", status |-> "active"]
    [] OTHER -> Null]

Tree == [k \in Categories |->
  CASE k \in {food, fun} -> [parent |-> Null, kind |-> "expense"]
    [] k = fruit -> [parent |-> food, kind |-> "expense"]
    [] k = apple -> [parent |-> fruit, kind |-> "expense"]
    [] OTHER -> Null]

Start == [members |-> Family,
          categories |-> Tree,
          transactions |-> [t \in Transactions |->
            IF t = t1 THEN [category |-> apple, kind |-> "expense"] ELSE Null],
          budgets |-> {b1},
          links |-> [b \in Budgets |-> IF b = b1 THEN {[category |-> fruit, by |-> Null]} ELSE {}]]

OfBob == [a \in Accounts |-> bob]
Symmetry == Permutations(Requests)
=============================================================================
