--------------------------- MODULE HouseholdProofs ---------------------------
(* Proofs about Household and Members, for every value of their constants. *)
EXTENDS Household, FiniteSetTheorems, FunctionTheorems, TLAPS

-----------------------------------------------------------------------------
(* What the dialogs offer is in the list they were given. *)

LEMMA Offered ==
  ASSUME NEW list \in CategoryTables
  PROVE  /\ Existing(list) \subseteq Categories
         /\ \A k \in Existing(list) : list[k] \in CategoryRows
         /\ CategoryTree(list) \subseteq Existing(list)
         /\ \A given \in SUBSET Existing(list), kind \in Kinds :
              CategorySelect(list, given, kind) \subseteq given
         /\ AddCategoryModal(list) \subseteq CategoryRows
         /\ \A k \in Categories, row \in CategoryRows :
              /\ EditCategoryModal(list, k, row) \subseteq CategoryRows
              /\ DeleteCategoryConfirm(list, k, row) \subseteq (Existing(list) \ {k}) \cup {Null}
         /\ TransactionForm(list) \subseteq Posted
<1>1. Existing(list) \subseteq Categories
  BY DEF Existing
<1>2. \A k \in Existing(list) : list[k] \in CategoryRows
  BY DEF Existing, Exists, CategoryTables
<1>3. CategoryTree(list) \subseteq Existing(list)
  BY DEF CategoryTree, RootCategories
<1>4. \A given \in SUBSET Existing(list), kind \in Kinds :
        CategorySelect(list, given, kind) \subseteq given
  BY DEF CategorySelect
<1>5. AddCategoryModal(list) \subseteq CategoryRows
  <2>1. \A p \in CategoryTree(list) : [parent |-> p, kind |-> list[p].kind] \in CategoryRows
    BY <1>1, <1>2, <1>3 DEF CategoryRows
  <2>2. \A kind \in Kinds : \A p \in {Null} \cup CategorySelect(list, Existing(list), kind) :
          [parent |-> p, kind |-> kind] \in CategoryRows
    BY <1>1, <1>4 DEF CategoryRows
  <2> QED BY <2>1, <2>2 DEF AddCategoryModal
<1>6. \A k \in Categories, row \in CategoryRows : EditCategoryModal(list, k, row) \subseteq CategoryRows
  BY DEF EditCategoryModal
<1>7. \A k \in Categories, row \in CategoryRows :
        DeleteCategoryConfirm(list, k, row) \subseteq (Existing(list) \ {k}) \cup {Null}
  <2> SUFFICES ASSUME NEW k \in Categories, NEW row \in CategoryRows
               PROVE  DeleteCategoryConfirm(list, k, row) \subseteq (Existing(list) \ {k}) \cup {Null}
    OBVIOUS
  <2> DEFINE given == {p \in Existing(list) : p # k /\ list[p].kind = row.kind}
  <2>1. row.kind \in Kinds
    BY DEF CategoryRows
  <2>2. CategorySelect(list, given, row.kind) \subseteq given
    BY <2>1, <1>4
  <2> QED BY <2>2 DEF DeleteCategoryConfirm
<1>8. TransactionForm(list) \subseteq Posted
  <2>1. \A kind \in Kinds : CategorySelect(list, Existing(list), kind) \subseteq Categories
    BY <1>1, <1>4
  <2>2. UNION {CategorySelect(list, Existing(list), kind) : kind \in Kinds} \subseteq Categories
    BY <2>1
  <2> QED BY <2>2 DEF TransactionForm, Posted
<1> QED BY <1>1, <1>2, <1>3, <1>4, <1>5, <1>6, <1>7, <1>8

-----------------------------------------------------------------------------
(* What a request carries, from step to step. *)

AskedOK(q, txs) ==
  LET asked == q.asked IN
  /\ asked.op = "create_membership" =>
       asked.user \in Users \cup {Null} /\ asked.role \in Roles
  /\ asked.op = "update_membership" =>
       asked.row \in Rows /\ asked.role \in Roles \cup {Null} /\ asked.status \in Statuses \cup {Null}
  /\ asked.op = "delete_membership" => asked.row \in Rows
  /\ asked.op = "create_account_share" => asked.account \in Accounts /\ Owner[asked.account] = q.user
  /\ asked.op = "create_category" => asked.new \in CategoryRows
  /\ asked.op = "update_category" => asked.category \in Categories /\ asked.edit \in CategoryRows
  /\ asked.op = "delete_category" =>
       asked.category \in Categories /\ asked.reassign_to \in (Categories \ {asked.category}) \cup {Null}
  /\ asked.op \in {"create_transaction", "update_transaction"} =>
       asked.transaction \in Transactions /\ asked.data \in Posted
  /\ asked.op = "update_transaction" => txs[asked.transaction] # Null
  /\ asked.op \in {"create_budget", "update_budget"} => asked.category_ids \subseteq Categories
  /\ asked.op \in {"update_budget", "delete_budget"} => asked.budget \in Budgets

\* A row that is there now is the one that was read.
SameUser(table, m, u) == table[m] # Null /\ (Exists(table[m]) => table[m].user = u)

ReadOK(q, table, txs) ==
  LET read == q.read IN
  /\ q.asked.op = "delete_membership" =>
       /\ SameUser(table, q.asked.row, read.user)
       /\ read.unshared = {a \in read.saw : Owner[a] = read.user}
       /\ read.owner => read.owners \in Nat /\ read.owners >= 2
  /\ q.asked.op = "delete_category" =>
       read \subseteq Transactions /\ \A t \in read : txs[t] # Null

RequestOK(q, table, txs) ==
  /\ q.at \in {"new", "handler", "commit", "over"}
  /\ q.at \in {"handler", "commit"} =>
       /\ q.user \in Users /\ q.row \in Rows /\ q.mine \in Memberships
       /\ SameUser(table, q.row, q.mine.user)
       /\ AskedOK(q, txs)
  /\ q.at = "commit" => ReadOK(q, table, txs)

RequestsOK ==
  /\ requests = [r \in Requests |-> requests[r]]
  /\ \A r \in Requests : RequestOK(requests[r], members, transactions)

Typed == TypeOK /\ RequestsOK

\* No row comes back, changes hands, or stops being a row.
MembersKept(table, next) ==
  \A k \in Rows :
    table[k] # Null =>
      /\ next[k] # Null
      /\ Exists(next[k]) => Exists(table[k]) /\ next[k].user = table[k].user

TransactionsKept(txs, next) == \A t \in Transactions : txs[t] # Null => next[t] # Null

LEMMA RequestKept ==
  ASSUME NEW table, NEW table2, MembersKept(table, table2),
         NEW txs, NEW txs2, TransactionsKept(txs, txs2),
         NEW q, RequestOK(q, table, txs)
  PROVE  RequestOK(q, table2, txs2)
<1>1. \A m \in Rows : \A u : SameUser(table, m, u) => SameUser(table2, m, u)
  BY DEF SameUser, MembersKept
<1>2. CASE q.at \in {"handler", "commit"}
  <2>1. AskedOK(q, txs2)
    BY <1>2 DEF RequestOK, AskedOK, TransactionsKept
  <2>2. q.at = "commit" => ReadOK(q, table2, txs2)
    BY <1>1, <1>2 DEF RequestOK, ReadOK, AskedOK, TransactionsKept
  <2> QED BY <1>1, <1>2, <2>1, <2>2 DEF RequestOK
<1>3. CASE q.at \notin {"handler", "commit"}
  BY <1>3 DEF RequestOK
<1> QED BY <1>2, <1>3

\* A step that changes one request, to one that is in order.
LEMMA OneRequest ==
  ASSUME RequestsOK, NEW r \in Requests, NEW q,
         requests' = [requests EXCEPT ![r] = q],
         RequestOK(q, members', transactions'),
         MembersKept(members, members'), TransactionsKept(transactions, transactions')
  PROVE  RequestsOK'
<1>1. requests' = [s \in Requests |-> requests'[s]]
  BY DEF RequestsOK
<1>2. ASSUME NEW s \in Requests
      PROVE  RequestOK(requests'[s], members', transactions')
  <2>1. CASE s = r
    BY <2>1 DEF RequestsOK
  <2>2. CASE s # r
    <3>1. requests'[s] = requests[s] /\ RequestOK(requests[s], members, transactions)
      BY <2>2 DEF RequestsOK
    <3> QED BY <3>1, RequestKept
  <2> QED BY <2>1, <2>2
<1> QED BY <1>1, <1>2 DEF RequestsOK

LEMMA Answered ==
  ASSUME RequestsOK, NEW r \in Requests, Answer(r),
         MembersKept(members, members'), TransactionsKept(transactions, transactions')
  PROVE  RequestsOK'
<1>1. RequestOK(Over, members', transactions')
  BY DEF RequestOK, Over
<1> QED BY <1>1, OneRequest DEF Answer

\* What Proceed makes of a request.
Committed(r, read) ==
  [at |-> "commit", user |-> requests[r].user, row |-> requests[r].row,
   mine |-> requests[r].mine, asked |-> requests[r].asked, read |-> read]

LEMMA Proceeded ==
  ASSUME RequestsOK, NEW r \in Requests, NEW read, Proceed(r, read),
         requests[r].at = "handler", UNCHANGED <<members, transactions>>,
         ReadOK(Committed(r, read), members, transactions)
  PROVE  RequestsOK'
<1>1. requests' = [requests EXCEPT ![r] = Committed(r, read)]
  BY DEF Proceed, Committed
<1>2. RequestOK(requests[r], members, transactions)
  BY DEF RequestsOK
<1>3. RequestOK(Committed(r, read), members, transactions)
  <2>1. AskedOK(Committed(r, read), transactions)
    BY <1>2 DEF RequestOK, AskedOK, Committed
  <2> QED BY <1>2, <2>1 DEF RequestOK, Committed
<1>4. MembersKept(members, members') /\ TransactionsKept(transactions, transactions')
  BY DEF MembersKept, TransactionsKept
<1> QED BY <1>1, <1>3, <1>4, OneRequest

-----------------------------------------------------------------------------
(* Types *)

LEMMA TypedInit == Init => Typed
<1> SUFFICES ASSUME Init PROVE Typed
  OBVIOUS
<1>1. TypeOK
  <2>1. categories \in CategoryTables /\ listed \in [Users -> SUBSET CategoryTables]
    BY SeededAssumption DEF Init, CategoryTables
  <2>2. links \in [Budgets -> SUBSET [category : Existing(categories), by : Requests \cup {Null}]]
        /\ intended \in [Budgets -> SUBSET Existing(categories)]
        /\ budgets \in [Budgets -> {"unborn", "there", "gone"}]
    BY SeededAssumption DEF Init
  <2>3. /\ \A k \in Existing(categories) : categories[k].parent \in Existing(categories) \cup {Null}
        /\ transactions \in [Transactions -> [category : Existing(categories), kind : Kinds] \cup {Null}]
    BY SeededAssumption DEF Init
  <2>4. members \in [Rows -> Memberships \cup {Null, Gone}]
    BY SeededAssumption DEF Init
  <2> QED BY <2>1, <2>2, <2>3, <2>4 DEF Init, TypeOK, New
<1>2. RequestsOK
  BY DEF Init, RequestsOK, RequestOK, New
<1> QED BY <1>1, <1>2 DEF Typed

\* Whatever is asked for is in order.
LEMMA AskedInOrder ==
  ASSUME Typed, NEW r \in Requests, NEW u \in Users,
         CategoryRequest(r, u) \/ MembershipRequest(r, u) \/ BudgetRequest(r, u) \/ TransactionRequest(r, u)
  PROVE  \E m \in Rows : \E asked :
           /\ get_active_context(r, u, m, asked)
           /\ AskedOK([user |-> u, asked |-> asked], transactions)
<1>0. listed[u] \subseteq CategoryTables
  BY DEF Typed, TypeOK
<1>1. ActiveRowsOf(u) \subseteq Rows
  BY DEF ActiveRowsOf
<1> DEFINE InOrder(asked) == AskedOK([user |-> u, asked |-> asked], transactions)
<1>2. CASE MembershipRequest(r, u)
  <2>1. \A invited \in Users \cup {Null}, role \in Roles :
          InOrder([op |-> "create_membership", user |-> invited, role |-> role])
    BY DEF AskedOK
  <2>2. \A k \in Rows, role \in Roles \cup {Null}, status \in Statuses \cup {Null} :
          InOrder([op |-> "update_membership", row |-> k, role |-> role, status |-> status])
    BY DEF AskedOK
  <2>3. \A k \in Rows : InOrder([op |-> "delete_membership", row |-> k])
    BY DEF AskedOK
  <2>4. \A a \in Accounts : Owner[a] = u => InOrder([op |-> "create_account_share", account |-> a])
    BY DEF AskedOK
  <2> HIDE DEF InOrder
  <2>5. \E m \in Rows : \E asked : get_active_context(r, u, m, asked) /\ InOrder(asked)
    BY <1>1, <1>2, <2>1, <2>2, <2>3, <2>4 DEF MembershipRequest
  <2> QED BY <2>5 DEF InOrder
<1>3. CASE CategoryRequest(r, u)
  <2>1. \A list \in listed[u] : \A new \in AddCategoryModal(list) :
          InOrder([op |-> "create_category", new |-> new])
    BY <1>0, Offered DEF AskedOK
  <2>2. \A list, opened \in listed[u] : \A k \in CategoryTree(opened) :
          /\ k \in Categories
          /\ EditCategoryModal(list, k, opened[k]) \subseteq CategoryRows
          /\ DeleteCategoryConfirm(list, k, opened[k]) \subseteq (Categories \ {k}) \cup {Null}
    <3> SUFFICES ASSUME NEW list \in listed[u], NEW opened \in listed[u], NEW k \in CategoryTree(opened)
                 PROVE  /\ k \in Categories
                        /\ EditCategoryModal(list, k, opened[k]) \subseteq CategoryRows
                        /\ DeleteCategoryConfirm(list, k, opened[k]) \subseteq (Categories \ {k}) \cup {Null}
      OBVIOUS
    <3>1. list \in CategoryTables /\ opened \in CategoryTables
      BY <1>0
    <3>2. k \in Categories /\ opened[k] \in CategoryRows
      BY <3>1, Offered
    <3>3. Existing(list) \subseteq Categories
      BY <3>1, Offered
    <3>4. /\ EditCategoryModal(list, k, opened[k]) \subseteq CategoryRows
          /\ DeleteCategoryConfirm(list, k, opened[k]) \subseteq (Existing(list) \ {k}) \cup {Null}
      BY <3>1, <3>2, Offered
    <3> QED BY <3>2, <3>3, <3>4
  <2>3. \A list, opened \in listed[u] : \A k \in CategoryTree(opened) :
          /\ \A edit \in EditCategoryModal(list, k, opened[k]) :
               InOrder([op |-> "update_category", category |-> k, edit |-> edit,
                        kindSent |-> edit.kind # opened[k].kind,
                        parentSent |-> edit.parent # opened[k].parent])
          /\ \A target \in DeleteCategoryConfirm(list, k, opened[k]) :
               InOrder([op |-> "delete_category", category |-> k, reassign_to |-> target])
    BY <2>2 DEF AskedOK
  <2> HIDE DEF InOrder
  <2>4. \E m \in Rows : \E asked : get_active_context(r, u, m, asked) /\ InOrder(asked)
    <3>1. PICK m \in ActiveRowsOf(u), list \in listed[u] :
            \/ \E new \in AddCategoryModal(list) :
                 get_active_context(r, u, m, [op |-> "create_category", new |-> new])
            \/ \E opened \in listed[u] : \E k \in CategoryTree(opened) :
                 \/ \E edit \in EditCategoryModal(list, k, opened[k]) :
                      get_active_context(r, u, m,
                        [op |-> "update_category", category |-> k, edit |-> edit,
                         kindSent |-> edit.kind # opened[k].kind,
                         parentSent |-> edit.parent # opened[k].parent])
                 \/ \E target \in DeleteCategoryConfirm(list, k, opened[k]) :
                      get_active_context(r, u, m,
                        [op |-> "delete_category", category |-> k, reassign_to |-> target])
      BY <1>3, Zenon DEF CategoryRequest
    <3>2. m \in Rows
      BY <1>1
    <3>3. \E asked : get_active_context(r, u, m, asked) /\ InOrder(asked)
      <4>1. CASE \E new \in AddCategoryModal(list) :
                   get_active_context(r, u, m, [op |-> "create_category", new |-> new])
        BY <2>1, <4>1, Zenon
      <4>2. CASE \E opened \in listed[u] : \E k \in CategoryTree(opened) :
                   \E edit \in EditCategoryModal(list, k, opened[k]) :
                      get_active_context(r, u, m,
                        [op |-> "update_category", category |-> k, edit |-> edit,
                         kindSent |-> edit.kind # opened[k].kind,
                         parentSent |-> edit.parent # opened[k].parent])
        <5>1. PICK opened \in listed[u] :
                \E k \in CategoryTree(opened) : \E edit \in EditCategoryModal(list, k, opened[k]) :
                get_active_context(r, u, m,
                  [op |-> "update_category", category |-> k, edit |-> edit,
                   kindSent |-> edit.kind # opened[k].kind,
                   parentSent |-> edit.parent # opened[k].parent])
          BY <4>2
        <5>2. PICK k \in CategoryTree(opened) : \E edit \in EditCategoryModal(list, k, opened[k]) :
                get_active_context(r, u, m,
                  [op |-> "update_category", category |-> k, edit |-> edit,
                   kindSent |-> edit.kind # opened[k].kind,
                   parentSent |-> edit.parent # opened[k].parent])
          BY <5>1
        <5>3. PICK edit \in EditCategoryModal(list, k, opened[k]) :
                get_active_context(r, u, m,
                  [op |-> "update_category", category |-> k, edit |-> edit,
                   kindSent |-> edit.kind # opened[k].kind,
                   parentSent |-> edit.parent # opened[k].parent])
          BY <5>2
        <5> QED BY <2>3, <5>3
      <4>3. CASE \E opened \in listed[u] : \E k \in CategoryTree(opened) :
                   \E target \in DeleteCategoryConfirm(list, k, opened[k]) :
                      get_active_context(r, u, m,
                        [op |-> "delete_category", category |-> k, reassign_to |-> target])
        BY <2>3, <4>3, Zenon
      <4> QED BY <3>1, <4>1, <4>2, <4>3, Zenon
    <3> QED BY <3>2, <3>3
  <2> QED BY <2>4 DEF InOrder
<1>4. CASE BudgetRequest(r, u)
  <2>1. \A chosen \in BudgetForm(listed[u]) : chosen \subseteq Categories
    BY <1>0, Offered DEF BudgetForm
  <2>2. \A chosen \in BudgetForm(listed[u]) :
          InOrder([op |-> "create_budget", category_ids |-> chosen])
    BY <2>1 DEF AskedOK
  <2>3. \A b \in Budgets : \A chosen \in BudgetForm(listed[u]) :
          InOrder([op |-> "update_budget", budget |-> b, category_ids |-> chosen])
    BY <2>1 DEF AskedOK
  <2>4. \A b \in Budgets : InOrder([op |-> "delete_budget", budget |-> b])
    BY DEF AskedOK
  <2> HIDE DEF InOrder
  <2>5. \E m \in Rows : \E asked : get_active_context(r, u, m, asked) /\ InOrder(asked)
    BY <1>1, <1>4, <2>2, <2>3, <2>4 DEF BudgetRequest
  <2> QED BY <2>5 DEF InOrder
<1>5. CASE TransactionRequest(r, u)
  <2>1. \A list \in listed[u] : TransactionForm(list) \subseteq Posted
    BY <1>0, Offered
  <2> QED BY <1>1, <1>5, <2>1 DEF TransactionRequest, AskedOK
<1> QED BY <1>2, <1>3, <1>4, <1>5

LEMMA AskTyped ==
  ASSUME Typed, NEW r \in Requests, NEW u \in Users, Ask(r, u)
  PROVE  Typed'
<1>1. PICK m, asked :
        /\ m \in Rows
        /\ get_active_context(r, u, m, asked)
        /\ AskedOK([user |-> u, asked |-> asked], transactions)
  BY AskedInOrder DEF Ask
<1> DEFINE q == [at |-> "handler", user |-> u, row |-> m, mine |-> members[m], asked |-> asked]
<1>2. requests' = [requests EXCEPT ![r] = q] /\ m \in ActiveRowsOf(u)
  BY <1>1 DEF get_active_context
<1>3. UNCHANGED <<members, shares, orphaning, strays, categories, transactions,
                  budgets, links, intended, strayed, listed>>
  BY DEF Ask, membersVars, budgetVars
<1>4. RequestOK(q, members, transactions)
  <2>1. AskedOK(q, transactions)
    BY <1>1 DEF AskedOK
  <2>2. members[m] \in Memberships /\ members[m] # Null
    BY <1>2 DEF ActiveRowsOf, Exists, Typed, TypeOK
  <2>3. m \in Rows /\ members[m].user = u
    BY <1>1, <1>2 DEF ActiveRowsOf
  <2> QED BY <2>1, <2>2, <2>3 DEF RequestOK, SameUser
<1>5. RequestsOK'
  <2>1. MembersKept(members, members') /\ TransactionsKept(transactions, transactions')
    BY <1>3 DEF MembersKept, TransactionsKept
  <2> QED BY <1>2, <1>3, <1>4, <2>1, OneRequest DEF Typed
<1>6. current' \subseteq Requests
  BY DEF Ask, CategoryRequest, Noted, Typed, TypeOK
<1>7. TypeOK'
  <2>1. \A s \in Requests : requests'[s].at \in {"new", "handler", "commit", "over"}
    BY <1>5 DEF RequestsOK, RequestOK
  <2> QED BY <1>3, <1>6, <2>1 DEF Typed, TypeOK, Existing
<1> QED BY <1>5, <1>7 DEF Typed

\* The steps of Members.

LEMMA MemberTypes ==
  ASSUME Typed, UNCHANGED <<treeVars, transactions, budgetVars, listed>>, RequestsOK',
         members' \in [Rows -> Memberships \cup {Null, Gone}],
         shares' \subseteq Accounts, strays' \subseteq Accounts,
         orphaning' \subseteq {"update", "overlap"}
  PROVE  Typed'
<1>1. \A s \in Requests : requests'[s].at \in {"new", "handler", "commit", "over"}
  BY DEF RequestsOK, RequestOK
<1> QED BY <1>1 DEF Typed, TypeOK, Existing, treeVars, budgetVars

LEMMA Open ==
  ASSUME Typed, NEW r \in Requests, requests[r].at \in {"handler", "commit"}
  PROVE  /\ requests[r].user \in Users /\ requests[r].mine \in Memberships
         /\ SameUser(members, requests[r].row, requests[r].mine.user)
         /\ AskedOK(requests[r], transactions)
         /\ requests[r].at = "commit" => ReadOK(requests[r], members, transactions)
  BY DEF Typed, RequestsOK, RequestOK

LEMMA MembershipStepTyped ==
  ASSUME Typed, NEW r \in Requests, MembershipStep(r),
         UNCHANGED <<treeVars, transactions, budgetVars, listed>>
  PROVE  Typed'
<1>0. /\ members \in [Rows -> Memberships \cup {Null, Gone}]
      /\ shares \subseteq Accounts /\ strays \subseteq Accounts
      /\ orphaning \subseteq {"update", "overlap"}
      /\ RequestsOK /\ TransactionsKept(transactions, transactions')
  BY DEF Typed, TypeOK, TransactionsKept
<1>1. CASE create_membership_for_tenant(r)
  <2>1. PICK m \in Rows :
          /\ members[m] = Null
          /\ members' = [members EXCEPT ![m] =
               [user |-> requests[r].asked.user, role |-> requests[r].asked.role,
                status |-> IF requests[r].asked.user = Null THEN "pending" ELSE "active"]]
    BY <1>1 DEF create_membership_for_tenant
  <2>2. requests[r].asked.user \in Users \cup {Null} /\ requests[r].asked.role \in Roles
    BY <1>1, Open DEF create_membership_for_tenant, Handling, AskedOK
  <2>3. members' \in [Rows -> Memberships \cup {Null, Gone}]
    BY <1>0, <2>1, <2>2 DEF Memberships, Statuses
  <2>4. MembersKept(members, members')
    BY <1>0, <2>1 DEF MembersKept
  <2>5. RequestsOK'
    BY <1>0, <1>1, <2>4, Answered DEF create_membership_for_tenant
  <2> QED BY <1>0, <1>1, <2>3, <2>5, MemberTypes DEF create_membership_for_tenant
<1>2. CASE apply_membership_update(r)
  <2>1. \A m, read : requests[r].asked.op = "update_membership" =>
          ReadOK(Committed(r, read), members, transactions)
    BY DEF ReadOK, Committed
  <2>2. MembersKept(members, members')
    BY <1>2 DEF MembersKept, apply_membership_update, membersVars
  <2>3. \/ Answer(r)
        \/ \E read : Proceed(r, read) /\ ReadOK(Committed(r, read), members, transactions)
    BY <1>2, <2>1 DEF apply_membership_update, Handling
  <2>4. RequestsOK'
    BY <1>0, <1>2, <2>2, <2>3, Answered, Proceeded
       DEF apply_membership_update, Handling, membersVars
  <2> QED BY <1>0, <1>2, <2>4, MemberTypes DEF apply_membership_update, membersVars
<1>3. CASE update_membership_for_tenant(r)
  <2> DEFINE m == requests[r].asked.row
             read == requests[r].read
             new == requests[r].asked
             written == [members[m] EXCEPT
                           !.role = IF new.role \in {Null, read.role} THEN @ ELSE new.role,
                           !.status = IF new.status \in {Null, read.status} THEN @ ELSE new.status]
  <2>1. m \in Rows /\ new.role \in Roles \cup {Null} /\ new.status \in Statuses \cup {Null}
    BY <1>3, Open DEF update_membership_for_tenant, Committing, AskedOK
  <2>2. \/ members' = members
        \/ Exists(members[m]) /\ members' = [members EXCEPT ![m] = written]
    BY <1>3 DEF update_membership_for_tenant
  <2>3. Exists(members[m]) => written \in Memberships /\ written.user = members[m].user
    <3> SUFFICES ASSUME Exists(members[m])
                 PROVE  written \in Memberships /\ written.user = members[m].user
      OBVIOUS
    <3>1. members[m] \in Memberships
      BY <1>0, <2>1 DEF Exists
    <3> QED BY <2>1, <3>1 DEF Memberships
  <2> HIDE DEF written
  <2>4. members' \in [Rows -> Memberships \cup {Null, Gone}]
    BY <1>0, <2>2, <2>3
  <2>5. MembersKept(members, members')
    <3>1. Exists(members[m]) => written # Null
      BY <2>3, MembersAssumption DEF Exists
    <3> QED BY <1>0, <2>1, <2>2, <2>3, <3>1 DEF MembersKept
  <2>6. RequestsOK'
    BY <1>0, <1>3, <2>5, Answered DEF update_membership_for_tenant
  <2>7. orphaning' \subseteq {"update", "overlap"} /\ UNCHANGED <<shares, strays>>
    BY <1>0, <1>3 DEF update_membership_for_tenant
  <2> QED BY <1>0, <2>4, <2>6, <2>7, MemberTypes
<1>4. CASE delete_membership_checks(r)
  <2> DEFINE m == requests[r].asked.row
             read == [unshared |-> sharesOfDeparting(r, m), saw |-> shares,
                      user |-> Loaded(r, m).user, owner |-> Loaded(r, m).role = "owner",
                      owners |-> Cardinality(ActiveOwners)]
  <2>1. ASSUME Exists(members[m]), ~lastOwner(r, m)
        PROVE  ReadOK(Committed(r, read), members, transactions)
    <3>1. Cardinality(ActiveOwners) \in Nat
      <4>1. IsFiniteSet(ActiveOwners)
        BY MembersAssumption, FS_Subset DEF ActiveOwners
      <4> QED BY <4>1, FS_CardinalityType
    <3>2. Loaded(r, m).role = "owner" => Cardinality(ActiveOwners) >= 2
      BY <2>1, <3>1 DEF lastOwner
    <3>3. SameUser(members, m, Loaded(r, m).user)
      BY <1>4, <2>1, Open DEF SameUser, Loaded, delete_membership_checks, Handling, Exists
    <3>4. sharesOfDeparting(r, m) = {a \in shares : Owner[a] = Loaded(r, m).user}
      BY DEF sharesOfDeparting
    <3>5. requests[r].asked.op = "delete_membership"
      BY <1>4 DEF delete_membership_checks, Handling
    <3> QED BY <3>1, <3>2, <3>3, <3>4, <3>5 DEF ReadOK, Committed
  <2>2. Answer(r) \/ (Proceed(r, read) /\ Exists(members[m]) /\ ~lastOwner(r, m))
    BY <1>4 DEF delete_membership_checks
  <2>3. MembersKept(members, members')
    BY <1>4 DEF MembersKept, delete_membership_checks, membersVars
  <2> HIDE DEF read
  <2>4. RequestsOK'
    BY <1>0, <1>4, <2>1, <2>2, <2>3, Answered, Proceeded
       DEF delete_membership_checks, Handling, membersVars
  <2> QED BY <1>0, <1>4, <2>4, MemberTypes DEF delete_membership_checks, membersVars
<1>5. CASE delete_membership_for_tenant(r)
  <2>1. requests[r].asked.row \in Rows
    BY <1>5, Open DEF delete_membership_for_tenant, Committing, AskedOK
  <2>2. members' = [members EXCEPT ![requests[r].asked.row] = Gone]
    BY <1>5 DEF delete_membership_for_tenant
  <2>3. MembersKept(members, members')
    BY <1>0, <2>1, <2>2, MembersAssumption DEF MembersKept, Exists
  <2>4. RequestsOK'
    BY <1>0, <1>5, <2>3, Answered DEF delete_membership_for_tenant
  <2>5. shares' \subseteq Accounts /\ strays' \subseteq Accounts
        /\ orphaning' \subseteq {"update", "overlap"}
    BY <1>0, <1>5 DEF delete_membership_for_tenant
  <2> QED BY <1>0, <2>2, <2>4, <2>5, MemberTypes
<1>6. CASE create_share(r)
  <2>1. \A read : requests[r].asked.op = "create_account_share" =>
          ReadOK(Committed(r, read), members, transactions)
    BY DEF ReadOK, Committed
  <2>2. MembersKept(members, members')
    BY <1>6 DEF MembersKept, create_share, membersVars
  <2>3. \/ Answer(r)
        \/ \E read : Proceed(r, read) /\ ReadOK(Committed(r, read), members, transactions)
    BY <1>6, <2>1 DEF create_share, Handling
  <2>4. RequestsOK'
    BY <1>0, <1>6, <2>2, <2>3, Answered, Proceeded DEF create_share, Handling, membersVars
  <2> QED BY <1>0, <1>6, <2>4, MemberTypes DEF create_share, membersVars
<1>7. CASE create_account_share(r)
  <2>1. requests[r].asked.account \in Accounts
    BY <1>7, Open DEF create_account_share, Committing, AskedOK
  <2>2. MembersKept(members, members')
    BY <1>7 DEF MembersKept, create_account_share
  <2>3. RequestsOK'
    BY <1>0, <1>7, <2>2, Answered DEF create_account_share
  <2>4. shares' \subseteq Accounts /\ strays' \subseteq Accounts
    BY <1>0, <1>7, <2>1 DEF create_account_share
  <2> QED BY <1>0, <1>7, <2>3, <2>4, MemberTypes DEF create_account_share
<1> QED BY <1>1, <1>2, <1>3, <1>4, <1>5, <1>6, <1>7 DEF MembershipStep

\* The steps of Household.

HouseTypes ==
  /\ categories \in CategoryTables
  /\ \A k \in Existing(categories) : categories[k].parent \in Existing(categories) \cup {Null}
  /\ transactions \in [Transactions -> [category : Existing(categories), kind : Kinds] \cup {Null}]
  /\ links \in [Budgets -> SUBSET [category : Existing(categories), by : Requests \cup {Null}]]
  /\ intended \in [Budgets -> SUBSET Existing(categories)]
  /\ budgets \in [Budgets -> {"unborn", "there", "gone"}]
  /\ current \subseteq Requests /\ strayed \in BOOLEAN

LEMMA HouseTyped ==
  ASSUME Typed, UNCHANGED <<membersVars, listed>>, RequestsOK', HouseTypes'
  PROVE  Typed'
<1>1. \A s \in Requests : requests'[s].at \in {"new", "handler", "commit", "over"}
  BY DEF RequestsOK, RequestOK
<1> QED BY <1>1 DEF Typed, TypeOK, HouseTypes, membersVars

LEMMA SameMembers ==
  ASSUME members' = members
  PROVE  MembersKept(members, members')
  BY DEF MembersKept

\* A category set to a row, of a category that was there or is new.
LEMMA CategoryWritten ==
  ASSUME HouseTypes, NEW k \in Categories, NEW row \in CategoryRows,
         row.parent \in Existing(categories) \cup {Null},
         categories' = [categories EXCEPT ![k] = row],
         UNCHANGED <<transactions, budgetVars>>,
         current' \subseteq Requests, strayed' \in BOOLEAN
  PROVE  HouseTypes'
<1>1. categories' \in CategoryTables
  BY DEF HouseTypes, CategoryTables
<1>2. Existing(categories)' = Existing(categories) \cup {k}
  <2>1. Exists(row)
    BY SeededAssumption
  <2>2. \A c \in Categories : categories'[c] = IF c = k THEN row ELSE categories[c]
    BY DEF HouseTypes, CategoryTables
  <2> QED BY <2>1, <2>2 DEF Existing, Exists
<1>3. \A c \in Existing(categories)' : categories'[c].parent \in Existing(categories)' \cup {Null}
  <2>1. categories'[k] = row /\ \A c \in Categories \ {k} : categories'[c] = categories[c]
    BY DEF HouseTypes, CategoryTables
  <2>2. Existing(categories) \subseteq Categories
        /\ \A c \in Existing(categories) : categories[c].parent \in Existing(categories) \cup {Null}
    BY DEF HouseTypes, Existing
  <2> QED BY <1>2, <2>1, <2>2
<1>4. Existing(categories) \subseteq Existing(categories)'
  BY <1>2
<1>5. [category : Existing(categories), kind : Kinds] \subseteq [category : Existing(categories)', kind : Kinds]
      /\ [category : Existing(categories), by : Requests \cup {Null}]
          \subseteq [category : Existing(categories)', by : Requests \cup {Null}]
  BY <1>4
<1>6. /\ transactions' \in [Transactions -> [category : Existing(categories)', kind : Kinds] \cup {Null}]
      /\ links' \in [Budgets -> SUBSET [category : Existing(categories)', by : Requests \cup {Null}]]
  BY <1>5 DEF HouseTypes, budgetVars
<1>7. intended' \in [Budgets -> SUBSET Existing(categories)']
  BY <1>4 DEF HouseTypes, budgetVars
<1> QED BY <1>1, <1>3, <1>6, <1>7 DEF HouseTypes, budgetVars

LEMMA CategoryStepTyped ==
  ASSUME Typed, NEW r \in Requests, CategoryStep(r), UNCHANGED <<membersVars, listed>>
  PROVE  Typed'
<1> DEFINE asked == requests[r].asked
<1>0. HouseTypes /\ RequestsOK /\ members' = members /\ MembersKept(members, members')
  BY SameMembers DEF Typed, TypeOK, HouseTypes, membersVars
<1>1. ASSUME UNCHANGED <<categories, transactions, budgetVars, strayed>>,
             current' \subseteq Requests
      PROVE  HouseTypes' /\ TransactionsKept(transactions, transactions')
  BY <1>0, <1>1 DEF HouseTypes, Existing, TransactionsKept, budgetVars
<1>2. CASE create_category(r)
  <2>1. asked.new \in CategoryRows
    BY <1>2, Open DEF create_category, Handling, AskedOK
  <2>2. current' \subseteq Requests /\ UNCHANGED <<transactions, budgetVars, strayed>>
    BY <1>0, <1>2 DEF create_category, Outdated, HouseTypes, budgetVars
  <2>3. \/ UNCHANGED categories
        \/ /\ ParentExists(asked.new.parent)
           /\ \E k \in Categories : categories' = [categories EXCEPT ![k] = asked.new]
    BY <1>2 DEF create_category
  <2>4. HouseTypes'
    BY <1>0, <1>1, <2>1, <2>2, <2>3, CategoryWritten DEF ParentExists, HouseTypes
  <2>5. RequestsOK'
    BY <1>0, <1>2, <2>2, Answered DEF create_category, TransactionsKept
  <2> QED BY <2>4, <2>5, HouseTyped
<1>3. CASE apply_category_update(r)
  <2>1. UNCHANGED <<categories, transactions, budgetVars, strayed, current>>
    BY <1>3 DEF apply_category_update, treeVars, budgetVars
  <2>2. ReadOK(Committed(r, categories[asked.category]), members, transactions)
    BY <1>3 DEF apply_category_update, Handling, ReadOK, Committed
  <2>3. Answer(r) \/ Proceed(r, categories[asked.category])
    BY <1>3 DEF apply_category_update
  <2>4. HouseTypes' /\ TransactionsKept(transactions, transactions')
    BY <1>0, <1>1, <2>1 DEF HouseTypes
  <2>5. RequestsOK'
    BY <1>0, <1>3, <2>1, <2>2, <2>3, <2>4, Answered, Proceeded DEF apply_category_update, Handling
  <2> QED BY <2>4, <2>5, HouseTyped
<1>4. CASE update_category(r)
  <2> DEFINE k == asked.category
             read == requests[r].read
             kindWritten == asked.kindSent /\ asked.edit.kind # read.kind
             parentWritten == asked.parentSent /\ asked.edit.parent # read.parent
             row == [kind |-> IF kindWritten THEN asked.edit.kind ELSE categories[k].kind,
                     parent |-> IF parentWritten THEN asked.edit.parent ELSE categories[k].parent]
  <2>1. k \in Categories /\ asked.edit \in CategoryRows
    BY <1>4, Open DEF update_category, Committing, AskedOK
  <2>2. \/ UNCHANGED <<categories, strayed>>
        \/ /\ k \in Existing(categories)
           /\ parentWritten => ParentExists(asked.edit.parent)
           /\ categories' = [categories EXCEPT ![k] = row]
           /\ strayed' = (strayed \/ (parentWritten /\ r \notin current))
    BY <1>4 DEF update_category
  <2>3. current' \subseteq Requests /\ UNCHANGED <<transactions, budgetVars>>
    BY <1>0, <1>4 DEF update_category, Outdated, HouseTypes, budgetVars
  <2>4. ASSUME k \in Existing(categories), parentWritten => ParentExists(asked.edit.parent)
        PROVE  row \in CategoryRows /\ row.parent \in Existing(categories) \cup {Null}
    <3>1. categories[k] \in CategoryRows /\ categories[k].parent \in Existing(categories) \cup {Null}
      BY <1>0, <2>1, <2>4 DEF HouseTypes, CategoryTables, Existing, Exists
    <3>2. row.kind \in Kinds
      BY <2>1, <3>1 DEF CategoryRows
    <3>3. row.parent \in Existing(categories) \cup {Null}
      BY <2>4, <3>1 DEF ParentExists
    <3> QED BY <3>2, <3>3 DEF CategoryRows, Existing
  <2>5. strayed' \in BOOLEAN
    BY <1>0, <2>2 DEF HouseTypes
  <2> HIDE DEF row, parentWritten
  <2>6. HouseTypes'
    BY <1>0, <1>1, <2>1, <2>2, <2>3, <2>4, <2>5, CategoryWritten
  <2>7. RequestsOK'
    BY <1>0, <1>4, <2>3, Answered DEF update_category, TransactionsKept
  <2> QED BY <2>6, <2>7, HouseTyped
<1>5. CASE delete_category_checks(r)
  <2> DEFINE k == asked.category
  <2>1. UNCHANGED <<categories, transactions, budgetVars, strayed, current>>
    BY <1>5 DEF delete_category_checks, treeVars, budgetVars
  <2>2. ReadOK(Committed(r, Using(k)), members, transactions)
    BY <1>5 DEF delete_category_checks, Handling, ReadOK, Committed, Using
  <2>3. Answer(r) \/ Proceed(r, Using(k))
    BY <1>5 DEF delete_category_checks
  <2>4. HouseTypes' /\ TransactionsKept(transactions, transactions')
    BY <1>0, <1>1, <2>1 DEF HouseTypes
  <2>5. RequestsOK'
    BY <1>0, <1>5, <2>1, <2>2, <2>3, <2>4, Answered, Proceeded DEF delete_category_checks, Handling
  <2> QED BY <2>4, <2>5, HouseTyped
<1>6. CASE delete_category(r)
  <2> DEFINE k == asked.category
             target == asked.reassign_to
             reassigned == requests[r].read
  <2>1. /\ k \in Categories /\ target \in (Categories \ {k}) \cup {Null}
        /\ reassigned \subseteq Transactions /\ \A t \in reassigned : transactions[t] # Null
    BY <1>6, Open DEF delete_category, Committing, AskedOK, ReadOK
  <2>2. /\ current' \subseteq Requests /\ UNCHANGED <<budgets, strayed>>
        /\ \/ UNCHANGED <<categories, transactions, links, intended>>
           \/ /\ reassigned # {} => target \in Existing(categories)
              /\ Using(k) \subseteq reassigned
              /\ Children(k) = {}
              /\ categories' = [categories EXCEPT ![k] = Gone]
              /\ transactions' = [t \in Transactions |->
                   IF t \in reassigned THEN [transactions[t] EXCEPT !.category = target]
                   ELSE transactions[t]]
              /\ links' = [b \in Budgets |-> {l \in links[b] : l.category # k}]
              /\ intended' = [b \in Budgets |-> intended[b] \ {k}]
    BY <1>0, <1>6 DEF delete_category, Outdated, HouseTypes
  <2>3. CASE UNCHANGED <<categories, transactions, links, intended>>
    <3>1. HouseTypes' /\ TransactionsKept(transactions, transactions')
      BY <1>1, <2>2, <2>3 DEF budgetVars
    <3> QED BY <1>0, <1>6, <3>1, Answered, HouseTyped DEF delete_category
  <2>4. CASE ~UNCHANGED <<categories, transactions, links, intended>>
    <3>1. Existing(categories)' = Existing(categories) \ {k} /\ categories' \in CategoryTables
      BY <1>0, <2>1, <2>2, <2>4 DEF HouseTypes, CategoryTables, Existing, Exists
    <3>2. \A c \in Existing(categories)' : categories'[c].parent \in Existing(categories)' \cup {Null}
      <4>1. \A c \in Existing(categories)' :
              /\ categories'[c] = categories[c] /\ categories[c].parent # k
              /\ categories[c].parent \in Existing(categories) \cup {Null}
        <5>1. \A c \in Existing(categories) :
                categories[c].parent # k /\ categories[c].parent \in Existing(categories) \cup {Null}
          BY <1>0, <2>2, <2>4 DEF HouseTypes, Children
        <5>2. \A c \in Categories \ {k} : categories'[c] = categories[c]
          BY <1>0, <2>2, <2>4 DEF HouseTypes, CategoryTables
        <5> QED BY <3>1, <5>1, <5>2 DEF Existing
      <4> QED BY <3>1, <4>1
    <3>3. ASSUME NEW t \in Transactions, transactions[t] # Null
          PROVE  transactions'[t] \in [category : Existing(categories)', kind : Kinds]
      <4>1. transactions[t] \in [category : Existing(categories), kind : Kinds]
        BY <1>0, <3>3 DEF HouseTypes
      <4>2. CASE t \in reassigned
        <5>1. target \in Existing(categories)'
          BY <2>1, <2>2, <2>4, <3>1, <4>2, SeededAssumption DEF Existing
        <5>2. transactions'[t] = [transactions[t] EXCEPT !.category = target]
          BY <2>2, <2>4, <4>2
        <5> HIDE DEF target
        <5> QED BY <4>1, <5>1, <5>2
      <4>3. CASE t \notin reassigned
        <5>1. transactions[t].category # k
          BY <2>2, <2>4, <3>3, <4>3 DEF Using
        <5>2. transactions'[t] = transactions[t]
          BY <2>2, <2>4, <4>3
        <5> QED BY <3>1, <4>1, <5>1, <5>2
      <4> QED BY <4>2, <4>3
    <3>4. \A t \in Transactions : transactions[t] = Null => transactions'[t] = Null
      BY <2>1, <2>2, <2>4
    <3>5. transactions' \in [Transactions -> [category : Existing(categories)', kind : Kinds] \cup {Null}]
      <4>1. transactions' = [t \in Transactions |-> transactions'[t]]
        BY <2>2, <2>4
      <4> QED BY <3>3, <3>4, <4>1
    <3>6. TransactionsKept(transactions, transactions')
      <4>1. [category : Existing(categories)', kind : Kinds] \subseteq Posted
        BY <3>1 DEF Posted, Existing
      <4> QED BY <3>3, <4>1, SeededAssumption DEF TransactionsKept
    <3>7. links' \in [Budgets -> SUBSET [category : Existing(categories)', by : Requests \cup {Null}]]
      <4>1. ASSUME NEW b \in Budgets
            PROVE  {l \in links[b] : l.category # k}
                     \subseteq [category : Existing(categories)', by : Requests \cup {Null}]
        <5>1. links[b] \subseteq [category : Existing(categories), by : Requests \cup {Null}]
          BY <1>0 DEF HouseTypes
        <5> QED BY <3>1, <5>1
      <4> QED BY <2>2, <2>4, <4>1
    <3>8. intended' \in [Budgets -> SUBSET Existing(categories)']
      <4>1. \A b \in Budgets : intended[b] \subseteq Existing(categories)
        BY <1>0 DEF HouseTypes
      <4> QED BY <2>2, <2>4, <3>1, <4>1
    <3>9. HouseTypes'
      BY <1>0, <2>2, <3>1, <3>2, <3>5, <3>7, <3>8 DEF HouseTypes
    <3> QED BY <1>0, <1>6, <3>6, <3>9, Answered, HouseTyped DEF delete_category
  <2> QED BY <2>3, <2>4
<1>7. CASE create_transaction(r)
  <2> DEFINE t == asked.transaction
             data == asked.data
  <2>1. t \in Transactions /\ data \in Posted /\ data # Null
    BY <1>7, Open, SeededAssumption DEF create_transaction, Handling, AskedOK
  <2>2. UNCHANGED <<categories, budgetVars, strayed, current>>
    BY <1>7 DEF create_transaction, treeVars, budgetVars
  <2>3. \/ UNCHANGED transactions
        \/ /\ data.category \in Existing(categories)
           /\ transactions' = [transactions EXCEPT ![t] = data]
    BY <1>7 DEF create_transaction
  <2>4. data.category \in Existing(categories) =>
          data \in [category : Existing(categories), kind : Kinds]
    BY <2>1 DEF Posted
  <2> HIDE DEF data
  <2>5. /\ transactions' \in [Transactions -> [category : Existing(categories), kind : Kinds] \cup {Null}]
        /\ TransactionsKept(transactions, transactions')
    BY <1>0, <2>1, <2>3, <2>4 DEF HouseTypes, TransactionsKept
  <2>6. HouseTypes'
    BY <1>0, <2>2, <2>5 DEF HouseTypes, Existing, budgetVars
  <2>7. RequestsOK'
    BY <1>0, <1>7, <2>5, Answered DEF create_transaction
  <2> QED BY <2>6, <2>7, HouseTyped
<1>8. CASE apply_transaction_update(r)
  <2>1. UNCHANGED <<categories, transactions, budgetVars, strayed, current>>
    BY <1>8 DEF apply_transaction_update, treeVars, budgetVars
  <2>2. ReadOK(Committed(r, transactions[asked.transaction]), members, transactions)
    BY <1>8 DEF apply_transaction_update, Handling, ReadOK, Committed
  <2>3. Proceed(r, transactions[asked.transaction])
    BY <1>8 DEF apply_transaction_update
  <2>4. HouseTypes'
    BY <1>0, <1>1, <2>1 DEF HouseTypes
  <2>5. RequestsOK'
    BY <1>0, <1>8, <2>1, <2>2, <2>3, Proceeded DEF apply_transaction_update, Handling
  <2> QED BY <2>4, <2>5, HouseTyped
<1>9. CASE update_transaction(r)
  <2> DEFINE t == asked.transaction
             data == asked.data
             read == requests[r].read
             written == [category |-> IF data.category = read.category
                                      THEN transactions[t].category ELSE data.category,
                         kind |-> IF data.kind = read.kind THEN transactions[t].kind ELSE data.kind]
  <2>1. t \in Transactions /\ data \in Posted /\ transactions[t] # Null
    BY <1>9, Open DEF update_transaction, Committing, AskedOK
  <2>2. UNCHANGED <<categories, budgetVars, strayed, current>>
    BY <1>9 DEF update_transaction, treeVars, budgetVars
  <2>3. \/ UNCHANGED transactions
        \/ /\ written.category \in Existing(categories)
           /\ transactions' = [transactions EXCEPT ![t] = written]
    BY <1>9 DEF update_transaction
  <2>4. written.category \in Existing(categories) =>
          written \in [category : Existing(categories), kind : Kinds] /\ written # Null
    <3>1. transactions[t].kind \in Kinds /\ data.kind \in Kinds
      BY <1>0, <2>1 DEF HouseTypes, Posted
    <3>2. Existing(categories) \subseteq Categories
      BY DEF Existing
    <3>3. written.category \in Existing(categories) =>
            written \in [category : Existing(categories), kind : Kinds]
      BY <3>1
    <3>4. written.category \in Existing(categories) => written \in Posted
      BY <3>1, <3>2 DEF Posted
    <3> QED BY <3>3, <3>4, SeededAssumption
  <2> HIDE DEF written
  <2>5. /\ transactions' \in [Transactions -> [category : Existing(categories), kind : Kinds] \cup {Null}]
        /\ TransactionsKept(transactions, transactions')
    BY <1>0, <2>1, <2>3, <2>4 DEF HouseTypes, TransactionsKept
  <2>6. HouseTypes'
    BY <1>0, <2>2, <2>5 DEF HouseTypes, Existing, budgetVars
  <2>7. RequestsOK'
    BY <1>0, <1>9, <2>5, Answered DEF update_transaction
  <2> QED BY <2>6, <2>7, HouseTyped
\* A budget written, with what is linked to it and what was meant.
<1>10. ASSUME NEW b \in Budgets, NEW set, NEW chosen,
              set \subseteq [category : Existing(categories), by : Requests \cup {Null}],
              chosen \subseteq Existing(categories),
              links' = [links EXCEPT ![b] = set],
              intended' = [intended EXCEPT ![b] = chosen],
              \/ UNCHANGED budgets
              \/ \E state \in {"there", "gone"} : budgets' = [budgets EXCEPT ![b] = state],
              UNCHANGED <<treeVars, transactions>>, Answer(r)
       PROVE  Typed'
  <2>1. /\ links' \in [Budgets -> SUBSET [category : Existing(categories), by : Requests \cup {Null}]]
        /\ intended' \in [Budgets -> SUBSET Existing(categories)]
        /\ budgets' \in [Budgets -> {"unborn", "there", "gone"}]
    BY <1>0, <1>10 DEF HouseTypes
  <2>2. HouseTypes'
    BY <1>0, <1>10, <2>1 DEF HouseTypes, Existing, treeVars
  <2>3. RequestsOK'
    BY <1>0, <1>10, Answered DEF TransactionsKept
  <2> QED BY <2>2, <2>3, HouseTyped
<1>11. ASSUME UNCHANGED <<treeVars, transactions, budgetVars>>,
              \/ Answer(r)
              \/ /\ Handling(r, "create_budget") \/ Handling(r, "update_budget")
                    \/ Handling(r, "delete_budget")
                 /\ \E read : Proceed(r, read)
       PROVE  Typed'
  <2>1. HouseTypes' /\ TransactionsKept(transactions, transactions')
    BY <1>0, <1>1, <1>11 DEF HouseTypes, treeVars
  <2>2. CASE Answer(r)
    BY <1>0, <2>1, <2>2, Answered, HouseTyped
  <2>3. CASE ~Answer(r)
    <3>1. PICK read : Proceed(r, read)
      BY <1>11, <2>3
    <3>2. ReadOK(Committed(r, read), members, transactions)
      BY <1>11, <2>3 DEF ReadOK, Committed, Handling
    <3>3. RequestsOK'
      BY <1>0, <1>11, <2>3, <3>1, <3>2, Proceeded DEF Handling
    <3> QED BY <2>1, <3>3, HouseTyped
  <2> QED BY <2>2, <2>3
<1>12. CASE create_budget_checks(r) \/ apply_budget_update(r) \/ delete_budget_checks(r)
  <2>1. \/ Handling(r, "create_budget") \/ Handling(r, "update_budget") \/ Handling(r, "delete_budget")
    BY <1>12 DEF create_budget_checks, apply_budget_update, delete_budget_checks
  <2>2. Answer(r) \/ \E read : Proceed(r, read)
    BY <1>12 DEF create_budget_checks, apply_budget_update, delete_budget_checks
  <2>3. UNCHANGED <<treeVars, transactions, budgetVars>>
    BY <1>12 DEF create_budget_checks, apply_budget_update, delete_budget_checks
  <2> QED BY <1>11, <2>1, <2>2, <2>3
<1>13. CASE create_budget(r)
  <2> DEFINE chosen == asked.category_ids
  <2>1. UNCHANGED <<treeVars, transactions>> /\ Answer(r)
    BY <1>13 DEF create_budget
  <2>2. \/ UNCHANGED budgetVars
        \/ /\ chosen \subseteq Existing(categories)
           /\ \E b \in Budgets :
                /\ budgets' = [budgets EXCEPT ![b] = "there"]
                /\ links' = [links EXCEPT ![b] = [category : chosen, by : {r}]]
                /\ intended' = [intended EXCEPT ![b] = chosen]
    BY <1>13 DEF create_budget, Valid
  <2>3. chosen \subseteq Existing(categories) =>
          [category : chosen, by : {r}] \subseteq [category : Existing(categories), by : Requests \cup {Null}]
    OBVIOUS
  <2> HIDE DEF chosen
  <2> QED BY <1>10, <1>11, <2>1, <2>2, <2>3
<1>14. CASE update_budget(r)
  <2> DEFINE b == asked.budget
             chosen == asked.category_ids
             kept == links[b] \ requests[r].read
  <2>1. b \in Budgets
    BY <1>14, Open DEF update_budget, Committing, AskedOK
  <2>2. UNCHANGED <<treeVars, transactions>> /\ Answer(r)
    BY <1>14 DEF update_budget
  <2>3. /\ UNCHANGED budgets
        /\ \/ UNCHANGED <<links, intended>>
           \/ /\ chosen \subseteq Existing(categories)
              /\ links' = [links EXCEPT ![b] = kept \cup [category : chosen, by : {r}]]
              /\ intended' = [intended EXCEPT ![b] = chosen]
    BY <1>14 DEF update_budget, Linkable, Valid
  <2>4. chosen \subseteq Existing(categories) =>
          kept \cup [category : chosen, by : {r}]
            \subseteq [category : Existing(categories), by : Requests \cup {Null}]
    <3>1. links[b] \subseteq [category : Existing(categories), by : Requests \cup {Null}]
      BY <1>0, <2>1 DEF HouseTypes
    <3> QED BY <3>1
  <2> DEFINE set == kept \cup [category : chosen, by : {r}]
  <2> HIDE DEF b, chosen, kept
  <2> QED BY <1>10, <1>11, <2>1, <2>2, <2>3, <2>4 DEF budgetVars
<1>15. CASE delete_budget(r)
  <2>1. asked.budget \in Budgets
    BY <1>15, Open DEF delete_budget, Committing, AskedOK
  <2> QED BY <1>10, <1>15, <2>1 DEF delete_budget
<1> QED BY <1>2, <1>3, <1>4, <1>5, <1>6, <1>7, <1>8, <1>9, <1>12, <1>13, <1>14, <1>15 DEF CategoryStep

LEMMA TypedStep == Typed /\ [Next]_vars => Typed'
<1> SUFFICES ASSUME Typed, [Next]_vars PROVE Typed'
  OBVIOUS
<1>1. CASE \E r \in Requests, u \in Users : Ask(r, u)
  BY <1>1, AskTyped
<1>2. CASE \E r \in Requests :
             MembershipStep(r) /\ UNCHANGED <<treeVars, transactions, budgetVars, listed>>
  BY <1>2, MembershipStepTyped
<1>3. CASE \E r \in Requests : CategoryStep(r) /\ UNCHANGED <<membersVars, listed>>
  BY <1>3, CategoryStepTyped
<1>4. CASE \E u \in Users :
             /\ useCategories(u)
             /\ UNCHANGED <<membersVars, requests, treeVars, transactions, budgetVars>>
  <2>1. listed' \in [Users -> SUBSET CategoryTables]
    BY <1>4 DEF useCategories, Typed, TypeOK
  <2> QED BY <1>4, <2>1 DEF Typed, TypeOK, RequestsOK, Existing, membersVars, treeVars, budgetVars
<1>5. CASE UNCHANGED vars
  BY <1>5 DEF vars, Typed, TypeOK, RequestsOK, Existing
<1> QED BY <1>1, <1>2, <1>3, <1>4, <1>5 DEF Next

LEMMA AlwaysTyped == Spec => []Typed
  BY TypedInit, TypedStep, PTL DEF Spec

\* Every table has its rows, and every row refers to rows there are: the parent
\* of a category, the category of a transaction, the categories of a budget.
THEOREM TypeCorrect == Spec => []TypeOK
<1>1. Typed => TypeOK
  BY DEF Typed
<1> QED BY <1>1, AlwaysTyped, PTL

-----------------------------------------------------------------------------
(* Members *)

\* The steps that touch the membership table or the shares.
LEMMA MembersDisturbed ==
  [Next]_vars =>
    \/ UNCHANGED membersVars
    \/ \E r \in Requests : \/ create_membership_for_tenant(r)
                           \/ update_membership_for_tenant(r)
                           \/ delete_membership_for_tenant(r)
                           \/ create_account_share(r)
<1> SUFFICES ASSUME [Next]_vars, ~UNCHANGED membersVars
             PROVE  \E r \in Requests : \/ create_membership_for_tenant(r)
                                       \/ update_membership_for_tenant(r)
                                       \/ delete_membership_for_tenant(r)
                                       \/ create_account_share(r)
  OBVIOUS
<1>1. \E r \in Requests : MembershipStep(r)
  BY DEF Next, vars, Ask, membersVars
<1>2. \A r \in Requests : apply_membership_update(r) \/ delete_membership_checks(r) \/ create_share(r)
                          => UNCHANGED membersVars
  BY DEF apply_membership_update, delete_membership_checks, create_share
<1> QED BY <1>1, <1>2 DEF MembershipStep

LEMMA OwnerRemainsStep == OwnerRemains /\ Typed /\ [Next]_vars => OwnerRemains'
<1> SUFFICES ASSUME OwnerRemains, Typed, [Next]_vars, orphaning' = {}
             PROVE  ActiveOwners' # {}
  BY DEF OwnerRemains
<1>0. members \in [Rows -> Memberships \cup {Null, Gone}]
  BY DEF Typed, TypeOK
<1>1. CASE UNCHANGED <<members, orphaning>>
  BY <1>1 DEF OwnerRemains, ActiveOwners
<1>2. ASSUME NEW r \in Requests, create_membership_for_tenant(r)
      PROVE  ActiveOwners' # {}
  <2>1. PICK m, row : m \in Rows /\ members[m] = Null /\ members' = [members EXCEPT ![m] = row]
    BY <1>2 DEF create_membership_for_tenant
  <2>2. ActiveOwners \subseteq ActiveOwners'
    BY <1>0, <2>1 DEF ActiveOwners, Exists
  <2> QED BY <1>2, <2>2 DEF OwnerRemains, create_membership_for_tenant
<1>3. ASSUME NEW r \in Requests, update_membership_for_tenant(r)
      PROVE  ActiveOwners' # {}
  <2> DEFINE k == requests[r].asked.row
  <2>1. CASE UNCHANGED <<members, orphaning>>
    BY <1>1, <2>1
  <2>2. CASE ~UNCHANGED <<members, orphaning>>
    <3>1. PICK written :
            /\ Exists(members[k]) /\ members' = [members EXCEPT ![k] = written]
            /\ written.user = members[k].user
            /\ written \in Memberships
            /\ orphaning' = IF k \in ActiveOwners /\ (written.role # "owner" \/ written.status # "active")
                            THEN orphaning \cup {"update"} ELSE orphaning
      <4> DEFINE read == requests[r].read
                 new == requests[r].asked
                 w == [members[k] EXCEPT
                         !.role = IF new.role \in {Null, read.role} THEN @ ELSE new.role,
                         !.status = IF new.status \in {Null, read.status} THEN @ ELSE new.status]
      <4>1. k \in Rows /\ new.role \in Roles \cup {Null} /\ new.status \in Statuses \cup {Null}
        BY <1>3, Open DEF update_membership_for_tenant, Committing, AskedOK
      <4>2. /\ Exists(members[k]) /\ members' = [members EXCEPT ![k] = w]
            /\ orphaning' = IF k \in ActiveOwners /\ (w.role # "owner" \/ w.status # "active")
                            THEN orphaning \cup {"update"} ELSE orphaning
        BY <1>3, <2>2 DEF update_membership_for_tenant
      <4>3. members[k] \in Memberships
        BY <1>0, <4>1, <4>2 DEF Exists
      <4>4. w \in Memberships /\ w.user = members[k].user
        BY <4>1, <4>3 DEF Memberships
      <4> HIDE DEF w, k
      <4> QED BY <4>2, <4>4
    <3>2. orphaning = {} /\ (k \in ActiveOwners => written.role = "owner" /\ written.status = "active")
      BY <3>1
    <3>3. ActiveOwners \subseteq ActiveOwners'
      <4>1. Exists(written)
        BY <3>1, MembersAssumption
      <4> HIDE DEF k
      <4>2. ASSUME NEW m \in ActiveOwners PROVE m \in ActiveOwners'
        <5>1. m \in Rows /\ members'[m] = IF m = k THEN written ELSE members[m]
          BY <1>0, <3>1 DEF ActiveOwners
        <5> QED BY <3>2, <4>1, <5>1 DEF ActiveOwners
      <4> QED BY <4>2
    <3> QED BY <3>2, <3>3 DEF OwnerRemains
  <2> QED BY <2>1, <2>2
<1>4. ASSUME NEW r \in Requests, delete_membership_for_tenant(r)
      PROVE  ActiveOwners' # {}
  <2> DEFINE k == requests[r].asked.row
             read == requests[r].read
  <2>1. /\ members' = [members EXCEPT ![k] = Gone] /\ orphaning = {}
        /\ k \in ActiveOwners => read.owner /\ ~(Cardinality(ActiveOwners) < read.owners)
    BY <1>4 DEF delete_membership_for_tenant
  <2>2. read.owner => read.owners \in Nat /\ read.owners >= 2
    BY <1>4, Open DEF delete_membership_for_tenant, Committing, ReadOK
  <2>3. ActiveOwners' = ActiveOwners \ {k}
    <3>1. \A m \in Rows : members'[m] = IF m = k THEN Gone ELSE members[m]
      BY <1>0, <2>1
    <3> HIDE DEF k
    <3> QED BY <3>1 DEF ActiveOwners, Exists
  <2>4. IsFiniteSet(ActiveOwners)
    BY MembersAssumption, FS_Subset DEF ActiveOwners
  <2>5. CASE k \in ActiveOwners
    <3>1. Cardinality(ActiveOwners) \in Nat /\ Cardinality(ActiveOwners) >= 2
      BY <2>1, <2>2, <2>4, <2>5, FS_CardinalityType
    <3>2. Cardinality(ActiveOwners \ {k}) = Cardinality(ActiveOwners) - 1
      BY <2>4, <2>5, FS_RemoveElement
    <3>3. Cardinality(ActiveOwners \ {k}) # 0
      BY <3>1, <3>2
    <3> QED BY <2>3, <3>3, FS_EmptySet
  <2>6. CASE k \notin ActiveOwners
    BY <2>1, <2>3, <2>6 DEF OwnerRemains
  <2> QED BY <2>5, <2>6
<1>5. (\E r \in Requests : create_account_share(r)) => UNCHANGED <<members, orphaning>>
  BY DEF create_account_share
<1> QED BY <1>1, <1>2, <1>3, <1>4, <1>5, MembersDisturbed DEF membersVars

\* The family keeps an owner, however many requests overlap, unless an owner's
\* row was updated or an owner went between another removal's count and its commit.
THEOREM FamilyKeepsOwner == Spec => []OwnerRemains
<1>1. Init => OwnerRemains
  BY SeededAssumption DEF Init, OwnerRemains, ActiveOwners
<1> QED BY <1>1, OwnerRemainsStep, AlwaysTyped, PTL DEF Spec

LEMMA SharesStep == SharesFollowMembers /\ Typed /\ [Next]_vars => SharesFollowMembers'
<1> SUFFICES ASSUME SharesFollowMembers, Typed, [Next]_vars, NEW a \in shares' \ strays'
             PROVE  \E m \in Rows : Exists(members'[m]) /\ members'[m].user = Owner[a]
  BY DEF SharesFollowMembers
<1>0. members \in [Rows -> Memberships \cup {Null, Gone}]
  BY DEF Typed, TypeOK
<1> DEFINE Held(table) == \E m \in Rows : Exists(table[m]) /\ table[m].user = Owner[a]
<1>1. CASE UNCHANGED membersVars
  BY <1>1 DEF membersVars, SharesFollowMembers
<1>2. ASSUME NEW r \in Requests, create_membership_for_tenant(r)
      PROVE  Held(members')
  <2>1. PICK k, row : k \in Rows /\ members[k] = Null /\ members' = [members EXCEPT ![k] = row]
    BY <1>2 DEF create_membership_for_tenant
  <2>2. PICK m \in Rows : Exists(members[m]) /\ members[m].user = Owner[a]
    BY <1>2 DEF create_membership_for_tenant, SharesFollowMembers
  <2>3. members'[m] = members[m]
    BY <1>0, <2>1, <2>2 DEF Exists
  <2> QED BY <2>2, <2>3
<1>3. ASSUME NEW r \in Requests, update_membership_for_tenant(r)
      PROVE  Held(members')
  <2> DEFINE k == requests[r].asked.row
  <2>1. PICK m \in Rows : Exists(members[m]) /\ members[m].user = Owner[a]
    BY <1>3 DEF update_membership_for_tenant, SharesFollowMembers
  <2>2. CASE members'[m] = members[m]
    BY <2>1, <2>2
  <2>3. CASE members'[m] # members[m]
    <3> DEFINE read == requests[r].read
               new == requests[r].asked
               w == [members[k] EXCEPT
                       !.role = IF new.role \in {Null, read.role} THEN @ ELSE new.role,
                       !.status = IF new.status \in {Null, read.status} THEN @ ELSE new.status]
    <3>1. members' = [members EXCEPT ![k] = w]
      BY <1>3, <2>3 DEF update_membership_for_tenant
    <3>2. k = m /\ members'[m] = w
      BY <1>0, <2>3, <3>1
    <3>3. members[m] \in Memberships
      BY <1>0, <2>1 DEF Exists
    <3>4. new.role \in Roles \cup {Null} /\ new.status \in Statuses \cup {Null}
      BY <1>3, Open DEF update_membership_for_tenant, Committing, AskedOK
    <3>5. w \in Memberships /\ w.user = members[m].user
      BY <3>2, <3>3, <3>4 DEF Memberships
    <3> HIDE DEF w
    <3> QED BY <2>1, <3>2, <3>5, MembersAssumption
  <2> QED BY <2>2, <2>3
<1>4. ASSUME NEW r \in Requests, delete_membership_for_tenant(r)
      PROVE  Held(members')
  <2> DEFINE k == requests[r].asked.row
             read == requests[r].read
  <2>1. /\ members' = [members EXCEPT ![k] = Gone]
        /\ a \in shares \ strays /\ a \notin read.unshared
        /\ ~(a \in shares \ read.saw /\ Owner[a] = read.user)
    BY <1>4 DEF delete_membership_for_tenant
  <2>2. /\ SameUser(members, k, read.user)
        /\ read.unshared = {b \in read.saw : Owner[b] = read.user}
    BY <1>4, Open DEF delete_membership_for_tenant, Committing, ReadOK
  <2>3. Owner[a] # read.user
    BY <2>1, <2>2
  <2>4. PICK m \in Rows : Exists(members[m]) /\ members[m].user = Owner[a]
    BY <2>1 DEF SharesFollowMembers
  <2>5. m # k
    BY <2>2, <2>3, <2>4 DEF SameUser
  <2>6. members'[m] = members[m]
    BY <1>0, <2>1, <2>5
  <2> QED BY <2>4, <2>6
<1>5. ASSUME NEW r \in Requests, create_account_share(r)
      PROVE  Held(members')
  <2> DEFINE b == requests[r].asked.account
             gone == \A m \in Rows : ~Exists(members[m]) \/ members[m].user # requests[r].user
  <2>1. /\ members' = members /\ shares' = shares \cup {b}
        /\ strays' = IF gone THEN strays \cup {b} ELSE strays
    BY <1>5 DEF create_account_share
  <2>2. Owner[b] = requests[r].user
    BY <1>5, Open DEF create_account_share, Committing, AskedOK
  <2>3. CASE a \in shares
    BY <2>1, <2>3 DEF SharesFollowMembers
  <2>4. CASE a \notin shares
    <3>1. a = b /\ ~gone
      BY <2>1, <2>4
    <3> QED BY <2>1, <2>2, <3>1
  <2> QED BY <2>3, <2>4
<1> QED BY <1>1, <1>2, <1>3, <1>4, <1>5, MembersDisturbed

\* Nobody's accounts stay with a family they have left, unless they were shared
\* while their owner was leaving.
THEOREM SharesAreMembers == Spec => []SharesFollowMembers
<1>1. Init => SharesFollowMembers
  BY DEF Init, SharesFollowMembers
<1> QED BY <1>1, SharesStep, AlwaysTyped, PTL DEF Spec

-----------------------------------------------------------------------------
(* The tree of categories *)

\* A parent that is at the top, or has a parent at the top, and is neither the
\* category nor below it.
SafeParent(list, k, p) ==
  \/ p = Null
  \/ /\ p # k
     /\ \/ list[p].parent = Null
        \/ list[p].parent # k /\ list[list[p].parent].parent = Null

\* All that the dialog offers are such parents.
LEMMA DialogOffersSafe ==
  ASSUME NEW list, NEW k, NEW row, NEW edit \in EditCategoryModal(list, k, row)
  PROVE  SafeParent(list, k, edit.parent)
<1> DEFINE given == availableParentCategories(list, k, edit.kind)
           p == edit.parent
<1>1. p = Null \/ p \in CategorySelect(list, given, edit.kind)
  BY DEF EditCategoryModal
<1>2. ASSUME p \in CategorySelect(list, given, edit.kind)
      PROVE  SafeParent(list, k, p)
  <2>1. /\ p \in given
        /\ list[p].parent = Null \/ (list[p].parent \in given /\ list[list[p].parent].parent = Null)
    BY <1>2 DEF CategorySelect
  <2>2. \A c \in given : c # k
    BY DEF availableParentCategories
  <2> QED BY <2>1, <2>2 DEF SafeParent
<1> QED BY <1>1, <1>2 DEF SafeParent

\* An edit under way, chosen from the list there still is, sets a safe parent.
EditsSafe ==
  \A r \in Requests :
    requests[r].at \in {"handler", "commit"} /\ requests[r].asked.op = "update_category" /\ r \in current
      => SafeParent(categories, requests[r].asked.category, requests[r].asked.edit.parent)

\* Only what has been asked for is noted as made from the list there is.
NoteAfterAsking == \A r \in current : requests[r].at # "new"

TreeInv == EditsSafe /\ NoteAfterAsking /\ CategoriesFormTree

LEMMA Stepping ==
  ASSUME NEW s \in Requests, MembershipStep(s) \/ CategoryStep(s)
  PROVE  \/ Answer(s)
         \/ /\ requests[s].at = "handler" /\ \E read : Proceed(s, read)
            /\ requests[s].asked.op = "update_budget" => apply_budget_update(s)
<1>1. CASE MembershipStep(s)
  BY <1>1, Zenon DEF MembershipStep, create_membership_for_tenant, apply_membership_update,
     update_membership_for_tenant, delete_membership_checks, delete_membership_for_tenant,
     create_share, create_account_share, Handling
<1>2. CASE CategoryStep(s)
  BY <1>2, Zenon DEF CategoryStep, create_category, apply_category_update, update_category,
     delete_category_checks, delete_category, create_transaction, apply_transaction_update,
     update_transaction, create_budget_checks, create_budget, apply_budget_update, update_budget,
     delete_budget_checks, delete_budget, Handling
<1> QED BY <1>1, <1>2

\* A step leaves the other requests alone, and what a request carries with it.
LEMMA RequestsMove ==
  ASSUME Typed, [Next]_vars, NEW r \in Requests, requests'[r].at \in {"handler", "commit"}
  PROVE  \/ /\ requests[r].at \in {"handler", "commit"}
            /\ requests'[r].asked = requests[r].asked
         \/ \E u \in Users : Ask(r, u)
<1>0. requests = [s \in Requests |-> requests[s]]
  BY DEF Typed, RequestsOK
<1>1. ASSUME NEW s \in Requests, Answer(s)
      PROVE  requests'[r] = requests[r] \/ requests'[r] = Over
  BY <1>0, <1>1 DEF Answer
<1>2. ASSUME NEW s \in Requests, NEW read, Proceed(s, read), requests[s].at = "handler"
      PROVE  requests'[r] = requests[r] \/ (requests[r].at = "handler" /\ requests'[r] = Committed(r, read))
  BY <1>0, <1>2 DEF Proceed, Committed
<1>3. ASSUME NEW s \in Requests, NEW u \in Users, Ask(s, u), s # r
      PROVE  requests'[r] = requests[r]
  <2>1. PICK m, asked : m \in Rows /\ get_active_context(s, u, m, asked)
    BY <1>3, AskedInOrder DEF Ask
  <2> QED BY <1>0, <1>3, <2>1 DEF get_active_context
<1>4. CASE UNCHANGED requests
  BY <1>4
<1>5. CASE \E s \in Requests, u \in Users : Ask(s, u)
  BY <1>3, <1>5
<1>6. CASE \E s \in Requests : MembershipStep(s) \/ CategoryStep(s)
  <2>1. PICK s \in Requests : Answer(s) \/ (requests[s].at = "handler" /\ \E read : Proceed(s, read))
    BY <1>6, Stepping
  <2>2. CASE Answer(s)
    BY <1>1, <2>2 DEF Over
  <2>3. CASE requests[s].at = "handler" /\ \E read : Proceed(s, read)
    <3>1. PICK read : Proceed(s, read)
      BY <2>3
    <3>2. requests'[r] = requests[r] \/ (requests[r].at = "handler" /\ requests'[r] = Committed(r, read))
      BY <1>2, <2>3, <3>1
    <3> QED BY <3>2 DEF Committed
  <2> QED BY <2>1, <2>2, <2>3
<1> QED BY <1>4, <1>5, <1>6 DEF Next, vars

\* The steps that touch the category table.
LEMMA CategoriesDisturbed ==
  [Next]_vars =>
    \/ UNCHANGED <<categories, strayed>>
    \/ \E r \in Requests : create_category(r) \/ update_category(r) \/ delete_category(r)
<1> SUFFICES ASSUME [Next]_vars, ~UNCHANGED <<categories, strayed>>
             PROVE  \E r \in Requests : create_category(r) \/ update_category(r) \/ delete_category(r)
  OBVIOUS
<1>1. \E r \in Requests : CategoryStep(r)
  BY DEF Next, vars, Ask, treeVars
<1>2. \A r \in Requests :
        \/ apply_category_update(r) \/ delete_category_checks(r)
        \/ create_transaction(r) \/ apply_transaction_update(r) \/ update_transaction(r)
        \/ create_budget_checks(r) \/ create_budget(r) \/ apply_budget_update(r) \/ update_budget(r)
        \/ delete_budget_checks(r) \/ delete_budget(r)
        => UNCHANGED <<categories, strayed>>
  BY DEF apply_category_update, delete_category_checks, create_transaction, apply_transaction_update,
         update_transaction, create_budget_checks, create_budget, apply_budget_update, update_budget,
         delete_budget_checks, delete_budget, treeVars
<1> QED BY <1>1, <1>2 DEF CategoryStep

LEMMA NotedOnAsking ==
  ASSUME Typed, [Next]_vars, NEW r \in current', r \notin current
  PROVE  r \in Requests /\ \E u \in Users : Ask(r, u)
<1>1. \A s \in Requests : CategoryStep(s) => current' = current \/ current' = {}
  BY DEF CategoryStep, create_category, apply_category_update, update_category,
     delete_category_checks, delete_category, create_transaction, apply_transaction_update,
     update_transaction, create_budget_checks, create_budget, apply_budget_update, update_budget,
     delete_budget_checks, delete_budget, Outdated, treeVars
<1>2. \A s \in Requests, u \in Users : Ask(s, u) => current' = current \/ current' = current \cup {s}
  BY DEF Ask, CategoryRequest, Noted
<1>3. CASE current' = current \/ current' = {}
  BY <1>3
<1>4. CASE \E s \in Requests, u \in Users : Ask(s, u)
  BY <1>2, <1>4
<1>5. CASE \E s \in Requests : MembershipStep(s) /\ UNCHANGED <<treeVars, transactions, budgetVars, listed>>
  BY <1>5 DEF treeVars
<1> QED BY <1>1, <1>3, <1>4, <1>5 DEF Next, vars, treeVars

LEMMA NoteStep == NoteAfterAsking /\ Typed /\ [Next]_vars => NoteAfterAsking'
<1> SUFFICES ASSUME NoteAfterAsking, Typed, [Next]_vars, NEW r \in current', requests'[r].at = "new"
             PROVE  FALSE
  BY DEF NoteAfterAsking
<1>0. requests = [s \in Requests |-> requests[s]] /\ current \subseteq Requests
  BY DEF Typed, TypeOK, RequestsOK
<1>1. ASSUME NEW s \in Requests, NEW u \in Users, Ask(s, u)
      PROVE  requests'[s].at = "handler" /\ \A c \in Requests \ {s} : requests'[c] = requests[c]
  <2>1. PICK m, asked : m \in Rows /\ get_active_context(s, u, m, asked)
    BY <1>1, AskedInOrder DEF Ask
  <2> QED BY <1>0, <2>1 DEF get_active_context
<1>2. CASE r \notin current
  BY <1>1, <1>2, NotedOnAsking
<1>3. CASE r \in current
  <2>1. requests[r].at # "new" /\ r \in Requests
    BY <1>0, <1>3 DEF NoteAfterAsking
  <2>2. CASE \E s \in Requests, u \in Users : Ask(s, u)
    BY <1>1, <2>1, <2>2
  <2>3. CASE \E s \in Requests : MembershipStep(s) \/ CategoryStep(s)
    <3>1. PICK s \in Requests : Answer(s) \/ \E read : Proceed(s, read)
      BY <2>3, Stepping
    <3> QED BY <1>0, <2>1, <3>1 DEF Answer, Proceed, Over
  <2>4. CASE UNCHANGED requests
    BY <2>1, <2>4
  <2> QED BY <2>2, <2>3, <2>4 DEF Next, vars
<1> QED BY <1>2, <1>3

\* An edit is asked for in its dialog, with a choice from a list the browser has
\* had, and noted if that list is the one there is.
EditFrom(r, u, asked) ==
  \E list \in listed[u] :
    /\ \E row : asked.edit \in EditCategoryModal(list, asked.category, row)
    /\ Noted(r, list)

LEMMA EditAsked ==
  ASSUME NEW r \in Requests, NEW u \in Users, Ask(r, u)
  PROVE  \E m, asked : /\ get_active_context(r, u, m, asked)
                       /\ asked.op = "update_category" => EditFrom(r, u, asked)
<1> DEFINE Fine(asked) == asked.op = "update_category" => EditFrom(r, u, asked)
<1>1. /\ \A invited, role : Fine([op |-> "create_membership", user |-> invited, role |-> role])
      /\ \A k, role, status :
           Fine([op |-> "update_membership", row |-> k, role |-> role, status |-> status])
      /\ \A k : Fine([op |-> "delete_membership", row |-> k])
      /\ \A a : Fine([op |-> "create_account_share", account |-> a])
      /\ \A new : Fine([op |-> "create_category", new |-> new])
      /\ \A k, target : Fine([op |-> "delete_category", category |-> k, reassign_to |-> target])
      /\ \A b, chosen : /\ Fine([op |-> "create_budget", category_ids |-> chosen])
                        /\ Fine([op |-> "update_budget", budget |-> b, category_ids |-> chosen])
                        /\ Fine([op |-> "delete_budget", budget |-> b])
      /\ \A t, data : /\ Fine([op |-> "create_transaction", transaction |-> t, data |-> data])
                      /\ Fine([op |-> "update_transaction", transaction |-> t, data |-> data])
  OBVIOUS
<1>2. \A list \in listed[u] : Noted(r, list) =>
        \A k, row, kindSent, parentSent : \A edit \in EditCategoryModal(list, k, row) :
          Fine([op |-> "update_category", category |-> k, edit |-> edit,
                kindSent |-> kindSent, parentSent |-> parentSent])
  BY Zenon DEF EditFrom
<1> HIDE DEF Fine
<1>3. ASSUME MembershipRequest(r, u) PROVE \E m, asked : get_active_context(r, u, m, asked) /\ Fine(asked)
  BY <1>1, <1>3 DEF MembershipRequest
<1>4. ASSUME CategoryRequest(r, u) PROVE \E m, asked : get_active_context(r, u, m, asked) /\ Fine(asked)
  BY <1>1, <1>2, <1>4, ZenonT(40) DEF CategoryRequest
<1>5. ASSUME BudgetRequest(r, u) PROVE \E m, asked : get_active_context(r, u, m, asked) /\ Fine(asked)
  BY <1>1, <1>5 DEF BudgetRequest
<1>6. ASSUME TransactionRequest(r, u) PROVE \E m, asked : get_active_context(r, u, m, asked) /\ Fine(asked)
  BY <1>1, <1>6 DEF TransactionRequest
<1>7. \E m, asked : get_active_context(r, u, m, asked) /\ Fine(asked)
  BY <1>3, <1>4, <1>5, <1>6 DEF Ask
<1> QED BY <1>7 DEF Fine

LEMMA EditsSafeStep == EditsSafe /\ NoteAfterAsking /\ Typed /\ [Next]_vars => EditsSafe'
<1> SUFFICES ASSUME EditsSafe, NoteAfterAsking, Typed, [Next]_vars, NEW r \in Requests,
                    requests'[r].at \in {"handler", "commit"},
                    requests'[r].asked.op = "update_category", r \in current'
             PROVE  SafeParent(categories', requests'[r].asked.category, requests'[r].asked.edit.parent)
  BY DEF EditsSafe
<1>1. categories' = categories
  <2>1. \A s \in Requests : create_category(s) \/ update_category(s) \/ delete_category(s) => Outdated
    BY DEF create_category, update_category, delete_category
  <2>2. Outdated => categories' = categories
    BY DEF Outdated
  <2> QED BY <2>1, <2>2, CategoriesDisturbed
<1>2. CASE \E u \in Users : Ask(r, u)
  <2>1. PICK u \in Users : Ask(r, u)
    BY <1>2
  <2>2. requests = [s \in Requests |-> requests[s]]
    BY DEF Typed, RequestsOK
  <2>3. PICK m, asked :
          get_active_context(r, u, m, asked) /\ (asked.op = "update_category" => EditFrom(r, u, asked))
    BY <2>1, EditAsked
  <2>4. requests[r] = New /\ requests'[r].asked = asked
    BY <2>2, <2>3 DEF get_active_context
  <2>5. PICK list \in listed[u] :
          /\ \E row : asked.edit \in EditCategoryModal(list, asked.category, row)
          /\ Noted(r, list)
    BY <2>3, <2>4 DEF EditFrom
  <2>6. r \notin current
    BY <2>4 DEF NoteAfterAsking, New
  <2>7. list = categories
    BY <2>5, <2>6 DEF Noted
  <2>8. SafeParent(list, asked.category, asked.edit.parent)
    BY <2>5, DialogOffersSafe
  <2> QED BY <1>1, <2>4, <2>7, <2>8
<1>3. CASE ~\E u \in Users : Ask(r, u)
  <2>1. r \in current
    BY <1>3, NotedOnAsking
  <2>2. requests[r].at \in {"handler", "commit"} /\ requests'[r].asked = requests[r].asked
    BY <1>3, RequestsMove
  <2> QED BY <1>1, <2>1, <2>2 DEF EditsSafe
<1> QED BY <1>2, <1>3

LEMMA TreeStep == TreeInv /\ Typed /\ [Next]_vars => CategoriesFormTree'
<1> SUFFICES ASSUME TreeInv, Typed, [Next]_vars, ~strayed',
                    NEW S \in SUBSET Existing(categories'), S # {}
             PROVE  \E c \in S : categories'[c].parent \notin S
  BY DEF CategoriesFormTree, NoLoop
<1>0. /\ categories \in CategoryTables /\ strayed \in BOOLEAN
      /\ \A c \in Existing(categories) : categories[c].parent \in Existing(categories) \cup {Null}
      /\ Null \notin Categories /\ Existing(categories) \subseteq Categories
  BY SeededAssumption DEF Typed, TypeOK, Existing
<1>1. ~strayed => NoLoop(categories)
  BY DEF TreeInv, CategoriesFormTree
<1>2. CASE UNCHANGED <<categories, strayed>>
  BY <1>1, <1>2 DEF NoLoop
<1>3. ASSUME NEW r \in Requests, create_category(r), categories' # categories
      PROVE  \E c \in S : categories'[c].parent \notin S
  <2> DEFINE new == requests[r].asked.new
  <2>1. PICK k \in Categories : /\ categories[k] = Null
                                /\ categories' = [categories EXCEPT ![k] = new]
    BY <1>3 DEF create_category
  <2>2. new.parent \in Existing(categories) \cup {Null} /\ ~strayed
    BY <1>3 DEF create_category, ParentExists
  <2>3. k \notin Existing(categories)
    BY <2>1 DEF Existing, Exists
  <2>4. \A c \in Categories : categories'[c] = IF c = k THEN new ELSE categories[c]
    BY <1>0, <2>1 DEF CategoryTables
  <2> HIDE DEF new
  <2>5. S \ {k} \subseteq Existing(categories)
    BY <2>4 DEF Existing, Exists
  <2>6. CASE S \ {k} = {}
    <3>1. S = {k}
      BY <2>6
    <3> QED BY <1>0, <2>2, <2>3, <2>4, <3>1
  <2>7. CASE S \ {k} # {}
    <3>1. PICK c \in S \ {k} : categories[c].parent \notin S \ {k}
      BY <1>1, <2>2, <2>5, <2>7 DEF NoLoop
    <3>2. categories[c].parent # k
      BY <1>0, <2>3, <2>5, <3>1
    <3>3. categories'[c] = categories[c]
      BY <1>0, <2>4, <2>5, <3>1
    <3> QED BY <3>1, <3>2, <3>3
  <2> QED BY <2>6, <2>7
<1>4. ASSUME NEW r \in Requests, update_category(r), categories' # categories
      PROVE  \E c \in S : categories'[c].parent \notin S
  <2> DEFINE k == requests[r].asked.category
             p == requests[r].asked.edit.parent
             parentWritten == requests[r].asked.parentSent /\ p # requests[r].read.parent
  <2>1. /\ k \in Existing(categories)
        /\ parentWritten => ParentExists(p)
        /\ \E kind : categories' = [categories EXCEPT
                ![k] = [kind |-> kind, parent |-> IF parentWritten THEN p ELSE categories[k].parent]]
        /\ ~strayed /\ (parentWritten => r \in current)
    BY <1>4 DEF update_category
  <2>2. parentWritten => SafeParent(categories, k, p)
    BY <1>4, <2>1 DEF TreeInv, EditsSafe, update_category, Committing
  <2> HIDE DEF k, p, parentWritten
  <2>3. PICK kind : categories' = [categories EXCEPT
                      ![k] = [kind |-> kind, parent |-> IF parentWritten THEN p ELSE categories[k].parent]]
    BY <2>1
  <2> DEFINE row == [kind |-> kind, parent |-> IF parentWritten THEN p ELSE categories[k].parent]
  <2>4. /\ \A c \in Categories \ {k} : categories'[c] = categories[c]
        /\ categories'[k].parent = IF parentWritten THEN p ELSE categories[k].parent
        /\ S \subseteq Existing(categories)
    <3>1. \A c \in Categories : categories'[c] = IF c = k THEN row ELSE categories[c]
      BY <1>0, <2>3 DEF CategoryTables
    <3>2. k \in Categories
      BY <1>0, <2>1
    <3>3. S \subseteq Existing(categories)
      BY <2>1, <3>1 DEF Existing
    <3> QED BY <3>1, <3>2, <3>3
  <2>5. CASE k \notin S \/ ~parentWritten
    <3>1. PICK c \in S : categories[c].parent \notin S
      BY <1>1, <2>1, <2>4 DEF NoLoop
    <3> QED BY <1>0, <2>4, <2>5, <3>1
  <2>6. CASE k \in S /\ parentWritten
    \* Up from k within S there are at most two steps before the top.
    <3>1. categories'[k].parent = p
      BY <2>4, <2>6
    <3>2. CASE p \notin S
      BY <2>6, <3>1, <3>2
    <3>3. CASE p \in S
      <4>1. p # k /\ categories'[p] = categories[p] /\ p \in Categories
        BY <1>0, <2>2, <2>4, <2>6, <3>3 DEF SafeParent
      <4>2. CASE categories[p].parent \notin S
        BY <3>3, <4>1, <4>2
      <4>3. CASE categories[p].parent \in S
        <5>1. categories[p].parent # Null
          BY <1>0, <2>4, <4>3
        <5>2. /\ categories[p].parent # k
              /\ categories[categories[p].parent].parent = Null
          BY <1>0, <2>2, <2>4, <2>6, <3>3, <5>1 DEF SafeParent
        <5>3. categories'[categories[p].parent].parent = Null
          BY <1>0, <2>4, <4>3, <5>2
        <5> QED BY <1>0, <2>4, <4>3, <5>3
      <4> QED BY <4>2, <4>3
    <3> QED BY <3>2, <3>3
  <2> QED BY <2>5, <2>6
<1>5. ASSUME NEW r \in Requests, delete_category(r), categories' # categories
      PROVE  \E c \in S : categories'[c].parent \notin S
  <2> DEFINE k == requests[r].asked.category
  <2>1. categories' = [categories EXCEPT ![k] = Gone] /\ ~strayed
    BY <1>5 DEF delete_category
  <2>2. \A c \in Categories : categories'[c] = IF c = k THEN Gone ELSE categories[c]
    BY <1>0, <2>1 DEF CategoryTables
  <2> HIDE DEF k
  <2>3. S \subseteq Existing(categories) \ {k}
    BY <2>2 DEF Existing, Exists
  <2>4. PICK c \in S : categories[c].parent \notin S
    BY <1>1, <2>1, <2>3 DEF NoLoop
  <2> QED BY <1>0, <2>2, <2>3, <2>4
<1>6. ASSUME NEW r \in Requests,
             create_category(r) \/ update_category(r) \/ delete_category(r),
             categories' = categories
      PROVE  \E c \in S : categories'[c].parent \notin S
  <2>1. ~strayed
    BY <1>0, <1>6 DEF create_category, update_category, delete_category
  <2> QED BY <1>1, <1>6, <2>1 DEF NoLoop
<1> QED BY <1>2, <1>3, <1>4, <1>5, <1>6, CategoriesDisturbed

LEMMA AlwaysTree == Spec => []TreeInv
<1>1. Init => TreeInv
  BY SeededAssumption DEF Init, TreeInv, EditsSafe, NoteAfterAsking, CategoriesFormTree, New
<1>2. TreeInv /\ Typed /\ [Next]_vars => TreeInv'
  BY TreeStep, EditsSafeStep, NoteStep DEF TreeInv
<1> QED BY <1>1, <1>2, AlwaysTyped, PTL DEF Spec

\* Whatever edits overlap, no category comes to be above itself while parents
\* are set from the list there is.
THEOREM CategoriesStayTree == Spec => []CategoriesFormTree
<1>1. TreeInv => CategoriesFormTree
  BY DEF TreeInv
<1> QED BY <1>1, AlwaysTree, PTL

\* The tree of a list without loops has all of it: what it left out would be a
\* set with the parents of its members.
LEMMA DrawnWhole ==
  ASSUME NEW list, NoLoop(list)
  PROVE  Existing(list) \subseteq CategoryTree(list)
<1> SUFFICES ASSUME NEW k \in Existing(list), k \notin CategoryTree(list)
             PROVE  FALSE
  OBVIOUS
<1> DEFINE roots == RootCategories(list)
           others == Existing(list) \ roots
<1>1. PICK below \in SUBSET others :
        /\ \A child \in others \ below : list[child].parent \notin roots \cup below
        /\ k \in others \ below
  BY DEF CategoryTree
<1>2. others \ below \in SUBSET Existing(list) /\ others \ below # {}
  BY <1>1
<1>3. PICK c \in others \ below : list[c].parent \notin others \ below
  BY <1>2 DEF NoLoop
<1>4. list[c].parent \in Existing(list)
  BY <1>3 DEF RootCategories
<1>5. list[c].parent \in roots \cup below
  BY <1>1, <1>3, <1>4
<1> QED BY <1>1, <1>3, <1>5

\* A set of numbers has a least one.
LEMMA LeastNumber ==
  ASSUME NEW B, B \subseteq Nat, B # {}
  PROVE  \E m \in B : \A n \in B : m <= n
<1>1. PICK b \in B : TRUE
  OBVIOUS
<1> DEFINE S == 0..b
           T == {0..n : n \in {n \in B : n <= b}}
<1>2. IsFiniteSet(S)
  BY <1>1, FS_Interval
<1>3. T \subseteq FiniteSubsetsOf(S) /\ T # {}
  <2>1. \A n \in B : n <= b => 0..n \subseteq S
    BY <1>1
  <2>2. T \subseteq SUBSET S
    <3> HIDE DEF S
    <3> QED BY <2>1
  <2>3. S \in T
    BY <1>1
  <2> HIDE DEF S, T
  <2> QED BY <1>2, <2>2, <2>3, FS_Subset DEF FiniteSubsetsOf
<1>4. PICK x \in T : \A y \in T : ~ (<<y, x>> \in StrictSubsetOrdering(S))
  <2> HIDE DEF S, T
  <2> QED BY <1>2, <1>3, WFMin, FS_StrictSubsetOrderingWellFounded
<1>5. \A y \in T : y \subseteq x => y = x
  <2> HIDE DEF T
  <2> QED BY <1>3, <1>4 DEF StrictSubsetOrdering, FiniteSubsetsOf
<1>6. PICK m \in B : m <= b /\ x = 0..m
  OBVIOUS
<1>7. ASSUME NEW n \in B, ~ (m <= n)
      PROVE  FALSE
  <2>1. n \in Nat /\ m \in Nat /\ n < m /\ n <= b
    BY <1>1, <1>6, <1>7
  <2>2. 0..n \in T
    BY <2>1
  <2>3. 0..n \subseteq 0..m /\ m \in 0..m /\ m \notin 0..n
    BY <2>1
  <2> HIDE DEF T
  <2> QED BY <1>5, <1>6, <2>2, <2>3
<1> QED BY <1>7

\* One turn of the loop of resolveCategory, and the table of the first N turns.
Parent(list, c) == IF c \in Existing(list) THEN list[c].parent ELSE Null
Climb(list, w) ==
  IF Parent(list, w.rootId) \in {Null} \cup w.visited THEN w
  ELSE [rootId |-> Parent(list, w.rootId), visited |-> w.visited \cup {w.rootId}]
Walks(list, k, N, walk) ==
  walk = [n \in 0..N |-> IF n = 0 THEN [rootId |-> k, visited |-> {}]
                         ELSE Climb(list, walk[n-1])]

\* The loop has a result after any number of turns.
LEMMA WalkExists ==
  ASSUME NEW list, NEW k, NEW N \in Nat
  PROVE  \E walk : Walks(list, k, N, walk)
<1> DEFINE B == {n \in Nat : ~ \E walk : Walks(list, k, n, walk)}
<1>1. SUFFICES ASSUME B # {} PROVE FALSE
  OBVIOUS
<1>2. PICK m \in B : \A n \in B : m <= n
  <2>1. B \subseteq Nat
    OBVIOUS
  <2> HIDE DEF B
  <2> QED BY <1>1, <2>1, LeastNumber
<1>3. m # 0
  <2> DEFINE g == [n \in 0..0 |-> [rootId |-> k, visited |-> {}]]
  <2>1. Walks(list, k, 0, g)
    BY DEF Walks
  <2> QED BY <1>2, <2>1
<1>4. PICK h : Walks(list, k, m-1, h)
  <2>1. m-1 \in Nat /\ m-1 \notin B
    BY <1>2, <1>3
  <2> QED BY <2>1
<1> DEFINE g == [n \in 0..m |-> IF n = m THEN Climb(list, h[m-1]) ELSE h[n]]
<1>5. Walks(list, k, m, g)
  <2> DEFINE start == [rootId |-> k, visited |-> {}]
  <2>1. \A n \in 0..(m-1) : h[n] = IF n = 0 THEN start ELSE Climb(list, h[n-1])
    BY <1>4 DEF Walks
  <2>2. ASSUME NEW n \in 0..m
        PROVE  g[n] = IF n = 0 THEN start ELSE Climb(list, g[n-1])
    <3>1. CASE n = m
      <4>1. g[n] = Climb(list, h[n-1]) /\ g[n-1] = h[n-1]
        BY <1>2, <1>3, <3>1
      <4> HIDE DEF g
      <4> QED BY <1>3, <3>1, <4>1
    <3>2. CASE n # m /\ n # 0
      <4>1. n \in 0..(m-1) /\ g[n] = h[n] /\ g[n-1] = h[n-1]
        BY <1>2, <3>2
      <4> HIDE DEF g
      <4> QED BY <2>1, <3>2, <4>1
    <3>3. CASE n # m /\ n = 0
      <4>1. n \in 0..(m-1) /\ g[n] = h[n]
        BY <1>2, <3>3
      <4> HIDE DEF g
      <4> QED BY <2>1, <3>3, <4>1
    <3> QED BY <3>1, <3>2, <3>3
  <2>3. g = [n \in 0..m |-> g[n]]
    OBVIOUS
  <2> HIDE DEF g
  <2> QED BY <2>2, <2>3 DEF Walks
<1> QED BY <1>2, <1>5

\* What resolveCategory answers: the last category of the walk.
LEMMA WalkTable ==
  ASSUME NEW list, NEW k
  PROVE  \E walk : /\ Walks(list, k, Cardinality(Categories), walk)
                   /\ resolveCategory(list, k) = walk[Cardinality(Categories)].rootId
<1> DEFINE N == Cardinality(Categories)
           parent(c) == IF c \in Existing(list) THEN list[c].parent ELSE Null
           h == CHOOSE walk : walk = [n \in 0..N |->
                  IF n = 0 THEN [rootId |-> k, visited |-> {}]
                  ELSE IF parent(walk[n-1].rootId) \in {Null} \cup walk[n-1].visited
                       THEN walk[n-1]
                       ELSE [rootId |-> parent(walk[n-1].rootId),
                             visited |-> walk[n-1].visited \cup {walk[n-1].rootId}]]
<1>1. \E walk : walk = [n \in 0..N |->
                  IF n = 0 THEN [rootId |-> k, visited |-> {}]
                  ELSE IF parent(walk[n-1].rootId) \in {Null} \cup walk[n-1].visited
                       THEN walk[n-1]
                       ELSE [rootId |-> parent(walk[n-1].rootId),
                             visited |-> walk[n-1].visited \cup {walk[n-1].rootId}]]
  <2>1. N \in Nat
    BY SeededAssumption, FS_CardinalityType
  <2>2. PICK walk : Walks(list, k, N, walk)
    <3> HIDE DEF N
    <3> QED BY <2>1, WalkExists
  <2> QED BY <2>2, Zenon DEF Walks, Climb, Parent
<1>2. h = [n \in 0..N |->
                  IF n = 0 THEN [rootId |-> k, visited |-> {}]
                  ELSE IF parent(h[n-1].rootId) \in {Null} \cup h[n-1].visited
                       THEN h[n-1]
                       ELSE [rootId |-> parent(h[n-1].rootId),
                             visited |-> h[n-1].visited \cup {h[n-1].rootId}]]
  BY <1>1, Zenon
<1>3. resolveCategory(list, k) = h[N].rootId
  BY Zenon DEF resolveCategory
<1>4. Walks(list, k, N, h)
  <2> HIDE DEF h
  <2> QED BY <1>2, Zenon DEF Walks, Climb, Parent
<1> QED BY <1>3, <1>4

\* Every parent in a list is in it too, as the foreign key sees to.
Closed(list) ==
  \A k \in Existing(list) : list[k].parent \in Existing(list) \cup {Null}

\* After n turns the walk is at a category that it has not passed, below it are
\* those it has passed, and it has passed n of them unless it is at the top.
WalkOK(list, n, w) ==
  /\ w.rootId \in Existing(list)
  /\ w.visited \subseteq Existing(list) \ {w.rootId}
  /\ \A c \in w.visited : list[c].parent \in w.visited \cup {w.rootId}
  /\ list[w.rootId].parent = Null \/ Cardinality(w.visited) = n

\* Without loops the walk is never led back: what it has passed would be one.
LEMMA NeverBack ==
  ASSUME NEW list, NoLoop(list), NEW n, NEW w, WalkOK(list, n, w)
  PROVE  list[w.rootId].parent \notin w.visited \cup {w.rootId}
<1> DEFINE S == w.visited \cup {w.rootId}
<1>1. S \in SUBSET Existing(list) /\ S # {}
  BY DEF WalkOK
<1>2. PICK c \in S : list[c].parent \notin S
  <2> HIDE DEF S
  <2> QED BY <1>1 DEF NoLoop
<1> QED BY <1>2 DEF WalkOK

LEMMA WalkGoesUp ==
  ASSUME NEW list, NoLoop(list), Closed(list), Null \notin Categories,
         IsFiniteSet(Existing(list)), NEW n \in Nat, NEW w, WalkOK(list, n, w)
  PROVE  WalkOK(list, n+1, Climb(list, w))
<1> DEFINE p == list[w.rootId].parent
<1>1. w.rootId \in Existing(list) /\ Parent(list, w.rootId) = p
  BY DEF WalkOK, Parent
<1>2. CASE p = Null
  BY <1>1, <1>2 DEF WalkOK, Climb
<1>3. CASE p # Null
  <2>1. p \in Existing(list) /\ p \notin w.visited \cup {w.rootId}
    BY <1>1, <1>3, NeverBack DEF Closed
  <2>2. Climb(list, w) = [rootId |-> p, visited |-> w.visited \cup {w.rootId}]
    BY <1>1, <1>3, <2>1 DEF Climb
  <2>3. IsFiniteSet(w.visited) /\ Cardinality(w.visited) = n /\ w.rootId \notin w.visited
    BY <1>3, FS_Subset DEF WalkOK
  <2>4. Cardinality(w.visited \cup {w.rootId}) = n+1
    BY <2>3, FS_AddElement
  <2> QED BY <1>1, <2>1, <2>2, <2>4 DEF WalkOK
<1> QED BY <1>2, <1>3

\* So it ends at a root: there are not as many categories to pass as turns.
LEMMA CountedWhole ==
  ASSUME NEW list, NoLoop(list), Closed(list), NEW k \in Existing(list)
  PROVE  resolveCategory(list, k) \in RootCategories(list)
<1> DEFINE N == Cardinality(Categories)
<1>1. /\ IsFiniteSet(Categories) /\ N \in Nat /\ Null \notin Categories
      /\ Existing(list) \subseteq Categories /\ IsFiniteSet(Existing(list))
  BY SeededAssumption, FS_CardinalityType, FS_Subset DEF Existing
<1>2. PICK walk : Walks(list, k, N, walk) /\ resolveCategory(list, k) = walk[N].rootId
  BY WalkTable
<1>3. \A n \in 0..N : WalkOK(list, n, walk[n])
  <2> DEFINE B == {n \in 0..N : ~ WalkOK(list, n, walk[n])}
  <2>1. SUFFICES ASSUME B # {} PROVE FALSE
    OBVIOUS
  <2>2. PICK m \in B : \A n \in B : m <= n
    <3>1. B \subseteq Nat
      OBVIOUS
    <3> HIDE DEF B
    <3> QED BY <2>1, <3>1, LeastNumber
  <2>3. CASE m = 0
    <3>1. walk[0] = [rootId |-> k, visited |-> {}]
      <4> HIDE DEF N
      <4> QED BY <1>1, <1>2 DEF Walks
    <3>2. WalkOK(list, 0, walk[0])
      BY <3>1, FS_EmptySet DEF WalkOK
    <3> QED BY <2>2, <2>3, <3>2
  <2>4. CASE m # 0
    <3>1. m \in 0..N /\ m-1 \in 0..N /\ m-1 \in Nat /\ m-1 \notin B /\ (m-1)+1 = m
      <4> HIDE DEF N
      <4> QED BY <1>1, <2>2, <2>4
    <3>2. WalkOK(list, m-1, walk[m-1])
      BY <3>1
    <3>3. walk[m] = Climb(list, walk[m-1])
      <4> HIDE DEF N
      <4> QED BY <1>2, <2>4, <3>1 DEF Walks
    <3>4. WalkOK(list, (m-1)+1, Climb(list, walk[m-1]))
      BY <1>1, <3>1, <3>2, WalkGoesUp
    <3> QED BY <2>2, <3>1, <3>3, <3>4
  <2> QED BY <2>3, <2>4
<1> DEFINE w == walk[N]
<1>4. WalkOK(list, N, w)
  <2> HIDE DEF WalkOK
  <2> QED BY <1>1, <1>3
<1>5. list[w.rootId].parent = Null
  <2> SUFFICES ASSUME Cardinality(w.visited) = N PROVE FALSE
    BY <1>4 DEF WalkOK
  <2>1. w.visited \subseteq Categories /\ w.rootId \in Categories \ w.visited
    BY <1>1, <1>4 DEF WalkOK
  <2>2. w.visited = Categories
    <3> HIDE DEF w
    <3> QED BY <1>1, <2>1, FS_Subset
  <2> QED BY <2>1, <2>2
<1> QED BY <1>2, <1>4, <1>5 DEF WalkOK, RootCategories

\* However deep the tree is and however old the list, CategoryTree draws every
\* category of it, and the report counts each under a root (useMonthlyReport).
THEOREM TreeShownAndCounted == Spec => []TreeIsWhole
<1> DEFINE Whole(list) == NoLoop(list) /\ Closed(list)
           Lists == strayed \/ \A u \in Users : \A list \in listed[u] : Whole(list)
<1>1. Init => Lists
  <2>1. NoLoop(Seeded.categories) /\ Closed(Seeded.categories)
    BY SeededAssumption DEF Closed
  <2> QED BY <2>1 DEF Init
<1>2. Lists /\ TreeInv /\ Typed /\ [Next]_vars => Lists'
  <2> SUFFICES ASSUME Lists, TreeInv, Typed, [Next]_vars, ~strayed',
                      NEW u \in Users, NEW list \in listed'[u]
               PROVE  Whole(list)
    OBVIOUS
  <2>1. ~strayed
    <3>1. strayed => strayed'
      BY CategoriesDisturbed DEF create_category, update_category, delete_category
    <3> QED BY <3>1
  <2>2. list \in listed[u] \cup {categories}
    <3>1. UNCHANGED listed \/ \E v \in Users : useCategories(v)
      BY DEF Next, vars, Ask
    <3> QED BY <3>1 DEF useCategories, Typed, TypeOK
  <2>3. Whole(categories)
    BY <2>1 DEF TreeInv, CategoriesFormTree, Typed, TypeOK, Closed
  <2> QED BY <2>1, <2>2, <2>3
<1>3. Lists => TreeIsWhole
  BY DrawnWhole, CountedWhole DEF TreeIsWhole
<1> QED BY <1>1, <1>2, <1>3, AlwaysTree, AlwaysTyped, PTL DEF Spec

-----------------------------------------------------------------------------
(* Budgets *)

\* The steps that touch the budgets and their links.
LEMMA LinksDisturbed ==
  [Next]_vars =>
    \/ UNCHANGED budgetVars
    \/ \E r \in Requests : create_budget(r) \/ update_budget(r) \/ delete_budget(r) \/ delete_category(r)
<1> SUFFICES ASSUME [Next]_vars, ~UNCHANGED budgetVars
             PROVE  \E r \in Requests :
                      create_budget(r) \/ update_budget(r) \/ delete_budget(r) \/ delete_category(r)
  OBVIOUS
<1>1. \E r \in Requests : CategoryStep(r)
  BY DEF Next, vars, Ask, budgetVars
<1>2. \A r \in Requests :
        \/ create_category(r) \/ apply_category_update(r) \/ update_category(r) \/ delete_category_checks(r)
        \/ create_transaction(r) \/ apply_transaction_update(r) \/ update_transaction(r)
        \/ create_budget_checks(r) \/ apply_budget_update(r) \/ delete_budget_checks(r)
        => UNCHANGED budgetVars
  BY DEF create_category, apply_category_update, update_category, delete_category_checks,
         create_transaction, apply_transaction_update, update_transaction,
         create_budget_checks, apply_budget_update, delete_budget_checks
<1> QED BY <1>1, <1>2 DEF CategoryStep

\* How a save gets to its commit, and stays there.
LEMMA SavingStarts ==
  ASSUME Typed, [Next]_vars, NEW r \in Requests, Committing(r, "update_budget")'
  PROVE  requests'[r] = requests[r] \/ apply_budget_update(r)
<1>0. requests = [s \in Requests |-> requests[s]]
      /\ requests'[r].at = "commit" /\ requests'[r].asked.op = "update_budget"
  BY DEF Typed, RequestsOK, Committing
<1>1. ASSUME NEW s \in Requests, NEW u \in Users, Ask(s, u)
      PROVE  requests'[r] = requests[r]
  <2>1. PICK m, asked : m \in Rows /\ get_active_context(s, u, m, asked)
    BY <1>1, AskedInOrder DEF Ask
  <2> QED BY <1>0, <2>1 DEF get_active_context
<1>2. ASSUME NEW s \in Requests, MembershipStep(s) \/ CategoryStep(s), requests'[r] # requests[r]
      PROVE  apply_budget_update(r)
  <2>1. ~Answer(s)
    BY <1>0, <1>2 DEF Answer, Over
  <2>2. PICK read : Proceed(s, read)
    BY <1>2, <2>1, Stepping
  <2>3. s = r /\ requests'[r] = Committed(r, read)
    BY <1>0, <1>2, <2>2 DEF Proceed, Committed
  <2>4. requests[r].asked.op = "update_budget"
    BY <1>0, <2>3 DEF Committed
  <2> QED BY <1>2, <2>1, <2>3, <2>4, Stepping
<1> QED BY <1>1, <1>2 DEF Next, vars

\* Between a save's DELETE and its commit the budget is its own: nobody else
\* saves it, and no link is added.
LockHeld ==
  \A r \in Requests : Committing(r, "update_budget") =>
    LET b == requests[r].asked.budget
    IN /\ budgets[b] # "unborn"
       /\ links[b] \subseteq requests[r].read
       /\ \A s \in Requests :
            Committing(s, "update_budget") /\ requests[s].asked.budget = b => s = r

LEMMA LockStep == LockHeld /\ Typed /\ [Next]_vars => LockHeld'
<1> SUFFICES ASSUME LockHeld, Typed, [Next]_vars, NEW r \in Requests, Committing(r, "update_budget")'
             PROVE  LET b == requests'[r].asked.budget
                    IN /\ budgets'[b] # "unborn"
                       /\ links'[b] \subseteq requests'[r].read
                       /\ \A s \in Requests :
                            Committing(s, "update_budget")' /\ requests'[s].asked.budget = b => s = r
  BY DEF LockHeld
<1> DEFINE b == requests'[r].asked.budget
<1>0. /\ requests = [s \in Requests |-> requests[s]]
      /\ links = [c \in Budgets |-> links[c]] /\ budgets = [c \in Budgets |-> budgets[c]]
  BY DEF Typed, TypeOK, RequestsOK
<1>1. CASE apply_budget_update(r)
  <2>1. /\ UNCHANGED <<budgets, links>>
        /\ b = requests[r].asked.budget
        /\ budgets[b] = "there" /\ requests'[r].read = links[b] /\ ~RowLocked(b)
        /\ \A s \in Requests \ {r} : requests'[s] = requests[s]
    BY <1>0, <1>1 DEF apply_budget_update, budgetVars, Handling, Committing, Answer, Over, Proceed, LinksToReplace
  <2>2. ASSUME NEW s \in Requests, Committing(s, "update_budget")', requests'[s].asked.budget = b, s # r
        PROVE  FALSE
    BY <2>1, <2>2 DEF RowLocked, Committing
  <2> QED BY <2>1, <2>2
<1>2. CASE requests'[r] = requests[r]
  <2>1. /\ Committing(r, "update_budget") /\ b = requests[r].asked.budget /\ b \in Budgets
        /\ budgets[b] # "unborn" /\ links[b] \subseteq requests'[r].read
    BY <1>2, Open DEF LockHeld, Committing, AskedOK
  <2>2. ASSUME NEW s \in Requests, Committing(s, "update_budget")', requests'[s].asked.budget = b, s # r
        PROVE  FALSE
    <3>1. CASE requests'[s] = requests[s]
      BY <2>1, <2>2, <3>1 DEF LockHeld, Committing
    <3>2. CASE apply_budget_update(s)
      <4>1. requests[s].asked.budget = b
        BY <1>0, <2>2, <3>2 DEF apply_budget_update, Committing, Answer, Over, Proceed
      <4> QED BY <2>1, <3>2, <4>1 DEF apply_budget_update, RowLocked
    <3> QED BY <2>2, <3>1, <3>2, SavingStarts
  <2>3. budgets'[b] # "unborn" /\ links'[b] \subseteq links[b]
    <3>1. ASSUME NEW s \in Requests, update_budget(s)
          PROVE  budgets'[b] = budgets[b] /\ links'[b] = links[b]
      <4>1. s # r
        BY <1>0, <1>2, <2>1, <3>1 DEF update_budget, Committing, Answer, Over
      <4>2. requests[s].asked.budget # b
        BY <2>1, <3>1, <4>1 DEF LockHeld, update_budget
      <4>3. budgets'[b] = budgets[b]
        BY <3>1 DEF update_budget
      <4>4. \/ links' = links
            \/ \E set : links' = [links EXCEPT ![requests[s].asked.budget] = set]
        BY <3>1 DEF update_budget
      <4>5. ASSUME NEW set, links' = [links EXCEPT ![requests[s].asked.budget] = set]
            PROVE  links'[b] = links[b]
        BY <1>0, <2>1, <4>2, <4>5
      <4>6. links'[b] = links[b]
        BY <4>4, <4>5
      <4> QED BY <4>3, <4>6
    <3>2. ASSUME NEW s \in Requests, create_budget(s)
          PROVE  budgets'[b] = budgets[b] /\ links'[b] = links[b]
      <4>1. \/ UNCHANGED budgetVars
            \/ \E c \in Budgets : /\ budgets[c] = "unborn"
                                  /\ budgets' = [budgets EXCEPT ![c] = "there"]
                                  /\ \E set : links' = [links EXCEPT ![c] = set]
        BY <3>2 DEF create_budget
      <4> QED BY <1>0, <2>1, <4>1 DEF budgetVars
    <3>3. ASSUME NEW s \in Requests, delete_budget(s)
          PROVE  budgets'[b] # "unborn" /\ links'[b] \subseteq links[b]
      BY <1>0, <2>1, <3>3 DEF delete_budget
    <3>4. ASSUME NEW s \in Requests, delete_category(s)
          PROVE  budgets'[b] = budgets[b] /\ links'[b] \subseteq links[b]
      BY <1>0, <2>1, <3>4 DEF delete_category
    <3> QED BY <2>1, <3>1, <3>2, <3>3, <3>4, LinksDisturbed DEF budgetVars
  <2> QED BY <2>1, <2>2, <2>3
<1> QED BY <1>1, <1>2, SavingStarts

\* One link for each category.
OneLinkEach ==
  \A b \in Budgets : \A l, l2 \in links[b] : l.category = l2.category => l = l2

LinksInv == LockHeld /\ LinksAsIntended /\ OneLinkEach

LEMMA LinksStep == LinksInv /\ Typed /\ [Next]_vars => (LinksAsIntended /\ OneLinkEach)'
<1> SUFFICES ASSUME LinksInv, Typed, [Next]_vars
             PROVE  (LinksAsIntended /\ OneLinkEach)'
  OBVIOUS
<1>0. /\ links = [b \in Budgets |-> links[b]]
      /\ intended = [b \in Budgets |-> intended[b]]
  BY DEF Typed, TypeOK
<1>1. CASE UNCHANGED budgetVars
  BY <1>1 DEF budgetVars, LinksInv, LinksAsIntended, OneLinkEach, CategoriesOf
<1>2. ASSUME NEW r, NEW a \in Budgets, NEW chosen,
             links' = [links EXCEPT ![a] = [category : chosen, by : {r}]],
             intended' = [intended EXCEPT ![a] = chosen]
      PROVE  (LinksAsIntended /\ OneLinkEach)'
  <2> DEFINE new == [category : chosen, by : {r}]
  <2>1. links'[a] = new /\ intended'[a] = chosen
    BY <1>0, <1>2
  <2>2. \A b \in Budgets \ {a} : links'[b] = links[b] /\ intended'[b] = intended[b]
    BY <1>0, <1>2
  <2>3. \A l \in new : l = [category |-> l.category, by |-> r] /\ l.category \in chosen
    OBVIOUS
  <2>4. \A c \in chosen : [category |-> c, by |-> r] \in new /\ [category |-> c, by |-> r].category = c
    OBVIOUS
  <2> HIDE DEF new
  <2>5. {l.category : l \in new} = chosen
    <3>1. \A c \in chosen : \E l \in new : l.category = c
      BY <2>4
    <3> QED BY <2>3, <3>1
  <2>6. \A l, l2 \in new : l.category = l2.category => l = l2
    BY <2>3
  <2>7. ASSUME NEW b \in Budgets PROVE {l.category : l \in links'[b]} = intended'[b]
    <3>1. CASE b = a
      BY <2>1, <2>5, <3>1
    <3>2. CASE b # a
      <4>1. {l.category : l \in links[b]} = intended[b]
        BY DEF LinksInv, LinksAsIntended, CategoriesOf
      <4> QED BY <2>2, <3>2, <4>1
    <3> QED BY <3>1, <3>2
  <2>8. ASSUME NEW b \in Budgets
        PROVE  \A l, l2 \in links'[b] : l.category = l2.category => l = l2
    <3>1. CASE b = a
      BY <2>1, <2>6, <3>1
    <3>2. CASE b # a
      BY <2>2, <3>2 DEF LinksInv, OneLinkEach
    <3> QED BY <3>1, <3>2
  <2> QED BY <2>7, <2>8 DEF LinksAsIntended, CategoriesOf, OneLinkEach
<1>3. ASSUME NEW r \in Requests, update_budget(r), ~UNCHANGED budgetVars
      PROVE  (LinksAsIntended /\ OneLinkEach)'
  <2> DEFINE a == requests[r].asked.budget
             chosen == requests[r].asked.category_ids
             kept == links[a] \ requests[r].read
  <2>1. a \in Budgets /\ kept = {}
    BY <1>3, Open DEF update_budget, Committing, AskedOK, LinksInv, LockHeld
  <2>2. /\ links' = [links EXCEPT ![a] = kept \cup [category : chosen, by : {r}]]
        /\ intended' = [intended EXCEPT ![a] = chosen]
    BY <1>3 DEF update_budget, budgetVars
  <2> HIDE DEF a, chosen, kept
  <2>3. links' = [links EXCEPT ![a] = [category : chosen, by : {r}]]
    BY <2>1, <2>2
  <2> QED BY <1>2, <2>1, <2>2, <2>3
<1>4. ASSUME NEW r \in Requests, create_budget(r), ~UNCHANGED budgetVars
      PROVE  (LinksAsIntended /\ OneLinkEach)'
  <2> DEFINE chosen == requests[r].asked.category_ids
  <2>1. PICK b \in Budgets : /\ links' = [links EXCEPT ![b] = [category : chosen, by : {r}]]
                             /\ intended' = [intended EXCEPT ![b] = chosen]
    BY <1>4 DEF create_budget
  <2> HIDE DEF chosen
  <2> QED BY <1>2, <2>1
<1>5. ASSUME NEW r \in Requests, delete_budget(r)
      PROVE  (LinksAsIntended /\ OneLinkEach)'
  <2> DEFINE a == requests[r].asked.budget
  <2>1. /\ links' = [links EXCEPT ![a] = {}] /\ intended' = [intended EXCEPT ![a] = {}]
    BY <1>5 DEF delete_budget
  <2> HIDE DEF a
  <2>2. ASSUME NEW b \in Budgets PROVE {l.category : l \in links'[b]} = intended'[b]
    <3>1. {l.category : l \in links[b]} = intended[b]
      BY DEF LinksInv, LinksAsIntended, CategoriesOf
    <3>2. \/ links'[b] = {} /\ intended'[b] = {}
          \/ links'[b] = links[b] /\ intended'[b] = intended[b]
      BY <1>0, <2>1
    <3> QED BY <3>1, <3>2
  <2>3. OneLinkEach'
    BY <1>0, <2>1 DEF LinksInv, OneLinkEach
  <2> QED BY <2>2, <2>3 DEF LinksAsIntended, CategoriesOf
<1>6. ASSUME NEW r \in Requests, delete_category(r), ~UNCHANGED budgetVars
      PROVE  (LinksAsIntended /\ OneLinkEach)'
  <2> DEFINE k == requests[r].asked.category
  <2>1. /\ links' = [b \in Budgets |-> {l \in links[b] : l.category # k}]
        /\ intended' = [b \in Budgets |-> intended[b] \ {k}]
    BY <1>6 DEF delete_category, budgetVars
  <2> HIDE DEF k
  <2>2. OneLinkEach'
    BY <2>1 DEF LinksInv, OneLinkEach
  <2>3. ASSUME NEW b \in Budgets PROVE CategoriesOf(b)' = intended'[b]
    <3>1. CategoriesOf(b) = intended[b]
      BY DEF LinksInv, LinksAsIntended
    <3> QED BY <2>1, <3>1 DEF CategoriesOf
  <2> QED BY <2>2, <2>3 DEF LinksAsIntended
<1> QED BY <1>1, <1>3, <1>4, <1>5, <1>6, LinksDisturbed

LEMMA AlwaysLinked == Spec => []LinksInv
<1>1. Init => LinksInv
  <2> SUFFICES ASSUME Init PROVE LinksInv
    OBVIOUS
  <2>1. LinksAsIntended
    BY DEF Init, LinksAsIntended, CategoriesOf
  <2>2. ASSUME NEW b \in Budgets, NEW l \in links[b], NEW l2 \in links[b], l.category = l2.category
        PROVE  l = l2
    <3>1. links[b] \subseteq [category : Existing(Seeded.categories), by : {Null}]
      BY <2>2, SeededAssumption DEF Init
    <3> QED BY <2>2, <3>1
  <2>3. LockHeld
    BY DEF Init, LockHeld, Committing, New
  <2> QED BY <2>1, <2>2, <2>3 DEF LinksInv, OneLinkEach
<1>2. LinksInv /\ Typed /\ [Next]_vars => LinksInv'
  BY LockStep, LinksStep DEF LinksInv
<1> QED BY <1>1, <1>2, AlwaysTyped, PTL DEF Spec

\* A budget has the categories it was last saved with, however saves overlap.
THEOREM BudgetsAsSaved == Spec => []LinksAsIntended
<1>1. LinksInv => LinksAsIntended
  BY DEF LinksInv
<1> QED BY <1>1, AlwaysLinked, PTL

\* With one link for each category, an expense is joined with one link at most.
LEMMA JoinCountsOnce ==
  ASSUME Typed, OneLinkEach, NEW b \in Budgets
  PROVE  calculate_spent_for_budgets[b] = calculate_spent_for_budget(CategoriesOf(b))
<1> DEFINE joined == {p \in links[b] \X Expenses : transactions[p[2]].category = p[1].category}
           counted == {t \in Expenses : transactions[t].category \in CategoriesOf(b)}
           pair == [t \in counted |->
                      <<CHOOSE l \in links[b] : l.category = transactions[t].category, t>>]
<1>1. CASE CategoriesOf(b) = {}
  <2>1. {t \in Expenses : CategoriesOf(b) = {} \/ transactions[t].category \in CategoriesOf(b)} = Expenses
    BY <1>1
  <2> QED BY <1>1, <2>1 DEF calculate_spent_for_budgets, calculate_spent_for_budget
<1>2. CASE CategoriesOf(b) # {}
  <2>1. \A t \in counted : /\ pair[t] \in joined /\ pair[t][2] = t
    <3> SUFFICES ASSUME NEW t \in counted PROVE pair[t] \in joined /\ pair[t][2] = t
      OBVIOUS
    <3>1. \E l \in links[b] : l.category = transactions[t].category
      BY DEF CategoriesOf
    <3> QED BY <3>1
  <2>2. \A p \in joined : p[2] \in counted /\ pair[p[2]] = p
    <3> SUFFICES ASSUME NEW p \in joined PROVE p[2] \in counted /\ pair[p[2]] = p
      OBVIOUS
    <3>1. /\ p[1] \in links[b] /\ p[2] \in Expenses /\ p = <<p[1], p[2]>>
          /\ transactions[p[2]].category = p[1].category
      OBVIOUS
    <3>2. p[2] \in counted
      BY <3>1 DEF CategoriesOf
    <3>3. (CHOOSE l \in links[b] : l.category = transactions[p[2]].category) = p[1]
      BY <3>1 DEF OneLinkEach
    <3> QED BY <3>1, <3>2, <3>3
  <2>3. pair \in Bijection(counted, joined)
    <3> HIDE DEF joined, counted
    <3>1. pair \in [counted -> joined]
      BY <2>1
    <3>2. \A t, t2 \in counted : pair[t] = pair[t2] => t = t2
      BY <2>1
    <3>3. \A p \in joined : \E t \in counted : pair[t] = p
      BY <2>2
    <3> HIDE DEF pair
    <3> QED BY <3>1, <3>2, <3>3, Fun_IsBij
  <2>4. IsFiniteSet(counted)
    BY SeededAssumption, FS_Subset DEF Expenses
  <2>5. Cardinality(joined) = Cardinality(counted)
    <3> HIDE DEF joined, counted, pair
    <3> QED BY <2>3, <2>4, FS_Bijection DEF ExistsBijection
  <2>6. {t \in Expenses : CategoriesOf(b) = {} \/ transactions[t].category \in CategoriesOf(b)} = counted
    BY <1>2
  <2> QED BY <1>2, <2>5, <2>6 DEF calculate_spent_for_budgets, calculate_spent_for_budget
<1> QED BY <1>1, <1>2

\* The list of budgets and a single budget never disagree on what was spent.
THEOREM SpentAlwaysAgrees == Spec => []SpentAgrees
<1>1. Typed /\ LinksInv => SpentAgrees
  BY JoinCountsOnce DEF SpentAgrees, LinksInv
<1> QED BY <1>1, AlwaysTyped, AlwaysLinked, PTL
=============================================================================
