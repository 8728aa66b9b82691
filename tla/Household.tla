----------------------------- MODULE Household -----------------------------
(***************************************************************************)
(* One family: its members (Members), its tree of categories, which its    *)
(* transactions and budgets refer to, and what the pages make of them.     *)
(*                                                                         *)
(* The server lets a category have any parent and any kind, and a          *)
(* transaction any category: what keeps the tree a tree is what the        *)
(* dialogs offer, from the list the browser has in its cache, or had when  *)
(* the dialog was opened: the category a dialog is for, and the choices    *)
(* made in it, stay as they are when the list is fetched again under it.   *)
(* Names, icons, amounts, dates and currencies are left out; a transaction *)
(* counts for one.                                                         *)
(***************************************************************************)
EXTENDS Members

CONSTANTS
  Categories,    \* ids of categories
  Transactions,  \* ids of transactions
  Budgets,       \* ids of budgets, each used once
  Seeded         \* the family at the start: members, categories, transactions, budgets, links

Kinds == {"expense", "income"}
CategoryRows == [parent : Categories \cup {Null}, kind : Kinds]
CategoryTables == [Categories -> CategoryRows \cup {Null, Gone}]
Posted == [category : Categories, kind : Kinds]

Existing(list) == {k \in Categories : Exists(list[k])}

\* No set of categories has the parent of each of its members.
NoLoop(list) ==
  \A S \in SUBSET Existing(list) :
    S # {} => \E k \in S : list[k].parent \notin S

ASSUME SeededAssumption ==
  /\ IsFiniteSet(Categories) /\ IsFiniteSet(Transactions)
  /\ Null \notin Categories \cup Requests \cup Kinds \cup Posted
  /\ Seeded.members \in [Rows -> Memberships \cup {Null}]
  /\ \E m \in Rows : /\ Exists(Seeded.members[m])
                     /\ Seeded.members[m].role = "owner"
                     /\ Seeded.members[m].status = "active"
  /\ Seeded.categories \in [Categories -> CategoryRows \cup {Null}]
  /\ \A row \in CategoryRows : Exists(row)
  /\ NoLoop(Seeded.categories)
  /\ \A k \in Existing(Seeded.categories) :
       Seeded.categories[k].parent \in Existing(Seeded.categories) \cup {Null}
  /\ Seeded.transactions \in [Transactions -> [category : Existing(Seeded.categories), kind : Kinds]
                                              \cup {Null}]
  /\ Seeded.budgets \subseteq Budgets
  /\ Seeded.links \in [Budgets -> SUBSET [category : Existing(Seeded.categories), by : {Null}]]
  /\ \A b \in Budgets \ Seeded.budgets : Seeded.links[b] = {}

VARIABLES
  categories,   \* the category table, with Null and Gone as in members
  transactions, \* the transaction table: a row, or Null
  budgets,      \* what has become of each budget
  links,        \* the rows that link each budget to categories
  listed,       \* the lists of categories each user's browser has had: a dialog stays open
  current,      \* history: requests chosen from the list of categories there still is
  strayed,      \* history: whether a parent was set from an outdated list
  intended      \* history: the categories a budget was last saved with, where they exist

treeVars == <<categories, current, strayed>>
budgetVars == <<budgets, links, intended>>
vars == <<members, shares, requests, orphaning, strays,
          categories, transactions, budgets, links, listed, current, strayed, intended>>

-----------------------------------------------------------------------------
(* The pages, from a list of categories *)

\* Mutant: the selector offers every category of the kind.
everyCategoryOfKind(list, given, kind) == {k \in given : list[k].kind = kind}

\* CategorySelect: of the categories it is given, those of one kind that are at
\* the top, and their children.
CategorySelect(list, given, kind) ==
  LET filtered == {k \in given : list[k].kind = kind}
      parents == {k \in filtered : list[k].parent = Null}
  IN parents \cup {k \in filtered : list[k].parent \in parents}

\* buildCategoryTree: a root has no parent, or one that is not in the list.
RootCategories(list) ==
  {k \in Existing(list) : list[k].parent = Null \/ list[k].parent \notin Existing(list)}

\* Mutant: a tree of two levels.
ShownOnTwoLevels(list) ==
  RootCategories(list) \cup {k \in Existing(list) : list[k].parent \in RootCategories(list)}

\* CategoryTree draws the roots, and below each item its children: the smallest
\* set that has the roots and the children of its members.
CategoryTree(list) ==
  LET roots == RootCategories(list)
      others == Existing(list) \ roots
      complete == {below \in SUBSET others :
                     \A child \in others \ below : list[child].parent \notin roots \cup below}
  IN roots \cup {k \in others : \A below \in complete : k \in below}

\* AddCategoryModal, opened from a node of the tree with that parent and kind,
\* or from nowhere; then the user may choose another kind and another parent.
AddCategoryModal(list) ==
  {[parent |-> p, kind |-> list[p].kind] : p \in CategoryTree(list)} \cup
  UNION {{[parent |-> p, kind |-> kind] : p \in {Null} \cup CategorySelect(list, Existing(list), kind)}
         : kind \in Kinds}

\* Not the category itself, none of its children, and only its kind.
availableParentCategories(list, k, kind) ==
  {p \in Existing(list) : p # k /\ list[p].parent # k /\ list[p].kind = kind}

\* EditCategoryModal, opened on row of k: what it may save with a choice from
\* list; another kind resets the parent.
EditCategoryModal(list, k, row) ==
  {edit \in CategoryRows :
     /\ edit # row
     /\ \/ edit.parent = Null
        \/ edit.parent \in
             CategorySelect(list, availableParentCategories(list, k, edit.kind), edit.kind)}

\* DeleteCategoryConfirm, opened on row of k: with or without another category of
\* the kind, as the count of transactions, which may not be there yet, tells it to
\* ask for one.
DeleteCategoryConfirm(list, k, row) ==
  {Null} \cup CategorySelect(list, {p \in Existing(list) : p # k /\ list[p].kind = row.kind}, row.kind)

\* TransactionForm: the selector follows the type, but the category stays when
\* the type is changed after it.
TransactionForm(list) ==
  [category : UNION {CategorySelect(list, Existing(list), kind) : kind \in Kinds}, kind : Kinds]

\* resolveCategory: up from parent to parent, but never back to a category that
\* has been passed.
resolveCategory(list, k) ==
  LET parent(c) == IF c \in Existing(list) THEN list[c].parent ELSE Null
      walk[n \in 0..Cardinality(Categories)] ==
        IF n = 0 THEN [rootId |-> k, visited |-> {}]
        ELSE LET w == walk[n-1]
             IN IF parent(w.rootId) \in {Null} \cup w.visited THEN w
                ELSE [rootId |-> parent(w.rootId), visited |-> w.visited \cup {w.rootId}]
  IN walk[Cardinality(Categories)].rootId

-----------------------------------------------------------------------------
(* What a user may ask, once get_active_context has found row m *)

\* An edit is current if the parent is chosen from the list there is now,
\* whatever row the dialog was opened on.
Noted(r, list) == current' = IF list = categories THEN current \cup {r} ELSE current

\* The row is the one the dialog was opened on, and the choice is made from that
\* list or from another: what is sent is what differs from the row.
CategoryRequest(r, u) ==
  \E m \in ActiveRowsOf(u), list \in listed[u] :
    /\ require_owner(m)
    /\ \/ \E new \in AddCategoryModal(list) :
            get_active_context(r, u, m, [op |-> "create_category", new |-> new])
       \/ \E opened \in listed[u] : \E k \in CategoryTree(opened) :
            \/ \E edit \in EditCategoryModal(list, k, opened[k]) :
                 get_active_context(r, u, m,
                   [op |-> "update_category", category |-> k, edit |-> edit,
                    kindSent |-> edit.kind # opened[k].kind,
                    parentSent |-> edit.parent # opened[k].parent])
            \/ \E target \in DeleteCategoryConfirm(list, k, opened[k]) :
                 get_active_context(r, u, m,
                   [op |-> "delete_category", category |-> k, reassign_to |-> target])
    /\ Noted(r, list)

\* BudgetForm sends the whole set, whatever of it the user has touched.
BudgetForm(lists) == SUBSET UNION {Existing(list) : list \in lists}

BudgetRequest(r, u) ==
  \E m \in ActiveRowsOf(u) :
    /\ require_owner(m)
    /\ \/ \E chosen \in BudgetForm(listed[u]) :
            get_active_context(r, u, m, [op |-> "create_budget", category_ids |-> chosen])
       \/ \E b \in Budgets : budgets[b] # "unborn" /\
            \/ \E chosen \in BudgetForm(listed[u]) :
                 get_active_context(r, u, m,
                   [op |-> "update_budget", budget |-> b, category_ids |-> chosen])
            \/ get_active_context(r, u, m, [op |-> "delete_budget", budget |-> b])

TransactionRequest(r, u) ==
  \E m \in ActiveRowsOf(u), t \in Transactions, list \in listed[u] : \E data \in TransactionForm(list) :
    /\ require_writer(m)
    /\ get_active_context(r, u, m,
         [op |-> IF transactions[t] = Null THEN "create_transaction" ELSE "update_transaction",
          transaction |-> t, data |-> data])

\* useCategories fetches the list again; what is open keeps what it has of the
\* lists before.
useCategories(u) ==
  /\ categories \notin listed[u]
  /\ listed' = [listed EXCEPT ![u] = @ \cup {categories}]

-----------------------------------------------------------------------------
(* Categories *)

\* Mutant: without the foreign key.
anyParent(p) == TRUE

\* The foreign key of parent_id.
ParentExists(p) == p = Null \/ p \in Existing(categories)

\* After a change of the table no list is the one there is.
Outdated == current' = IF categories' = categories THEN current ELSE {}

create_category(r) ==
  /\ Handling(r, "create_category")
  /\ IF ParentExists(requests[r].asked.new.parent)
     THEN \E k \in Categories :
            /\ categories[k] = Null
            /\ categories' = [categories EXCEPT ![k] = requests[r].asked.new]
     ELSE UNCHANGED categories
  /\ Outdated
  /\ Answer(r)
  /\ UNCHANGED <<transactions, budgetVars, strayed>>

apply_category_update(r) ==
  /\ Handling(r, "update_category")
  /\ LET k == requests[r].asked.category
     IN IF k \in Existing(categories) THEN Proceed(r, categories[k]) ELSE Answer(r)
  /\ UNCHANGED <<treeVars, transactions, budgetVars>>

\* The ORM writes what differs from the row it loaded.  The commit fails if the
\* row, or the new parent, is gone.
update_category(r) ==
  /\ Committing(r, "update_category")
  /\ LET asked == requests[r].asked
         read == requests[r].read
         k == asked.category
         kindWritten == asked.kindSent /\ asked.edit.kind # read.kind
         parentWritten == asked.parentSent /\ asked.edit.parent # read.parent
     IN IF /\ k \in Existing(categories)
           /\ parentWritten => ParentExists(asked.edit.parent)
        THEN /\ categories' = [categories EXCEPT
                  ![k] = [kind |-> IF kindWritten THEN asked.edit.kind ELSE @.kind,
                          parent |-> IF parentWritten THEN asked.edit.parent ELSE @.parent]]
             /\ strayed' = (strayed \/ (parentWritten /\ r \notin current))
        ELSE UNCHANGED <<categories, strayed>>
  /\ Outdated
  /\ Answer(r)
  /\ UNCHANGED <<transactions, budgetVars>>

Using(k) == {t \in Transactions : transactions[t] # Null /\ transactions[t].category = k}
Children(k) == {c \in Existing(categories) : categories[c].parent = k}

\* reassign_or_block_transactions: no target is needed, or looked at, for a
\* category without transactions.
Reassignable(k, target) ==
  \/ Using(k) = {}
  \/ target \in Existing(categories) /\ categories[target].kind = categories[k].kind

\* assert_category_has_no_children, then the transactions to reassign.
delete_category_checks(r) ==
  /\ Handling(r, "delete_category")
  /\ LET k == requests[r].asked.category
     IN IF /\ k \in Existing(categories)
           /\ Children(k) = {}
           /\ Reassignable(k, requests[r].asked.reassign_to)
        THEN Proceed(r, Using(k)) ELSE Answer(r)
  /\ UNCHANGED <<treeVars, transactions, budgetVars>>

\* The foreign keys keep a category that has a transaction or a child by now,
\* and a target that is gone from being written; links go with the category.
delete_category(r) ==
  /\ Committing(r, "delete_category")
  /\ LET k == requests[r].asked.category
         target == requests[r].asked.reassign_to
         reassigned == requests[r].read
     IN IF /\ reassigned # {} => target \in Existing(categories)
           /\ Using(k) \subseteq reassigned
           /\ Children(k) = {}
        THEN /\ categories' = [categories EXCEPT ![k] = Gone]
             /\ transactions' = [t \in Transactions |->
                  IF t \in reassigned THEN [transactions[t] EXCEPT !.category = target]
                  ELSE transactions[t]]
             /\ links' = [b \in Budgets |-> {l \in links[b] : l.category # k}]
             /\ intended' = [b \in Budgets |-> intended[b] \ {k}]
        ELSE UNCHANGED <<categories, transactions, links, intended>>
  /\ Outdated
  /\ Answer(r)
  /\ UNCHANGED <<strayed, budgets>>

-----------------------------------------------------------------------------
(* Transactions *)

\* Any category that exists will do, of whatever kind.
create_transaction(r) ==
  /\ Handling(r, "create_transaction")
  /\ LET t == requests[r].asked.transaction
         data == requests[r].asked.data
     IN IF transactions[t] = Null /\ data.category \in Existing(categories)
        THEN transactions' = [transactions EXCEPT ![t] = data]
        ELSE UNCHANGED transactions
  /\ Answer(r)
  /\ UNCHANGED <<treeVars, budgetVars>>

apply_transaction_update(r) ==
  /\ Handling(r, "update_transaction")
  /\ Proceed(r, transactions[requests[r].asked.transaction])
  /\ UNCHANGED <<treeVars, transactions, budgetVars>>

update_transaction(r) ==
  /\ Committing(r, "update_transaction")
  /\ LET t == requests[r].asked.transaction
         data == requests[r].asked.data
         read == requests[r].read
         written == [category |-> IF data.category = read.category
                                  THEN transactions[t].category ELSE data.category,
                     kind |-> IF data.kind = read.kind THEN transactions[t].kind ELSE data.kind]
     IN IF written.category \in Existing(categories)
        THEN transactions' = [transactions EXCEPT ![t] = written]
        ELSE UNCHANGED transactions
  /\ Answer(r)
  /\ UNCHANGED <<treeVars, budgetVars>>

-----------------------------------------------------------------------------
(* Budgets *)

\* validate_category_ids_belong_to_tenant
Valid(category_ids) == category_ids \subseteq Existing(categories)

create_budget_checks(r) ==
  /\ Handling(r, "create_budget")
  /\ IF Valid(requests[r].asked.category_ids) THEN Proceed(r, Null) ELSE Answer(r)
  /\ UNCHANGED <<treeVars, transactions, budgetVars>>

\* The foreign key: no link to a category that is gone, and then no budget.
create_budget(r) ==
  /\ Committing(r, "create_budget")
  /\ LET chosen == requests[r].asked.category_ids
     IN IF Valid(chosen)
        THEN \E b \in Budgets :
               /\ budgets[b] = "unborn"
               /\ budgets' = [budgets EXCEPT ![b] = "there"]
               /\ links' = [links EXCEPT ![b] = [category : chosen, by : {r}]]
               /\ intended' = [intended EXCEPT ![b] = chosen]
        ELSE UNCHANGED budgetVars
  /\ Answer(r)
  /\ UNCHANGED <<treeVars, transactions>>

\* sync_budget_categories: what its DELETE finds.
LinksToReplace(b) == links[b]

\* Mutant: updated_at is set after the links are replaced.
NeverLocked(b) == FALSE

\* apply_budget_update sets updated_at first, and the session sends that before
\* its next query: from then to its commit it has the budget's row locked.
RowLocked(b) ==
  \E r \in Requests : Committing(r, "update_budget") /\ requests[r].asked.budget = b

\* The categories are checked, and the old links deleted, once it has the lock.
apply_budget_update(r) ==
  /\ Handling(r, "update_budget")
  /\ LET b == requests[r].asked.budget
     IN /\ ~RowLocked(b)
        /\ IF budgets[b] = "there" /\ Valid(requests[r].asked.category_ids)
           THEN Proceed(r, LinksToReplace(b)) ELSE Answer(r)
  /\ UNCHANGED <<treeVars, transactions, budgetVars>>

\* uq_budget_category_budget_category, and the foreign key.
Linkable(chosen, kept) == Valid(chosen) /\ chosen \cap {l.category : l \in kept} = {}

\* Rows that were inserted since the DELETE ran are not deleted by it.
update_budget(r) ==
  /\ Committing(r, "update_budget")
  /\ LET b == requests[r].asked.budget
         chosen == requests[r].asked.category_ids
         kept == links[b] \ requests[r].read
     IN IF Linkable(chosen, kept)
        THEN /\ links' = [links EXCEPT ![b] = kept \cup [category : chosen, by : {r}]]
             /\ intended' = [intended EXCEPT ![b] = chosen]
        ELSE UNCHANGED <<links, intended>>
  /\ Answer(r)
  /\ UNCHANGED <<treeVars, transactions, budgets>>

\* get_budget_or_404
delete_budget_checks(r) ==
  /\ Handling(r, "delete_budget")
  /\ IF budgets[requests[r].asked.budget] = "there" THEN Proceed(r, Null) ELSE Answer(r)
  /\ UNCHANGED <<treeVars, transactions, budgetVars>>

\* The links go with the budget.  Deleting one that is gone is no error.
delete_budget(r) ==
  /\ Committing(r, "delete_budget")
  /\ LET b == requests[r].asked.budget
     IN /\ ~RowLocked(b)
        /\ budgets' = [budgets EXCEPT ![b] = "gone"]
        /\ links' = [links EXCEPT ![b] = {}]
        /\ intended' = [intended EXCEPT ![b] = {}]
  /\ Answer(r)
  /\ UNCHANGED <<treeVars, transactions>>

CategoriesOf(b) == {l.category : l \in links[b]}

Expenses == {t \in Transactions : transactions[t] # Null /\ transactions[t].kind = "expense"}

\* One budget: the expenses in its categories, or all of them if it has none.
calculate_spent_for_budget(category_ids) ==
  Cardinality({t \in Expenses : category_ids = {} \/ transactions[t].category \in category_ids})

\* Mutant: budgets without categories are left out of the join.
JoinedOnly ==
  [b \in Budgets |->
     Cardinality({p \in links[b] \X Expenses : transactions[p[2]].category = p[1].category})]

\* All budgets at once: expenses joined with the links.
calculate_spent_for_budgets ==
  [b \in Budgets |->
     IF CategoriesOf(b) = {} THEN Cardinality(Expenses)
     ELSE Cardinality({p \in links[b] \X Expenses : transactions[p[2]].category = p[1].category})]

-----------------------------------------------------------------------------
Init ==
  /\ members = Seeded.members
  /\ shares = {}
  /\ requests = [r \in Requests |-> New]
  /\ orphaning = {}
  /\ strays = {}
  /\ categories = Seeded.categories
  /\ transactions = Seeded.transactions
  /\ budgets = [b \in Budgets |-> IF b \in Seeded.budgets THEN "there" ELSE "unborn"]
  /\ links = Seeded.links
  /\ listed = [u \in Users |-> {Seeded.categories}]
  /\ current = {}
  /\ strayed = FALSE
  /\ intended = [b \in Budgets |-> {l.category : l \in Seeded.links[b]}]

CategoryStep(r) ==
  \/ create_category(r)
  \/ apply_category_update(r)
  \/ update_category(r)
  \/ delete_category_checks(r)
  \/ delete_category(r)
  \/ create_transaction(r)
  \/ apply_transaction_update(r)
  \/ update_transaction(r)
  \/ create_budget_checks(r)
  \/ create_budget(r)
  \/ apply_budget_update(r)
  \/ update_budget(r)
  \/ delete_budget_checks(r)
  \/ delete_budget(r)

Ask(r, u) ==
  /\ requests[r] = New
  /\ \/ CategoryRequest(r, u)
     \/ /\ \/ MembershipRequest(r, u)
           \/ BudgetRequest(r, u)
           \/ TransactionRequest(r, u)
        /\ UNCHANGED current
  /\ UNCHANGED <<membersVars, categories, transactions, budgetVars, strayed, listed>>

Next ==
  \/ \E r \in Requests :
       \/ \E u \in Users : Ask(r, u)
       \/ MembershipStep(r) /\ UNCHANGED <<treeVars, transactions, budgetVars, listed>>
       \/ CategoryStep(r) /\ UNCHANGED <<membersVars, listed>>
  \/ \E u \in Users :
       useCategories(u) /\ UNCHANGED <<membersVars, requests, treeVars, transactions, budgetVars>>

Spec == Init /\ [][Next]_vars

-----------------------------------------------------------------------------
TypeOK ==
  /\ members \in [Rows -> Memberships \cup {Null, Gone}]
  /\ shares \subseteq Accounts /\ strays \subseteq Accounts
  /\ orphaning \subseteq {"update", "overlap"}
  /\ \A r \in Requests : requests[r].at \in {"new", "handler", "commit", "over"}
  /\ categories \in CategoryTables
  /\ \A k \in Existing(categories) : categories[k].parent \in Existing(categories) \cup {Null}
  /\ transactions \in [Transactions -> [category : Existing(categories), kind : Kinds] \cup {Null}]
  /\ budgets \in [Budgets -> {"unborn", "there", "gone"}]
  /\ links \in [Budgets -> SUBSET [category : Existing(categories), by : Requests \cup {Null}]]
  /\ listed \in [Users -> SUBSET CategoryTables]
  /\ current \subseteq Requests /\ strayed \in BOOLEAN
  /\ intended \in [Budgets -> SUBSET Existing(categories)]

(* A parent chosen from the list as it is never puts a category under      *)
(* itself, however old the row is the dialog was opened on.  The server    *)
(* takes any parent (services/categories.py:129), and the dialog looks no  *)
(* further than one level (EditCategoryModal.tsx:182); it is that the      *)
(* selector offers nothing below the second level that keeps the tree one. *)
(* A choice that is older than the last change of the table, made in       *)
(* another browser or kept in a dialog while the list was fetched again    *)
(* (EditCategoryModal.tsx:66), does make loops.                            *)
CategoriesFormTree == strayed \/ NoLoop(categories)

(* However deep the tree is, every category of a list is shown, and its    *)
(* transactions are counted under a category that is at the top            *)
(* (CategoryTree.tsx:58, useMonthlyReport.ts:60), but for loops.           *)
TreeIsWhole ==
  \A u \in Users : \A list \in listed[u] :
    \/ strayed
    \/ /\ Existing(list) \subseteq CategoryTree(list)
       /\ \A k \in Existing(list) : resolveCategory(list, k) \in RootCategories(list)

(* A budget has the categories it was last saved with, less those that were*)
(* deleted, and none once it is gone, however saves, a deletion and changes*)
(* of the categories overlap.  sync_budget_categories                      *)
(* (services/budgets.py:387) replaces the links in two steps and adds up   *)
(* what two saves chose if they overlap; nothing but the early write of    *)
(* updated_at (services/budgets.py:587) keeps them from it.                *)
LinksAsIntended == \A b \in Budgets : CategoriesOf(b) = intended[b]

(* The list of budgets and a single budget show the same amount spent      *)
(* ("Reproduces the single-budget rule exactly", services/budgets.py:186), *)
(* also after the deletion of the last category a budget had, or the move  *)
(* of a transaction between the categories of one budget.                  *)
SpentAgrees ==
  \A b \in Budgets :
    calculate_spent_for_budgets[b] = calculate_spent_for_budget(CategoriesOf(b))
=============================================================================
