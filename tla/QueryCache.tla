----------------------------- MODULE QueryCache -----------------------------
(***************************************************************************)
(* What the pages show: the queries each page mounts, the cache they share,*)
(* and the mutations that ask for parts of it to be fetched again.         *)
(*                                                                         *)
(* Three things speak of a family and none waits for the others: the URL   *)
(* (/app/:familyId), the keys under which answers are cached, and the      *)
(* access token in localStorage, which alone decides whose rows most       *)
(* endpoints answer with.  FamilyGuard compares the first with the third,  *)
(* through a cached query of its own.                                      *)
(*                                                                         *)
(* Keys do not interact, so a behaviour follows one of them, focus, and    *)
(* the guard's.  The server is a count of the writes it has committed: an  *)
(* answer is known by how many it has seen.  The cache itself is TanStack  *)
(* Query 5 (external), modelled from the options and calls in src/.        *)
(***************************************************************************)
EXTENDS Integers, Sequences, FiniteSets

CONSTANTS
  Families,   \* tenants
  Watched,    \* bound: the keys a behaviour may follow
  Visited(_), \* bound: the pages opened by a behaviour that follows a key
  Joined(_),  \* bound: the families the user starts in, by the key followed
  MaxWrites,  \* bound: writes of a behaviour, by the families the user is in
  Faults,     \* whether answers may be lost
  Null

ASSUME NullAssumption ==
  /\ Null \notin Families \cup {"all", "refused"}
  /\ Null \notin [tok : Families, retries : 0..1, upTo : Nat \cup {Null}]
\* A family is a UUID, and no word that keys are made of.
ASSUME FamiliesAssumption ==
  {"all", "refused", "id", "page", "account", "period", "month",
   "transaction-count"} \cap Families = {}
ASSUME MaxWritesAssumption ==
  \A n \in 0..Cardinality(Families) : MaxWrites[n] \in Nat
ASSUME JoinedAssumption ==
  \A k \in Watched : Joined(k) \in (SUBSET Families) \ {{}}
ASSUME FaultsAssumption == Faults \in BOOLEAN

VARIABLES
  joined,     \* server: the families the user is an active member of
  writes,     \* server: writes committed so far
  token,      \* the tenant_id of the access token in localStorage
  url,        \* <<page, family>>, the family of a page outside /app/:familyId being "all"
  focus,      \* the key this behaviour follows
  entry,      \* the cache: one entry for each of Cached
  observed,   \* the keys of Cached that a mounted component observes
  pending,    \* the mutation under way, or Null
  due         \* history: the last write whose answer reached the page and that
              \* focus has to show

vars == <<joined, writes, token, url, focus, entry, observed, pending, due>>

Scopes == Families \cup {"all"}

-----------------------------------------------------------------------------
(* Query hooks: the key each one caches its answer under *)

useTransactions(f, filters) == <<"transactions", f, filters>>
useTransaction(f) == <<"transactions", "id", f>>
useAccounts(f) == <<"accounts", f>>
useAccount == <<"account", "id">>
useAccountShares == <<"accountShares", "id">>
useCategories(f) == <<"categories", f>>
useCategoryTransactionCount(f) == <<"categories", "id", "transaction-count", f>>
useBudgets(f) == <<"budgets", f, "month">>
useFamilies == <<"families">>
useFamilyById(f) == <<"family", f>>
useListMembers(f) == <<"members", f>>
useImportJobs(f) == <<"import-jobs", f>>
useSyncUserLanguage == <<"currentUser">>

Keys ==
  {useTransactions(f, filters) :
     f \in Scopes, filters \in {"page", "account", "period"}}
    \cup {useAccounts(f) : f \in Scopes}
    \cup {useAccount, useAccountShares, useFamilies, useSyncUserLanguage}
    \cup UNION {{useTransaction(f), useCategories(f),
                 useCategoryTransactionCount(f), useBudgets(f),
                 useFamilyById(f), useListMembers(f), useImportJobs(f)} :
                f \in Families}
ASSUME WatchedAssumption == Watched \subseteq Keys

\* The family a key speaks of: in its second place or, for what is asked for by
\* an id, noted at its end; "all" for what belongs to the user.
FamilyOf(k) ==
  IF \E i \in 2..Len(k) : k[i] \in Families
  THEN CHOOSE f \in Families : \E i \in 2..Len(k) : k[i] = f
  ELSE "all"

\* The family whose rows the server answers with, given the key's family and
\* the token's: lists go by the token even where the URL names a family; a row
\* asked for by id must be of the token's family; accounts go by the parameter.
fetchTransactions(f, tok) == IF f = "all" THEN "all" ELSE tok
fetchTransactionById(f, tok) == IF f = tok THEN f ELSE "refused"
getAccounts(f, tok) == f
getCategories(f, tok) == tok
getCategoryTransactionCount(f, tok) == IF f = tok THEN f ELSE "refused"
getBudgets(f, tok) == tok
getFamilyById(f, tok) == IF f = tok THEN f ELSE "refused"
listMembers(f, tok) == IF f = tok THEN f ELSE "refused"
listImportJobs(f, tok) == tok

Answers(k, tok) ==
  LET f == FamilyOf(k) IN
  CASE k[1] = "transactions" /\ k[2] = "id" -> fetchTransactionById(f, tok)
    [] k[1] = "transactions" /\ k[2] # "id" -> fetchTransactions(f, tok)
    [] k[1] = "categories" /\ k[2] = "id" -> getCategoryTransactionCount(f, tok)
    [] k[1] = "categories" /\ k[2] # "id" -> getCategories(f, tok)
    [] k[1] = "budgets" -> getBudgets(f, tok)
    [] k[1] = "family" -> getFamilyById(f, tok)
    [] k[1] = "members" -> listMembers(f, tok)
    [] k[1] = "import-jobs" -> listImportJobs(f, tok)
    [] OTHER -> getAccounts(f, tok)

-----------------------------------------------------------------------------
(* What each key puts on a page *)

Shows(k) ==
  CASE k[1] = "transactions" -> {"rows", "account names", "category names"}
    [] k[1] = "accounts" -> {"accounts", "account names", "balances", "shares"}
         \cup (IF FamilyOf(k) = "all" THEN {"own accounts"} ELSE {})
    [] k[1] = "account" -> {"account names", "balances"}
    [] k[1] = "accountShares" -> {"shares"}
    [] k[1] = "categories" /\ k[2] # "id" -> {"category names"}
    [] k[1] = "categories" /\ k[2] = "id" -> {"rows"}
    [] k[1] = "budgets" -> {"budgets", "rows", "category names"}
    [] k[1] = "families" -> {"families"}
    [] k[1] = "family" -> {}
    [] k[1] = "members" -> {"members"}
    [] k[1] = "import-jobs" -> {"jobs"}
    [] k[1] = "currentUser" -> {"language"}

-----------------------------------------------------------------------------
(* Mutation hooks: what each writes, which family the server writes it to, *)
(* and the keys the hook asks to be fetched again once the server has      *)
(* answered.  The family f is the one of the URL the hook is given, "all"  *)
(* on the pages outside a family.                                          *)

\* invalidateQueries is given the first parts of the keys it means.
Matches(k, prefixes) ==
  \E p \in prefixes : Len(p) <= Len(k) /\ SubSeq(k, 1, Len(p)) = p

Mutation(name, f, goesBy, written, refreshed) ==
  [name |-> name, family |-> f, goesBy |-> goesBy, writes |-> written,
   refreshes |-> refreshed]

useCreateTransaction(f) ==
  Mutation("createTransaction", f, "token", {"rows", "balances"},
           {<<"transactions">>})
useUpdateTransaction(f) ==
  Mutation("updateTransaction", f, "token", {"rows", "balances"},
           {<<"transactions">>})
useDeleteTransaction(f) ==
  Mutation("deleteTransaction", f, "token", {"rows", "balances"},
           {<<"transactions">>})
useCreateAccount(f) ==
  Mutation("createAccount", f, "user",
           IF f = "all" THEN {"own accounts"} ELSE {"accounts", "own accounts"},
           {<<"accounts", f>>, <<"accounts", "all">>})
useUpdateAccount(f) ==
  Mutation("updateAccount", f, "user", {"account names", "balances"},
           {useAccount, <<"accounts">>})
useDeleteAccount(f) ==
  Mutation(IF f = "all" THEN "deleteAccount" ELSE "removeAccount", f, "user",
           {"accounts", "rows"},
           {<<"accounts", f>>, <<"accounts", "all">>, useAccount, <<"transactions">>})
useCreateAccountShare(f) ==
  Mutation("createAccountShare", f, "user", {"shares"}, {useAccountShares})
useUpdateAccountShare(f) ==
  Mutation("updateAccountShare", f, "user", {"shares"}, {useAccountShares})
useDeleteAccountShare(f) ==
  Mutation("deleteAccountShare", f, "user", {"shares"}, {useAccountShares})
useCreateCategory(f) ==
  Mutation("createCategory", f, "token", {"category names"}, {<<"categories", f>>})
useUpdateCategory(f) ==
  Mutation("updateCategory", f, "token", {"category names"}, {<<"categories">>})
\* Mutant: the rows keep showing the category that is gone.
DeleteCategoryAlone(f) ==
  Mutation("deleteCategory", f, "token", {"category names", "rows"},
           {<<"categories", f>>, <<"categories", "id">>})

useDeleteCategory(f) ==
  Mutation("deleteCategory", f, "token", {"category names", "rows"},
           {<<"categories", f>>, <<"categories", "id">>, <<"transactions">>})

useCreateBudget(f) ==
  Mutation("createBudget", f, "token", {"budgets"}, {<<"budgets", f>>})
useUpdateBudget(f) ==
  Mutation("updateBudget", f, "token", {"budgets"}, {<<"budgets", f>>})
useDeleteBudget(f) ==
  Mutation("deleteBudget", f, "token", {"budgets"}, {<<"budgets", f>>})
useCreateFamily(f) ==
  Mutation("createFamily", f, "user", {"families"}, {useFamilies})
useDeleteFamily(f) ==
  Mutation("deleteFamily", f, "path", {"families"},
           {useFamilies, <<"members", f>>, <<"categories", f>>,
            <<"transactions", f>>, <<"accounts", f>>})
useInviteMember(f) ==
  Mutation("inviteMember", f, "path", {"members"}, {<<"members", f>>})
useRemoveMember(f) ==
  Mutation("removeMember", f, "path", {"members", "shares"}, {<<"members", f>>})
useLeaveFamily(f) ==
  Mutation("leaveFamily", f, "path", {"families", "members", "shares"},
           {<<"members", f>>, useFamilies})
\* Mutant: the guard's answers survive the switch.
SwitchFamilyAlone(f) == Mutation("switchFamily", f, "user", {}, {useFamilies})

useSwitchFamily(f) ==
  Mutation("switchFamily", f, "user", {}, {useFamilies, <<"family">>})

\* updateLanguage asks for nothing: it puts the answer in the cache (Settle).
useLanguage(f) == Mutation("updateLanguage", f, "user", {"language"}, {})
\* ImportStep calls the API without a hook: its answer refreshes nothing.
useExecuteImport(f) ==
  Mutation("executeImport", f, "token", {"jobs", "rows", "balances"}, {})

\* The gaps: <<mutation, what a key fetches>> where the code writes what the key
\* shows and yet does not ask for it again.  OwnWritesShown is about the rest.
Fetches(k) == IF k[1] = "categories" /\ k[2] = "id" THEN "count" ELSE k[1]
Unlisted ==
  {"createTransaction", "updateTransaction", "deleteTransaction"}
      \X {"accounts", "account", "count", "budgets"}
    \cup {"createAccountShare", "updateAccountShare", "deleteAccountShare"}
      \X {"accounts"}
    \cup {"executeImport"}
      \X {"transactions", "accounts", "account", "count", "budgets", "import-jobs"}
    \cup {"createCategory", "updateCategory"} \X {"transactions", "budgets"}
    \cup {"deleteAccount", "removeAccount"} \X {"count", "budgets"}
    \cup {"removeMember", "leaveFamily"} \X {"accounts", "accountShares"}
    \cup {<<"updateAccount", "transactions">>, <<"deleteAccount", "accounts">>,
          <<"deleteCategory", "budgets">>, <<"deleteCategory", "count">>}

-----------------------------------------------------------------------------
(* Pages and dialogs: the queries they mount at once, those of a dialog or *)
(* of a part shown when its data is there, and the mutations they offer.   *)
(* A dialog adds its own to what the page may mount.                       *)

Part(mounted, maybe, offered) ==
  [mounts |-> mounted, may |-> maybe, offers |-> offered]
With(page, dialogs) ==
  [mounts |-> page.mounts,
   may |-> page.may \cup UNION {d.mounts \cup d.may : d \in dialogs},
   offers |-> page.offers \cup UNION {d.offers : d \in dialogs}]
Both(a, b) ==
  [mounts |-> a.mounts \cup b.mounts, may |-> a.may \cup b.may,
   offers |-> a.offers \cup b.offers]

AddAccountModal(f) == Part({}, {}, {useCreateAccount(f)})
AddCategoryModal(f) == Part({}, {}, {useCreateCategory(f)})
TransactionForm(f) ==
  With(Part({useAccounts(f), useCategories(f)}, {}, {}),
       {AddAccountModal(f), AddCategoryModal(f)})
AddTransactionModal(f) ==
  Both(TransactionForm(f), Part({}, {}, {useCreateTransaction(f)}))
BulkActions(f) == Part({}, {}, {useDeleteTransaction(f)})
TransactionsPage(f) ==
  With(Part({useTransactions(f, "page")}, {}, {}),
       {BulkActions(f), AddTransactionModal(f)})
TransactionDetailPage(f) ==
  With(Part({useTransaction(f)}, {},
            {useUpdateTransaction(f), useDeleteTransaction(f)}),
       {TransactionForm(f)})

AccountShareList == Part({}, {useAccountShares}, {})
ShareAccountDialog(f) ==
  Part({useFamilies, useAccountShares}, {}, {useCreateAccountShare(f)})
EditShareDialog(f) == Part({}, {}, {useUpdateAccountShare(f)})
AccountsPage(f) ==
  With(Part({useAccounts(f)}, {}, {}), {AddAccountModal(f)})
AccountDetail(f) ==
  With(Part({useAccount, useTransactions(f, "account")}, {},
            {useDeleteAccount(f), useDeleteAccountShare(f)}),
       {AccountShareList, ShareAccountDialog(f), EditShareDialog(f)})
FamilyAccountDetailPage(f) == AccountDetail(f)
EditAccountPage(f) == Part({useAccount}, {}, {useUpdateAccount(f)})
AllAccountsPage ==
  With(Part({useAccounts("all")}, {}, {}), {AddAccountModal("all")})
GlobalAccountDetailPage == AccountDetail("all")

useDashboardSummary(f) ==
  Part({useTransactions(f, "period"), useAccounts(f), useCategories(f)}, {}, {})
DashboardPage(f) == useDashboardSummary(f)
useMonthlyReport(f) ==
  Part({useTransactions(f, "period"), useCategories(f)}, {}, {})
BudgetProgressChart(f) == Part({useBudgets(f)}, {}, {})
ReportsPage(f) == With(useMonthlyReport(f), {BudgetProgressChart(f)})
BudgetForm(f) ==
  Part({useCategories(f)}, {}, {useCreateBudget(f), useUpdateBudget(f)})
DeleteBudgetConfirm(f) == Part({}, {}, {useDeleteBudget(f)})
BudgetsPage(f) ==
  With(Part({useBudgets(f)}, {}, {}), {BudgetForm(f), DeleteBudgetConfirm(f)})

ImportCsvPage(f) ==
  Part({}, {useAccounts(f), useCategories(f)},
       {useCreateCategory(f), useExecuteImport(f)})
ImportHistoryPage(f) == Part({useImportJobs(f)}, {}, {})

EditCategoryModal(f) == Part({}, {}, {useUpdateCategory(f)})
DeleteCategoryConfirm(f) ==
  Part({useCategoryTransactionCount(f)}, {}, {useDeleteCategory(f)})
MembersList(f) == Part({}, {}, {useRemoveMember(f)})
InviteMemberModal(f) == Part({}, {}, {useInviteMember(f)})
FamilySettings(f) == Part({}, {}, {useLeaveFamily(f), useDeleteFamily(f)})
SettingsPage(f) ==
  With(Part({useFamilyById(f), useCategories(f), useListMembers(f)}, {}, {}),
       {AddCategoryModal(f), EditCategoryModal(f), DeleteCategoryConfirm(f),
        MembersList(f), InviteMemberModal(f), FamilySettings(f)})

FamilyList == Part({}, {}, {useSwitchFamily(f) : f \in Families})
CreateFamilyModal == Part({}, {}, {useCreateFamily(f) : f \in Families})
FamiliesPage ==
  With(Part({useFamilies}, {}, {}), {FamilyList, CreateFamilyModal})

\* The frame of every page but FamiliesPage, and what /app/:familyId adds to it:
\* FamilyProvider hands its switch to the menu in TopNav.
FamilySwitcherMini == Part({}, {}, {useSwitchFamily(g) : g \in Families})
TopNav(f) ==
  With(Part({}, {}, {useLanguage(f)}),
       IF f = "all" THEN {} ELSE {FamilySwitcherMini})
AppShell(f) == Both(Part({useSyncUserLanguage}, {}, {}), TopNav(f))
FamilyProvider(f) == Part({useFamilies, useFamilyById(f)}, {}, {})

FamilyPages ==
  {"dashboard", "transactions", "transaction", "accounts", "account",
   "edit account", "budgets", "reports", "import-csv", "imports", "settings"}
GlobalPages == {"families", "all accounts", "any account"}

ASSUME VisitedAssumption ==
  \A k \in Watched : Visited(k) \subseteq FamilyPages \cup GlobalPages

Routed(page, f) ==
  CASE page = "dashboard" -> DashboardPage(f)
    [] page = "transactions" -> TransactionsPage(f)
    [] page = "transaction" -> TransactionDetailPage(f)
    [] page = "accounts" -> AccountsPage(f)
    [] page = "account" -> FamilyAccountDetailPage(f)
    [] page = "edit account" -> EditAccountPage(f)
    [] page = "budgets" -> BudgetsPage(f)
    [] page = "reports" -> ReportsPage(f)
    [] page = "import-csv" -> ImportCsvPage(f)
    [] page = "imports" -> ImportHistoryPage(f)
    [] page = "settings" -> SettingsPage(f)
    [] page = "families" -> FamiliesPage
    [] page = "all accounts" -> Both(AllAccountsPage, AppShell("all"))
    [] page = "any account" -> Both(GlobalAccountDetailPage, AppShell("all"))

AppRouter ==
  [at \in (FamilyPages \X Families) \cup (GlobalPages \X {"all"}) |->
     Routed(at[1], at[2])]

-----------------------------------------------------------------------------
(* The cache (TanStack Query) *)

NoEntry == [data |-> Null, stale |-> FALSE, failed |-> FALSE, fetch |-> Null,
            late |-> FALSE]
Cached == {focus} \cup {useFamilyById(f) : f \in Families}

\* A request carries the token that is in localStorage when it is sent.
Ask(tok, retries) == [tok |-> tok, retries |-> retries, upTo |-> Null]
Fetching(e, tok) == [e EXCEPT !.fetch = Ask(tok, 1), !.late = FALSE]
\* A mounting observer fetches what is missing or stale and not on its way.
WantsFetch(e) == e.fetch = Null /\ (e.data = Null \/ e.stale)

\* Mutant: what is observed is marked stale and waits for its next mount.
InvalidatedOnly(k, tok) ==
  [entry[k] EXCEPT !.stale = entry[k].data # Null, !.late = entry[k].fetch # Null]

\* Mutant: what holds nothing yet is marked stale as well.
InvalidatedUnasked(k, tok) ==
  [entry[k] EXCEPT !.stale = TRUE, !.late = entry[k].fetch # Null]

\* invalidateQueries: everything matched is stale; what is observed and has data
\* is fetched anew, a request under way being abandoned.  A first load, or one
\* nobody observes any more, goes on, and its answer will count as fresh: late.
Invalidated(k, tok) ==
  LET e == entry[k]
      marked == [e EXCEPT !.stale = e.data # Null, !.late = e.fetch # Null]
  IN
  IF k \in observed /\ (e.data # Null \/ e.fetch = Null)
  THEN Fetching(marked, tok) ELSE marked

-----------------------------------------------------------------------------
(* The page *)

\* FamilyGuard lets its children through on any cached answer that has not been
\* followed by an error.
FamilyGuard(f) ==
  LET e == entry[useFamilyById(f)] IN e.data # Null /\ ~e.failed
Guarding(f) == Part({useFamilyById(f), useFamilies}, {},
                    {useSwitchFamily(g) : g \in Families})

Framed ==
  [at \in DOMAIN AppRouter |->
     LET f == at[2] IN
     IF at[1] \in GlobalPages THEN AppRouter[at]
     ELSE Both(Both(Guarding(f), FamilyProvider(f)), Both(AppShell(f), AppRouter[at]))]

OnScreen ==
  IF url[1] \in GlobalPages \/ FamilyGuard(url[2]) THEN Framed[url]
  ELSE Guarding(url[2])

Must == OnScreen.mounts \cap Cached
May == (OnScreen.mounts \cup OnScreen.may) \cap Cached
Rendered == Must \subseteq observed /\ observed \subseteq May

Observe(keys) ==
  /\ observed' = keys
  /\ entry' = [k \in Cached |->
                 IF k \in observed' \ observed /\ WantsFetch(entry[k])
                 THEN Fetching(entry[k], token) ELSE entry[k]]

Render ==
  /\ ~Rendered
  /\ Observe((observed \cap May) \cup Must)
  /\ UNCHANGED <<joined, writes, token, url, focus, pending, due>>

OpenDialog ==
  /\ Rendered
  /\ \E k \in May \ observed : Observe(observed \cup {k})
  /\ UNCHANGED <<joined, writes, token, url, focus, pending, due>>

CloseDialog ==
  /\ Rendered
  /\ \E k \in observed \ Must : Observe(observed \ {k})
  /\ UNCHANGED <<joined, writes, token, url, focus, pending, due>>

\* Links, and the browser's Back and Forward, between the pages of the user's
\* families and of the one just left; from "any account" a link to a transaction
\* leads to any of them.
Goto(page, f) ==
  url' = <<page, IF page \in GlobalPages THEN "all" ELSE f>>

Visit ==
  /\ Rendered
  /\ \E page \in Visited(focus), f \in joined \cup {token} : Goto(page, f)
  /\ url' # url
  /\ UNCHANGED <<joined, writes, token, focus, entry, observed, pending, due>>

\* The cache, and every callback, dies with the page.
Reload ==
  /\ entry' = [k \in Cached |-> NoEntry]
  /\ observed' = {}
  /\ pending' = Null
  /\ UNCHANGED <<joined, writes, token, url, focus, due>>

\* staleTime runs out: 30 seconds, 5 minutes for families.
Expire(k) ==
  /\ entry[k].data # Null
  /\ ~entry[k].stale
  /\ entry' = [entry EXCEPT ![k].stale = TRUE]
  /\ UNCHANGED <<joined, writes, token, url, focus, observed, pending, due>>

\* gcTime runs out: nobody has observed the answer for 5 minutes.
Collect(k) ==
  /\ k \notin observed
  /\ entry[k].data # Null
  /\ entry[k].fetch = Null
  /\ entry' = [entry EXCEPT ![k] = NoEntry]
  /\ UNCHANGED <<joined, writes, token, url, focus, observed, pending, due>>

-----------------------------------------------------------------------------
(* Requests *)

\* The server looks at the rows; how many writes it has seen matters for focus.
Serve ==
  /\ entry[focus].fetch # Null
  /\ entry[focus].fetch.upTo = Null
  /\ entry' = [entry EXCEPT ![focus].fetch.upTo = writes]
  /\ UNCHANGED <<joined, writes, token, url, focus, observed, pending, due>>

\* retry: 1 asks once more, with the token of that moment.
Fails(k) ==
  entry' = [entry EXCEPT ![k] =
    IF @.fetch.retries > 0 THEN [@ EXCEPT !.fetch = Ask(token, 0)]
    ELSE [@ EXCEPT !.fetch = Null, !.failed = TRUE, !.late = FALSE]]

Arrive(k) ==
  LET e == entry[k]
      of == Answers(k, e.fetch.tok)
      refused == of = "refused" \/ (FamilyOf(k) # "all" /\ e.fetch.tok \notin joined)
  IN
  /\ e.fetch # Null
  /\ k = focus => e.fetch.upTo # Null
  /\ IF refused THEN Fails(k)
     ELSE entry' = [entry EXCEPT ![k] =
            [e EXCEPT !.data = [of |-> of, upTo |-> e.fetch.upTo],
                      !.stale = FALSE, !.failed = FALSE, !.fetch = Null]]
  /\ UNCHANGED <<joined, writes, token, url, focus, observed, pending, due>>

LoseAnswer(k) ==
  /\ Faults
  /\ entry[k].fetch # Null
  /\ Fails(k)
  /\ UNCHANGED <<joined, writes, token, url, focus, observed, pending, due>>

-----------------------------------------------------------------------------
(* Mutations *)

Sent(h) == [hook |-> h, tok |-> token, at |-> Null, done |-> "sent"]

\* The others change nothing that is followed.
Matters(h) == \/ h.writes \cap Shows(focus) # {}
              \/ \E k \in Cached : Matches(k, h.refreshes)
              \/ "families" \in h.writes
              \/ h.name = "switchFamily"

Mutate ==
  /\ Rendered
  /\ pending = Null
  /\ \E h \in OnScreen.offers :
       /\ Matters(h)
       /\ h.writes # {} => writes < MaxWrites[Cardinality(joined)]
       /\ pending' = Sent(h)
  /\ UNCHANGED <<joined, writes, token, url, focus, entry, observed, due>>

Permitted(h, tok) ==
  CASE h.name = "switchFamily" -> h.family \in joined
    [] h.name = "createFamily" -> h.family \notin joined
    [] h.goesBy = "token" -> tok \in joined
    [] h.goesBy = "path" -> h.family = tok /\ tok \in joined
    [] h.goesBy = "user" -> TRUE

Apply ==
  LET h == pending.hook IN
  /\ pending # Null
  /\ pending.done = "sent"
  /\ Permitted(h, pending.tok)
  /\ writes' = IF h.writes = {} THEN writes ELSE writes + 1
  /\ pending' = [pending EXCEPT !.at = writes', !.done = "applied"]
  /\ joined' = CASE h.name = "createFamily" -> joined \cup {h.family}
                 [] h.name \in {"leaveFamily", "deleteFamily"} -> joined \ {h.family}
                 [] OTHER -> joined
  /\ UNCHANGED <<token, url, focus, entry, observed, due>>

\* Refused, or the answer lost: no callback of the hook runs.
GiveUp ==
  /\ pending # Null
  /\ Faults \/ (pending.done = "sent" /\ ~Permitted(pending.hook, pending.tok))
  /\ pending' = Null
  /\ UNCHANGED <<joined, writes, token, url, focus, entry, observed, due>>

\* The write of h, sent with token tok, is one that focus shows and the hook is
\* to have refreshed; a page whose token is of another family writes there.
Told(h, tok) ==
  /\ h.writes \cap Shows(focus) # {}
  /\ <<h.name, Fetches(focus)>> \notin Unlisted
  /\ FamilyOf(focus) = "all" \/ h.family \in {"all", FamilyOf(focus)}
  /\ h.goesBy = "token" => h.family = tok

\* useLanguage puts the answer in the cache; a request under way is not recalled.
Seeded(k) ==
  [entry[k] EXCEPT !.data = [of |-> "all", upTo |-> pending.at], !.stale = FALSE,
                   !.failed = FALSE, !.late = entry[k].fetch # Null]

\* The hook's onSuccess runs whatever is on screen by now; the callbacks a page
\* gave to mutate, which navigate, only if that page is still there.
Settle ==
  LET h == pending.hook
      switched == h.name = "switchFamily"
      tok == IF switched THEN h.family ELSE token
      left == h.name \in {"leaveFamily", "deleteFamily"}
                /\ url = <<"settings", h.family>>
  IN
  /\ pending # Null
  /\ pending.done = "applied"
  /\ token' = tok
  /\ entry' = [k \in Cached |->
                 CASE Matches(k, h.refreshes) -> Invalidated(k, tok)
                   [] h.name = "updateLanguage" /\ k = useSyncUserLanguage -> Seeded(k)
                   [] OTHER -> entry[k]]
  /\ url' = IF switched THEN <<"dashboard", h.family>>
            ELSE IF left THEN <<"families", "all">>
            ELSE url
  /\ pending' = IF h.name = "createFamily" /\ url[1] = "families"
                THEN Sent(useSwitchFamily(h.family)) ELSE Null
  /\ due' = IF Told(h, pending.tok) THEN pending.at ELSE due
  /\ UNCHANGED <<joined, writes, focus, observed>>

-----------------------------------------------------------------------------
Init ==
  /\ focus \in Watched
  /\ joined = Joined(focus)
  /\ token \in joined
  /\ url = <<"dashboard", token>>
  /\ entry = [k \in Cached |-> NoEntry]
  /\ observed = {}
  /\ pending = Null
  /\ writes = 0
  /\ due = 0

Next ==
  \/ Render \/ OpenDialog \/ CloseDialog \/ Visit \/ Reload
  \/ \E k \in Cached : Expire(k) \/ Collect(k) \/ Arrive(k) \/ LoseAnswer(k)
  \/ Serve \/ Mutate \/ Apply \/ GiveUp \/ Settle

Fairness ==
  /\ WF_vars(Render)
  /\ WF_vars(Serve)
  /\ WF_vars(Arrive(focus))
  /\ \A f \in Families : WF_vars(Arrive(useFamilyById(f)))

Spec == Init /\ [][Next]_vars /\ Fairness

-----------------------------------------------------------------------------
(* Properties *)

Seen == 0..writes \cup {Null}
Entry ==
  [data : [of : Scopes, upTo : Seen] \cup {Null}, stale : BOOLEAN,
   failed : BOOLEAN, late : BOOLEAN,
   fetch : [tok : Families, retries : 0..1, upTo : Seen] \cup {Null}]
TypeOK ==
  /\ joined \subseteq Families
  /\ writes \in Nat
  /\ token \in Families
  /\ url \in DOMAIN AppRouter
  /\ focus \in Watched
  /\ observed \subseteq Cached
  /\ entry \in [Cached -> Entry]
  /\ \A k \in Cached : entry[k].stale => entry[k].data # Null
  /\ due \in 0..writes

\* What the cache calls fresh, and nothing is on its way to replace, has seen
\* every write of this user whose answer the page had: of the mutations and keys
\* not listed as gaps, and but for an answer that was on its way when the hook
\* asked for it again.
Fresh(k) == entry[k].data # Null /\ ~entry[k].stale /\ entry[k].fetch = Null
OwnWritesShown ==
  Fresh(focus) /\ ~entry[focus].late => entry[focus].data.upTo >= due

\* A list that is on screen comes to show the user's own write without a reload,
\* unless its answer is late, refused or lost, or it is no longer looked at.
Behind == focus \in observed /\ entry[focus].data # Null
            /\ ~entry[focus].late /\ entry[focus].data.upTo < due
OwnWriteAppears == Behind ~> ~Behind \/ entry[focus].failed

\* An answer of the guard that passes for fresh means that the token is of that
\* family, but for one that was on its way when the token changed.
GuardTellsToken ==
  \A f \in Families : LET k == useFamilyById(f) IN
    Fresh(k) /\ ~entry[k].failed /\ ~entry[k].late => token = f

\* The pages of a family are not left open for good under a token of another.
Astray(f) == /\ url[2] = f
             /\ FamilyGuard(f)
             /\ token # f
             /\ ~entry[useFamilyById(f)].late
GuardCatchesUp == \A f \in Families : Astray(f) ~> ~Astray(f)

-----------------------------------------------------------------------------
(* The inductive invariant behind OwnWritesShown and GuardTellsToken *)

\* The mutations of a family's pages, and those of the other pages as well.
FamilyHooks(f) ==
  {useCreateTransaction(f), useUpdateTransaction(f), useDeleteTransaction(f),
   useUpdateAccount(f), useCreateCategory(f), useUpdateCategory(f),
   useDeleteCategory(f), useCreateBudget(f), useUpdateBudget(f),
   useDeleteBudget(f), useCreateFamily(f), useDeleteFamily(f),
   useInviteMember(f), useRemoveMember(f), useLeaveFamily(f),
   useSwitchFamily(f), useExecuteImport(f)}
AnyHooks(f) ==
  {useCreateAccount(f), useDeleteAccount(f), useCreateAccountShare(f),
   useUpdateAccountShare(f), useDeleteAccountShare(f), useLanguage(f)}
Hooks == (UNION {FamilyHooks(f) : f \in Families})
           \cup (UNION {AnyHooks(f) : f \in Scopes})

\* What is under way was offered, and once applied it counts after what is due.
PendingOK ==
  pending # Null =>
    /\ pending \in [hook : Hooks, tok : Families, at : Seen,
                    done : {"sent", "applied"}]
    /\ pending.done = "applied" => pending.at \in due..writes

\* What is due is seen by the answer on its way, unless it is late, and by the
\* one in the cache, unless a late one has come or it is to be fetched again.
ShownOK ==
  LET e == entry[focus] IN
  /\ e.fetch # Null /\ e.fetch.upTo # Null /\ ~e.late => e.fetch.upTo >= due
  /\ e.data # Null /\ ~e.stale /\ (e.late => e.fetch # Null)
       => e.data.upTo >= due

\* A request of the guard that was sent with another token is late.
GuardOK ==
  \A f \in Families : LET e == entry[useFamilyById(f)] IN
    e.fetch # Null /\ e.fetch.tok # token => e.late

CacheInv == TypeOK /\ PendingOK /\ ShownOK /\ GuardOK /\ GuardTellsToken

(* What OwnWriteAppears and GuardCatchesUp rest on *)

\* A list on screen that is behind is being fetched, unless the last try failed.
BehindIsAsked == Behind => entry[focus].fetch # Null \/ entry[focus].failed

\* Under the token of another family, the pages of a family are about to mount
\* the query of the guard, or it is being asked again.
AstrayIsAsked ==
  \A f \in Families :
    Astray(f) => ~Rendered \/ entry[useFamilyById(f)].fetch # Null

\* The gaps listed are the ones there are: a hook that writes what a key shows and
\* forgets to ask for it is listed, and nothing is listed in vain.  One stands for
\* what a key of one id does not tell: the count of the category the rows go to.
Forgets(h, k) ==
  /\ h.writes \cap Shows(k) # {}
  /\ FamilyOf(k) = "all" \/ h.family \in {"all", FamilyOf(k)}
  /\ ~Matches(k, h.refreshes)
  /\ h.name # "updateLanguage"
GapsExact ==
  /\ \A h \in Hooks, k \in Keys :
       Forgets(h, k) => <<h.name, Fetches(k)>> \in Unlisted
  /\ \A gap \in Unlisted \ {<<"deleteCategory", "count">>} :
       \E h \in Hooks, k \in Keys : Forgets(h, k) /\ <<h.name, Fetches(k)>> = gap

=============================================================================
