---------------------------- MODULE MCQueryCache ----------------------------
(* One key of every kind, followed through the pages that show or change it. *)
EXTENDS QueryCache

CONSTANTS f1, f2

\* What every page mounts and may mount is cached under one of Keys, and what it
\* offers is one of Hooks.
ASSUME FramedAssumption ==
  Framed \in [DOMAIN AppRouter ->
               [mounts : SUBSET Keys, may : SUBSET Keys, offers : SUBSET Hooks]]

OneOfEach ==
  {useTransactions(f1, "page"), useTransactions("all", "account"),
   useTransaction(f1), useAccounts(f1), useAccounts("all"), useAccount,
   useAccountShares, useCategories(f1), useCategoryTransactionCount(f1),
   useBudgets(f1), useFamilies, useListMembers(f1), useImportJobs(f1),
   useSyncUserLanguage}

\* For each, pages that mount it, pages that offer to change what it shows, and
\* mostly one that does neither.
Pages ==
  [k \in OneOfEach |->
     CASE k = useTransactions(f1, "page") -> {"transactions", "transaction", "account"}
       [] k = useTransactions("all", "account") -> {"any account", "transactions", "dashboard"}
       [] k = useTransaction(f1) -> {"transaction", "account", "settings"}
       [] k = useAccounts(f1) -> {"accounts", "account", "edit account"}
       [] k = useAccounts("all") -> {"all accounts", "any account", "accounts"}
       [] k = useAccount -> {"account", "edit account", "any account"}
       [] k = useAccountShares -> {"account", "any account", "dashboard"}
       [] k = useCategories(f1) -> {"settings", "transactions", "import-csv"}
       [] k = useCategoryTransactionCount(f1) -> {"settings", "transactions"}
       [] k = useBudgets(f1) -> {"budgets", "reports", "settings"}
       [] k = useFamilies -> {"families"}
       [] k = useListMembers(f1) -> {"settings", "dashboard"}
       [] k = useImportJobs(f1) -> {"imports", "import-csv"}
       [] k = useSyncUserLanguage -> {"dashboard", "all accounts"}]
PagesFor(k) == Pages[k]
OnlyF1(k) == {f1}

\* One list of a family, and the guard of a family between two.
ListAndGuard == {useCategories(f1), useFamilyById(f1)}
FewPages(k) == IF k = useFamilyById(f1) THEN {"dashboard"}
               ELSE {"settings", "dashboard"}
BothAtTheGuard(k) == IF k = useFamilyById(f1) THEN {f1, f2} ELSE {f1}
WritesInOneFamily == [n \in 0..2 |-> IF n = 1 THEN 1 ELSE 0]
=============================================================================
