-------------------------- MODULE QueryCacheProofs --------------------------
(* Proofs about QueryCache, for every value of its constants. *)
EXTENDS QueryCache, SequenceTheorems, TLAPS

-----------------------------------------------------------------------------
(* What an invalidation matches: a key by its first part, by its first two, *)
(* or the whole of it.                                                      *)

LEMMA MatchesFirst ==
  ASSUME NEW S, NEW k \in Seq(S), NEW a, NEW prefixes, <<a>> \in prefixes,
         Len(k) >= 1, k[1] = a
  PROVE  Matches(k, prefixes)
<1>1. SubSeq(k, 1, 1) = <<a>>
  <2>1. \A i \in 1..1 : k[i] \in S
    OBVIOUS
  <2>2. /\ SubSeq(k, 1, 1) \in Seq(S) /\ Len(SubSeq(k, 1, 1)) = 1
        /\ \A i \in 1..1 : SubSeq(k, 1, 1)[i] = k[i]
    BY <2>1, SubSeqProperties
  <2> DEFINE t == SubSeq(k, 1, 1)
             u == <<a>>
  <2>3. u \in Seq(S) /\ Len(u) = 1 /\ u[1] = a
    BY <2>1
  <2>4. t \in Seq(S) /\ Len(t) = Len(u) /\ \A i \in 1..Len(t) : t[i] = u[i]
    BY <2>2, <2>3
  <2> HIDE DEF t, u
  <2>5. t = u
    BY <2>3, <2>4, SeqEqual
  <2> QED BY <2>5 DEF t, u
<1>2. Len(<<a>>) = 1
  OBVIOUS
<1> QED BY <1>1, <1>2 DEF Matches

LEMMA MatchesTwo ==
  ASSUME NEW S, NEW k \in Seq(S), NEW a, NEW b, NEW prefixes,
         <<a, b>> \in prefixes, Len(k) >= 2, k[1] = a, k[2] = b
  PROVE  Matches(k, prefixes)
<1>1. SubSeq(k, 1, 2) = <<a, b>>
  <2>1. \A i \in 1..2 : k[i] \in S
    OBVIOUS
  <2>2. /\ SubSeq(k, 1, 2) \in Seq(S) /\ Len(SubSeq(k, 1, 2)) = 2
        /\ \A i \in 1..2 : SubSeq(k, 1, 2)[i] = k[i]
    BY <2>1, SubSeqProperties
  <2> DEFINE t == SubSeq(k, 1, 2)
             u == <<a, b>>
  <2>3. u \in Seq(S) /\ Len(u) = 2 /\ u[1] = a /\ u[2] = b
    BY <2>1
  <2>4. t \in Seq(S) /\ Len(t) = Len(u) /\ \A i \in 1..Len(t) : t[i] = u[i]
    BY <2>2, <2>3
  <2> HIDE DEF t, u
  <2>5. t = u
    BY <2>3, <2>4, SeqEqual
  <2> QED BY <2>5 DEF t, u
<1>2. Len(<<a, b>>) = 2
  OBVIOUS
<1> QED BY <1>1, <1>2 DEF Matches

Words == {"transactions", "id", "accounts", "account", "accountShares",
          "categories", "transaction-count", "budgets", "month", "families",
          "family", "members", "import-jobs", "currentUser", "page", "period"}

\* A key, the family it speaks of, and what it shows.
IsKey(k, length, first, family, fetched, shown) ==
  /\ k \in Seq(Scopes \cup Words) /\ Len(k) = length /\ k[1] = first
  /\ FamilyOf(k) = family /\ Fetches(k) = fetched /\ Shows(k) = shown

LEMMA TransactionsKey ==
  ASSUME NEW f \in Scopes, NEW filters \in {"page", "account", "period"}
  PROVE  IsKey(useTransactions(f, filters), 3, "transactions", f, "transactions",
               {"rows", "account names", "category names"})
<1> DEFINE k == useTransactions(f, filters)
<1>1. k \in Seq(Scopes \cup Words) /\ Len(k) = 3
      /\ k[1] = "transactions" /\ k[2] = f /\ k[3] = filters
  BY DEF useTransactions, Words
<1>2. FamilyOf(k) = f
  <2>1. \A g \in Families : (\E i \in 2..Len(k) : k[i] = g) <=> g = f
    BY <1>1, FamiliesAssumption
  <2>2. (\E i \in 2..Len(k) : k[i] \in Families) <=> f \in Families
    BY <1>1, FamiliesAssumption
  <2>3. CASE f \in Families
    BY <2>1, <2>2, <2>3 DEF FamilyOf
  <2>4. CASE f = "all"
    BY <2>2, <2>4, FamiliesAssumption DEF FamilyOf
  <2> QED BY <2>3, <2>4 DEF Scopes
<1>3. Fetches(k) = "transactions"
  BY <1>1 DEF Fetches
<1>4. Shows(k) = {"rows", "account names", "category names"}
  BY <1>1 DEF Shows
<1> HIDE DEF k
<1> QED BY <1>1, <1>2, <1>3, <1>4 DEF IsKey, k

LEMMA TransactionKey ==
  ASSUME NEW f \in Families
  PROVE  IsKey(useTransaction(f), 3, "transactions", f, "transactions",
               {"rows", "account names", "category names"})
<1> DEFINE k == useTransaction(f)
<1>1. k \in Seq(Scopes \cup Words) /\ Len(k) = 3
      /\ k[1] = "transactions" /\ k[2] = "id" /\ k[3] = f
  BY DEF useTransaction, Words, Scopes
<1>2. FamilyOf(k) = f
  <2>1. \A g \in Families : (\E i \in 2..Len(k) : k[i] = g) <=> g = f
    BY <1>1, FamiliesAssumption
  <2>2. \E i \in 2..Len(k) : k[i] \in Families
    BY <1>1
  <2> QED BY <2>1, <2>2 DEF FamilyOf
<1>3. Fetches(k) = "transactions"
  BY <1>1 DEF Fetches
<1>4. Shows(k) = {"rows", "account names", "category names"}
  BY <1>1 DEF Shows
<1> HIDE DEF k
<1> QED BY <1>1, <1>2, <1>3, <1>4 DEF IsKey, k

LEMMA AccountsKey ==
  ASSUME NEW f \in Scopes
  PROVE  IsKey(useAccounts(f), 2, "accounts", f, "accounts",
               {"accounts", "account names", "balances", "shares"}
                       \cup (IF f = "all" THEN {"own accounts"} ELSE {}))
<1> DEFINE k == useAccounts(f)
<1>1. k \in Seq(Scopes \cup Words) /\ Len(k) = 2
      /\ k[1] = "accounts" /\ k[2] = f
  BY DEF useAccounts, Words
<1>2. FamilyOf(k) = f
  <2>1. \A g \in Families : (\E i \in 2..Len(k) : k[i] = g) <=> g = f
    BY <1>1, FamiliesAssumption
  <2>2. (\E i \in 2..Len(k) : k[i] \in Families) <=> f \in Families
    BY <1>1, FamiliesAssumption
  <2>3. CASE f \in Families
    BY <2>1, <2>2, <2>3 DEF FamilyOf
  <2>4. CASE f = "all"
    BY <2>2, <2>4, FamiliesAssumption DEF FamilyOf
  <2> QED BY <2>3, <2>4 DEF Scopes
<1>3. Fetches(k) = "accounts"
  BY <1>1 DEF Fetches
<1>4. Shows(k) = {"accounts", "account names", "balances", "shares"}
        \cup (IF f = "all" THEN {"own accounts"} ELSE {})
  BY <1>1, <1>2 DEF Shows
<1> HIDE DEF k
<1> QED BY <1>1, <1>2, <1>3, <1>4 DEF IsKey, k

LEMMA AccountKey ==
  IsKey(useAccount, 2, "account", "all", "account",
        {"account names", "balances"})
<1> DEFINE k == useAccount
<1>1. k \in Seq(Scopes \cup Words) /\ Len(k) = 2
      /\ k[1] = "account" /\ k[2] = "id"
  BY DEF useAccount, Words
<1>2. FamilyOf(k) = "all"
  BY <1>1, FamiliesAssumption DEF FamilyOf
<1>3. Fetches(k) = "account"
  BY <1>1 DEF Fetches
<1>4. Shows(k) = {"account names", "balances"}
  BY <1>1 DEF Shows
<1> HIDE DEF k
<1> QED BY <1>1, <1>2, <1>3, <1>4 DEF IsKey, k

LEMMA AccountSharesKey ==
  IsKey(useAccountShares, 2, "accountShares", "all", "accountShares",
        {"shares"})
<1> DEFINE k == useAccountShares
<1>1. k \in Seq(Scopes \cup Words) /\ Len(k) = 2
      /\ k[1] = "accountShares" /\ k[2] = "id"
  BY DEF useAccountShares, Words
<1>2. FamilyOf(k) = "all"
  BY <1>1, FamiliesAssumption DEF FamilyOf
<1>3. Fetches(k) = "accountShares"
  BY <1>1 DEF Fetches
<1>4. Shows(k) = {"shares"}
  BY <1>1 DEF Shows
<1> HIDE DEF k
<1> QED BY <1>1, <1>2, <1>3, <1>4 DEF IsKey, k

LEMMA CategoriesKey ==
  ASSUME NEW f \in Families
  PROVE  IsKey(useCategories(f), 2, "categories", f, "categories",
               {"category names"})
<1> DEFINE k == useCategories(f)
<1>1. k \in Seq(Scopes \cup Words) /\ Len(k) = 2
      /\ k[1] = "categories" /\ k[2] = f
  BY DEF useCategories, Words, Scopes
<1>2. FamilyOf(k) = f
  <2>1. \A g \in Families : (\E i \in 2..Len(k) : k[i] = g) <=> g = f
    BY <1>1, FamiliesAssumption
  <2>2. \E i \in 2..Len(k) : k[i] \in Families
    BY <1>1
  <2> QED BY <2>1, <2>2 DEF FamilyOf
<1>3. Fetches(k) = "categories"
  BY <1>1, FamiliesAssumption DEF Fetches
<1>4. Shows(k) = {"category names"}
  BY <1>1, FamiliesAssumption DEF Shows
<1> HIDE DEF k
<1> QED BY <1>1, <1>2, <1>3, <1>4 DEF IsKey, k

LEMMA CountKey ==
  ASSUME NEW f \in Families
  PROVE  IsKey(useCategoryTransactionCount(f), 4, "categories", f, "count",
               {"rows"})
<1> DEFINE k == useCategoryTransactionCount(f)
<1>1. k \in Seq(Scopes \cup Words) /\ Len(k) = 4
      /\ k[1] = "categories" /\ k[2] = "id" /\ k[3] = "transaction-count" /\ k[4] = f
  BY DEF useCategoryTransactionCount, Words, Scopes
<1>2. FamilyOf(k) = f
  <2>1. \A g \in Families : (\E i \in 2..Len(k) : k[i] = g) <=> g = f
    BY <1>1, FamiliesAssumption
  <2>2. \E i \in 2..Len(k) : k[i] \in Families
    BY <1>1
  <2> QED BY <2>1, <2>2 DEF FamilyOf
<1>3. Fetches(k) = "count"
  BY <1>1 DEF Fetches
<1>4. Shows(k) = {"rows"}
  BY <1>1 DEF Shows
<1> HIDE DEF k
<1> QED BY <1>1, <1>2, <1>3, <1>4 DEF IsKey, k

LEMMA BudgetsKey ==
  ASSUME NEW f \in Families
  PROVE  IsKey(useBudgets(f), 3, "budgets", f, "budgets",
               {"budgets", "rows", "category names"})
<1> DEFINE k == useBudgets(f)
<1>1. k \in Seq(Scopes \cup Words) /\ Len(k) = 3
      /\ k[1] = "budgets" /\ k[2] = f /\ k[3] = "month"
  BY DEF useBudgets, Words, Scopes
<1>2. FamilyOf(k) = f
  <2>1. \A g \in Families : (\E i \in 2..Len(k) : k[i] = g) <=> g = f
    BY <1>1, FamiliesAssumption
  <2>2. \E i \in 2..Len(k) : k[i] \in Families
    BY <1>1
  <2> QED BY <2>1, <2>2 DEF FamilyOf
<1>3. Fetches(k) = "budgets"
  BY <1>1 DEF Fetches
<1>4. Shows(k) = {"budgets", "rows", "category names"}
  BY <1>1 DEF Shows
<1> HIDE DEF k
<1> QED BY <1>1, <1>2, <1>3, <1>4 DEF IsKey, k

LEMMA FamiliesKey ==
  IsKey(useFamilies, 1, "families", "all", "families",
        {"families"})
<1> DEFINE k == useFamilies
<1>1. k \in Seq(Scopes \cup Words) /\ Len(k) = 1
      /\ k[1] = "families"
  BY DEF useFamilies, Words
<1>2. FamilyOf(k) = "all"
  BY <1>1, FamiliesAssumption DEF FamilyOf
<1>3. Fetches(k) = "families"
  BY <1>1 DEF Fetches
<1>4. Shows(k) = {"families"}
  BY <1>1 DEF Shows
<1> HIDE DEF k
<1> QED BY <1>1, <1>2, <1>3, <1>4 DEF IsKey, k

LEMMA FamilyKey ==
  ASSUME NEW f \in Families
  PROVE  IsKey(useFamilyById(f), 2, "family", f, "family",
               {})
<1> DEFINE k == useFamilyById(f)
<1>1. k \in Seq(Scopes \cup Words) /\ Len(k) = 2
      /\ k[1] = "family" /\ k[2] = f
  BY DEF useFamilyById, Words, Scopes
<1>2. FamilyOf(k) = f
  <2>1. \A g \in Families : (\E i \in 2..Len(k) : k[i] = g) <=> g = f
    BY <1>1, FamiliesAssumption
  <2>2. \E i \in 2..Len(k) : k[i] \in Families
    BY <1>1
  <2> QED BY <2>1, <2>2 DEF FamilyOf
<1>3. Fetches(k) = "family"
  BY <1>1 DEF Fetches
<1>4. Shows(k) = {}
  BY <1>1 DEF Shows
<1> HIDE DEF k
<1> QED BY <1>1, <1>2, <1>3, <1>4 DEF IsKey, k

LEMMA MembersKey ==
  ASSUME NEW f \in Families
  PROVE  IsKey(useListMembers(f), 2, "members", f, "members",
               {"members"})
<1> DEFINE k == useListMembers(f)
<1>1. k \in Seq(Scopes \cup Words) /\ Len(k) = 2
      /\ k[1] = "members" /\ k[2] = f
  BY DEF useListMembers, Words, Scopes
<1>2. FamilyOf(k) = f
  <2>1. \A g \in Families : (\E i \in 2..Len(k) : k[i] = g) <=> g = f
    BY <1>1, FamiliesAssumption
  <2>2. \E i \in 2..Len(k) : k[i] \in Families
    BY <1>1
  <2> QED BY <2>1, <2>2 DEF FamilyOf
<1>3. Fetches(k) = "members"
  BY <1>1 DEF Fetches
<1>4. Shows(k) = {"members"}
  BY <1>1 DEF Shows
<1> HIDE DEF k
<1> QED BY <1>1, <1>2, <1>3, <1>4 DEF IsKey, k

LEMMA ImportJobsKey ==
  ASSUME NEW f \in Families
  PROVE  IsKey(useImportJobs(f), 2, "import-jobs", f, "import-jobs",
               {"jobs"})
<1> DEFINE k == useImportJobs(f)
<1>1. k \in Seq(Scopes \cup Words) /\ Len(k) = 2
      /\ k[1] = "import-jobs" /\ k[2] = f
  BY DEF useImportJobs, Words, Scopes
<1>2. FamilyOf(k) = f
  <2>1. \A g \in Families : (\E i \in 2..Len(k) : k[i] = g) <=> g = f
    BY <1>1, FamiliesAssumption
  <2>2. \E i \in 2..Len(k) : k[i] \in Families
    BY <1>1
  <2> QED BY <2>1, <2>2 DEF FamilyOf
<1>3. Fetches(k) = "import-jobs"
  BY <1>1 DEF Fetches
<1>4. Shows(k) = {"jobs"}
  BY <1>1 DEF Shows
<1> HIDE DEF k
<1> QED BY <1>1, <1>2, <1>3, <1>4 DEF IsKey, k

LEMMA LanguageKey ==
  IsKey(useSyncUserLanguage, 1, "currentUser", "all", "currentUser",
        {"language"})
<1> DEFINE k == useSyncUserLanguage
<1>1. k \in Seq(Scopes \cup Words) /\ Len(k) = 1
      /\ k[1] = "currentUser"
  BY DEF useSyncUserLanguage, Words
<1>2. FamilyOf(k) = "all"
  BY <1>1, FamiliesAssumption DEF FamilyOf
<1>3. Fetches(k) = "currentUser"
  BY <1>1 DEF Fetches
<1>4. Shows(k) = {"language"}
  BY <1>1 DEF Shows
<1> HIDE DEF k
<1> QED BY <1>1, <1>2, <1>3, <1>4 DEF IsKey, k

-----------------------------------------------------------------------------
(* Every hook asks for what it has written, but for the gaps. *)

\* The keys by what they fetch; the second part of a list's key is its family.
Listed(k) == k[2] = FamilyOf(k) /\ FamilyOf(k) \in Families /\ Len(k) >= 2
KindOfKey(k) ==
  \/ /\ k[1] = "transactions" /\ Fetches(k) = "transactions"
     /\ Shows(k) \subseteq {"rows", "account names", "category names"}
  \/ /\ k[1] = "accounts" /\ Fetches(k) = "accounts"
     /\ Len(k) >= 2 /\ k[2] = FamilyOf(k)
     /\ Shows(k) \subseteq {"accounts", "account names", "balances", "shares"}
          \cup (IF FamilyOf(k) = "all" THEN {"own accounts"} ELSE {})
  \/ /\ k[1] = "account" /\ Fetches(k) = "account"
     /\ Len(k) >= 2 /\ k[2] = "id" /\ Shows(k) \subseteq {"account names", "balances"}
  \/ /\ k[1] = "accountShares" /\ Fetches(k) = "accountShares"
     /\ Len(k) >= 2 /\ k[2] = "id" /\ Shows(k) \subseteq {"shares"}
  \/ /\ k[1] = "categories" /\ Fetches(k) = "categories"
     /\ Listed(k) /\ Shows(k) \subseteq {"category names"}
  \/ /\ k[1] = "categories" /\ Fetches(k) = "count"
     /\ Len(k) >= 2 /\ k[2] = "id" /\ Shows(k) \subseteq {"rows"}
  \/ /\ k[1] = "budgets" /\ Fetches(k) = "budgets"
     /\ Listed(k) /\ Shows(k) \subseteq {"budgets", "rows", "category names"}
  \/ k[1] = "families" /\ Shows(k) \subseteq {"families"}
  \/ k[1] = "family" /\ Shows(k) \subseteq {}
  \/ k[1] = "members" /\ Listed(k) /\ Shows(k) \subseteq {"members"}
  \/ /\ k[1] = "import-jobs" /\ Fetches(k) = "import-jobs"
     /\ Shows(k) \subseteq {"jobs"}
  \/ k = useSyncUserLanguage /\ Shows(k) \subseteq {"language"}

LEMMA KeyKinds ==
  ASSUME NEW k \in Keys
  PROVE  k \in Seq(Scopes \cup Words) /\ Len(k) >= 1 /\ KindOfKey(k)
<1> DEFINE Goal == k \in Seq(Scopes \cup Words) /\ Len(k) >= 1 /\ KindOfKey(k)
<1>1. ASSUME NEW f \in Scopes,
             NEW filters \in {"page", "account", "period"}, k = useTransactions(f, filters)
      PROVE  Goal
  <2>1. IsKey(k, 3, "transactions", f, "transactions",
              {"rows", "account names", "category names"})
    BY <1>1, TransactionsKey
  <2>3. Len(k) = 3
    BY <2>1, Zenon DEF IsKey
  <2>4. Len(k) >= 1 /\ Len(k) >= 2
    BY <2>3
  <2> QED BY <1>1, <2>1, <2>4, Zenon DEF IsKey, KindOfKey, Listed
<1>2. ASSUME NEW f \in Families, k = useTransaction(f)
      PROVE  Goal
  <2>1. IsKey(k, 3, "transactions", f, "transactions",
              {"rows", "account names", "category names"})
    BY <1>2, TransactionKey
  <2>3. Len(k) = 3
    BY <2>1, Zenon DEF IsKey
  <2>4. Len(k) >= 1 /\ Len(k) >= 2
    BY <2>3
  <2> QED BY <1>2, <2>1, <2>4, Zenon DEF IsKey, KindOfKey, Listed
<1>3. ASSUME NEW f \in Scopes, k = useAccounts(f)
      PROVE  Goal
  <2>1. IsKey(k, 2, "accounts", f, "accounts",
              {"accounts", "account names", "balances", "shares"}
              \cup (IF f = "all" THEN {"own accounts"} ELSE {}))
    BY <1>3, AccountsKey
  <2>2. k[2] = f
    BY <1>3 DEF useAccounts
  <2>3. Len(k) = 2
    BY <2>1, Zenon DEF IsKey
  <2>4. Len(k) >= 1 /\ Len(k) >= 2
    BY <2>3
  <2> QED BY <2>1, <2>2, <2>4, Zenon DEF IsKey, KindOfKey, Listed
<1>4. ASSUME k = useAccount
      PROVE  Goal
  <2>1. IsKey(k, 2, "account", "all", "account",
              {"account names", "balances"})
    BY <1>4, AccountKey
  <2>2. k[2] = "id"
    BY <1>4 DEF useAccount
  <2>3. Len(k) = 2
    BY <2>1, Zenon DEF IsKey
  <2>4. Len(k) >= 1 /\ Len(k) >= 2
    BY <2>3
  <2> QED BY <2>1, <2>2, <2>4, Zenon DEF IsKey, KindOfKey, Listed
<1>5. ASSUME k = useAccountShares
      PROVE  Goal
  <2>1. IsKey(k, 2, "accountShares", "all", "accountShares",
              {"shares"})
    BY <1>5, AccountSharesKey
  <2>2. k[2] = "id"
    BY <1>5 DEF useAccountShares
  <2>3. Len(k) = 2
    BY <2>1, Zenon DEF IsKey
  <2>4. Len(k) >= 1 /\ Len(k) >= 2
    BY <2>3
  <2> QED BY <2>1, <2>2, <2>4, Zenon DEF IsKey, KindOfKey, Listed
<1>6. ASSUME NEW f \in Families, k = useCategories(f)
      PROVE  Goal
  <2>1. IsKey(k, 2, "categories", f, "categories",
              {"category names"})
    BY <1>6, CategoriesKey
  <2>2. k[2] = f
    BY <1>6 DEF useCategories
  <2>3. Len(k) = 2
    BY <2>1, Zenon DEF IsKey
  <2>4. Len(k) >= 1 /\ Len(k) >= 2
    BY <2>3
  <2> QED BY <2>1, <2>2, <2>4, Zenon DEF IsKey, KindOfKey, Listed
<1>7. ASSUME NEW f \in Families, k = useCategoryTransactionCount(f)
      PROVE  Goal
  <2>1. IsKey(k, 4, "categories", f, "count",
              {"rows"})
    BY <1>7, CountKey
  <2>2. k[2] = "id"
    BY <1>7 DEF useCategoryTransactionCount
  <2>3. Len(k) = 4
    BY <2>1, Zenon DEF IsKey
  <2>4. Len(k) >= 1 /\ Len(k) >= 2
    BY <2>3
  <2> QED BY <2>1, <2>2, <2>4, Zenon DEF IsKey, KindOfKey, Listed
<1>8. ASSUME NEW f \in Families, k = useBudgets(f)
      PROVE  Goal
  <2>1. IsKey(k, 3, "budgets", f, "budgets",
              {"budgets", "rows", "category names"})
    BY <1>8, BudgetsKey
  <2>2. k[2] = f
    BY <1>8 DEF useBudgets
  <2>3. Len(k) = 3
    BY <2>1, Zenon DEF IsKey
  <2>4. Len(k) >= 1 /\ Len(k) >= 2
    BY <2>3
  <2> QED BY <2>1, <2>2, <2>4, Zenon DEF IsKey, KindOfKey, Listed
<1>9. ASSUME k = useFamilies
      PROVE  Goal
  <2>1. IsKey(k, 1, "families", "all", "families",
              {"families"})
    BY <1>9, FamiliesKey
  <2>3. Len(k) = 1
    BY <2>1, Zenon DEF IsKey
  <2>4. Len(k) >= 1
    BY <2>3
  <2> QED BY <1>9, <2>1, <2>4, Zenon DEF IsKey, KindOfKey, Listed
<1>10. ASSUME NEW f \in Families, k = useFamilyById(f)
      PROVE  Goal
  <2>1. IsKey(k, 2, "family", f, "family",
              {})
    BY <1>10, FamilyKey
  <2>3. Len(k) = 2
    BY <2>1, Zenon DEF IsKey
  <2>4. Len(k) >= 1 /\ Len(k) >= 2
    BY <2>3
  <2> QED BY <1>10, <2>1, <2>4, Zenon DEF IsKey, KindOfKey, Listed
<1>11. ASSUME NEW f \in Families, k = useListMembers(f)
      PROVE  Goal
  <2>1. IsKey(k, 2, "members", f, "members",
              {"members"})
    BY <1>11, MembersKey
  <2>2. k[2] = f
    BY <1>11 DEF useListMembers
  <2>3. Len(k) = 2
    BY <2>1, Zenon DEF IsKey
  <2>4. Len(k) >= 1 /\ Len(k) >= 2
    BY <2>3
  <2> QED BY <2>1, <2>2, <2>4, Zenon DEF IsKey, KindOfKey, Listed
<1>12. ASSUME NEW f \in Families, k = useImportJobs(f)
      PROVE  Goal
  <2>1. IsKey(k, 2, "import-jobs", f, "import-jobs",
              {"jobs"})
    BY <1>12, ImportJobsKey
  <2>3. Len(k) = 2
    BY <2>1, Zenon DEF IsKey
  <2>4. Len(k) >= 1 /\ Len(k) >= 2
    BY <2>3
  <2> QED BY <1>12, <2>1, <2>4, Zenon DEF IsKey, KindOfKey, Listed
<1>13. ASSUME k = useSyncUserLanguage
      PROVE  Goal
  <2>1. IsKey(k, 1, "currentUser", "all", "currentUser",
              {"language"})
    BY <1>13, LanguageKey
  <2>3. Len(k) = 1
    BY <2>1, Zenon DEF IsKey
  <2>4. Len(k) >= 1
    BY <2>3
  <2> QED BY <1>13, <2>1, <2>4, Zenon DEF IsKey, KindOfKey, Listed
<1> HIDE DEF Goal
<1>20. Goal
  BY <1>1, <1>2, <1>3, <1>4, <1>5, <1>6, <1>7, <1>8, <1>9, <1>10, <1>11, <1>12, <1>13 DEF Keys
<1> QED BY <1>20 DEF Goal

\* What Told asks of a hook and a key, but for the token.
Due(h, k) ==
  /\ h.writes \cap Shows(k) # {}
  /\ <<h.name, Fetches(k)>> \notin Unlisted
  /\ FamilyOf(k) = "all" \/ h.family \in {"all", FamilyOf(k)}

LEMMA HooksRefresh ==
  ASSUME NEW k \in Keys, NEW h \in Hooks, Due(h, k)
  PROVE  \/ Matches(k, h.refreshes)
         \/ h.name = "updateLanguage" /\ k = useSyncUserLanguage
<1> DEFINE Goal == \/ Matches(k, h.refreshes)
                   \/ h.name = "updateLanguage" /\ k = useSyncUserLanguage
<1>0. k \in Seq(Scopes \cup Words) /\ Len(k) >= 1 /\ KindOfKey(k)
  BY KeyKinds
<1>a. "all" \notin Families
  BY FamiliesAssumption
<1>1. ASSUME NEW f \in Families, h = useCreateTransaction(f)
      PROVE  Goal
  <2>1. k[1] = "transactions"
    BY <1>0, <1>a, <1>1 DEF Due, KindOfKey, Listed, useCreateTransaction, Mutation, Unlisted
  <2>2. {<<"transactions">>} \subseteq h.refreshes
    BY <1>1 DEF useCreateTransaction, Mutation
  <2> QED BY <1>0, <2>1, <2>2, MatchesFirst
<1>2. ASSUME NEW f \in Families, h = useUpdateTransaction(f)
      PROVE  Goal
  <2>1. k[1] = "transactions"
    BY <1>0, <1>a, <1>2 DEF Due, KindOfKey, Listed, useUpdateTransaction, Mutation, Unlisted
  <2>2. {<<"transactions">>} \subseteq h.refreshes
    BY <1>2 DEF useUpdateTransaction, Mutation
  <2> QED BY <1>0, <2>1, <2>2, MatchesFirst
<1>3. ASSUME NEW f \in Families, h = useDeleteTransaction(f)
      PROVE  Goal
  <2>1. k[1] = "transactions"
    BY <1>0, <1>a, <1>3 DEF Due, KindOfKey, Listed, useDeleteTransaction, Mutation, Unlisted
  <2>2. {<<"transactions">>} \subseteq h.refreshes
    BY <1>3 DEF useDeleteTransaction, Mutation
  <2> QED BY <1>0, <2>1, <2>2, MatchesFirst
<1>4. ASSUME NEW f \in Families, h = useUpdateAccount(f)
      PROVE  Goal
  <2>1. \/ k[1] = "accounts"
        \/ k[1] = "account" /\ Len(k) >= 2 /\ k[2] = "id"
    BY <1>0, <1>a, <1>4 DEF Due, KindOfKey, Listed, useUpdateAccount, Mutation, Unlisted
  <2>2. {<<"accounts">>, <<"account", "id">>} \subseteq h.refreshes
    BY <1>4 DEF useUpdateAccount, Mutation, useAccount
  <2> QED BY <1>0, <2>1, <2>2, MatchesFirst, MatchesTwo
<1>5. ASSUME NEW f \in Families, h = useCreateCategory(f)
      PROVE  Goal
  <2>1. k[1] = "categories" /\ Len(k) >= 2 /\ k[2] = f
    BY <1>0, <1>a, <1>5 DEF Due, KindOfKey, Listed, useCreateCategory, Mutation, Unlisted
  <2>2. {<<"categories", f>>} \subseteq h.refreshes
    BY <1>5 DEF useCreateCategory, Mutation
  <2> QED BY <1>0, <2>1, <2>2, MatchesTwo
<1>6. ASSUME NEW f \in Families, h = useUpdateCategory(f)
      PROVE  Goal
  <2>1. k[1] = "categories"
    BY <1>0, <1>a, <1>6 DEF Due, KindOfKey, Listed, useUpdateCategory, Mutation, Unlisted
  <2>2. {<<"categories">>} \subseteq h.refreshes
    BY <1>6 DEF useUpdateCategory, Mutation
  <2> QED BY <1>0, <2>1, <2>2, MatchesFirst
<1>7. ASSUME NEW f \in Families, h = useDeleteCategory(f)
      PROVE  Goal
  <2>1. \/ k[1] = "categories" /\ Len(k) >= 2 /\ k[2] = f
        \/ k[1] = "transactions"
    BY <1>0, <1>a, <1>7 DEF Due, KindOfKey, Listed, useDeleteCategory, Mutation, Unlisted
  <2>2. {<<"categories", f>>, <<"transactions">>} \subseteq h.refreshes
    BY <1>7 DEF useDeleteCategory, Mutation
  <2> QED BY <1>0, <2>1, <2>2, MatchesFirst, MatchesTwo
<1>8. ASSUME NEW f \in Families, h = useCreateBudget(f)
      PROVE  Goal
  <2>1. k[1] = "budgets" /\ Len(k) >= 2 /\ k[2] = f
    BY <1>0, <1>a, <1>8 DEF Due, KindOfKey, Listed, useCreateBudget, Mutation, Unlisted
  <2>2. {<<"budgets", f>>} \subseteq h.refreshes
    BY <1>8 DEF useCreateBudget, Mutation
  <2> QED BY <1>0, <2>1, <2>2, MatchesTwo
<1>9. ASSUME NEW f \in Families, h = useUpdateBudget(f)
      PROVE  Goal
  <2>1. k[1] = "budgets" /\ Len(k) >= 2 /\ k[2] = f
    BY <1>0, <1>a, <1>9 DEF Due, KindOfKey, Listed, useUpdateBudget, Mutation, Unlisted
  <2>2. {<<"budgets", f>>} \subseteq h.refreshes
    BY <1>9 DEF useUpdateBudget, Mutation
  <2> QED BY <1>0, <2>1, <2>2, MatchesTwo
<1>10. ASSUME NEW f \in Families, h = useDeleteBudget(f)
      PROVE  Goal
  <2>1. k[1] = "budgets" /\ Len(k) >= 2 /\ k[2] = f
    BY <1>0, <1>a, <1>10 DEF Due, KindOfKey, Listed, useDeleteBudget, Mutation, Unlisted
  <2>2. {<<"budgets", f>>} \subseteq h.refreshes
    BY <1>10 DEF useDeleteBudget, Mutation
  <2> QED BY <1>0, <2>1, <2>2, MatchesTwo
<1>11. ASSUME NEW f \in Families, h = useCreateFamily(f)
      PROVE  Goal
  <2>1. k[1] = "families"
    BY <1>0, <1>a, <1>11 DEF Due, KindOfKey, Listed, useCreateFamily, Mutation, Unlisted
  <2>2. {<<"families">>} \subseteq h.refreshes
    BY <1>11 DEF useCreateFamily, Mutation, useFamilies
  <2> QED BY <1>0, <2>1, <2>2, MatchesFirst
<1>12. ASSUME NEW f \in Families, h = useDeleteFamily(f)
      PROVE  Goal
  <2>1. k[1] = "families"
    BY <1>0, <1>a, <1>12 DEF Due, KindOfKey, Listed, useDeleteFamily, Mutation, Unlisted
  <2>2. {<<"families">>} \subseteq h.refreshes
    BY <1>12 DEF useDeleteFamily, Mutation, useFamilies
  <2> QED BY <1>0, <2>1, <2>2, MatchesFirst
<1>13. ASSUME NEW f \in Families, h = useInviteMember(f)
      PROVE  Goal
  <2>1. k[1] = "members" /\ Len(k) >= 2 /\ k[2] = f
    BY <1>0, <1>a, <1>13 DEF Due, KindOfKey, Listed, useInviteMember, Mutation, Unlisted
  <2>2. {<<"members", f>>} \subseteq h.refreshes
    BY <1>13 DEF useInviteMember, Mutation
  <2> QED BY <1>0, <2>1, <2>2, MatchesTwo
<1>14. ASSUME NEW f \in Families, h = useRemoveMember(f)
      PROVE  Goal
  <2>1. k[1] = "members" /\ Len(k) >= 2 /\ k[2] = f
    BY <1>0, <1>a, <1>14 DEF Due, KindOfKey, Listed, useRemoveMember, Mutation, Unlisted
  <2>2. {<<"members", f>>} \subseteq h.refreshes
    BY <1>14 DEF useRemoveMember, Mutation
  <2> QED BY <1>0, <2>1, <2>2, MatchesTwo
<1>15. ASSUME NEW f \in Families, h = useLeaveFamily(f)
      PROVE  Goal
  <2>1. \/ k[1] = "members" /\ Len(k) >= 2 /\ k[2] = f
        \/ k[1] = "families"
    BY <1>0, <1>a, <1>15 DEF Due, KindOfKey, Listed, useLeaveFamily, Mutation, Unlisted
  <2>2. {<<"members", f>>, <<"families">>} \subseteq h.refreshes
    BY <1>15 DEF useLeaveFamily, Mutation, useFamilies
  <2> QED BY <1>0, <2>1, <2>2, MatchesFirst, MatchesTwo
<1>16. ASSUME NEW f \in Families, h = useSwitchFamily(f)
      PROVE  Goal
  BY <1>0, <1>16 DEF Due, KindOfKey, useSwitchFamily, Mutation, Unlisted
<1>17. ASSUME NEW f \in Families, h = useExecuteImport(f)
      PROVE  Goal
  BY <1>0, <1>17 DEF Due, KindOfKey, useExecuteImport, Mutation, Unlisted
<1>18. ASSUME NEW f \in Scopes, h = useCreateAccount(f)
      PROVE  Goal
  <2>1. \/ k[1] = "accounts" /\ Len(k) >= 2 /\ k[2] = f
        \/ k[1] = "accounts" /\ Len(k) >= 2 /\ k[2] = "all"
    BY <1>0, <1>a, <1>18 DEF Due, KindOfKey, Listed, useCreateAccount, Mutation, Unlisted, Scopes
  <2>2. {<<"accounts", f>>, <<"accounts", "all">>} \subseteq h.refreshes
    BY <1>18 DEF useCreateAccount, Mutation, useAccount
  <2> QED BY <1>0, <2>1, <2>2, MatchesTwo
<1>19. ASSUME NEW f \in Scopes, h = useDeleteAccount(f)
      PROVE  Goal
  <2>1. \/ k[1] = "accounts" /\ Len(k) >= 2 /\ k[2] = f
        \/ k[1] = "accounts" /\ Len(k) >= 2 /\ k[2] = "all"
        \/ k[1] = "transactions"
    BY <1>0, <1>a, <1>19 DEF Due, KindOfKey, Listed, useDeleteAccount, Mutation, Unlisted, Scopes
  <2>2. {<<"accounts", f>>, <<"accounts", "all">>, <<"transactions">>} \subseteq h.refreshes
    BY <1>19 DEF useDeleteAccount, Mutation, useAccount
  <2> QED BY <1>0, <2>1, <2>2, MatchesFirst, MatchesTwo
<1>20. ASSUME NEW f \in Scopes, h = useCreateAccountShare(f)
      PROVE  Goal
  <2>1. k[1] = "accountShares" /\ Len(k) >= 2 /\ k[2] = "id"
    BY <1>0, <1>a, <1>20 DEF Due, KindOfKey, Listed, useCreateAccountShare, Mutation, Unlisted, Scopes
  <2>2. {<<"accountShares", "id">>} \subseteq h.refreshes
    BY <1>20 DEF useCreateAccountShare, Mutation, useAccount, useAccountShares, useFamilies
  <2> QED BY <1>0, <2>1, <2>2, MatchesTwo
<1>21. ASSUME NEW f \in Scopes, h = useUpdateAccountShare(f)
      PROVE  Goal
  <2>1. k[1] = "accountShares" /\ Len(k) >= 2 /\ k[2] = "id"
    BY <1>0, <1>a, <1>21 DEF Due, KindOfKey, Listed, useUpdateAccountShare, Mutation, Unlisted, Scopes
  <2>2. {<<"accountShares", "id">>} \subseteq h.refreshes
    BY <1>21 DEF useUpdateAccountShare, Mutation, useAccount, useAccountShares, useFamilies
  <2> QED BY <1>0, <2>1, <2>2, MatchesTwo
<1>22. ASSUME NEW f \in Scopes, h = useDeleteAccountShare(f)
      PROVE  Goal
  <2>1. k[1] = "accountShares" /\ Len(k) >= 2 /\ k[2] = "id"
    BY <1>0, <1>a, <1>22 DEF Due, KindOfKey, Listed, useDeleteAccountShare, Mutation, Unlisted, Scopes
  <2>2. {<<"accountShares", "id">>} \subseteq h.refreshes
    BY <1>22 DEF useDeleteAccountShare, Mutation, useAccount, useAccountShares, useFamilies
  <2> QED BY <1>0, <2>1, <2>2, MatchesTwo
<1>23. ASSUME NEW f \in Scopes, h = useLanguage(f)
      PROVE  Goal
  <2>1. k = useSyncUserLanguage
    BY <1>0, <1>23 DEF Due, KindOfKey, useLanguage, Mutation
  <2> QED BY <1>23, <2>1 DEF useLanguage, Mutation
<1> HIDE DEF Goal
<1>30. ASSUME NEW f \in Families, h \in FamilyHooks(f) PROVE Goal
  BY <1>1, <1>2, <1>3, <1>4, <1>5, <1>6, <1>7, <1>8, <1>9, <1>10, <1>11, <1>12,
     <1>13, <1>14, <1>15, <1>16, <1>17, <1>30, Zenon DEF FamilyHooks
<1>31. ASSUME NEW f \in Scopes, h \in AnyHooks(f) PROVE Goal
  BY <1>18, <1>19, <1>20, <1>21, <1>22, <1>23, <1>31, Zenon DEF AnyHooks
<1>32. \/ \E f \in Families : h \in FamilyHooks(f)
       \/ \E f \in Scopes : h \in AnyHooks(f)
  BY Zenon DEF Hooks
<1> QED BY <1>30, <1>31, <1>32, Zenon DEF Goal

-----------------------------------------------------------------------------
(* What the pages offer is among the hooks. *)

Offered(p) == p.offers \subseteq Hooks

LEMMA PartOffers ==
  ASSUME NEW m, NEW y, NEW o \in SUBSET Hooks PROVE Offered(Part(m, y, o))
BY DEF Offered, Part

LEMMA WithOffers ==
  ASSUME NEW p, NEW ds, Offered(p), \A d \in ds : Offered(d)
  PROVE  Offered(With(p, ds))
<1>1. With(p, ds).offers = p.offers \cup (UNION {d.offers : d \in ds})
  BY DEF With
<1> QED BY <1>1 DEF Offered

LEMMA BothOffer ==
  ASSUME NEW a, NEW b, Offered(a), Offered(b) PROVE Offered(Both(a, b))
BY DEF Offered, Both

LEMMA FamilyOffers ==
  ASSUME NEW f \in Families, NEW s \in SUBSET FamilyHooks(f)
  PROVE  s \in SUBSET Hooks
BY DEF Hooks

LEMMA AnyOffers ==
  ASSUME NEW f \in Scopes, NEW s \in SUBSET AnyHooks(f)
  PROVE  s \in SUBSET Hooks
BY DEF Hooks

\* The parts that are on the pages of a family and on the others.
LEMMA AnyParts ==
  ASSUME NEW f \in Scopes
  PROVE  /\ Offered(AddAccountModal(f)) /\ Offered(AccountDetail(f))
         /\ Offered(AppShell(f))
<1>1. {} \in SUBSET Hooks
  OBVIOUS
<1>2. Offered(AddAccountModal(f))
  <2>1. {useCreateAccount(f)} \in SUBSET Hooks
    BY AnyOffers DEF AnyHooks
  <2> QED BY <2>1, PartOffers DEF AddAccountModal
<1>3. Offered(AccountDetail(f))
  <2>1. /\ {useDeleteAccount(f), useDeleteAccountShare(f)} \in SUBSET Hooks
        /\ {useCreateAccountShare(f)} \in SUBSET Hooks
        /\ {useUpdateAccountShare(f)} \in SUBSET Hooks
    BY AnyOffers DEF AnyHooks
  <2>2. /\ Offered(AccountShareList) /\ Offered(ShareAccountDialog(f))
        /\ Offered(EditShareDialog(f))
    BY <1>1, <2>1, PartOffers
       DEF AccountShareList, ShareAccountDialog, EditShareDialog
  <2>3. Offered(Part({useAccount, useTransactions(f, "account")}, {},
                     {useDeleteAccount(f), useDeleteAccountShare(f)}))
    BY <2>1, PartOffers
  <2> QED BY <2>2, <2>3, WithOffers DEF AccountDetail
<1>4. Offered(AppShell(f))
  <2>1. {useLanguage(f)} \in SUBSET Hooks
    BY AnyOffers DEF AnyHooks
  <2>2. {useSwitchFamily(g) : g \in Families} \in SUBSET Hooks
    BY FamilyOffers DEF FamilyHooks
  <2>3. Offered(FamilySwitcherMini)
    BY <2>2, PartOffers DEF FamilySwitcherMini
  <2>4. \A d \in IF f = "all" THEN {} ELSE {FamilySwitcherMini} : Offered(d)
    BY <2>3
  <2>5. Offered(Part({}, {}, {useLanguage(f)}))
    BY <2>1, PartOffers
  <2>6. Offered(TopNav(f))
    BY <2>4, <2>5, WithOffers DEF TopNav
  <2>7. Offered(Part({useSyncUserLanguage}, {}, {}))
    BY <1>1, PartOffers
  <2> QED BY <2>6, <2>7, BothOffer DEF AppShell
<1> QED BY <1>2, <1>3, <1>4

LEMMA FamilyParts ==
  ASSUME NEW f \in Families
  PROVE  /\ Offered(Guarding(f)) /\ Offered(FamilyProvider(f))
         /\ \A page \in FamilyPages : Offered(Routed(page, f))
<1>1. {} \in SUBSET Hooks
  OBVIOUS
<1>2. {useSwitchFamily(g) : g \in Families} \in SUBSET Hooks
  BY FamilyOffers DEF FamilyHooks
<1>3. Offered(Guarding(f)) /\ Offered(FamilyProvider(f))
  BY <1>1, <1>2, PartOffers DEF Guarding, FamilyProvider
<1>4. \A m, y : Offered(Part(m, y, {}))
  BY <1>1, PartOffers
<1>5. f \in Scopes
  BY DEF Scopes
<1>6. Offered(AddAccountModal(f)) /\ Offered(AccountDetail(f))
  BY <1>5, AnyParts
<1>7. Offered(AddCategoryModal(f))
  <2>1. {useCreateCategory(f)} \in SUBSET Hooks
    BY FamilyOffers DEF FamilyHooks
  <2> QED BY <2>1, PartOffers DEF AddCategoryModal
<1>8. Offered(TransactionForm(f))
  BY <1>4, <1>6, <1>7, WithOffers DEF TransactionForm
<1>9. Offered(TransactionsPage(f))
  <2>1. /\ {useCreateTransaction(f)} \in SUBSET Hooks
        /\ {useDeleteTransaction(f)} \in SUBSET Hooks
    BY FamilyOffers DEF FamilyHooks
  <2>2. Offered(Part({}, {}, {useCreateTransaction(f)}))
    BY <2>1, PartOffers
  <2>3. Offered(AddTransactionModal(f))
    BY <1>8, <2>2, BothOffer DEF AddTransactionModal
  <2>4. Offered(BulkActions(f))
    BY <2>1, PartOffers DEF BulkActions
  <2> QED BY <1>4, <2>3, <2>4, WithOffers DEF TransactionsPage
<1>10. Offered(TransactionDetailPage(f))
  <2>1. {useUpdateTransaction(f), useDeleteTransaction(f)} \in SUBSET Hooks
    BY FamilyOffers DEF FamilyHooks
  <2>2. Offered(Part({useTransaction(f)}, {},
                     {useUpdateTransaction(f), useDeleteTransaction(f)}))
    BY <2>1, PartOffers
  <2> QED BY <1>8, <2>2, WithOffers DEF TransactionDetailPage
<1>11. Offered(AccountsPage(f)) /\ Offered(FamilyAccountDetailPage(f))
  BY <1>4, <1>6, WithOffers DEF AccountsPage, FamilyAccountDetailPage
<1>12. Offered(EditAccountPage(f))
  <2>1. {useUpdateAccount(f)} \in SUBSET Hooks
    BY FamilyOffers DEF FamilyHooks
  <2> QED BY <2>1, PartOffers DEF EditAccountPage
<1>13. Offered(DashboardPage(f)) /\ Offered(ReportsPage(f))
         /\ Offered(ImportHistoryPage(f))
  <2>1. Offered(useMonthlyReport(f)) /\ Offered(BudgetProgressChart(f))
    BY <1>4 DEF useMonthlyReport, BudgetProgressChart
  <2> QED BY <1>4, <2>1, WithOffers
          DEF DashboardPage, useDashboardSummary, ReportsPage, ImportHistoryPage
<1>14. Offered(BudgetsPage(f))
  <2>1. /\ {useCreateBudget(f), useUpdateBudget(f)} \in SUBSET Hooks
        /\ {useDeleteBudget(f)} \in SUBSET Hooks
    BY FamilyOffers DEF FamilyHooks
  <2>2. Offered(BudgetForm(f)) /\ Offered(DeleteBudgetConfirm(f))
    BY <2>1, PartOffers DEF BudgetForm, DeleteBudgetConfirm
  <2> QED BY <1>4, <2>2, WithOffers DEF BudgetsPage
<1>15. Offered(ImportCsvPage(f))
  <2>1. {useCreateCategory(f), useExecuteImport(f)} \in SUBSET Hooks
    BY FamilyOffers DEF FamilyHooks
  <2> QED BY <2>1, PartOffers DEF ImportCsvPage
<1>16. Offered(SettingsPage(f))
  <2>1. /\ {useUpdateCategory(f)} \in SUBSET Hooks
        /\ {useDeleteCategory(f)} \in SUBSET Hooks
        /\ {useRemoveMember(f)} \in SUBSET Hooks
        /\ {useInviteMember(f)} \in SUBSET Hooks
        /\ {useLeaveFamily(f), useDeleteFamily(f)} \in SUBSET Hooks
    BY FamilyOffers DEF FamilyHooks
  <2>2. /\ Offered(EditCategoryModal(f)) /\ Offered(DeleteCategoryConfirm(f))
        /\ Offered(MembersList(f)) /\ Offered(InviteMemberModal(f))
        /\ Offered(FamilySettings(f))
    BY <2>1, PartOffers DEF EditCategoryModal, DeleteCategoryConfirm,
       MembersList, InviteMemberModal, FamilySettings
  <2> QED BY <1>4, <1>7, <2>2, WithOffers DEF SettingsPage
<1>17. \A page \in FamilyPages : Offered(Routed(page, f))
  BY <1>9, <1>10, <1>11, <1>12, <1>13, <1>14, <1>15, <1>16
     DEF FamilyPages, Routed
<1> QED BY <1>3, <1>17

LEMMA GlobalParts ==
  ASSUME NEW page \in GlobalPages PROVE Offered(Routed(page, "all"))
<1>1. {} \in SUBSET Hooks
  OBVIOUS
<1>2. "all" \in Scopes
  BY DEF Scopes
<1>3. Offered(FamiliesPage)
  <2>1. /\ {useSwitchFamily(g) : g \in Families} \in SUBSET Hooks
        /\ {useCreateFamily(g) : g \in Families} \in SUBSET Hooks
    BY FamilyOffers DEF FamilyHooks
  <2>2. Offered(FamilyList) /\ Offered(CreateFamilyModal)
    BY <2>1, PartOffers DEF FamilyList, CreateFamilyModal
  <2>3. Offered(Part({useFamilies}, {}, {}))
    BY <1>1, PartOffers
  <2> QED BY <2>2, <2>3, WithOffers DEF FamiliesPage
<1>4. Offered(AllAccountsPage)
  <2>1. Offered(Part({useAccounts("all")}, {}, {}))
    BY <1>1, PartOffers
  <2> QED BY <1>2, <2>1, AnyParts, WithOffers DEF AllAccountsPage
<1>5. Offered(GlobalAccountDetailPage)
  BY <1>2, AnyParts DEF GlobalAccountDetailPage
<1>6. /\ Offered(Both(AllAccountsPage, AppShell("all")))
      /\ Offered(Both(GlobalAccountDetailPage, AppShell("all")))
  BY <1>2, <1>4, <1>5, AnyParts, BothOffer
<1> QED BY <1>3, <1>6 DEF GlobalPages, Routed

LEMMA OnScreenOffers == ASSUME url \in DOMAIN AppRouter PROVE Offered(OnScreen)
<1>1. CASE url \in GlobalPages \X {"all"}
  <2>1. url[1] \in GlobalPages /\ url[2] = "all"
    BY <1>1
  <2>2. OnScreen = Framed[url] /\ Framed[url] = AppRouter[url]
    BY <2>1 DEF OnScreen, Framed
  <2>3. AppRouter[url] = Routed(url[1], "all")
    BY <2>1 DEF AppRouter
  <2> QED BY <2>1, <2>2, <2>3, GlobalParts
<1>2. CASE url \in FamilyPages \X Families
  <2>1. url[1] \in FamilyPages /\ url[2] \in Families /\ url[1] \notin GlobalPages
    BY <1>2 DEF FamilyPages, GlobalPages
  <2>2. \/ OnScreen = Guarding(url[2])
        \/ OnScreen = Both(Both(Guarding(url[2]), FamilyProvider(url[2])),
                           Both(AppShell(url[2]), AppRouter[url]))
    BY <2>1 DEF OnScreen, Framed
  <2>3. AppRouter[url] = Routed(url[1], url[2])
    BY <2>1 DEF AppRouter
  <2>4. url[2] \in Scopes
    BY <2>1 DEF Scopes
  <2>5. /\ Offered(Guarding(url[2])) /\ Offered(FamilyProvider(url[2]))
        /\ Offered(AppRouter[url])
    BY <2>1, <2>3, FamilyParts
  <2>6. Offered(AppShell(url[2]))
    BY <2>4, AnyParts
  <2> QED BY <2>2, <2>5, <2>6, BothOffer
<1> QED BY <1>1, <1>2 DEF AppRouter

-----------------------------------------------------------------------------
(* What the invariant says of one entry, and what is done to one. *)

EntryOf(w) ==
  LET seen == 0..w \cup {Null} IN
  [data : [of : Scopes, upTo : seen] \cup {Null}, stale : BOOLEAN,
   failed : BOOLEAN, late : BOOLEAN,
   fetch : [tok : Families, retries : 0..1, upTo : seen] \cup {Null}]

Shown(e, d) ==
  /\ e.fetch # Null /\ e.fetch.upTo # Null /\ ~e.late => e.fetch.upTo >= d
  /\ e.data # Null /\ ~e.stale /\ (e.late => e.fetch # Null)
       => e.data.upTo >= d

Guarded(e, tok, f) ==
  /\ e.fetch # Null /\ e.fetch.tok # tok => e.late
  /\ e.data # Null /\ ~e.stale /\ e.fetch = Null /\ ~e.failed /\ ~e.late
       => tok = f

EntryOK(e, k, followed, w, d, tok) ==
  /\ e \in EntryOf(w) /\ (e.stale => e.data # Null)
  /\ k = followed => Shown(e, d)
  /\ \A f \in Families : k = useFamilyById(f) => Guarded(e, tok, f)

\* An entry that is fetched anew holds nothing or is stale, and nothing that
\* was on its way counts any more.
LEMMA FetchingOK ==
  ASSUME NEW w \in Nat, NEW e \in EntryOf(w), NEW tok \in Families, NEW d,
         NEW k, NEW followed, e.stale <=> e.data # Null
  PROVE  EntryOK(Fetching(e, tok), k, followed, w, d, tok)
<1> DEFINE n == Fetching(e, tok)
<1>1. /\ n.data = e.data /\ n.stale = e.stale /\ n.failed = e.failed
      /\ n.fetch = Ask(tok, 1) /\ n.late = FALSE
      /\ n \in EntryOf(w)
  <2>1. Ask(tok, 1) \in [tok : Families, retries : 0..1, upTo : 0..w \cup {Null}]
    BY DEF Ask
  <2>2. n = [e EXCEPT !.fetch = Ask(tok, 1), !.late = FALSE]
    BY DEF Fetching
  <2> HIDE DEF n
  <2> QED BY <2>1, <2>2 DEF EntryOf
<1>2. n.fetch.tok = tok /\ n.fetch.upTo = Null
  BY <1>1 DEF Ask
<1> HIDE DEF n
<1>3. Shown(n, d) /\ \A f \in Families : Guarded(n, tok, f)
  BY <1>1, <1>2 DEF Shown, Guarded, EntryOf
<1>4. EntryOK(n, k, followed, w, d, tok)
  BY <1>1, <1>3 DEF EntryOK
<1> QED BY <1>4 DEF n

\* So does invalidateQueries, but for what goes on and is late.
LEMMA InvalidatedOK ==
  ASSUME NEW w \in Nat, NEW k \in Cached, entry[k] \in EntryOf(w),
         NEW tok \in Families, NEW d, NEW followed
  PROVE  EntryOK(Invalidated(k, tok), k, followed, w, d, tok)
<1> DEFINE e == entry[k]
           marked == [e EXCEPT !.stale = e.data # Null, !.late = e.fetch # Null]
<1>1. /\ marked.data = e.data /\ marked.stale = (e.data # Null)
      /\ marked.fetch = e.fetch /\ marked.late = (e.fetch # Null)
      /\ marked \in EntryOf(w)
  <2>1. (e.data # Null) \in BOOLEAN /\ (e.fetch # Null) \in BOOLEAN
    OBVIOUS
  <2> QED BY <2>1 DEF EntryOf
<1>2. Invalidated(k, tok) = Fetching(marked, tok) \/ Invalidated(k, tok) = marked
  BY DEF Invalidated
<1> HIDE DEF marked
<1>3. EntryOK(Fetching(marked, tok), k, followed, w, d, tok)
  BY <1>1, FetchingOK
<1>4. Shown(marked, d) /\ \A f \in Families : Guarded(marked, tok, f)
  BY <1>1 DEF Shown, Guarded
<1>5. EntryOK(marked, k, followed, w, d, tok)
  BY <1>1, <1>4 DEF EntryOK
<1> QED BY <1>2, <1>3, <1>5

LEMMA NoEntryOK ==
  ASSUME NEW w \in Nat, NEW k, NEW followed, NEW d, NEW tok
  PROVE  EntryOK(NoEntry, k, followed, w, d, tok)
BY DEF EntryOK, EntryOf, NoEntry, Shown, Guarded

LEMMA StaleOK ==
  ASSUME NEW w \in Nat, NEW k, NEW followed, NEW d, NEW tok, NEW e,
         EntryOK(e, k, followed, w, d, tok), e.data # Null
  PROVE  EntryOK([e EXCEPT !.stale = TRUE], k, followed, w, d, tok)
<1> DEFINE n == [e EXCEPT !.stale = TRUE]
<1>1. /\ n \in EntryOf(w) /\ n.stale /\ n.data = e.data /\ n.fetch = e.fetch
      /\ n.late = e.late
  BY DEF EntryOK, EntryOf
<1> HIDE DEF n
<1>2. EntryOK(n, k, followed, w, d, tok)
  BY <1>1 DEF EntryOK, Shown, Guarded
<1> QED BY <1>2 DEF n

\* A retry goes with the token of that moment; what has failed is not fresh.
LEMMA FailsOK ==
  ASSUME NEW k \in Cached, Fails(k), entry \in [Cached -> EntryOf(writes)],
         writes \in Nat, token \in Families, NEW d, NEW followed,
         EntryOK(entry[k], k, followed, writes, d, token),
         entry[k].fetch # Null
  PROVE  /\ entry' \in [Cached -> EntryOf(writes)]
         /\ EntryOK(entry'[k], k, followed, writes, d, token)
         /\ \A i \in Cached \ {k} : entry'[i] = entry[i]
<1> DEFINE e == entry[k]
           asked == [e EXCEPT !.fetch = Ask(token, 0)]
           failed == [e EXCEPT !.fetch = Null, !.failed = TRUE, !.late = FALSE]
<1>1. e \in EntryOf(writes)
  OBVIOUS
<1>2. /\ asked \in EntryOf(writes) /\ asked.fetch = Ask(token, 0)
      /\ asked.data = e.data /\ asked.stale = e.stale /\ asked.late = e.late
      /\ asked.failed = e.failed
  BY <1>1 DEF EntryOf, Ask
<1>3. /\ failed \in EntryOf(writes) /\ failed.fetch = Null
      /\ failed.data = e.data /\ failed.stale = e.stale
      /\ failed.late = FALSE /\ failed.failed = TRUE
  BY <1>1 DEF EntryOf
<1>4. Ask(token, 0).tok = token /\ Ask(token, 0).upTo = Null
        /\ Ask(token, 0) # Null
  BY NullAssumption DEF Ask
<1>5. entry' = [entry EXCEPT ![k] = IF e.fetch.retries > 0 THEN asked ELSE failed]
  BY DEF Fails
<1> HIDE DEF asked, failed
<1>6. EntryOK(asked, k, followed, writes, d, token)
  <2>1. Shown(e, d) => Shown(asked, d)
    BY <1>2, <1>4 DEF Shown
  <2>2. \A f : Guarded(asked, token, f)
    BY <1>2, <1>4 DEF Guarded
  <2> QED BY <1>2, <2>1, <2>2 DEF EntryOK
<1>7. EntryOK(failed, k, followed, writes, d, token)
  <2>1. Shown(e, d) => Shown(failed, d)
    BY <1>3 DEF Shown
  <2>2. \A f : Guarded(failed, token, f)
    BY <1>3 DEF Guarded
  <2> QED BY <1>3, <2>1, <2>2 DEF EntryOK
<1> QED BY <1>2, <1>3, <1>5, <1>6, <1>7

-----------------------------------------------------------------------------
(* The invariant, entry by entry. *)

\* What is left of TypeOK.
RestOK ==
  /\ joined \subseteq Families
  /\ writes \in Nat
  /\ token \in Families
  /\ url \in DOMAIN AppRouter
  /\ focus \in Watched
  /\ observed \subseteq Cached
  /\ due \in 0..writes

EntriesOK ==
  /\ entry \in [Cached -> EntryOf(writes)]
  /\ \A k \in Cached : EntryOK(entry[k], k, focus, writes, due, token)

LEMMA ByEntry == CacheInv <=> RestOK /\ PendingOK /\ EntriesOK
<1>1. Entry = EntryOf(writes)
  BY DEF Entry, EntryOf, Seen
<1>2. focus \in Cached /\ \A f \in Families : useFamilyById(f) \in Cached
  BY DEF Cached
<1>3. TypeOK <=> /\ RestOK /\ entry \in [Cached -> EntryOf(writes)]
                 /\ \A k \in Cached : entry[k].stale => entry[k].data # Null
  BY <1>1, Zenon DEF TypeOK, RestOK
<1>4. /\ ShownOK <=> Shown(entry[focus], due)
      /\ GuardOK /\ GuardTellsToken <=>
           \A f \in Families : Guarded(entry[useFamilyById(f)], token, f)
  <2>1. ShownOK <=> Shown(entry[focus], due)
    BY DEF ShownOK, Shown
  <2>2. ASSUME GuardOK, GuardTellsToken, NEW f \in Families
        PROVE  Guarded(entry[useFamilyById(f)], token, f)
    BY <2>2 DEF GuardOK, GuardTellsToken, Guarded, Fresh
  <2>3. ASSUME \A f \in Families : Guarded(entry[useFamilyById(f)], token, f)
        PROVE  GuardOK /\ GuardTellsToken
    BY <2>3 DEF GuardOK, GuardTellsToken, Guarded, Fresh
  <2> QED BY <2>1, <2>2, <2>3
<1>5. ASSUME TypeOK, ShownOK, GuardOK, GuardTellsToken PROVE EntriesOK
  BY <1>2, <1>3, <1>4, <1>5 DEF EntriesOK, EntryOK
<1>6. ASSUME RestOK, EntriesOK
      PROVE  TypeOK /\ ShownOK /\ GuardOK /\ GuardTellsToken
  BY <1>2, <1>3, <1>4, <1>6 DEF EntriesOK, EntryOK
<1> QED BY <1>3, <1>5, <1>6 DEF CacheInv

LEMMA CachedStays == ASSUME focus' = focus PROVE Cached' = Cached
BY DEF Cached

\* The steps that touch the cache alone.
LEMMA EntryStep ==
  ASSUME RestOK, PendingOK, EntriesOK,
         UNCHANGED <<joined, writes, token, url, focus, pending, due>>,
         observed' \subseteq Cached,
         entry' \in [Cached -> EntryOf(writes)],
         \A k \in Cached : \/ entry'[k] = entry[k]
                           \/ EntryOK(entry'[k], k, focus, writes, due, token)
  PROVE  RestOK' /\ PendingOK' /\ EntriesOK'
<1>1. Cached' = Cached
  BY CachedStays
<1>2. RestOK'
  BY <1>1 DEF RestOK
<1>3. PendingOK'
  BY DEF PendingOK, Seen
<1>4. \A k \in Cached : EntryOK(entry'[k], k, focus, writes, due, token)
  BY DEF EntriesOK
<1>5. EntriesOK'
  BY <1>1, <1>4 DEF EntriesOK
<1> QED BY <1>2, <1>3, <1>5

LEMMA ObserveStep ==
  ASSUME RestOK, PendingOK, EntriesOK, NEW keys \in SUBSET Cached, Observe(keys),
         UNCHANGED <<joined, writes, token, url, focus, pending, due>>
  PROVE  RestOK' /\ PendingOK' /\ EntriesOK'
<1>1. observed' \subseteq Cached
  BY DEF Observe
<1>2. \A k \in Cached :
        /\ entry'[k] \in EntryOf(writes)
        /\ \/ entry'[k] = entry[k]
           \/ EntryOK(entry'[k], k, focus, writes, due, token)
  <2> SUFFICES ASSUME NEW k \in Cached, entry'[k] # entry[k]
               PROVE  EntryOK(entry'[k], k, focus, writes, due, token)
    BY DEF EntriesOK, EntryOK
  <2>1. WantsFetch(entry[k]) /\ entry'[k] = Fetching(entry[k], token)
    BY DEF Observe
  <2>2. entry[k] \in EntryOf(writes) /\ (entry[k].stale <=> entry[k].data # Null)
    BY <2>1 DEF EntriesOK, EntryOK, EntryOf, WantsFetch
  <2>3. writes \in Nat /\ token \in Families
    BY DEF RestOK
  <2> QED BY <2>1, <2>2, <2>3, FetchingOK
<1>3. entry' \in [Cached -> EntryOf(writes)]
  BY <1>2 DEF Observe
<1> QED BY <1>1, <1>2, <1>3, EntryStep

\* The answers are about a family, about the user's own, or refusals.
LEMMA AnswersOf ==
  ASSUME NEW k, NEW tok \in Families
  PROVE  /\ Answers(k, tok) \in Scopes \cup {"refused"}
         /\ \A f \in Families : k = useFamilyById(f) =>
              Answers(k, tok) = "refused" \/ f = tok
<1>1. FamilyOf(k) \in Scopes
  BY DEF FamilyOf, Scopes
<1>2. tok \in Scopes
  BY DEF Scopes
<1>3. Answers(k, tok) \in {FamilyOf(k), tok, "all", "refused"}
  BY DEF Answers, fetchTransactions, fetchTransactionById, getAccounts,
         getCategories, getCategoryTransactionCount, getBudgets, getFamilyById,
         listMembers, listImportJobs
<1>4. ASSUME NEW f \in Families, k = useFamilyById(f)
      PROVE  Answers(k, tok) = "refused" \/ f = tok
  <2>1. k[1] = "family" /\ FamilyOf(k) = f
    BY <1>4, FamilyKey DEF IsKey
  <2> QED BY <2>1 DEF Answers, getFamilyById
<1> QED BY <1>1, <1>2, <1>3, <1>4 DEF Scopes

LEMMA CacheStep ==
  ASSUME RestOK, PendingOK, EntriesOK,
         \/ Render \/ OpenDialog \/ CloseDialog \/ Serve
         \/ \E k \in Cached : Expire(k) \/ Collect(k) \/ Arrive(k) \/ LoseAnswer(k)
  PROVE  RestOK' /\ PendingOK' /\ EntriesOK'
<1>0. /\ observed \subseteq Cached /\ writes \in Nat /\ token \in Families
      /\ due \in Nat /\ due <= writes /\ focus \in Cached
      /\ entry \in [Cached -> EntryOf(writes)]
      /\ \A k \in Cached : EntryOK(entry[k], k, focus, writes, due, token)
  BY DEF RestOK, EntriesOK, Cached
<1>1. CASE Render
  <2>1. (observed \cap May) \cup Must \in SUBSET Cached
    BY DEF May, Must
  <2> QED BY <1>1, <2>1, ObserveStep DEF Render
<1>2. CASE OpenDialog
  <2>1. PICK k \in May \ observed : Observe(observed \cup {k})
    BY <1>2 DEF OpenDialog
  <2>2. observed \cup {k} \in SUBSET Cached
    BY <1>0 DEF May
  <2> QED BY <1>2, <2>1, <2>2, ObserveStep DEF OpenDialog
<1>3. CASE CloseDialog
  <2>1. PICK k \in observed \ Must : Observe(observed \ {k})
    BY <1>3 DEF CloseDialog
  <2>2. observed \ {k} \in SUBSET Cached
    BY <1>0
  <2> QED BY <1>3, <2>1, <2>2, ObserveStep DEF CloseDialog
\* The answer to focus will have seen all writes so far.
<1>4. CASE Serve
  <2> DEFINE e == entry[focus]
             n == [e EXCEPT !.fetch = [e.fetch EXCEPT !.upTo = writes]]
  <2>1. e \in EntryOf(writes) /\ e.fetch # Null /\ e.fetch.upTo = Null
    BY <1>0, <1>4 DEF Serve
  <2>2. entry' = [entry EXCEPT ![focus] = n]
    BY <1>4 DEF Serve
  <2>3. e.fetch \in [tok : Families, retries : 0..1, upTo : 0..writes \cup {Null}]
    BY <2>1 DEF EntryOf
  <2> DEFINE r == [e.fetch EXCEPT !.upTo = writes]
  <2>4. /\ r \in [tok : Families, retries : 0..1, upTo : 0..writes \cup {Null}]
        /\ r.upTo = writes /\ r.tok = e.fetch.tok
    BY <1>0, <2>3
  <2>5. /\ n \in EntryOf(writes) /\ n.fetch = r /\ n.data = e.data
        /\ n.stale = e.stale /\ n.late = e.late
    <3> HIDE DEF r
    <3>1. n = [e EXCEPT !.fetch = r]
      BY DEF r
    <3> QED BY <2>1, <2>4, <3>1 DEF EntryOf
  <2> HIDE DEF n, r
  <2>6. EntryOK(e, focus, focus, writes, due, token)
    BY <1>0
  <2>7. r # Null
    BY <1>0, <2>4, NullAssumption
  <2>8. Shown(n, due)
    BY <1>0, <2>1, <2>4, <2>5, <2>6, <2>7 DEF EntryOK, Shown
  <2>9. \A f \in Families : focus = useFamilyById(f) => Guarded(n, token, f)
    BY <2>1, <2>4, <2>5, <2>6, <2>7 DEF EntryOK, Guarded
  <2>10. EntryOK(n, focus, focus, writes, due, token)
    BY <2>5, <2>6, <2>8, <2>9 DEF EntryOK
  <2>11. /\ entry' \in [Cached -> EntryOf(writes)] /\ entry'[focus] = n
         /\ \A k \in Cached \ {focus} : entry'[k] = entry[k]
    BY <1>0, <2>2, <2>5
  <2>12. /\ UNCHANGED <<joined, writes, token, url, focus, pending, due>>
         /\ observed' \subseteq Cached
    BY <1>0, <1>4 DEF Serve
  <2> QED BY <2>10, <2>11, <2>12, EntryStep
<1>5. ASSUME NEW k \in Cached, Expire(k) PROVE RestOK' /\ PendingOK' /\ EntriesOK'
  <2> DEFINE n == [entry[k] EXCEPT !.stale = TRUE]
  <2>1. EntryOK(n, k, focus, writes, due, token)
    BY <1>0, <1>5, StaleOK DEF Expire
  <2>2. entry' = [entry EXCEPT ![k] = n]
    BY <1>5 DEF Expire
  <2>3. n \in EntryOf(writes)
    BY <2>1 DEF EntryOK
  <2> HIDE DEF n
  <2>4. /\ entry' \in [Cached -> EntryOf(writes)] /\ entry'[k] = n
        /\ \A i \in Cached \ {k} : entry'[i] = entry[i]
    BY <1>0, <2>2, <2>3
  <2>5. /\ UNCHANGED <<joined, writes, token, url, focus, pending, due>>
        /\ observed' \subseteq Cached
    BY <1>0, <1>5 DEF Expire
  <2> QED BY <2>1, <2>4, <2>5, EntryStep
<1>6. ASSUME NEW k \in Cached, Collect(k) PROVE RestOK' /\ PendingOK' /\ EntriesOK'
  <2>1. EntryOK(NoEntry, k, focus, writes, due, token)
    BY <1>0, NoEntryOK
  <2>2. entry' = [entry EXCEPT ![k] = NoEntry] /\ NoEntry \in EntryOf(writes)
    BY <1>6, <2>1 DEF Collect, EntryOK
  <2>3. /\ entry' \in [Cached -> EntryOf(writes)] /\ entry'[k] = NoEntry
        /\ \A i \in Cached \ {k} : entry'[i] = entry[i]
    BY <1>0, <2>2
  <2>4. /\ UNCHANGED <<joined, writes, token, url, focus, pending, due>>
        /\ observed' \subseteq Cached
    BY <1>0, <1>6 DEF Collect
  <2> QED BY <2>1, <2>3, <2>4, EntryStep
<1>7. ASSUME NEW k \in Cached, Fails(k), entry[k].fetch # Null,
             UNCHANGED <<joined, writes, token, url, focus, observed, pending, due>>
      PROVE  RestOK' /\ PendingOK' /\ EntriesOK'
  <2>1. /\ entry' \in [Cached -> EntryOf(writes)]
        /\ EntryOK(entry'[k], k, focus, writes, due, token)
        /\ \A i \in Cached \ {k} : entry'[i] = entry[i]
    BY <1>0, <1>7, FailsOK
  <2> QED BY <1>0, <1>7, <2>1, EntryStep
<1>8. ASSUME NEW k \in Cached, LoseAnswer(k)
      PROVE  RestOK' /\ PendingOK' /\ EntriesOK'
  BY <1>7, <1>8 DEF LoseAnswer
\* An answer that is not late has seen what is due, and comes from the token's
\* family.
<1>9. ASSUME NEW k \in Cached, Arrive(k)
      PROVE  RestOK' /\ PendingOK' /\ EntriesOK'
  <2> DEFINE e == entry[k]
             of == Answers(k, e.fetch.tok)
             answer == [of |-> of, upTo |-> e.fetch.upTo]
             n == [e EXCEPT !.data = answer, !.stale = FALSE, !.failed = FALSE,
                            !.fetch = Null]
  <2>1. /\ e.fetch # Null /\ (k = focus => e.fetch.upTo # Null)
        /\ UNCHANGED <<joined, writes, token, url, focus, observed, pending, due>>
        /\ Fails(k) \/ (of # "refused" /\ entry' = [entry EXCEPT ![k] = n])
    BY <1>9 DEF Arrive
  <2>2. CASE Fails(k)
    BY <1>7, <2>1, <2>2
  <2>3. CASE of # "refused" /\ entry' = [entry EXCEPT ![k] = n]
    <3>1. e \in EntryOf(writes) /\ EntryOK(e, k, focus, writes, due, token)
      BY <1>0
    <3>2. e.fetch.tok \in Families /\ e.fetch.upTo \in 0..writes \cup {Null}
      BY <2>1, <3>1 DEF EntryOf
    <3>3. /\ of \in Scopes
          /\ \A f \in Families : k = useFamilyById(f) => f = e.fetch.tok
      BY <2>3, <3>2, AnswersOf
    <3>4. answer \in [of : Scopes, upTo : 0..writes \cup {Null}]
            /\ answer.upTo = e.fetch.upTo
      BY <3>2, <3>3
    <3>5. /\ n \in EntryOf(writes) /\ n.data = answer /\ ~n.stale
          /\ n.fetch = Null /\ n.late = e.late
      <4> HIDE DEF answer
      <4> QED BY <3>1, <3>4 DEF EntryOf
    <3> HIDE DEF n
    <3>6. k = focus => Shown(n, due)
      BY <2>1, <3>1, <3>4, <3>5 DEF EntryOK, Shown
    <3>7. \A f \in Families : k = useFamilyById(f) => Guarded(n, token, f)
      BY <2>1, <3>1, <3>3, <3>5 DEF EntryOK, Guarded
    <3>8. EntryOK(n, k, focus, writes, due, token)
      BY <3>5, <3>6, <3>7 DEF EntryOK
    <3>9. /\ entry' \in [Cached -> EntryOf(writes)] /\ entry'[k] = n
          /\ \A i \in Cached \ {k} : entry'[i] = entry[i]
      BY <1>0, <2>3, <3>5
    <3> QED BY <1>0, <2>1, <3>8, <3>9, EntryStep
  <2> QED BY <2>1, <2>2, <2>3
<1> QED BY <1>1, <1>2, <1>3, <1>4, <1>5, <1>6, <1>8, <1>9

-----------------------------------------------------------------------------
(* The page, and the mutations *)

\* The steps that leave the cache, the token and what is due alone.
LEMMA OutsideStep ==
  ASSUME RestOK, EntriesOK, PendingOK',
         UNCHANGED <<token, focus, entry, observed, due>>,
         joined' \subseteq Families, url' \in DOMAIN AppRouter,
         writes' \in Nat, writes' >= writes
  PROVE  RestOK' /\ PendingOK' /\ EntriesOK'
<1>1. Cached' = Cached
  BY CachedStays
<1>2. RestOK'
  BY <1>1 DEF RestOK
<1>3. EntryOf(writes) \subseteq EntryOf(writes')
  <2>1. writes \in Nat
    BY DEF RestOK
  <2>2. 0..writes \cup {Null} \subseteq 0..writes' \cup {Null}
    BY <2>1
  <2> QED BY <2>2 DEF EntryOf
<1>4. EntriesOK'
  BY <1>1, <1>3 DEF EntriesOK, EntryOK
<1> QED BY <1>2, <1>4

LEMMA VisitStep ==
  ASSUME RestOK, PendingOK, EntriesOK, Visit
  PROVE  RestOK' /\ PendingOK' /\ EntriesOK'
<1>1. PICK page \in Visited(focus), f \in joined \cup {token} : Goto(page, f)
  BY DEF Visit
<1>2. f \in Families /\ page \in FamilyPages \cup GlobalPages
  BY VisitedAssumption DEF RestOK
<1>3. url' \in DOMAIN AppRouter
  BY <1>1, <1>2 DEF Goto, AppRouter
<1>4. UNCHANGED <<joined, writes, token, focus, entry, observed, pending, due>>
  BY DEF Visit
<1>5. PendingOK'
  BY <1>4 DEF PendingOK, Seen
<1> QED BY <1>3, <1>4, <1>5, OutsideStep DEF RestOK

LEMMA ReloadStep ==
  ASSUME RestOK, PendingOK, EntriesOK, Reload
  PROVE  RestOK' /\ PendingOK' /\ EntriesOK'
<1>1. /\ UNCHANGED <<joined, writes, token, url, focus, due>>
      /\ entry' = [k \in Cached |-> NoEntry] /\ observed' = {}
      /\ pending' = Null
  BY DEF Reload
<1>2. Cached' = Cached /\ writes \in Nat
  BY <1>1, CachedStays DEF RestOK
<1>3. \A k \in Cached : EntryOK(NoEntry, k, focus, writes, due, token)
  BY <1>2, NoEntryOK
<1>4. NoEntry \in EntryOf(writes)
  BY <1>2 DEF NoEntry, EntryOf
<1>5. RestOK' /\ PendingOK'
  BY <1>1, <1>2 DEF RestOK, PendingOK
<1>6. EntriesOK'
  BY <1>1, <1>2, <1>3, <1>4 DEF EntriesOK
<1> QED BY <1>5, <1>6

\* What the mutations are that do more than write and refresh.
LEMMA HookFacts ==
  ASSUME NEW h \in Hooks
  PROVE  /\ h.name \in {"createFamily", "switchFamily"} =>
              h.family \in Families /\ useSwitchFamily(h.family) \in Hooks
         /\ h.name = "switchFamily" => <<"family">> \in h.refreshes
         /\ h.name = "updateLanguage" => h.family \in Scopes
<1>0. \A f \in Families : useSwitchFamily(f) \in Hooks
  BY DEF Hooks, FamilyHooks
<1>1. ASSUME NEW f \in Families, h \in FamilyHooks(f)
      PROVE  /\ h.name \in {"createFamily", "switchFamily"} => h.family = f
             /\ h.name = "switchFamily" => <<"family">> \in h.refreshes
             /\ h.name # "updateLanguage"
  <2>1. CASE h = useCreateFamily(f) \/ h = useSwitchFamily(f)
    BY <2>1 DEF useCreateFamily, useSwitchFamily, Mutation
  <2>2. CASE h \notin {useCreateFamily(f), useSwitchFamily(f)}
    <3>1. h.name \in {"createTransaction", "updateTransaction",
                      "deleteTransaction", "updateAccount", "createCategory",
                      "updateCategory", "deleteCategory", "createBudget",
                      "updateBudget", "deleteBudget", "deleteFamily",
                      "inviteMember", "removeMember", "leaveFamily",
                      "executeImport"}
      <4>1. h \in {useCreateTransaction(f), useUpdateTransaction(f),
                  useDeleteTransaction(f), useUpdateAccount(f),
                  useCreateCategory(f), useUpdateCategory(f),
                  useDeleteCategory(f), useCreateBudget(f),
                  useUpdateBudget(f), useDeleteBudget(f), useDeleteFamily(f),
                  useInviteMember(f), useRemoveMember(f), useLeaveFamily(f),
                  useExecuteImport(f)}
        BY <1>1, <2>2, Zenon DEF FamilyHooks
      <4>2. /\ useCreateTransaction(f).name = "createTransaction"
            /\ useUpdateTransaction(f).name = "updateTransaction"
            /\ useDeleteTransaction(f).name = "deleteTransaction"
            /\ useUpdateAccount(f).name = "updateAccount"
            /\ useCreateCategory(f).name = "createCategory"
            /\ useUpdateCategory(f).name = "updateCategory"
            /\ useDeleteCategory(f).name = "deleteCategory"
            /\ useCreateBudget(f).name = "createBudget"
            /\ useUpdateBudget(f).name = "updateBudget"
            /\ useDeleteBudget(f).name = "deleteBudget"
            /\ useDeleteFamily(f).name = "deleteFamily"
            /\ useInviteMember(f).name = "inviteMember"
            /\ useRemoveMember(f).name = "removeMember"
            /\ useLeaveFamily(f).name = "leaveFamily"
            /\ useExecuteImport(f).name = "executeImport"
        BY DEF Mutation,
              useCreateTransaction, useUpdateTransaction,
              useDeleteTransaction, useUpdateAccount, useCreateCategory,
              useUpdateCategory, useDeleteCategory, useCreateBudget,
              useUpdateBudget, useDeleteBudget, useDeleteFamily,
              useInviteMember, useRemoveMember, useLeaveFamily,
              useExecuteImport
      <4> QED BY <4>1, <4>2, Zenon
    <3> QED BY <3>1
  <2> QED BY <2>1, <2>2
<1>2. ASSUME NEW f \in Scopes, h \in AnyHooks(f)
      PROVE  /\ h.name \notin {"createFamily", "switchFamily"}
             /\ h.name = "updateLanguage" => h.family = f
  <2>1. h \in {useCreateAccount(f), useDeleteAccount(f),
              useCreateAccountShare(f), useUpdateAccountShare(f),
              useDeleteAccountShare(f), useLanguage(f)}
    BY <1>2, Zenon DEF AnyHooks
  <2>2. /\ useCreateAccount(f).family = f
        /\ useCreateAccount(f).name = "createAccount"
        /\ useDeleteAccount(f).family = f
        /\ useCreateAccountShare(f).family = f
        /\ useCreateAccountShare(f).name = "createAccountShare"
        /\ useUpdateAccountShare(f).family = f
        /\ useUpdateAccountShare(f).name = "updateAccountShare"
        /\ useDeleteAccountShare(f).family = f
        /\ useDeleteAccountShare(f).name = "deleteAccountShare"
        /\ useLanguage(f).family = f
        /\ useLanguage(f).name = "updateLanguage"
        /\ useDeleteAccount(f).name \in {"deleteAccount", "removeAccount"}
    BY DEF Mutation, useCreateAccount, useDeleteAccount,
       useCreateAccountShare, useUpdateAccountShare, useDeleteAccountShare,
       useLanguage
  <2>3. /\ h.family = f
        /\ h.name \in {"createAccount", "deleteAccount", "removeAccount",
                      "createAccountShare", "updateAccountShare",
                      "deleteAccountShare", "updateLanguage"}
    BY <2>1, <2>2, Zenon
  <2> QED BY <2>3
<1>3. \/ \E f \in Families : h \in FamilyHooks(f)
      \/ \E f \in Scopes : h \in AnyHooks(f)
  BY Zenon DEF Hooks
<1> QED BY <1>0, <1>1, <1>2, <1>3

LEMMA SentOK ==
  ASSUME NEW h \in Hooks, token \in Families, pending' = Sent(h)
  PROVE  PendingOK'
BY DEF PendingOK, Sent, Seen

LEMMA MutationStep ==
  ASSUME RestOK, PendingOK, EntriesOK, Mutate \/ Apply \/ GiveUp
  PROVE  RestOK' /\ PendingOK' /\ EntriesOK'
<1>1. CASE Mutate
  <2>1. PICK h \in OnScreen.offers : pending' = Sent(h)
    BY <1>1 DEF Mutate
  <2>2. h \in Hooks /\ token \in Families
    BY OnScreenOffers DEF RestOK, Offered
  <2>3. PendingOK'
    BY <2>1, <2>2, SentOK
  <2>4. UNCHANGED <<joined, writes, token, url, focus, entry, observed, due>>
    BY <1>1 DEF Mutate
  <2> QED BY <2>3, <2>4, OutsideStep DEF RestOK
<1>2. CASE Apply
  <2> DEFINE h == pending.hook
  <2>1. /\ UNCHANGED <<token, url, focus, entry, observed, due>>
        /\ writes' \in Nat /\ writes' >= writes
        /\ pending # Null
        /\ pending' = [pending EXCEPT !.at = writes', !.done = "applied"]
    BY <1>2 DEF Apply, RestOK
  <2>2. /\ pending \in [hook : Hooks, tok : Families, at : Seen,
                        done : {"sent", "applied"}]
        /\ h \in Hooks
    BY <2>1 DEF PendingOK
  <2>3. writes' \in Seen' /\ writes' \in due'..writes'
    BY <2>1 DEF Seen, RestOK
  <2>4. PendingOK'
    BY <2>1, <2>2, <2>3 DEF PendingOK
  <2>5. joined' \subseteq Families
    <3>1. h.name = "createFamily" => h.family \in Families
      BY <2>2, HookFacts
    <3> QED BY <1>2, <3>1 DEF Apply, RestOK
  <2> QED BY <2>1, <2>4, <2>5, OutsideStep DEF RestOK
<1>3. CASE GiveUp
  <2>1. /\ UNCHANGED <<joined, writes, token, url, focus, entry, observed, due>>
        /\ pending' = Null
    BY <1>3 DEF GiveUp
  <2>2. PendingOK'
    BY <2>1 DEF PendingOK
  <2> QED BY <2>1, <2>2, OutsideStep DEF RestOK
<1> QED BY <1>1, <1>2, <1>3

\* What the page shows of its own write is asked for again, or put in place.
LEMMA SettleStep ==
  ASSUME RestOK, PendingOK, EntriesOK, Settle
  PROVE  RestOK' /\ PendingOK' /\ EntriesOK'
<1> DEFINE h == pending.hook
           switched == h.name = "switchFamily"
           tok == IF switched THEN h.family ELSE token
           seeds(k) == h.name = "updateLanguage" /\ k = useSyncUserLanguage
<1>1. /\ UNCHANGED <<joined, writes, focus, observed>>
      /\ pending # Null /\ pending.done = "applied"
      /\ token' = tok
      /\ due' = IF Told(h, pending.tok) THEN pending.at ELSE due
      /\ entry' = [k \in Cached |->
                     CASE Matches(k, h.refreshes) -> Invalidated(k, tok)
                       [] seeds(k) -> Seeded(k)
                       [] OTHER -> entry[k]]
      /\ \/ switched /\ url' = <<"dashboard", h.family>>
         \/ url' = <<"families", "all">>
         \/ url' = url
      /\ \/ h.name = "createFamily" /\ pending' = Sent(useSwitchFamily(h.family))
         \/ pending' = Null
  BY DEF Settle
<1>2. /\ h \in Hooks /\ pending.tok \in Families
      /\ pending.at \in due..writes
  BY <1>1 DEF PendingOK
<1>3. /\ h.name \in {"createFamily", "switchFamily"} =>
              h.family \in Families /\ useSwitchFamily(h.family) \in Hooks
      /\ switched => <<"family">> \in h.refreshes
  BY <1>2, HookFacts
<1>4. /\ observed \subseteq Cached /\ writes \in Nat /\ token \in Families
      /\ due \in Nat /\ due <= writes /\ focus \in Keys
      /\ entry \in [Cached -> EntryOf(writes)]
      /\ \A k \in Cached : EntryOK(entry[k], k, focus, writes, due, token)
  BY WatchedAssumption DEF RestOK, EntriesOK
<1>5. tok \in Families
  BY <1>3, <1>4
<1>6. pending.at \in Nat /\ due' \in 0..writes /\ due' <= pending.at
  BY <1>1, <1>2, <1>4
<1>7. PendingOK'
  BY <1>1, <1>3, <1>4, SentOK DEF PendingOK
<1>8. url' \in DOMAIN AppRouter
  <2>1. /\ \A f \in Families : <<"dashboard", f>> \in DOMAIN AppRouter
        /\ <<"families", "all">> \in DOMAIN AppRouter
    BY DEF AppRouter, FamilyPages, GlobalPages
  <2>2. url \in DOMAIN AppRouter
    BY DEF RestOK
  <2> QED BY <1>1, <1>3, <2>1, <2>2
<1>9. Cached' = Cached
  BY <1>1, CachedStays
<1>10. RestOK'
  BY <1>1, <1>5, <1>6, <1>8, <1>9 DEF RestOK
\* The three ways of an entry.
<1>11. ASSUME NEW k \in Cached, Matches(k, h.refreshes),
              entry'[k] = Invalidated(k, tok)
       PROVE  EntryOK(entry'[k], k, focus, writes, due', tok)
  BY <1>4, <1>5, <1>11, InvalidatedOK
<1>12. ASSUME NEW k \in Cached, seeds(k), entry'[k] = Seeded(k)
       PROVE  EntryOK(entry'[k], k, focus, writes, due', tok)
  <2> DEFINE e == entry[k]
             answer == [of |-> "all", upTo |-> pending.at]
             n == [e EXCEPT !.data = answer, !.stale = FALSE, !.failed = FALSE,
                            !.late = e.fetch # Null]
  <2>1. e \in EntryOf(writes)
    BY <1>4
  <2>2. answer \in [of : Scopes, upTo : 0..writes \cup {Null}]
          /\ answer.upTo = pending.at
    BY <1>2, <1>4 DEF Scopes
  <2>3. (e.fetch # Null) \in BOOLEAN
    OBVIOUS
  <2>4. /\ n \in EntryOf(writes) /\ n.data = answer /\ ~n.stale
        /\ n.fetch = e.fetch /\ n.late = (e.fetch # Null)
    <3> HIDE DEF answer
    <3> QED BY <2>1, <2>2, <2>3 DEF EntryOf
  <2>5. entry'[k] = n
    BY <1>12 DEF Seeded
  <2> HIDE DEF n
  <2>6. Shown(n, due')
    BY <1>6, <2>2, <2>4 DEF Shown
  <2>7. \A f \in Families : k # useFamilyById(f)
    <3>1. useSyncUserLanguage[1] = "currentUser"
      BY DEF useSyncUserLanguage
    <3>2. \A f \in Families : useFamilyById(f)[1] = "family"
      BY DEF useFamilyById
    <3> QED BY <1>12, <3>1, <3>2
  <2>8. EntryOK(n, k, focus, writes, due', tok)
    BY <2>4, <2>6, <2>7 DEF EntryOK
  <2> QED BY <2>5, <2>8
<1>13. ASSUME NEW k \in Cached, ~ Matches(k, h.refreshes), ~ seeds(k),
              entry'[k] = entry[k]
       PROVE  EntryOK(entry'[k], k, focus, writes, due', tok)
  <2>1. EntryOK(entry[k], k, focus, writes, due, token)
    BY <1>4
  <2>2. k = focus => due' = due
    <3> SUFFICES ASSUME k = focus, Told(h, pending.tok) PROVE FALSE
      BY <1>1
    <3>1. Due(h, k)
      BY DEF Told, Due
    <3> QED BY <1>2, <1>4, <1>13, <3>1, HooksRefresh
  <2>3. ASSUME NEW f \in Families, k = useFamilyById(f) PROVE tok = token
    <3>1. k \in Seq(Scopes \cup Words) /\ Len(k) = 2 /\ k[1] = "family"
      BY <2>3, FamilyKey, Zenon DEF IsKey
    <3>2. <<"family">> \in h.refreshes => Matches(k, h.refreshes)
      BY <3>1, MatchesFirst
    <3> QED BY <1>3, <1>13, <3>2
  <2> QED BY <1>13, <2>1, <2>2, <2>3 DEF EntryOK
<1>14. \A k \in Cached : EntryOK(entry'[k], k, focus, writes, due', tok)
  <2> SUFFICES ASSUME NEW k \in Cached
               PROVE  EntryOK(entry'[k], k, focus, writes, due', tok)
    OBVIOUS
  <2>1. \/ Matches(k, h.refreshes) /\ entry'[k] = Invalidated(k, tok)
        \/ seeds(k) /\ entry'[k] = Seeded(k)
        \/ ~ Matches(k, h.refreshes) /\ ~ seeds(k) /\ entry'[k] = entry[k]
    <3> HIDE DEF seeds, tok
    <3> QED BY <1>1
  <2> QED BY <1>11, <1>12, <1>13, <2>1
<1>15. entry' \in [Cached -> EntryOf(writes)]
  <2>1. \A k \in Cached : entry'[k] \in EntryOf(writes)
    BY <1>14 DEF EntryOK
  <2> QED BY <1>1, <2>1
<1>16. EntriesOK'
  BY <1>1, <1>9, <1>14, <1>15 DEF EntriesOK
<1> QED BY <1>7, <1>10, <1>16

-----------------------------------------------------------------------------
(* The theorems *)

LEMMA Initially == Init => CacheInv
<1> SUFFICES ASSUME Init PROVE CacheInv
  OBVIOUS
<1>1. /\ focus \in Watched /\ joined = Joined(focus) /\ token \in joined
      /\ url = <<"dashboard", token>> /\ entry = [k \in Cached |-> NoEntry]
      /\ observed = {} /\ pending = Null /\ writes = 0 /\ due = 0
  BY DEF Init
<1>2. joined \subseteq Families /\ token \in Families
  BY <1>1, JoinedAssumption
<1>3. RestOK /\ PendingOK
  <2>1. url \in DOMAIN AppRouter
    BY <1>1, <1>2 DEF AppRouter, FamilyPages
  <2>2. due \in 0..writes /\ writes \in Nat
    BY <1>1
  <2> QED BY <1>1, <1>2, <2>1, <2>2 DEF RestOK, PendingOK
<1>4. \A k \in Cached : EntryOK(NoEntry, k, focus, writes, due, token)
  BY <1>1, NoEntryOK
<1>5. NoEntry \in EntryOf(writes)
  BY <1>1 DEF NoEntry, EntryOf
<1>6. EntriesOK
  BY <1>1, <1>4, <1>5 DEF EntriesOK
<1> QED BY <1>3, <1>6, ByEntry

LEMMA Inductive == CacheInv /\ [Next]_vars => CacheInv'
<1> SUFFICES ASSUME CacheInv, [Next]_vars PROVE CacheInv'
  OBVIOUS
<1>1. RestOK /\ PendingOK /\ EntriesOK
  BY ByEntry
<1>2. RestOK' /\ PendingOK' /\ EntriesOK' => CacheInv'
  BY ByEntry, PTL
<1>3. CASE \/ Render \/ OpenDialog \/ CloseDialog \/ Serve
           \/ \E k \in Cached : Expire(k) \/ Collect(k) \/ Arrive(k) \/ LoseAnswer(k)
  BY <1>1, <1>2, <1>3, CacheStep
<1>4. CASE Visit \/ Reload
  BY <1>1, <1>2, <1>4, VisitStep, ReloadStep
<1>5. CASE Mutate \/ Apply \/ GiveUp
  BY <1>1, <1>2, <1>5, MutationStep
<1>6. CASE Settle
  BY <1>1, <1>2, <1>6, SettleStep
<1>7. CASE UNCHANGED vars
  <2>1. PendingOK' /\ observed' \subseteq Cached
    BY <1>1, <1>7 DEF vars, PendingOK, Seen, RestOK
  <2> QED BY <1>1, <1>2, <1>7, <2>1, EntryStep DEF vars, EntriesOK
<1> QED BY <1>3, <1>4, <1>5, <1>6, <1>7 DEF Next

\* The whole invariant, for any number of families, keys, pages and writes.
THEOREM Invariance == Spec => []CacheInv
  BY Initially, Inductive, PTL DEF Spec

\* The page is always one of the routes, the cache holds what the API answers,
\* and nothing is stale before it has been fetched (queryClient, AppRouter).
THEOREM TypeCorrect == Spec => []TypeOK
<1>1. CacheInv => TypeOK
  BY DEF CacheInv
<1> QED BY Invariance, <1>1, PTL

\* What the cache calls fresh has seen the user's own writes: each hook's
\* onSuccess asks again for every key that shows what it writes, the listed
\* gaps apart, whatever page is open by then and however answers overlap.
THEOREM OwnWrites == Spec => []OwnWritesShown
<1>1. CacheInv => OwnWritesShown
  BY DEF CacheInv, ShownOK, OwnWritesShown, Fresh
<1> QED BY Invariance, <1>1, PTL

\* FamilyGuard may take a fresh answer of GET /tenants/:id as a sign of whose
\* token is in localStorage, because useSwitchFamily has the guard's keys
\* fetched again with the new token.
THEOREM GuardTells == Spec => []GuardTellsToken
<1>1. CacheInv => GuardTellsToken
  BY DEF CacheInv
<1> QED BY Invariance, <1>1, PTL

-----------------------------------------------------------------------------
(* What is on screen and behind the times is being asked for *)

\* A mounted entry that waits for nothing, has not failed and is not late has
\* seen what is due, and the guard's is of the token's family.
Asked(e, k, followed, d, tok, mounted) ==
  /\ k = followed /\ e.data # Null => e.data.upTo \in Nat
  /\ k \in mounted /\ e.data # Null /\ e.fetch = Null /\ ~e.failed /\ ~e.late =>
       /\ k = followed => e.data.upTo >= d
       /\ \A f \in Families : k = useFamilyById(f) => tok = f

AskedOK == \A k \in Cached : Asked(entry[k], k, focus, due, token, observed)

LEMMA FailsAsks ==
  ASSUME NEW k \in Cached, Fails(k), entry \in [Cached -> EntryOf(writes)],
         token \in Families
  PROVE  /\ entry'[k].data = entry[k].data
         /\ entry'[k].fetch # Null \/ entry'[k].failed
         /\ \A i \in Cached \ {k} : entry'[i] = entry[i]
<1> DEFINE e == entry[k]
           asked == [e EXCEPT !.fetch = Ask(token, 0)]
           failed == [e EXCEPT !.fetch = Null, !.failed = TRUE, !.late = FALSE]
<1>1. asked.data = e.data /\ asked.fetch = Ask(token, 0)
  BY DEF EntryOf
<1>2. failed.data = e.data /\ failed.failed = TRUE
  BY DEF EntryOf
<1>3. Ask(token, 0) # Null
  BY NullAssumption DEF Ask
<1>4. entry' = [entry EXCEPT ![k] = IF e.fetch.retries > 0 THEN asked ELSE failed]
  BY DEF Fails
<1> HIDE DEF asked, failed
<1> QED BY <1>1, <1>2, <1>3, <1>4

LEMMA ObserveAsks ==
  ASSUME RestOK, EntriesOK, AskedOK, NEW keys \in SUBSET Cached, Observe(keys),
         UNCHANGED <<token, focus, due>>
  PROVE  AskedOK'
<1>1. Cached' = Cached
  BY CachedStays
<1> SUFFICES ASSUME NEW k \in Cached
             PROVE  Asked(entry'[k], k, focus, due, token, observed')
  BY <1>1 DEF AskedOK
<1>2. /\ Asked(entry[k], k, focus, due, token, observed)
      /\ EntryOK(entry[k], k, focus, writes, due, token)
  BY DEF AskedOK, EntriesOK
<1>3. CASE k \in observed' \ observed /\ WantsFetch(entry[k])
  <2>1. entry'[k] = Fetching(entry[k], token)
    BY <1>3 DEF Observe
  <2>2. entry'[k].data = entry[k].data /\ entry'[k].fetch = Ask(token, 1)
    BY <2>1, <1>2 DEF Fetching, EntryOK, EntryOf
  <2>3. Ask(token, 1) # Null
    BY NullAssumption DEF Ask, RestOK
  <2> QED BY <1>2, <2>2, <2>3 DEF Asked
<1>4. CASE k \in observed' \ observed /\ ~ WantsFetch(entry[k])
  <2>1. entry'[k] = entry[k]
    BY <1>4 DEF Observe
  <2> QED BY <1>2, <1>4, <2>1 DEF Asked, EntryOK, Shown, Guarded, WantsFetch
<1>5. CASE k \notin observed' \ observed
  <2>1. entry'[k] = entry[k]
    BY <1>5 DEF Observe
  <2> QED BY <1>2, <1>5, <2>1 DEF Asked
<1> QED BY <1>3, <1>4, <1>5

\* The other steps that touch one entry.
LEMMA AsksStep ==
  ASSUME AskedOK, UNCHANGED <<token, focus, due, observed>>, NEW k \in Cached,
         \A i \in Cached \ {k} : entry'[i] = entry[i],
         Asked(entry'[k], k, focus, due, token, observed)
  PROVE  AskedOK'
<1>1. Cached' = Cached
  BY CachedStays
<1>2. \A i \in Cached : Asked(entry'[i], i, focus, due, token, observed)
  <2> SUFFICES ASSUME NEW i \in Cached, i # k
               PROVE  Asked(entry'[i], i, focus, due, token, observed)
    OBVIOUS
  <2>1. entry'[i] = entry[i] /\ Asked(entry[i], i, focus, due, token, observed)
    BY DEF AskedOK
  <2> QED BY <2>1
<1> QED BY <1>1, <1>2 DEF AskedOK

LEMMA CacheAsks ==
  ASSUME RestOK, EntriesOK, AskedOK,
         \/ Serve
         \/ \E k \in Cached : Expire(k) \/ Collect(k) \/ Arrive(k) \/ LoseAnswer(k)
  PROVE  AskedOK'
<1>1. /\ writes \in Nat /\ token \in Families /\ focus \in Cached
      /\ entry \in [Cached -> EntryOf(writes)]
      /\ \A k \in Cached : /\ EntryOK(entry[k], k, focus, writes, due, token)
                           /\ Asked(entry[k], k, focus, due, token, observed)
  BY DEF RestOK, EntriesOK, AskedOK, Cached
<1>2. CASE Serve
  <2> DEFINE e == entry[focus]
             r == [e.fetch EXCEPT !.upTo = writes]
             n == [e EXCEPT !.fetch = r]
  <2>1. /\ e.fetch # Null /\ entry' = [entry EXCEPT ![focus] = n]
        /\ UNCHANGED <<token, focus, due, observed>>
    BY <1>2 DEF Serve
  <2>2. e \in EntryOf(writes)
    BY <1>1
  <2>3. r \in [tok : Families, retries : 0..1, upTo : Nat \cup {Null}]
    BY <1>1, <2>1, <2>2 DEF EntryOf
  <2>4. r # Null
    BY <2>3, NullAssumption
  <2>5. n.data = e.data /\ n.fetch = r
    <3> HIDE DEF r
    <3> QED BY <2>2 DEF EntryOf
  <2> HIDE DEF n, r
  <2>6. entry'[focus] = n /\ \A i \in Cached \ {focus} : entry'[i] = entry[i]
    BY <1>1, <2>1
  <2>7. Asked(n, focus, focus, due, token, observed)
    BY <1>1, <2>4, <2>5 DEF Asked
  <2> QED BY <1>1, <2>1, <2>6, <2>7, AsksStep
\* What expires was fresh: it has seen what is due.
<1>3. ASSUME NEW k \in Cached, Expire(k) PROVE AskedOK'
  <2> DEFINE e == entry[k]
             n == [e EXCEPT !.stale = TRUE]
  <2>1. /\ e.data # Null /\ ~e.stale /\ entry' = [entry EXCEPT ![k] = n]
        /\ UNCHANGED <<token, focus, due, observed>>
    BY <1>3 DEF Expire
  <2>2. /\ n.data = e.data /\ n.fetch = e.fetch /\ n.failed = e.failed
        /\ n.late = e.late
    BY <1>1 DEF EntryOf
  <2> HIDE DEF n
  <2>3. entry'[k] = n /\ \A i \in Cached \ {k} : entry'[i] = entry[i]
    BY <1>1, <2>1
  <2>4. Asked(n, k, focus, due, token, observed)
    BY <1>1, <2>1, <2>2 DEF Asked
  <2> QED BY <2>1, <2>3, <2>4, AsksStep
<1>4. ASSUME NEW k \in Cached, Collect(k) PROVE AskedOK'
  <2>1. /\ entry' = [entry EXCEPT ![k] = NoEntry]
        /\ UNCHANGED <<token, focus, due, observed>>
    BY <1>4 DEF Collect
  <2>2. entry'[k] = NoEntry /\ \A i \in Cached \ {k} : entry'[i] = entry[i]
    BY <1>1, <2>1
  <2>3. Asked(NoEntry, k, focus, due, token, observed)
    BY DEF Asked, NoEntry
  <2> QED BY <2>1, <2>2, <2>3, AsksStep
<1>5. ASSUME NEW k \in Cached, Fails(k), UNCHANGED <<token, focus, due, observed>>
      PROVE  AskedOK'
  <2>1. /\ entry'[k].data = entry[k].data
        /\ entry'[k].fetch # Null \/ entry'[k].failed
        /\ \A i \in Cached \ {k} : entry'[i] = entry[i]
    BY <1>1, <1>5, FailsAsks
  <2>2. Asked(entry'[k], k, focus, due, token, observed)
    BY <1>1, <2>1 DEF Asked
  <2> QED BY <1>5, <2>1, <2>2, AsksStep
<1>6. ASSUME NEW k \in Cached, LoseAnswer(k) PROVE AskedOK'
  BY <1>5, <1>6 DEF LoseAnswer
\* An answer that is not late was asked for after what is due was, with the
\* token there is now.
<1>7. ASSUME NEW k \in Cached, Arrive(k) PROVE AskedOK'
  <2> DEFINE e == entry[k]
             of == Answers(k, e.fetch.tok)
             answer == [of |-> of, upTo |-> e.fetch.upTo]
             n == [e EXCEPT !.data = answer, !.stale = FALSE, !.failed = FALSE,
                            !.fetch = Null]
  <2>1. /\ e.fetch # Null /\ (k = focus => e.fetch.upTo # Null)
        /\ UNCHANGED <<token, focus, due, observed>>
        /\ Fails(k) \/ (of # "refused" /\ entry' = [entry EXCEPT ![k] = n])
    BY <1>7 DEF Arrive
  <2>2. CASE Fails(k)
    BY <1>5, <2>1, <2>2
  <2>3. CASE of # "refused" /\ entry' = [entry EXCEPT ![k] = n]
    <3>1. e \in EntryOf(writes) /\ EntryOK(e, k, focus, writes, due, token)
      BY <1>1
    <3>2. e.fetch.tok \in Families /\ e.fetch.upTo \in 0..writes \cup {Null}
      BY <2>1, <3>1 DEF EntryOf
    <3>3. \A f \in Families : k = useFamilyById(f) => f = e.fetch.tok
      BY <2>3, <3>2, AnswersOf
    <3>4. answer.upTo = e.fetch.upTo
      OBVIOUS
    <3>5. n.data = answer /\ n.fetch = Null /\ n.late = e.late
      <4> HIDE DEF answer
      <4> QED BY <3>1 DEF EntryOf
    <3> HIDE DEF n, answer
    <3>6. entry'[k] = n /\ \A i \in Cached \ {k} : entry'[i] = entry[i]
      BY <1>1, <2>3
    <3>7. k = focus => n.data.upTo \in Nat /\ (~n.late => n.data.upTo >= due)
      BY <1>1, <2>1, <3>1, <3>2, <3>4, <3>5 DEF EntryOK, Shown
    <3>8. \A f \in Families : k = useFamilyById(f) /\ ~n.late => token = f
      BY <2>1, <3>1, <3>3, <3>5 DEF EntryOK, Guarded
    <3>9. Asked(n, k, focus, due, token, observed)
      BY <3>7, <3>8 DEF Asked
    <3> QED BY <2>1, <3>6, <3>9, AsksStep
  <2> QED BY <2>1, <2>2, <2>3
<1> QED BY <1>2, <1>3, <1>4, <1>6, <1>7

\* What is mounted and asked for again is fetched; the rest has seen what is due
\* or has to do with neither focus nor the guard.
LEMMA SettleAsks ==
  ASSUME RestOK, PendingOK, EntriesOK, AskedOK, Settle
  PROVE  AskedOK'
<1> DEFINE h == pending.hook
           switched == h.name = "switchFamily"
           tok == IF switched THEN h.family ELSE token
           seeds(k) == h.name = "updateLanguage" /\ k = useSyncUserLanguage
<1>1. /\ UNCHANGED <<writes, focus, observed>>
      /\ pending # Null /\ pending.done = "applied"
      /\ token' = tok
      /\ due' = IF Told(h, pending.tok) THEN pending.at ELSE due
      /\ entry' = [k \in Cached |->
                     CASE Matches(k, h.refreshes) -> Invalidated(k, tok)
                       [] seeds(k) -> Seeded(k)
                       [] OTHER -> entry[k]]
  BY DEF Settle
<1>2. h \in Hooks /\ pending.at \in due..writes
  BY <1>1 DEF PendingOK
<1>3. /\ switched => h.family \in Families
      /\ switched => <<"family">> \in h.refreshes
  BY <1>2, HookFacts
<1>4. /\ writes \in Nat /\ token \in Families
      /\ due \in Nat /\ due <= writes /\ focus \in Keys
      /\ \A k \in Cached : /\ EntryOK(entry[k], k, focus, writes, due, token)
                           /\ Asked(entry[k], k, focus, due, token, observed)
  BY WatchedAssumption DEF RestOK, EntriesOK, AskedOK
<1>5. tok \in Families /\ pending.at \in Nat /\ due' <= pending.at
  BY <1>1, <1>2, <1>3, <1>4
<1>6. Cached' = Cached
  BY <1>1, CachedStays
<1> SUFFICES ASSUME NEW k \in Cached
             PROVE  Asked(entry'[k], k, focus, due', tok, observed)
  BY <1>1, <1>6 DEF AskedOK
<1> DEFINE e == entry[k]
<1>7. e \in EntryOf(writes) /\ Asked(e, k, focus, due, token, observed)
  BY <1>4 DEF EntryOK
<1>8. ASSUME entry'[k] = Invalidated(k, tok)
      PROVE  Asked(entry'[k], k, focus, due', tok, observed)
  <2> DEFINE marked == [e EXCEPT !.stale = e.data # Null, !.late = e.fetch # Null]
             anew == Fetching(marked, tok)
  <2>1. /\ marked.data = e.data /\ marked.fetch = e.fetch
        /\ marked.late = (e.fetch # Null) /\ marked \in EntryOf(writes)
    <3>1. (e.data # Null) \in BOOLEAN /\ (e.fetch # Null) \in BOOLEAN
      OBVIOUS
    <3> QED BY <1>7, <3>1 DEF EntryOf
  <2>2. Invalidated(k, tok) = IF k \in observed /\ (e.data # Null \/ e.fetch = Null)
                              THEN anew ELSE marked
    BY DEF Invalidated
  <2>3. anew.data = e.data /\ anew.fetch = Ask(tok, 1)
    <3> HIDE DEF marked
    <3> QED BY <2>1 DEF Fetching, EntryOf
  <2>4. Ask(tok, 1) # Null
    BY <1>5, NullAssumption DEF Ask
  <2> HIDE DEF anew, marked
  <2>5. Asked(anew, k, focus, due', tok, observed)
    BY <1>7, <2>3, <2>4 DEF Asked
  <2>6. k \in observed => Asked(entry'[k], k, focus, due', tok, observed)
    <3>1. CASE e.data # Null \/ e.fetch = Null
      BY <1>8, <2>2, <2>5, <3>1
    <3>2. CASE e.data = Null
      <4>1. entry'[k].data = Null
        BY <1>8, <2>1, <2>2, <2>3, <3>2
      <4> QED BY <4>1 DEF Asked
    <3> QED BY <3>1, <3>2
  <2>7. k \notin observed => Asked(entry'[k], k, focus, due', tok, observed)
    BY <1>7, <1>8, <2>1, <2>2 DEF Asked
  <2> QED BY <2>6, <2>7
<1>9. ASSUME seeds(k), entry'[k] = Seeded(k)
      PROVE  Asked(entry'[k], k, focus, due', tok, observed)
  <2>1. Seeded(k).data.upTo = pending.at
    BY <1>7 DEF Seeded, EntryOf
  <2>2. \A f \in Families : k # useFamilyById(f)
    <3>1. useSyncUserLanguage[1] = "currentUser"
      BY DEF useSyncUserLanguage
    <3>2. \A f \in Families : useFamilyById(f)[1] = "family"
      BY DEF useFamilyById
    <3> QED BY <1>9, <3>1, <3>2
  <2>3. due' \in Nat
    BY <1>1, <1>4, <1>5
  <2>4. entry'[k].data.upTo \in Nat /\ entry'[k].data.upTo >= due'
    BY <1>5, <1>9, <2>1, <2>3
  <2> QED BY <2>2, <2>4 DEF Asked
<1>10. ASSUME ~ Matches(k, h.refreshes), ~ seeds(k), entry'[k] = e
       PROVE  Asked(entry'[k], k, focus, due', tok, observed)
  <2>1. k = focus => due' = due
    <3> SUFFICES ASSUME k = focus, Told(h, pending.tok) PROVE FALSE
      BY <1>1
    <3>1. Due(h, k)
      BY DEF Told, Due
    <3> QED BY <1>2, <1>4, <1>10, <3>1, HooksRefresh
  <2>2. ASSUME NEW f \in Families, k = useFamilyById(f) PROVE tok = token
    <3>1. k \in Seq(Scopes \cup Words) /\ Len(k) = 2 /\ k[1] = "family"
      BY <2>2, FamilyKey, Zenon DEF IsKey
    <3>2. <<"family">> \in h.refreshes => Matches(k, h.refreshes)
      BY <3>1, MatchesFirst
    <3> QED BY <1>3, <1>10, <3>2
  <2> HIDE DEF tok
  <2> QED BY <1>7, <1>10, <2>1, <2>2 DEF Asked
<1>11. \/ entry'[k] = Invalidated(k, tok)
       \/ seeds(k) /\ entry'[k] = Seeded(k)
       \/ ~ Matches(k, h.refreshes) /\ ~ seeds(k) /\ entry'[k] = e
  <2> HIDE DEF seeds, tok
  <2> QED BY <1>1
<1> QED BY <1>8, <1>9, <1>10, <1>11

LEMMA AsksInitially == Init => AskedOK
<1> SUFFICES ASSUME Init, NEW k \in Cached
             PROVE  Asked(entry[k], k, focus, due, token, observed)
  BY DEF AskedOK
<1>1. entry[k].data = Null
  BY DEF Init, NoEntry
<1> QED BY <1>1 DEF Asked

LEMMA AsksInductive == CacheInv /\ AskedOK /\ [Next]_vars => AskedOK'
<1> SUFFICES ASSUME CacheInv, AskedOK, [Next]_vars PROVE AskedOK'
  OBVIOUS
<1>1. RestOK /\ PendingOK /\ EntriesOK
  BY ByEntry
<1>2. ASSUME NEW keys \in SUBSET Cached, Observe(keys), UNCHANGED <<token, focus, due>>
      PROVE  AskedOK'
  BY <1>1, <1>2, ObserveAsks
<1>3. CASE Render
  <2>1. (observed \cap May) \cup Must \in SUBSET Cached
    BY DEF May, Must
  <2> QED BY <1>2, <1>3, <2>1 DEF Render
<1>4. CASE OpenDialog
  <2>1. PICK k \in May \ observed : Observe(observed \cup {k})
    BY <1>4 DEF OpenDialog
  <2>2. observed \cup {k} \in SUBSET Cached
    BY <1>1 DEF May, RestOK
  <2> QED BY <1>2, <1>4, <2>1, <2>2 DEF OpenDialog
<1>5. CASE CloseDialog
  <2>1. PICK k \in observed \ Must : Observe(observed \ {k})
    BY <1>5 DEF CloseDialog
  <2>2. observed \ {k} \in SUBSET Cached
    BY <1>1 DEF RestOK
  <2> QED BY <1>2, <1>5, <2>1, <2>2 DEF CloseDialog
<1>6. CASE \/ Serve
           \/ \E k \in Cached : Expire(k) \/ Collect(k) \/ Arrive(k) \/ LoseAnswer(k)
  BY <1>1, <1>6, CacheAsks
<1>7. CASE Reload
  <2>1. /\ Cached' = Cached /\ entry' = [k \in Cached |-> NoEntry]
    BY <1>7, CachedStays DEF Reload
  <2>2. \A k \in Cached' : entry'[k].data = Null
    BY <2>1 DEF NoEntry
  <2> QED BY <2>2 DEF AskedOK, Asked
<1>8. CASE UNCHANGED <<token, focus, entry, observed, due>>
  BY <1>8, CachedStays DEF AskedOK
<1>9. CASE Visit \/ Mutate \/ Apply \/ GiveUp
  BY <1>8, <1>9 DEF Visit, Mutate, Apply, GiveUp
<1>10. CASE Settle
  BY <1>1, <1>10, SettleAsks
<1>11. CASE UNCHANGED vars
  BY <1>8, <1>11 DEF vars
<1> QED BY <1>3, <1>4, <1>5, <1>6, <1>7, <1>9, <1>10, <1>11 DEF Next

LEMMA AsksAlways == Spec => [](CacheInv /\ AskedOK)
  BY Initially, Inductive, AsksInitially, AsksInductive, PTL DEF Spec

\* A list on screen that has not seen the user's own write is being fetched,
\* unless the last try failed: whatever Settle, a remount or the end of staleTime
\* does, no mounted query is left behind with nothing under way.  What
\* OwnWriteAppears adds is that the answer comes.
THEOREM BehindAsked == Spec => []BehindIsAsked
<1>1. CacheInv /\ AskedOK => BehindIsAsked
  <2> SUFFICES ASSUME CacheInv, AskedOK, Behind, entry[focus].fetch = Null,
                      ~ entry[focus].failed
               PROVE  FALSE
    BY DEF BehindIsAsked
  <2>1. focus \in Cached
    BY DEF Cached
  <2>2. /\ entry[focus].data.upTo \in Nat /\ entry[focus].data.upTo >= due
        /\ entry[focus].data.upTo < due
    BY <2>1 DEF AskedOK, Asked, Behind
  <2>3. due \in Nat
    BY DEF CacheInv, TypeOK
  <2> QED BY <2>2, <2>3
<1> QED BY AsksAlways, <1>1, PTL

\* While the pages of a family are open under the token of another, FamilyGuard's
\* query is being asked again, or is about to be mounted: neither a link, nor
\* Back and Forward, nor a switch leaves the guard content with what it holds.
\* What GuardCatchesUp adds is that the answer comes.
THEOREM AstrayAsked == Spec => []AstrayIsAsked
<1>1. CacheInv /\ AskedOK => AstrayIsAsked
  <2> SUFFICES ASSUME CacheInv, AskedOK, NEW f \in Families, Astray(f), Rendered
               PROVE  entry[useFamilyById(f)].fetch # Null
    BY DEF AstrayIsAsked
  <2> DEFINE k == useFamilyById(f)
  <2>1. k \in Cached
    BY DEF Cached
  <2>2. /\ url[2] = f /\ token # f /\ ~ entry[k].late
        /\ entry[k].data # Null /\ ~ entry[k].failed /\ FamilyGuard(url[2])
    BY DEF Astray, FamilyGuard
  \* A page of a family is framed by the guard, which asks for the family.
  <2>3. k \in OnScreen.mounts
    <3>1. url \in DOMAIN AppRouter
      BY DEF CacheInv, TypeOK
    <3>2. url \in FamilyPages \X Families
      BY <2>2, <3>1, FamiliesAssumption DEF AppRouter
    <3>3. url[1] \notin GlobalPages
      BY <3>2 DEF FamilyPages, GlobalPages
    <3>4. OnScreen = Both(Both(Guarding(f), FamilyProvider(f)),
                          Both(AppShell(f), AppRouter[url]))
      BY <2>2, <3>1, <3>3 DEF OnScreen, Framed
    <3>5. k \in Guarding(f).mounts
      BY DEF Guarding, Part
    <3>6. k \in Both(Guarding(f), FamilyProvider(f)).mounts
      BY <3>5 DEF Both
    <3> QED BY <3>4, <3>6 DEF Both
  <2>4. k \in observed
    BY <2>1, <2>3 DEF Rendered, Must
  <2> QED BY <2>1, <2>2, <2>4 DEF AskedOK, Asked
<1> QED BY AsksAlways, <1>1, PTL

-----------------------------------------------------------------------------
(* The gaps that are listed are the ones there are *)

\* An invalidation does not match a key that begins otherwise.
LEMMA MatchesNone ==
  ASSUME NEW S, NEW k \in Seq(S), NEW prefixes,
         \A p \in prefixes : Len(p) \in Nat /\ Len(p) >= 1 /\ p[1] # k[1]
  PROVE  ~ Matches(k, prefixes)
<1> SUFFICES ASSUME NEW p \in prefixes, Len(p) <= Len(k), SubSeq(k, 1, Len(p)) = p
             PROVE  FALSE
  BY DEF Matches
<1> DEFINE n == Len(p)
<1>1. n \in Nat /\ n >= 1 /\ n <= Len(k) /\ Len(k) \in Nat
  OBVIOUS
<1> HIDE DEF n
<1>2. \A i \in 1..n : k[i] \in S
  BY <1>1
<1>3. \A i \in 1..n : SubSeq(k, 1, n)[i] = k[i]
  BY <1>1, <1>2, SubSeqProperties
<1>4. SubSeq(k, 1, n)[1] = k[1]
  BY <1>1, <1>3
<1> QED BY <1>4 DEF n

Gap(name, fetched) ==
  \E h \in Hooks, k \in Keys :
    Forgets(h, k) /\ h.name = name /\ Fetches(k) = fetched

\* What a hook writes, and how the keys that it refreshes begin.
Writing(h, name, f, written, firsts) ==
  /\ h \in Hooks /\ h.name = name /\ h.family = f /\ written \subseteq h.writes
  /\ name # "updateLanguage"
  /\ \A p \in h.refreshes : Len(p) \in Nat /\ Len(p) >= 1 /\ p[1] \in firsts

LEMMA GapOf ==
  ASSUME NEW h \in Hooks, NEW k \in Keys, NEW what \in h.writes, what \in Shows(k),
         FamilyOf(k) = "all" \/ h.family = "all" \/ h.family = FamilyOf(k),
         h.name # "updateLanguage",
         \A p \in h.refreshes : Len(p) \in Nat /\ Len(p) >= 1 /\ p[1] # k[1]
  PROVE  Gap(h.name, Fetches(k))
<1>1. ~ Matches(k, h.refreshes)
  BY KeyKinds, MatchesNone
<1>2. Forgets(h, k)
  BY <1>1 DEF Forgets
<1> QED BY <1>2 DEF Gap


LEMMA GapKeys ==
  ASSUME NEW f \in Families
  PROVE  /\ IsKey(useTransactions(f, "page"), 3, "transactions", f, "transactions",
                  {"rows", "account names", "category names"})
         /\ IsKey(useAccounts(f), 2, "accounts", f, "accounts",
                  {"accounts", "account names", "balances", "shares"})
         /\ {useTransactions(f, "page"), useAccounts(f), useAccount,
             useAccountShares, useCategoryTransactionCount(f), useBudgets(f),
             useImportJobs(f)} \subseteq Keys
<1>1. f \in Scopes /\ f # "all"
  BY FamiliesAssumption DEF Scopes
<1>2. IsKey(useTransactions(f, "page"), 3, "transactions", f, "transactions",
            {"rows", "account names", "category names"})
  BY <1>1, TransactionsKey
<1>3. IsKey(useAccounts(f), 2, "accounts", f, "accounts",
            {"accounts", "account names", "balances", "shares"})
  <2>1. IsKey(useAccounts(f), 2, "accounts", f, "accounts",
              {"accounts", "account names", "balances", "shares"}
                \cup (IF f = "all" THEN {"own accounts"} ELSE {}))
    BY <1>1, AccountsKey
  <2>2. {"accounts", "account names", "balances", "shares"}
          \cup (IF f = "all" THEN {"own accounts"} ELSE {})
        = {"accounts", "account names", "balances", "shares"}
    BY <1>1
  <2> QED BY <2>1, <2>2
<1>4. {useTransactions(f, "page"), useAccounts(f), useAccount, useAccountShares,
       useCategoryTransactionCount(f), useBudgets(f), useImportJobs(f)} \subseteq Keys
  BY <1>1 DEF Keys
<1> QED BY <1>2, <1>3, <1>4

LEMMA HooksWrite ==
  ASSUME NEW f \in Families
  PROVE  /\ Writing(useCreateTransaction(f), "createTransaction", f,
                    {"rows", "balances"}, {"transactions"})
         /\ Writing(useUpdateTransaction(f), "updateTransaction", f,
                    {"rows", "balances"}, {"transactions"})
         /\ Writing(useDeleteTransaction(f), "deleteTransaction", f,
                    {"rows", "balances"}, {"transactions"})
         /\ Writing(useCreateAccountShare(f), "createAccountShare", f,
                    {"shares"}, {"accountShares"})
         /\ Writing(useUpdateAccountShare(f), "updateAccountShare", f,
                    {"shares"}, {"accountShares"})
         /\ Writing(useDeleteAccountShare(f), "deleteAccountShare", f,
                    {"shares"}, {"accountShares"})
         /\ Writing(useExecuteImport(f), "executeImport", f,
                    {"jobs", "rows", "balances"}, {})
         /\ Writing(useCreateCategory(f), "createCategory", f,
                    {"category names"}, {"categories"})
         /\ Writing(useUpdateCategory(f), "updateCategory", f,
                    {"category names"}, {"categories"})
         /\ Writing(useDeleteCategory(f), "deleteCategory", f,
                    {"category names", "rows"}, {"categories", "transactions"})
         /\ Writing(useRemoveMember(f), "removeMember", f,
                    {"members", "shares"}, {"members"})
         /\ Writing(useLeaveFamily(f), "leaveFamily", f,
                    {"families", "members", "shares"}, {"members", "families"})
         /\ Writing(useUpdateAccount(f), "updateAccount", f,
                    {"account names", "balances"}, {"account", "accounts"})
<1>1. f \in Scopes
  BY DEF Scopes
<1>2. Writing(useCreateTransaction(f), "createTransaction", f,
             {"rows", "balances"}, {"transactions"})
  <2>1. useCreateTransaction(f) \in Hooks
    BY <1>1 DEF Hooks, FamilyHooks
  <2> QED BY <2>1 DEF Writing, useCreateTransaction, Mutation
<1>3. Writing(useUpdateTransaction(f), "updateTransaction", f,
             {"rows", "balances"}, {"transactions"})
  <2>1. useUpdateTransaction(f) \in Hooks
    BY <1>1 DEF Hooks, FamilyHooks
  <2> QED BY <2>1 DEF Writing, useUpdateTransaction, Mutation
<1>4. Writing(useDeleteTransaction(f), "deleteTransaction", f,
             {"rows", "balances"}, {"transactions"})
  <2>1. useDeleteTransaction(f) \in Hooks
    BY <1>1 DEF Hooks, FamilyHooks
  <2> QED BY <2>1 DEF Writing, useDeleteTransaction, Mutation
<1>5. Writing(useCreateAccountShare(f), "createAccountShare", f,
             {"shares"}, {"accountShares"})
  <2>1. useCreateAccountShare(f) \in Hooks
    BY <1>1 DEF Hooks, AnyHooks
  <2> QED BY <2>1 DEF Writing, useCreateAccountShare, Mutation, useAccountShares
<1>6. Writing(useUpdateAccountShare(f), "updateAccountShare", f,
             {"shares"}, {"accountShares"})
  <2>1. useUpdateAccountShare(f) \in Hooks
    BY <1>1 DEF Hooks, AnyHooks
  <2> QED BY <2>1 DEF Writing, useUpdateAccountShare, Mutation, useAccountShares
<1>7. Writing(useDeleteAccountShare(f), "deleteAccountShare", f,
             {"shares"}, {"accountShares"})
  <2>1. useDeleteAccountShare(f) \in Hooks
    BY <1>1 DEF Hooks, AnyHooks
  <2> QED BY <2>1 DEF Writing, useDeleteAccountShare, Mutation, useAccountShares
<1>8. Writing(useExecuteImport(f), "executeImport", f,
             {"jobs", "rows", "balances"}, {})
  <2>1. useExecuteImport(f) \in Hooks
    BY <1>1 DEF Hooks, FamilyHooks
  <2> QED BY <2>1 DEF Writing, useExecuteImport, Mutation
<1>9. Writing(useCreateCategory(f), "createCategory", f,
             {"category names"}, {"categories"})
  <2>1. useCreateCategory(f) \in Hooks
    BY <1>1 DEF Hooks, FamilyHooks
  <2>2. useCreateCategory(f).refreshes = {<<"categories", f>>}
    BY DEF useCreateCategory, Mutation
  <2>3. /\ Len(<<"categories", f>>) \in Nat /\ Len(<<"categories", f>>) >= 1
        /\ <<"categories", f>>[1] \in {"categories"}
    OBVIOUS
  <2>4. \A p \in useCreateCategory(f).refreshes :
          Len(p) \in Nat /\ Len(p) >= 1 /\ p[1] \in {"categories"}
    BY <2>2, <2>3, Zenon
  <2>5. /\ useCreateCategory(f).name = "createCategory" /\ useCreateCategory(f).family = f
        /\ {"category names"} \subseteq useCreateCategory(f).writes
    BY DEF useCreateCategory, Mutation
  <2> QED BY <2>1, <2>4, <2>5 DEF Writing
<1>10. Writing(useUpdateCategory(f), "updateCategory", f,
             {"category names"}, {"categories"})
  <2>1. useUpdateCategory(f) \in Hooks
    BY <1>1 DEF Hooks, FamilyHooks
  <2>2. useUpdateCategory(f).refreshes = {<<"categories">>}
    BY DEF useUpdateCategory, Mutation
  <2>3. /\ Len(<<"categories">>) \in Nat /\ Len(<<"categories">>) >= 1
        /\ <<"categories">>[1] \in {"categories"}
    OBVIOUS
  <2>4. \A p \in useUpdateCategory(f).refreshes :
          Len(p) \in Nat /\ Len(p) >= 1 /\ p[1] \in {"categories"}
    BY <2>2, <2>3, Zenon
  <2>5. /\ useUpdateCategory(f).name = "updateCategory" /\ useUpdateCategory(f).family = f
        /\ {"category names"} \subseteq useUpdateCategory(f).writes
    BY DEF useUpdateCategory, Mutation
  <2> QED BY <2>1, <2>4, <2>5 DEF Writing
<1>11. Writing(useDeleteCategory(f), "deleteCategory", f,
             {"category names", "rows"}, {"categories", "transactions"})
  <2>1. useDeleteCategory(f) \in Hooks
    BY <1>1 DEF Hooks, FamilyHooks
  <2>2. useDeleteCategory(f).refreshes = {<<"categories", f>>, <<"categories", "id">>, <<"transactions">>}
    BY DEF useDeleteCategory, Mutation
  <2>3. /\ Len(<<"categories", f>>) \in Nat /\ Len(<<"categories", f>>) >= 1
        /\ <<"categories", f>>[1] \in {"categories", "transactions"}
        /\ Len(<<"categories", "id">>) \in Nat /\ Len(<<"categories", "id">>) >= 1
        /\ <<"categories", "id">>[1] \in {"categories", "transactions"}
        /\ Len(<<"transactions">>) \in Nat /\ Len(<<"transactions">>) >= 1
        /\ <<"transactions">>[1] \in {"categories", "transactions"}
    OBVIOUS
  <2>4. \A p \in useDeleteCategory(f).refreshes :
          Len(p) \in Nat /\ Len(p) >= 1 /\ p[1] \in {"categories", "transactions"}
    BY <2>2, <2>3, Zenon
  <2>5. /\ useDeleteCategory(f).name = "deleteCategory" /\ useDeleteCategory(f).family = f
        /\ {"category names", "rows"} \subseteq useDeleteCategory(f).writes
    BY DEF useDeleteCategory, Mutation
  <2> QED BY <2>1, <2>4, <2>5 DEF Writing
<1>12. Writing(useRemoveMember(f), "removeMember", f,
             {"members", "shares"}, {"members"})
  <2>1. useRemoveMember(f) \in Hooks
    BY <1>1 DEF Hooks, FamilyHooks
  <2>2. useRemoveMember(f).refreshes = {<<"members", f>>}
    BY DEF useRemoveMember, Mutation
  <2>3. /\ Len(<<"members", f>>) \in Nat /\ Len(<<"members", f>>) >= 1
        /\ <<"members", f>>[1] \in {"members"}
    OBVIOUS
  <2>4. \A p \in useRemoveMember(f).refreshes :
          Len(p) \in Nat /\ Len(p) >= 1 /\ p[1] \in {"members"}
    BY <2>2, <2>3, Zenon
  <2>5. /\ useRemoveMember(f).name = "removeMember" /\ useRemoveMember(f).family = f
        /\ {"members", "shares"} \subseteq useRemoveMember(f).writes
    BY DEF useRemoveMember, Mutation
  <2> QED BY <2>1, <2>4, <2>5 DEF Writing
<1>13. Writing(useLeaveFamily(f), "leaveFamily", f,
             {"families", "members", "shares"}, {"members", "families"})
  <2>1. useLeaveFamily(f) \in Hooks
    BY <1>1 DEF Hooks, FamilyHooks
  <2>2. useLeaveFamily(f).refreshes = {<<"members", f>>, <<"families">>}
    BY DEF useLeaveFamily, Mutation, useFamilies
  <2>3. /\ Len(<<"members", f>>) \in Nat /\ Len(<<"members", f>>) >= 1
        /\ <<"members", f>>[1] \in {"members", "families"}
        /\ Len(<<"families">>) \in Nat /\ Len(<<"families">>) >= 1
        /\ <<"families">>[1] \in {"members", "families"}
    OBVIOUS
  <2>4. \A p \in useLeaveFamily(f).refreshes :
          Len(p) \in Nat /\ Len(p) >= 1 /\ p[1] \in {"members", "families"}
    BY <2>2, <2>3, Zenon
  <2>5. /\ useLeaveFamily(f).name = "leaveFamily" /\ useLeaveFamily(f).family = f
        /\ {"families", "members", "shares"} \subseteq useLeaveFamily(f).writes
    BY DEF useLeaveFamily, Mutation
  <2> QED BY <2>1, <2>4, <2>5 DEF Writing
<1>14. Writing(useUpdateAccount(f), "updateAccount", f,
             {"account names", "balances"}, {"account", "accounts"})
  <2>1. useUpdateAccount(f) \in Hooks
    BY <1>1 DEF Hooks, FamilyHooks
  <2>2. useUpdateAccount(f).refreshes = {<<"account", "id">>, <<"accounts">>}
    BY DEF useUpdateAccount, Mutation, useAccount
  <2>3. /\ Len(<<"account", "id">>) \in Nat /\ Len(<<"account", "id">>) >= 1
        /\ <<"account", "id">>[1] \in {"account", "accounts"}
        /\ Len(<<"accounts">>) \in Nat /\ Len(<<"accounts">>) >= 1
        /\ <<"accounts">>[1] \in {"account", "accounts"}
    OBVIOUS
  <2>4. \A p \in useUpdateAccount(f).refreshes :
          Len(p) \in Nat /\ Len(p) >= 1 /\ p[1] \in {"account", "accounts"}
    BY <2>2, <2>3, Zenon
  <2>5. /\ useUpdateAccount(f).name = "updateAccount" /\ useUpdateAccount(f).family = f
        /\ {"account names", "balances"} \subseteq useUpdateAccount(f).writes
    BY DEF useUpdateAccount, Mutation
  <2> QED BY <2>1, <2>4, <2>5 DEF Writing
<1> QED BY <1>2, <1>3, <1>4, <1>5, <1>6, <1>7, <1>8, <1>9, <1>10, <1>11, <1>12, <1>13, <1>14

LEMMA DeletionWrites ==
  ASSUME NEW f \in Families
  PROVE  /\ Writing(useDeleteAccount("all"), "deleteAccount", "all",
                    {"accounts", "rows"}, {"accounts", "account", "transactions"})
         /\ Writing(useDeleteAccount(f), "removeAccount", f,
                    {"accounts", "rows"}, {"accounts", "account", "transactions"})
<1>1. ASSUME NEW g \in Scopes, NEW name, name = IF g = "all" THEN "deleteAccount" ELSE "removeAccount"
      PROVE  Writing(useDeleteAccount(g), name, g,
                     {"accounts", "rows"}, {"accounts", "account", "transactions"})
  <2>1. useDeleteAccount(g) \in Hooks
    BY DEF Hooks, AnyHooks
  <2>2. useDeleteAccount(g).refreshes =
          {<<"accounts", g>>, <<"accounts", "all">>, <<"account", "id">>, <<"transactions">>}
    BY DEF useDeleteAccount, Mutation, useAccount
  <2>3. /\ Len(<<"accounts", g>>) \in Nat /\ Len(<<"accounts", g>>) >= 1
        /\ <<"accounts", g>>[1] \in {"accounts", "account", "transactions"}
        /\ Len(<<"accounts", "all">>) \in Nat /\ Len(<<"accounts", "all">>) >= 1
        /\ <<"accounts", "all">>[1] \in {"accounts", "account", "transactions"}
        /\ Len(<<"account", "id">>) \in Nat /\ Len(<<"account", "id">>) >= 1
        /\ <<"account", "id">>[1] \in {"accounts", "account", "transactions"}
        /\ Len(<<"transactions">>) \in Nat /\ Len(<<"transactions">>) >= 1
        /\ <<"transactions">>[1] \in {"accounts", "account", "transactions"}
    OBVIOUS
  <2>4. \A p \in useDeleteAccount(g).refreshes :
          /\ Len(p) \in Nat /\ Len(p) >= 1
          /\ p[1] \in {"accounts", "account", "transactions"}
    BY <2>2, <2>3, Zenon
  <2>5. /\ useDeleteAccount(g).name = name /\ useDeleteAccount(g).family = g
        /\ {"accounts", "rows"} \subseteq useDeleteAccount(g).writes
    BY <1>1 DEF useDeleteAccount, Mutation
  <2>6. name # "updateLanguage"
    BY <1>1
  <2> QED BY <2>1, <2>4, <2>5, <2>6 DEF Writing
<1>2. f \in Scopes /\ "all" \in Scopes /\ f # "all"
  BY FamiliesAssumption DEF Scopes
<1> QED BY <1>1, <1>2

\* The deletion from the global list has the families' lists of accounts alone.
LEMMA DeletionGap ==
  ASSUME NEW f \in Families PROVE Gap("deleteAccount", "accounts")
<1> DEFINE h == useDeleteAccount("all")
           k == useAccounts(f)
<1>1. /\ h \in Hooks /\ h.name = "deleteAccount" /\ h.family = "all"
      /\ "accounts" \in h.writes
  BY DeletionWrites, Zenon DEF Writing
<1>2. h.refreshes = {<<"accounts", "all">>, <<"account", "id">>, <<"transactions">>}
  BY DEF useDeleteAccount, Mutation, useAccount
<1>3. /\ k \in Keys /\ k \in Seq(Scopes \cup Words) /\ Len(k) = 2
      /\ k[1] = "accounts" /\ k[2] # "all" /\ "accounts" \in Shows(k)
      /\ Fetches(k) = "accounts"
  <2>1. k \in Keys /\ IsKey(k, 2, "accounts", f, "accounts",
                            {"accounts", "account names", "balances", "shares"})
    BY GapKeys, Zenon
  <2>2. k[2] # "all"
    BY FamiliesAssumption DEF useAccounts
  <2> QED BY <2>1, <2>2 DEF IsKey
<1> HIDE DEF h, k
<1>4. ~ Matches(k, h.refreshes)
  <2>1. \A i \in 1..2 : k[i] \in Scopes \cup Words
    BY <1>3
  <2>2. /\ SubSeq(k, 1, 2)[2] = k[2]
        /\ SubSeq(k, 1, 2)[1] = k[1] /\ SubSeq(k, 1, 1)[1] = k[1]
    BY <1>3, <2>1, SubSeqProperties
  <2>3. /\ Len(<<"accounts", "all">>) = 2 /\ <<"accounts", "all">>[2] = "all"
        /\ Len(<<"account", "id">>) = 2 /\ <<"account", "id">>[1] = "account"
        /\ Len(<<"transactions">>) = 1 /\ <<"transactions">>[1] = "transactions"
    OBVIOUS
  <2>4. /\ SubSeq(k, 1, 2) # <<"accounts", "all">>
        /\ SubSeq(k, 1, 2) # <<"account", "id">>
        /\ SubSeq(k, 1, 1) # <<"transactions">>
    BY <1>3, <2>2, <2>3
  <2> QED BY <1>2, <2>3, <2>4, Zenon DEF Matches
<1>5. Forgets(h, k)
  BY <1>1, <1>3, <1>4 DEF Forgets
<1> QED BY <1>1, <1>3, <1>5 DEF Gap

LEMMA EveryGap ==
  ASSUME NEW f \in Families
  PROVE  \A gap \in Unlisted \ {<<"deleteCategory", "count">>} : Gap(gap[1], gap[2])
<1> DEFINE transactions == useTransactions(f, "page")
           accounts == useAccounts(f)
           account == useAccount
           accountShares == useAccountShares
           count == useCategoryTransactionCount(f)
           budgets == useBudgets(f)
           jobs == useImportJobs(f)
<1>1. /\ transactions \in Keys /\ accounts \in Keys /\ account \in Keys
      /\ accountShares \in Keys /\ count \in Keys /\ budgets \in Keys
      /\ jobs \in Keys
  BY GapKeys, Zenon
<1>2. /\ transactions[1] = "transactions" /\ FamilyOf(transactions) = f
      /\ Fetches(transactions) = "transactions"
      /\ Shows(transactions) = {"rows", "account names", "category names"}
  BY GapKeys, Zenon DEF IsKey
<1>3. /\ accounts[1] = "accounts" /\ FamilyOf(accounts) = f
      /\ Fetches(accounts) = "accounts"
      /\ Shows(accounts) = {"accounts", "account names", "balances", "shares"}
  BY GapKeys, Zenon DEF IsKey
<1>4. /\ account[1] = "account" /\ FamilyOf(account) = "all"
      /\ Fetches(account) = "account"
      /\ Shows(account) = {"account names", "balances"}
  BY AccountKey, Zenon DEF IsKey
<1>5. /\ accountShares[1] = "accountShares" /\ FamilyOf(accountShares) = "all"
      /\ Fetches(accountShares) = "accountShares"
      /\ Shows(accountShares) = {"shares"}
  BY AccountSharesKey, Zenon DEF IsKey
<1>6. /\ count[1] = "categories" /\ FamilyOf(count) = f
      /\ Fetches(count) = "count" /\ Shows(count) = {"rows"}
  BY CountKey, Zenon DEF IsKey
<1>7. /\ budgets[1] = "budgets" /\ FamilyOf(budgets) = f
      /\ Fetches(budgets) = "budgets"
      /\ Shows(budgets) = {"budgets", "rows", "category names"}
  BY BudgetsKey, Zenon DEF IsKey
<1>8. /\ jobs[1] = "import-jobs" /\ FamilyOf(jobs) = f
      /\ Fetches(jobs) = "import-jobs" /\ Shows(jobs) = {"jobs"}
  BY ImportJobsKey, Zenon DEF IsKey
<1> HIDE DEF transactions, accounts, account, accountShares, count, budgets, jobs
<1>9. /\ Gap("createTransaction", "accounts")
      /\ Gap("createTransaction", "account")
      /\ Gap("createTransaction", "count")
      /\ Gap("createTransaction", "budgets")
  <2>1. Writing(useCreateTransaction(f), "createTransaction", f,
                {"rows", "balances"}, {"transactions"})
    BY HooksWrite, Zenon
  <2> DEFINE h == useCreateTransaction(f)
  <2>2. /\ h \in Hooks /\ h.name = "createTransaction" /\ h.family = f
        /\ {"rows", "balances"} \subseteq h.writes /\ h.name # "updateLanguage"
        /\ \A p \in h.refreshes : Len(p) \in Nat /\ Len(p) >= 1
                                  /\ p[1] \in {"transactions"}
    BY <2>1, Zenon DEF Writing
  <2> HIDE DEF h
  <2>3. Gap(h.name, Fetches(accounts))
    BY <1>1, <1>3, <2>2, GapOf
  <2>4. Gap(h.name, Fetches(account))
    BY <1>1, <1>4, <2>2, GapOf
  <2>5. Gap(h.name, Fetches(count))
    BY <1>1, <1>6, <2>2, GapOf
  <2>6. Gap(h.name, Fetches(budgets))
    BY <1>1, <1>7, <2>2, GapOf
  <2> QED BY <1>3, <1>4, <1>6, <1>7, <2>2, <2>3, <2>4, <2>5, <2>6, Zenon
<1>10. /\ Gap("updateTransaction", "accounts")
      /\ Gap("updateTransaction", "account")
      /\ Gap("updateTransaction", "count")
      /\ Gap("updateTransaction", "budgets")
  <2>1. Writing(useUpdateTransaction(f), "updateTransaction", f,
                {"rows", "balances"}, {"transactions"})
    BY HooksWrite, Zenon
  <2> DEFINE h == useUpdateTransaction(f)
  <2>2. /\ h \in Hooks /\ h.name = "updateTransaction" /\ h.family = f
        /\ {"rows", "balances"} \subseteq h.writes /\ h.name # "updateLanguage"
        /\ \A p \in h.refreshes : Len(p) \in Nat /\ Len(p) >= 1
                                  /\ p[1] \in {"transactions"}
    BY <2>1, Zenon DEF Writing
  <2> HIDE DEF h
  <2>3. Gap(h.name, Fetches(accounts))
    BY <1>1, <1>3, <2>2, GapOf
  <2>4. Gap(h.name, Fetches(account))
    BY <1>1, <1>4, <2>2, GapOf
  <2>5. Gap(h.name, Fetches(count))
    BY <1>1, <1>6, <2>2, GapOf
  <2>6. Gap(h.name, Fetches(budgets))
    BY <1>1, <1>7, <2>2, GapOf
  <2> QED BY <1>3, <1>4, <1>6, <1>7, <2>2, <2>3, <2>4, <2>5, <2>6, Zenon
<1>11. /\ Gap("deleteTransaction", "accounts")
      /\ Gap("deleteTransaction", "account")
      /\ Gap("deleteTransaction", "count")
      /\ Gap("deleteTransaction", "budgets")
  <2>1. Writing(useDeleteTransaction(f), "deleteTransaction", f,
                {"rows", "balances"}, {"transactions"})
    BY HooksWrite, Zenon
  <2> DEFINE h == useDeleteTransaction(f)
  <2>2. /\ h \in Hooks /\ h.name = "deleteTransaction" /\ h.family = f
        /\ {"rows", "balances"} \subseteq h.writes /\ h.name # "updateLanguage"
        /\ \A p \in h.refreshes : Len(p) \in Nat /\ Len(p) >= 1
                                  /\ p[1] \in {"transactions"}
    BY <2>1, Zenon DEF Writing
  <2> HIDE DEF h
  <2>3. Gap(h.name, Fetches(accounts))
    BY <1>1, <1>3, <2>2, GapOf
  <2>4. Gap(h.name, Fetches(account))
    BY <1>1, <1>4, <2>2, GapOf
  <2>5. Gap(h.name, Fetches(count))
    BY <1>1, <1>6, <2>2, GapOf
  <2>6. Gap(h.name, Fetches(budgets))
    BY <1>1, <1>7, <2>2, GapOf
  <2> QED BY <1>3, <1>4, <1>6, <1>7, <2>2, <2>3, <2>4, <2>5, <2>6, Zenon
<1>12. /\ Gap("createAccountShare", "accounts")
  <2>1. Writing(useCreateAccountShare(f), "createAccountShare", f,
                {"shares"}, {"accountShares"})
    BY HooksWrite, Zenon
  <2> DEFINE h == useCreateAccountShare(f)
  <2>2. /\ h \in Hooks /\ h.name = "createAccountShare" /\ h.family = f
        /\ {"shares"} \subseteq h.writes /\ h.name # "updateLanguage"
        /\ \A p \in h.refreshes : Len(p) \in Nat /\ Len(p) >= 1
                                  /\ p[1] \in {"accountShares"}
    BY <2>1, Zenon DEF Writing
  <2> HIDE DEF h
  <2>3. Gap(h.name, Fetches(accounts))
    BY <1>1, <1>3, <2>2, GapOf
  <2> QED BY <1>3, <2>2, <2>3, Zenon
<1>13. /\ Gap("updateAccountShare", "accounts")
  <2>1. Writing(useUpdateAccountShare(f), "updateAccountShare", f,
                {"shares"}, {"accountShares"})
    BY HooksWrite, Zenon
  <2> DEFINE h == useUpdateAccountShare(f)
  <2>2. /\ h \in Hooks /\ h.name = "updateAccountShare" /\ h.family = f
        /\ {"shares"} \subseteq h.writes /\ h.name # "updateLanguage"
        /\ \A p \in h.refreshes : Len(p) \in Nat /\ Len(p) >= 1
                                  /\ p[1] \in {"accountShares"}
    BY <2>1, Zenon DEF Writing
  <2> HIDE DEF h
  <2>3. Gap(h.name, Fetches(accounts))
    BY <1>1, <1>3, <2>2, GapOf
  <2> QED BY <1>3, <2>2, <2>3, Zenon
<1>14. /\ Gap("deleteAccountShare", "accounts")
  <2>1. Writing(useDeleteAccountShare(f), "deleteAccountShare", f,
                {"shares"}, {"accountShares"})
    BY HooksWrite, Zenon
  <2> DEFINE h == useDeleteAccountShare(f)
  <2>2. /\ h \in Hooks /\ h.name = "deleteAccountShare" /\ h.family = f
        /\ {"shares"} \subseteq h.writes /\ h.name # "updateLanguage"
        /\ \A p \in h.refreshes : Len(p) \in Nat /\ Len(p) >= 1
                                  /\ p[1] \in {"accountShares"}
    BY <2>1, Zenon DEF Writing
  <2> HIDE DEF h
  <2>3. Gap(h.name, Fetches(accounts))
    BY <1>1, <1>3, <2>2, GapOf
  <2> QED BY <1>3, <2>2, <2>3, Zenon
<1>15. /\ Gap("executeImport", "transactions")
      /\ Gap("executeImport", "accounts")
      /\ Gap("executeImport", "account")
      /\ Gap("executeImport", "count")
      /\ Gap("executeImport", "budgets")
      /\ Gap("executeImport", "import-jobs")
  <2>1. Writing(useExecuteImport(f), "executeImport", f,
                {"jobs", "rows", "balances"}, {})
    BY HooksWrite, Zenon
  <2> DEFINE h == useExecuteImport(f)
  <2>2. /\ h \in Hooks /\ h.name = "executeImport" /\ h.family = f
        /\ {"jobs", "rows", "balances"} \subseteq h.writes /\ h.name # "updateLanguage"
        /\ \A p \in h.refreshes : Len(p) \in Nat /\ Len(p) >= 1
                                  /\ p[1] \in {}
    BY <2>1, Zenon DEF Writing
  <2> HIDE DEF h
  <2>3. Gap(h.name, Fetches(transactions))
    BY <1>1, <1>2, <2>2, GapOf
  <2>4. Gap(h.name, Fetches(accounts))
    BY <1>1, <1>3, <2>2, GapOf
  <2>5. Gap(h.name, Fetches(account))
    BY <1>1, <1>4, <2>2, GapOf
  <2>6. Gap(h.name, Fetches(count))
    BY <1>1, <1>6, <2>2, GapOf
  <2>7. Gap(h.name, Fetches(budgets))
    BY <1>1, <1>7, <2>2, GapOf
  <2>8. Gap(h.name, Fetches(jobs))
    BY <1>1, <1>8, <2>2, GapOf
  <2> QED BY <1>2, <1>3, <1>4, <1>6, <1>7, <1>8, <2>2, <2>3, <2>4, <2>5, <2>6, <2>7, <2>8, Zenon
<1>16. /\ Gap("createCategory", "transactions")
      /\ Gap("createCategory", "budgets")
  <2>1. Writing(useCreateCategory(f), "createCategory", f,
                {"category names"}, {"categories"})
    BY HooksWrite, Zenon
  <2> DEFINE h == useCreateCategory(f)
  <2>2. /\ h \in Hooks /\ h.name = "createCategory" /\ h.family = f
        /\ {"category names"} \subseteq h.writes /\ h.name # "updateLanguage"
        /\ \A p \in h.refreshes : Len(p) \in Nat /\ Len(p) >= 1
                                  /\ p[1] \in {"categories"}
    BY <2>1, Zenon DEF Writing
  <2> HIDE DEF h
  <2>3. Gap(h.name, Fetches(transactions))
    BY <1>1, <1>2, <2>2, GapOf
  <2>4. Gap(h.name, Fetches(budgets))
    BY <1>1, <1>7, <2>2, GapOf
  <2> QED BY <1>2, <1>7, <2>2, <2>3, <2>4, Zenon
<1>17. /\ Gap("updateCategory", "transactions")
      /\ Gap("updateCategory", "budgets")
  <2>1. Writing(useUpdateCategory(f), "updateCategory", f,
                {"category names"}, {"categories"})
    BY HooksWrite, Zenon
  <2> DEFINE h == useUpdateCategory(f)
  <2>2. /\ h \in Hooks /\ h.name = "updateCategory" /\ h.family = f
        /\ {"category names"} \subseteq h.writes /\ h.name # "updateLanguage"
        /\ \A p \in h.refreshes : Len(p) \in Nat /\ Len(p) >= 1
                                  /\ p[1] \in {"categories"}
    BY <2>1, Zenon DEF Writing
  <2> HIDE DEF h
  <2>3. Gap(h.name, Fetches(transactions))
    BY <1>1, <1>2, <2>2, GapOf
  <2>4. Gap(h.name, Fetches(budgets))
    BY <1>1, <1>7, <2>2, GapOf
  <2> QED BY <1>2, <1>7, <2>2, <2>3, <2>4, Zenon
<1>18. /\ Gap("deleteCategory", "budgets")
  <2>1. Writing(useDeleteCategory(f), "deleteCategory", f,
                {"category names", "rows"}, {"categories", "transactions"})
    BY HooksWrite, Zenon
  <2> DEFINE h == useDeleteCategory(f)
  <2>2. /\ h \in Hooks /\ h.name = "deleteCategory" /\ h.family = f
        /\ {"category names", "rows"} \subseteq h.writes /\ h.name # "updateLanguage"
        /\ \A p \in h.refreshes : Len(p) \in Nat /\ Len(p) >= 1
                                  /\ p[1] \in {"categories", "transactions"}
    BY <2>1, Zenon DEF Writing
  <2> HIDE DEF h
  <2>3. Gap(h.name, Fetches(budgets))
    BY <1>1, <1>7, <2>2, GapOf
  <2> QED BY <1>7, <2>2, <2>3, Zenon
<1>19. /\ Gap("removeMember", "accounts")
      /\ Gap("removeMember", "accountShares")
  <2>1. Writing(useRemoveMember(f), "removeMember", f,
                {"members", "shares"}, {"members"})
    BY HooksWrite, Zenon
  <2> DEFINE h == useRemoveMember(f)
  <2>2. /\ h \in Hooks /\ h.name = "removeMember" /\ h.family = f
        /\ {"members", "shares"} \subseteq h.writes /\ h.name # "updateLanguage"
        /\ \A p \in h.refreshes : Len(p) \in Nat /\ Len(p) >= 1
                                  /\ p[1] \in {"members"}
    BY <2>1, Zenon DEF Writing
  <2> HIDE DEF h
  <2>3. Gap(h.name, Fetches(accounts))
    BY <1>1, <1>3, <2>2, GapOf
  <2>4. Gap(h.name, Fetches(accountShares))
    BY <1>1, <1>5, <2>2, GapOf
  <2> QED BY <1>3, <1>5, <2>2, <2>3, <2>4, Zenon
<1>20. /\ Gap("leaveFamily", "accounts")
      /\ Gap("leaveFamily", "accountShares")
  <2>1. Writing(useLeaveFamily(f), "leaveFamily", f,
                {"families", "members", "shares"}, {"members", "families"})
    BY HooksWrite, Zenon
  <2> DEFINE h == useLeaveFamily(f)
  <2>2. /\ h \in Hooks /\ h.name = "leaveFamily" /\ h.family = f
        /\ {"families", "members", "shares"} \subseteq h.writes /\ h.name # "updateLanguage"
        /\ \A p \in h.refreshes : Len(p) \in Nat /\ Len(p) >= 1
                                  /\ p[1] \in {"members", "families"}
    BY <2>1, Zenon DEF Writing
  <2> HIDE DEF h
  <2>3. Gap(h.name, Fetches(accounts))
    BY <1>1, <1>3, <2>2, GapOf
  <2>4. Gap(h.name, Fetches(accountShares))
    BY <1>1, <1>5, <2>2, GapOf
  <2> QED BY <1>3, <1>5, <2>2, <2>3, <2>4, Zenon
<1>21. /\ Gap("updateAccount", "transactions")
  <2>1. Writing(useUpdateAccount(f), "updateAccount", f,
                {"account names", "balances"}, {"account", "accounts"})
    BY HooksWrite, Zenon
  <2> DEFINE h == useUpdateAccount(f)
  <2>2. /\ h \in Hooks /\ h.name = "updateAccount" /\ h.family = f
        /\ {"account names", "balances"} \subseteq h.writes /\ h.name # "updateLanguage"
        /\ \A p \in h.refreshes : Len(p) \in Nat /\ Len(p) >= 1
                                  /\ p[1] \in {"account", "accounts"}
    BY <2>1, Zenon DEF Writing
  <2> HIDE DEF h
  <2>3. Gap(h.name, Fetches(transactions))
    BY <1>1, <1>2, <2>2, GapOf
  <2> QED BY <1>2, <2>2, <2>3, Zenon
<1>22. /\ Gap("deleteAccount", "count")
      /\ Gap("deleteAccount", "budgets")
  <2>1. Writing(useDeleteAccount("all"), "deleteAccount", "all",
                {"accounts", "rows"}, {"accounts", "account", "transactions"})
    BY DeletionWrites, Zenon
  <2> DEFINE h == useDeleteAccount("all")
  <2>2. /\ h \in Hooks /\ h.name = "deleteAccount" /\ h.family = "all"
        /\ {"accounts", "rows"} \subseteq h.writes /\ h.name # "updateLanguage"
        /\ \A p \in h.refreshes : Len(p) \in Nat /\ Len(p) >= 1
                                  /\ p[1] \in {"accounts", "account", "transactions"}
    BY <2>1, Zenon DEF Writing
  <2> HIDE DEF h
  <2>3. Gap(h.name, Fetches(count))
    BY <1>1, <1>6, <2>2, GapOf
  <2>4. Gap(h.name, Fetches(budgets))
    BY <1>1, <1>7, <2>2, GapOf
  <2> QED BY <1>6, <1>7, <2>2, <2>3, <2>4, Zenon
<1>23. /\ Gap("removeAccount", "count")
      /\ Gap("removeAccount", "budgets")
  <2>1. Writing(useDeleteAccount(f), "removeAccount", f,
                {"accounts", "rows"}, {"accounts", "account", "transactions"})
    BY DeletionWrites, Zenon
  <2> DEFINE h == useDeleteAccount(f)
  <2>2. /\ h \in Hooks /\ h.name = "removeAccount" /\ h.family = f
        /\ {"accounts", "rows"} \subseteq h.writes /\ h.name # "updateLanguage"
        /\ \A p \in h.refreshes : Len(p) \in Nat /\ Len(p) >= 1
                                  /\ p[1] \in {"accounts", "account", "transactions"}
    BY <2>1, Zenon DEF Writing
  <2> HIDE DEF h
  <2>3. Gap(h.name, Fetches(count))
    BY <1>1, <1>6, <2>2, GapOf
  <2>4. Gap(h.name, Fetches(budgets))
    BY <1>1, <1>7, <2>2, GapOf
  <2> QED BY <1>6, <1>7, <2>2, <2>3, <2>4, Zenon
\* The blocks of Unlisted, one after the other.
<1>24. \A gap \in {"createTransaction", "updateTransaction", "deleteTransaction"}
            \X {"accounts", "account", "count", "budgets"} :
         Gap(gap[1], gap[2])
  <2> SUFFICES ASSUME NEW x \in {"createTransaction", "updateTransaction", "deleteTransaction"},
                      NEW y \in {"accounts", "account", "count", "budgets"}
               PROVE  Gap(x, y)
    OBVIOUS
  <2> QED BY <1>9, <1>10, <1>11, Zenon
<1>25. \A gap \in {"createAccountShare", "updateAccountShare", "deleteAccountShare"}
            \X {"accounts"} :
         Gap(gap[1], gap[2])
  <2> SUFFICES ASSUME NEW x \in {"createAccountShare", "updateAccountShare", "deleteAccountShare"},
                      NEW y \in {"accounts"}
               PROVE  Gap(x, y)
    OBVIOUS
  <2> QED BY <1>12, <1>13, <1>14, Zenon
<1>26. \A gap \in {"executeImport"}
            \X {"transactions", "accounts", "account", "count", "budgets", "import-jobs"} :
         Gap(gap[1], gap[2])
  <2> SUFFICES ASSUME NEW x \in {"executeImport"},
                      NEW y \in {"transactions", "accounts", "account", "count", "budgets", "import-jobs"}
               PROVE  Gap(x, y)
    OBVIOUS
  <2> QED BY <1>15, Zenon
<1>27. \A gap \in {"createCategory", "updateCategory"}
            \X {"transactions", "budgets"} :
         Gap(gap[1], gap[2])
  <2> SUFFICES ASSUME NEW x \in {"createCategory", "updateCategory"},
                      NEW y \in {"transactions", "budgets"}
               PROVE  Gap(x, y)
    OBVIOUS
  <2> QED BY <1>16, <1>17, Zenon
<1>28. \A gap \in {"deleteAccount", "removeAccount"}
            \X {"count", "budgets"} :
         Gap(gap[1], gap[2])
  <2> SUFFICES ASSUME NEW x \in {"deleteAccount", "removeAccount"},
                      NEW y \in {"count", "budgets"}
               PROVE  Gap(x, y)
    OBVIOUS
  <2> QED BY <1>22, <1>23, Zenon
<1>29. \A gap \in {"removeMember", "leaveFamily"}
            \X {"accounts", "accountShares"} :
         Gap(gap[1], gap[2])
  <2> SUFFICES ASSUME NEW x \in {"removeMember", "leaveFamily"},
                      NEW y \in {"accounts", "accountShares"}
               PROVE  Gap(x, y)
    OBVIOUS
  <2> QED BY <1>19, <1>20, Zenon
<1>30. \A gap \in {<<"updateAccount", "transactions">>, <<"deleteAccount", "accounts">>, <<"deleteCategory", "budgets">>} :
         Gap(gap[1], gap[2])
  <2>1. Gap("updateAccount", "transactions") /\ Gap("deleteAccount", "accounts")
          /\ Gap("deleteCategory", "budgets")
    BY <1>21, <1>18, DeletionGap
  <2> QED BY <2>1
<1> QED BY <1>24, <1>25, <1>26, <1>27, <1>28, <1>29, <1>30, Zenon DEF Unlisted

\* The hooks forget exactly what Unlisted says they do, whatever the families: a
\* hook that writes what a key shows and is not listed asks for that key again in
\* its onSuccess, and each pair listed is one that some hook of src/ forgets.  So
\* what OwnWritesShown leaves out is left out by the code, but for the one pair
\* that a key of a single id does not tell.
THEOREM ExactGaps ==
  ASSUME Families # {}
  PROVE  GapsExact
<1>1. ASSUME NEW h \in Hooks, NEW k \in Keys, Forgets(h, k)
      PROVE  <<h.name, Fetches(k)>> \in Unlisted
  <2> SUFFICES ASSUME <<h.name, Fetches(k)>> \notin Unlisted PROVE FALSE
    OBVIOUS
  <2>1. Due(h, k)
    BY <1>1 DEF Forgets, Due
  <2> QED BY <1>1, <2>1, HooksRefresh DEF Forgets
<1>2. ASSUME NEW gap \in Unlisted \ {<<"deleteCategory", "count">>}
      PROVE  \E h \in Hooks, k \in Keys :
               Forgets(h, k) /\ <<h.name, Fetches(k)>> = gap
  <2>1. PICK f \in Families : TRUE
    OBVIOUS
  <2>2. Gap(gap[1], gap[2])
    BY EveryGap
  <2>3. gap = <<gap[1], gap[2]>>
    BY DEF Unlisted
  <2> QED BY <2>2, <2>3 DEF Gap
<1> QED BY <1>1, <1>2 DEF GapsExact

=============================================================================
