---------------------------- MODULE LedgerProofs ----------------------------
(* Proofs about Ledger, for every value of its constants. *)
EXTENDS Ledger, TLAPS

-----------------------------------------------------------------------------
(* Types *)

\* The rows and sessions a handler starts from are well typed.
LEMMA Constants ==
  /\ Null \notin Accounts
  /\ Accounts \cap Txns = {}
  /\ NoRow \in Row
  /\ DeletedRow \in Row
  /\ NoSession \in Session
  /\ Finished \in Session
  /\ NoJob \in Job
  /\ ClosedJob \in Job
<1>1. Null \notin Accounts /\ Accounts \cap Txns = {}
  BY NullAssumption, DisjointAssumption
<1>2. NoRow \in Row /\ DeletedRow \in Row
  BY DEF NoRow, DeletedRow, Row, Types
<1>3. NoSession \in Session
  BY <1>2 DEF NoSession, Session
<1>4. Finished \in Session
  BY <1>3 DEF Finished, NoSession, Session
<1>5. NoJob \in Job /\ ClosedJob \in Job
  BY DEF NoJob, ClosedJob, Job
<1> QED BY <1>1, <1>2, <1>3, <1>4, <1>5

LEMMA DeltaType ==
  ASSUME NEW type \in Types, NEW amount \in Int
  PROVE  BalanceDelta(type, amount) \in Int
BY DEF BalanceDelta

LEMMA EffectType ==
  ASSUME NEW x \in Row, NEW a \in Accounts
  PROVE  EffectOn(x, a) \in Int
BY DeltaType DEF EffectOn, Row

LEMMA NewBalanceType ==
  ASSUME NEW q \in Session, NEW a \in Accounts
  PROVE  NewBalance(q, a) \in Int
<1>1. /\ q.seen[a] \in Int /\ q.value \in Int
      /\ q.old.type \in Types /\ q.old.amount \in Int
      /\ q.new.type \in Types /\ q.new.amount \in Int
  BY DEF Session, Row
<1>2. /\ BalanceDelta(q.new.type, q.new.amount) \in Int
      /\ BalanceDelta(q.old.type, q.old.amount) \in Int
  BY <1>1, DeltaType
<1>3. Rebalance(q, a) \in Int
  BY <1>2 DEF Rebalance
<1> QED BY <1>1, <1>3 DEF NewBalance

LEMMA LoadedType ==
  ASSUME TypeOK, NEW q \in Session, NEW a \in Accounts
  PROVE  Loaded(q, a) \in Session
BY DEF TypeOK, Loaded, Session

LEMMA PatchedType ==
  ASSUME NEW x \in Row, NEW p \in Payload
  PROVE  Patched(x, p) \in Row
BY DEF Patched, Row, Payload

LEMMA UpdateLoadsType ==
  ASSUME NEW old \in Row, NEW new \in Row, new.account = Null => old.account = Null
  PROVE  UpdateLoads(old, new) \in Seq(Accounts)
BY DEF UpdateLoads, Row

LEMMA TypeInit == Init => TypeOK
<1> SUFFICES ASSUME Init PROVE TypeOK
  OBVIOUS
<1> QED BY Constants DEF Init, TypeOK

\* The session a request starts with, or goes on with, is well typed.
LEMMA TypeReads ==
  ASSUME TypeOK, SessionsOK, NEW r \in Requests,
         \/ \E u \in Users, tn \in Tenants, a \in Accounts, type \in Types,
               amount \in Amounts : StartCreate(r, u, tn, a, type, amount)
         \/ \E u \in Users, tn \in Tenants, t \in Txns,
               p \in [account: Accounts \cup {Null}, type: Types \cup {Null},
                      amount: Amounts \cup {Null}] : StartUpdate(r, u, tn, t, p)
         \/ \E u \in Users, tn \in Tenants, t \in Txns :
               StartDelete(r, u, tn, t)
         \/ AuthorizeTarget(r)
         \/ LoadAccount(r)
         \/ Abort(r)
  PROVE  TypeOK'
<1> USE DEF TypeOK
<1> SUFFICES req'[r] \in Session /\ req' = [req EXCEPT ![r] = req'[r]]
             /\ UNCHANGED <<database, job, history>>
  BY DEF database, history
<1>1. ASSUME NEW u \in Users, NEW tn \in Tenants, NEW a \in Accounts,
             NEW type \in Types, NEW amount \in Amounts,
             StartCreate(r, u, tn, a, type, amount)
      PROVE  req'[r] \in Session /\ req' = [req EXCEPT ![r] = req'[r]]
             /\ UNCHANGED <<database, job, history>>
  <2> DEFINE x == [state |-> "live", account |-> a, tenant |-> tn,
                   creator |-> u, type |-> type, amount |-> amount]
             q(t) == [NoSession EXCEPT !.pc = "open", !.op = "create",
                        !.user = u, !.tenant = tn, !.txn = t, !.new = x]
  <2>1. x \in Row
    BY AmountsAssumption DEF Row
  <2>2. \A t \in FreshTxns : q(t) \in Session
    BY <2>1, Constants DEF Session, FreshTxns
  <2>3. \A t \in FreshTxns : Loaded(q(t), a) \in Session
    BY <2>2, LoadedType
  <2>4. PICK t \in FreshTxns : req' = [req EXCEPT ![r] = Loaded(q(t), a)]
    BY <1>1 DEF StartCreate
  <2> QED BY <1>1, <2>3, <2>4 DEF StartCreate
<1>2. ASSUME NEW u \in Users, NEW tn \in Tenants, NEW t \in Txns,
             NEW p \in [account: Accounts \cup {Null}, type: Types \cup {Null},
                        amount: Amounts \cup {Null}],
             StartUpdate(r, u, tn, t, p)
      PROVE  req'[r] \in Session /\ req' = [req EXCEPT ![r] = req'[r]]
             /\ UNCHANGED <<database, job, history>>
  <2> DEFINE new == Patched(row[t], p)
  <2>1. row[t] \in Row /\ new \in Row
    <3>1. p \in Payload
      BY AmountsAssumption DEF Payload
    <3> QED BY <3>1, PatchedType
  <2>2. UpdateLoads(row[t], new) \in Seq(Accounts)
    <3>1. new.account = Null => row[t].account = Null
      BY <2>1 DEF Patched, Row
    <3> HIDE DEF new
    <3> QED BY <2>1, <3>1, UpdateLoadsType
  <2>3. [NoSession EXCEPT
            !.pc = IF p.account = Null THEN "open" ELSE "checking",
            !.op = "update", !.user = u, !.tenant = tn, !.txn = t,
            !.old = row[t], !.new = new, !.want = UpdateLoads(row[t], new)]
          \in Session
    <3> HIDE DEF new
    <3> QED BY <2>1, <2>2, Constants DEF Session
  <2> QED BY <1>2, <2>3 DEF StartUpdate
<1>3. ASSUME NEW u \in Users, NEW tn \in Tenants, NEW t \in Txns,
             StartDelete(r, u, tn, t)
      PROVE  req'[r] \in Session /\ req' = [req EXCEPT ![r] = req'[r]]
             /\ UNCHANGED <<database, job, history>>
  <2>1. (IF row[t].account = Null THEN << >> ELSE <<row[t].account>>)
          \in Seq(Accounts)
    BY DEF Row
  <2>2. [NoSession EXCEPT !.pc = "open", !.op = "delete", !.user = u,
           !.tenant = tn, !.txn = t, !.old = row[t], !.new = DeletedRow,
           !.want = IF row[t].account = Null THEN << >>
                    ELSE <<row[t].account>>] \in Session
    BY <2>1, Constants DEF Session
  <2> QED BY <1>3, <2>2 DEF StartDelete
<1>4. CASE AuthorizeTarget(r)
  <2> DEFINE q == req[r]
  <2>1. [q EXCEPT !.pc = "open"] \in Session
    <3>1. q \in Session
      OBVIOUS
    <3> QED BY <3>1 DEF Session
  <2>2. req' = [req EXCEPT ![r] = [q EXCEPT !.pc = "open"]]
    BY <1>4 DEF AuthorizeTarget
  <2>3. UNCHANGED <<database, job, history>>
    BY <1>4 DEF AuthorizeTarget
  <2> QED BY <2>1, <2>2, <2>3
<1>5. CASE LoadAccount(r)
  <2> DEFINE q == req[r]
             a == Head(q.want)
             rest == [q EXCEPT !.want = Tail(@),
                        !.held = IF q.op = "update"
                                 THEN {q.txn} \cup Written(q) ELSE {}]
  <2>1. q \in Session /\ a \in Accounts /\ Tail(q.want) \in Seq(Accounts)
    BY <1>5 DEF LoadAccount, Session
  <2>2. q.op = "update" => q.txn \in Txns
    BY DEF SessionsOK, SessionOK
  <2>3. Written(q) \subseteq Accounts
    BY <2>1 DEF Written, Session
  <2>4. rest \in Session
    BY <2>1, <2>2, <2>3 DEF Session
  <2>5. Loaded(rest, a) \in Session
    BY <2>1, <2>4, LoadedType
  <2> QED BY <1>5, <2>4, <2>5 DEF LoadAccount
<1>6. CASE Abort(r)
  BY <1>6, Constants DEF Abort
<1> QED BY <1>1, <1>2, <1>3, <1>4, <1>5, <1>6

\* A commit of a transaction handler leaves a well typed database.
LEMMA CommitType ==
  ASSUME TypeOK, NEW r \in Requests, NEW t \in Txns, NEW x \in Row,
         t = req[r].txn, Commit(r, t, x)
  PROVE  TypeOK'
<1> DEFINE q == req[r]
<1>1. q \in Session
  BY DEF TypeOK
<1>2. balance' \in [Accounts -> Int]
  BY <1>1, NewBalanceType DEF TypeOK, Commit
<1>3. posted' \in [Accounts -> Int]
  <2>1. \A a \in Accounts : EffectOn(row[t], a) \in Int /\ EffectOn(x, a) \in Int
    BY EffectType DEF TypeOK
  <2> QED BY <2>1 DEF TypeOK, Commit
<1>4. drifted' \subseteq Accounts /\ row' \in [Txns -> Row]
  <2>1. {q.old.account, q.new.account, row[t].account}
          \subseteq Accounts \cup {Null}
    BY <1>1, SMTT(30) DEF TypeOK, Session, Row
  <2>2. Stale(q) \subseteq Accounts
    BY <1>1, <2>1 DEF Stale, Written, Session
  <2> QED BY <2>2 DEF TypeOK, Commit
<1>5. req' \in [Requests -> Session]
  BY Constants DEF TypeOK, Commit
<1> QED BY <1>2, <1>3, <1>4, <1>5 DEF TypeOK, Commit

LEMMA TypeCommits ==
  ASSUME TypeOK, SessionsOK, NEW r \in Requests,
         CommitCreate(r) \/ CommitUpdate(r) \/ CommitDelete(r)
  PROVE  TypeOK'
<1> DEFINE q == req[r]
<1>1. q \in Session /\ q.old \in Row /\ q.new \in Row
  BY DEF TypeOK, Session
<1>2. q.op \in {"create", "update", "delete"} => q.txn \in Txns
  BY DEF SessionsOK, SessionOK
<1>3. CASE CommitCreate(r)
  BY <1>1, <1>2, <1>3, CommitType DEF CommitCreate
<1>4. CASE CommitUpdate(r)
  <2>1. q.txn \in Txns
    BY <1>2, <1>4 DEF CommitUpdate
  <2>2. Columns(q, row[q.txn]) \in Row
    BY <1>1, <2>1, ZenonT(40) DEF TypeOK, Columns, Row
  <2> QED BY <1>4, <2>1, <2>2, CommitType DEF CommitUpdate
<1>5. CASE CommitDelete(r)
  BY <1>2, <1>5, CommitType, Constants DEF CommitDelete
<1> QED BY <1>3, <1>4, <1>5

LEMMA TypeAccounts ==
  ASSUME TypeOK, NEW a \in Accounts,
         \/ \E opened \in Balances, tn \in Tenants \cup {Null} :
              CreateAccount(a, opened, tn)
         \/ \E tn \in Tenants : CreateShare(a, tn) \/ DeleteShare(a, tn)
  PROVE  TypeOK'
<1>1. ASSUME NEW opened \in Balances, NEW tn \in Tenants \cup {Null},
             CreateAccount(a, opened, tn)
      PROVE  TypeOK'
  <2>1. opened \in Int
    BY AmountsAssumption
  <2>2. share' \subseteq Accounts \X Tenants
    BY <1>1 DEF TypeOK, CreateAccount
  <2> QED BY <1>1, <2>1, <2>2 DEF TypeOK, CreateAccount
<1>2. ASSUME NEW tn \in Tenants, CreateShare(a, tn) \/ DeleteShare(a, tn)
      PROVE  TypeOK'
  BY <1>2 DEF TypeOK, CreateShare, DeleteShare, database, history
<1> QED BY <1>1, <1>2

\* The account form and the account's deletion.
LEMMA TypeAccountRequests ==
  ASSUME TypeOK, SessionsOK, NEW r \in Requests,
         \/ \E a \in Accounts : OpenForm(r, a)
         \/ \E v \in Balances \cup {req[r].value} : SubmitForm(r, v)
         \/ \E a \in Accounts, family \in BOOLEAN : StartRemove(r, a, family)
         \/ CommitEdit(r)
         \/ CommitRemove(r)
  PROVE  TypeOK'
<1> DEFINE q == req[r]
<1>1. q \in Session /\ q.value \in Int /\ q.old \in Row /\ q.old.amount \in Int
  BY DEF TypeOK, Session, Row
<1>2. ASSUME NEW a \in Accounts, OpenForm(r, a)
      PROVE  TypeOK'
  <2>1. balance[a] \in Int /\ Owner[a] \in Users
    BY OwnerAssumption DEF TypeOK
  <2>2. [NoSession EXCEPT !.pc = "form", !.op = "edit", !.user = Owner[a],
           !.new.account = a, !.value = balance[a], !.seen[a] = balance[a]]
          \in Session
    <3>1. [NoRow EXCEPT !.account = a] \in Row
      BY Constants DEF Row
    <3> QED BY <2>1, <3>1, Constants, ZenonT(40) DEF Session, NoSession
  <2> QED BY <1>2, <2>2 DEF OpenForm, TypeOK, database, history
<1>3. ASSUME NEW v \in Balances \cup {q.value}, SubmitForm(r, v)
      PROVE  TypeOK'
  <2> DEFINE s == [q EXCEPT !.pc = "open", !.value = v,
                     !.old.amount = q.value]
  <2>1. v \in Int /\ q.new.account \in Accounts
    BY <1>1, <1>3, AmountsAssumption
       DEF SubmitForm, SessionsOK, SessionOK
  <2>2. [q.old EXCEPT !.amount = q.value] \in Row
    BY <1>1 DEF Row
  <2>3. s \in Session
    BY <1>1, <2>1, <2>2 DEF Session
  <2>4. Loaded(s, q.new.account) \in Session
    BY <2>1, <2>3, LoadedType
  <2> QED BY <1>3, <2>4 DEF SubmitForm, TypeOK, database, history
<1>4. ASSUME NEW a \in Accounts, NEW family \in BOOLEAN,
             StartRemove(r, a, family)
      PROVE  TypeOK'
  <2>1. [NoSession EXCEPT !.pc = "open", !.op = "remove", !.user = Owner[a],
           !.new.account = a, !.value = IF family THEN 1 ELSE 0] \in Session
    <3>1. [NoRow EXCEPT !.account = a] \in Row /\ Owner[a] \in Users
      BY Constants, OwnerAssumption DEF Row
    <3>2. (IF family THEN 1 ELSE 0) \in Int
      OBVIOUS
    <3> DEFINE v == IF family THEN 1 ELSE 0
    <3> HIDE DEF v
    <3>3. [NoSession EXCEPT !.pc = "open", !.op = "remove", !.user = Owner[a],
             !.new.account = a, !.value = v] \in Session
      BY <3>1, <3>2, Constants, ZenonT(40) DEF Session, NoSession, v
    <3> QED BY <3>3 DEF v
  <2> QED BY <1>4, <2>1 DEF StartRemove, TypeOK, database, history
<1>5. CASE CommitEdit(r)
  <2>1. q.new.account \in Accounts
    BY <1>5 DEF CommitEdit, SessionsOK, SessionOK
  <2> QED BY <1>1, <1>5, <2>1, Constants DEF CommitEdit, TypeOK
<1>6. CASE CommitRemove(r)
  <2>1. q.new.account \in Accounts
    BY <1>6 DEF CommitRemove, SessionsOK, SessionOK
  <2>2. row' \in [Txns -> Row]
    <3>1. \A t \in Txns : [row[t] EXCEPT !.account = Null] \in Row
      BY DEF TypeOK, Row
    <3> QED BY <1>6, <3>1 DEF CommitRemove, TypeOK
  <2>3. job' \in [Jobs -> Job]
    BY <1>6, Constants DEF CommitRemove, TypeOK
  <2> QED BY <1>6, <2>1, <2>2, <2>3, Constants DEF CommitRemove, TypeOK
<1> QED BY <1>2, <1>3, <1>4, <1>5, <1>6

LEMMA TypeImports ==
  ASSUME TypeOK, ReferentialIntegrity, NEW j \in Jobs, ImportNext(j)
  PROVE  TypeOK'
<1>1. ASSUME NEW u \in Users, NEW tn \in Tenants, NEW a \in Accounts,
             ExecuteImport(j, u, tn, a)
      PROVE  TypeOK'
  <2>1. [NoJob EXCEPT !.state = "queued", !.account = a, !.tenant = tn,
           !.user = u] \in Job
    BY Constants DEF Job
  <2> QED BY <1>1, <2>1 DEF ExecuteImport, TypeOK, database, history
<1>2. ASSUME NEW type \in Types, NEW amount \in Amounts,
             ImportLine(j, type, amount)
      PROVE  TypeOK'
  <2> DEFINE next(t) ==
        [job[j] EXCEPT
           !.lines = @ \cup {[txn |-> t, type |-> type, amount |-> amount]},
           !.delta = @ + BalanceDelta(type, amount)]
  <2>1. amount \in Int /\ BalanceDelta(type, amount) \in Int
    BY AmountsAssumption, DeltaType
  <2>2. ASSUME NEW t \in FreshTxns
        PROVE  next(t) \in Job
    <3>1. job[j] \in Job
      BY DEF TypeOK
    <3>2. [txn |-> t, type |-> type, amount |-> amount]
            \in [txn: Txns, type: Types, amount: Int]
      BY <2>1 DEF FreshTxns
    <3>3. /\ job[j].lines \cup {[txn |-> t, type |-> type, amount |-> amount]}
               \in SUBSET [txn: Txns, type: Types, amount: Int]
          /\ job[j].delta + BalanceDelta(type, amount) \in Int
      BY <2>1, <3>1, <3>2 DEF Job
    <3> QED BY <3>1, <3>3 DEF Job
  <2>3. PICK t \in FreshTxns : job' = [job EXCEPT ![j] = next(t)]
    BY <1>2 DEF ImportLine
  <2> HIDE DEF next
  <2> QED BY <1>2, <2>2, <2>3 DEF ImportLine, TypeOK, database, history
<1>3. CASE CommitImport(j)
  <2>1. job[j] \in Job
    BY DEF TypeOK
  <2>2. row' \in [Txns -> Row]
    <3>1. ASSUME NEW t \in Txns, t \in {l.txn : l \in job[j].lines}
          PROVE  Imported(j, t) \in Row
      <4> DEFINE line == CHOOSE l \in job[j].lines : l.txn = t
      <4>1. line \in [txn: Txns, type: Types, amount: Int]
        BY <2>1, <3>1 DEF Job
      <4> HIDE DEF line
      <4>2. [state |-> "live", account |-> job[j].account,
             tenant |-> job[j].tenant, creator |-> job[j].user,
             type |-> line.type, amount |-> line.amount] \in Row
        BY <2>1, <4>1 DEF Job, Row
      <4> QED BY <4>2 DEF Imported, line
    <3> QED BY <1>3, <3>1 DEF CommitImport, TypeOK
  <2>3. job[j].delta \in Int /\ job[j].account \in Accounts
    BY <1>3, <2>1
       DEF Job, CommitImport, ReferentialIntegrity, LiveAccounts
  <2>4. balance' \in [Accounts -> Int] /\ posted' \in [Accounts -> Int]
    BY <1>3, <2>3 DEF CommitImport, TypeOK
  <2>5. job' \in [Jobs -> Job]
    BY <1>3, Constants DEF CommitImport, TypeOK
  <2> QED BY <1>3, <2>2, <2>4, <2>5 DEF CommitImport, TypeOK
<1> QED BY <1>1, <1>2, <1>3 DEF ImportNext

LEMMA TypeStep ==
  ASSUME TypeOK, SessionsOK, ReferentialIntegrity, [Next]_vars
  PROVE  TypeOK'
<1>1. CASE UNCHANGED vars
  BY <1>1 DEF TypeOK, vars, database, history
<1>2. CASE AccountNext
  BY <1>2, TypeAccounts DEF AccountNext
<1>3. ASSUME NEW r \in Requests, RequestNext(r)
      PROVE  TypeOK'
  BY <1>3, TypeReads, TypeCommits, TypeAccountRequests DEF RequestNext
<1>4. ASSUME NEW j \in Jobs, ImportNext(j)
      PROVE  TypeOK'
  BY <1>4, TypeImports
<1> QED BY <1>1, <1>2, <1>3, <1>4 DEF Next

-----------------------------------------------------------------------------
(* References *)

\* A transaction handler's commit puts row t on a live account or on none.
LEMMA CommitReferences ==
  ASSUME TypeOK, ReferentialIntegrity, NEW r \in Requests, NEW t \in Txns,
         NEW x \in Row, x.account # Null => Live(x.account),
         Commit(r, t, x)
  PROVE  ReferentialIntegrity'
BY DEF TypeOK, ReferentialIntegrity, Commit, LiveAccounts, Live, Row

LEMMA ReferencesStep ==
  ASSUME TypeOK, SessionsOK, ReferentialIntegrity, [Next]_vars
  PROVE  ReferentialIntegrity'
<1> USE DEF ReferentialIntegrity, LiveAccounts, Live
<1>1. CASE UNCHANGED vars
  BY <1>1 DEF vars, database, history
<1>2. CASE AccountNext
  <2>1. ASSUME NEW a \in Accounts, NEW opened \in Balances,
               NEW tn \in Tenants \cup {Null}, CreateAccount(a, opened, tn)
        PROVE  ReferentialIntegrity'
    BY <2>1 DEF CreateAccount, TypeOK
  <2>2. ASSUME NEW a \in Accounts, NEW tn \in Tenants,
               CreateShare(a, tn) \/ DeleteShare(a, tn)
        PROVE  ReferentialIntegrity'
    BY <2>2 DEF CreateShare, DeleteShare, history
  <2> QED BY <1>2, <2>1, <2>2 DEF AccountNext
<1>3. ASSUME NEW r \in Requests, RequestNext(r)
      PROVE  ReferentialIntegrity'
  <2> DEFINE q == req[r]
  <2>0. q \in Session /\ q.new \in Row /\ q.old \in Row /\ SessionOK(q)
    BY DEF TypeOK, Session, SessionsOK
  <2>1. CASE CommitCreate(r)
    BY <2>0, <2>1, CommitReferences DEF CommitCreate, SessionOK
  <2>2. CASE CommitUpdate(r)
    <3> DEFINE x == Columns(q, row[q.txn])
    <3>1. q.txn \in Txns
      BY <2>0, <2>2 DEF CommitUpdate, SessionOK
    <3>2. x \in Row
      BY <2>0, <3>1, ZenonT(40) DEF TypeOK, Columns, Row
    <3>3. x.account = IF q.old.account = q.new.account
                      THEN row[q.txn].account ELSE q.new.account
      BY <3>1 DEF TypeOK, Columns, Row
    <3>4. x.account # Null => Live(x.account)
      BY <2>2, <3>1, <3>3 DEF CommitUpdate, Flushable
    <3> QED BY <2>2, <3>1, <3>2, <3>4, CommitReferences DEF CommitUpdate
  <2>3. CASE CommitDelete(r)
    <3>1. DeletedRow.account = Null
      BY DEF DeletedRow, NoRow
    <3> QED BY <2>0, <2>3, <3>1, Constants, CommitReferences
            DEF CommitDelete, SessionOK
  <2>4. CASE CommitEdit(r)
    BY <2>4 DEF CommitEdit
  <2>5. CASE CommitRemove(r)
    <3> DEFINE a == q.new.account
    <3>1. a \in Accounts /\ a # Null
      BY <2>0, <2>5, Constants DEF CommitRemove, SessionOK
    <3>2. \A t \in Txns : row'[t].account # Null =>
            row'[t].account = row[t].account /\ row[t].account # a
      BY <2>5, <3>1 DEF CommitRemove, TypeOK, Row
    <3>3. \A s \in share' : s \in share /\ s[1] # a
      BY <2>5 DEF CommitRemove, SharesOf
    <3>4. \A k \in Jobs : job'[k].state = "queued" =>
            job'[k] = job[k] /\ job[k].account # a
      BY <2>5, <3>1 DEF CommitRemove, TypeOK, ClosedJob, NoJob
    <3>5. \A b : accountState[b] = "live" /\ b # a /\ b \in Accounts
            => accountState'[b] = "live"
      BY <2>5, <3>1 DEF CommitRemove, TypeOK
    <3> QED BY <3>2, <3>3, <3>4, <3>5
  <2>6. CASE UNCHANGED <<database, job>>
    BY <2>6 DEF database
  <2> QED BY <1>3, <2>1, <2>2, <2>3, <2>4, <2>5, <2>6
          DEF RequestNext, StartCreate, StartUpdate, StartDelete, OpenForm,
              SubmitForm, StartRemove, AuthorizeTarget, LoadAccount, Abort
<1>4. ASSUME NEW j \in Jobs, ImportNext(j)
      PROVE  ReferentialIntegrity'
  <2>1. ASSUME NEW u \in Users, NEW tn \in Tenants, NEW a \in Accounts,
               ExecuteImport(j, u, tn, a)
        PROVE  ReferentialIntegrity'
    BY <2>1 DEF ExecuteImport, Authorized, TypeOK, NoJob, database
  <2>2. ASSUME NEW type \in Types, NEW amount \in Amounts,
               ImportLine(j, type, amount)
        PROVE  ReferentialIntegrity'
    BY <2>2 DEF ImportLine, TypeOK, Job, database
  <2>3. CASE CommitImport(j)
    <3>1. \A t \in Txns : Imported(j, t).account = job[j].account
      BY DEF Imported
    <3> QED BY <2>3, <3>1 DEF CommitImport, TypeOK, ClosedJob, NoJob
  <2> QED BY <1>4, <2>1, <2>2, <2>3 DEF ImportNext
<1> QED BY <1>1, <1>2, <1>3, <1>4 DEF Next

-----------------------------------------------------------------------------
(* Sessions *)

LEMMA FinishedOK == SessionOK(Finished)
BY DEF SessionOK, Finished, NoSession, NoRow

\* What a session knows stays true whatever the others do.
LEMMA SessionKept ==
  ASSUME NEW q, SessionOK(q),
         q.old.account # Null => q.old.account \in Accounts,
         q.new.account # Null => q.new.account \in Accounts,
         \A a \in Accounts :
           /\ accountState[a] # "unborn" => accountState'[a] # "unborn"
           /\ accountState[a] = "deleted" => accountState'[a] = "deleted"
  PROVE  SessionOK(q)'
<1>1. \A a \in Accounts : EffectOn(q.new, a)' = EffectOn(q.new, a)
                          /\ EffectOn(q.old, a)' = EffectOn(q.old, a)
  BY DEF EffectOn, BalanceDelta
<1> QED BY <1>1 DEF SessionOK, Wanted

\* An account that an update makes count differently is one it loads.
LEMMA UpdateLoadsAll ==
  ASSUME NEW old \in Row, NEW new \in Row, NEW a \in Accounts,
         new.account = Null => old.account = Null,
         old.state = "live", new.state = "live",
         EffectOn(new, a) # EffectOn(old, a)
  PROVE  \E i \in 1..Len(UpdateLoads(old, new)) : UpdateLoads(old, new)[i] = a
<1>1. a # Null
  BY Constants
<1>2. CASE old.account = new.account
  <2>1. UpdateLoads(old, new) = <<a>>
    BY <1>1, <1>2 DEF UpdateLoads, EffectOn
  <2> QED BY <2>1
<1>3. CASE old.account # new.account
  <2>1. CASE old.account = Null
    <3>1. UpdateLoads(old, new) = <<a>>
      BY <1>1, <1>3, <2>1 DEF UpdateLoads, EffectOn
    <3> QED BY <3>1
  <2>2. CASE old.account # Null
    <3>1. UpdateLoads(old, new) = <<old.account, new.account>>
      BY <1>3, <2>2 DEF UpdateLoads
    <3>2. a = old.account \/ a = new.account
      BY DEF EffectOn
    <3> QED BY <3>1, <3>2
  <2> QED BY <2>1, <2>2
<1> QED BY <1>2, <1>3

LEMMA UpdateLoadsOnly ==
  ASSUME NEW old, NEW new
  PROVE  \A i \in 1..Len(UpdateLoads(old, new)) :
           UpdateLoads(old, new)[i] \in {old.account, new.account}
BY DEF UpdateLoads

LEMMA HeadAndTail ==
  ASSUME NEW S, NEW w \in Seq(S), w # << >>
  PROVE  /\ {w[i] : i \in 1..Len(w)}
              = {Head(w)} \cup {Tail(w)[i] : i \in 1..Len(Tail(w))}
         /\ Head(w) \in S
<1>1. /\ Head(w) = w[1] /\ Head(w) \in S
      /\ Len(w) \in Nat /\ Len(w) >= 1
      /\ Len(Tail(w)) = Len(w) - 1
      /\ \A i \in 1..Len(Tail(w)) : Tail(w)[i] = w[i + 1]
  OBVIOUS
<1>2. ASSUME NEW i \in 1..Len(w), i # 1
      PROVE  w[i] \in {Tail(w)[k] : k \in 1..Len(Tail(w))}
  <2>1. PICK k : k = i - 1
    OBVIOUS
  <2>2. k \in 1..Len(Tail(w)) /\ k + 1 = i
    BY <1>1, <1>2, <2>1
  <2>3. Tail(w)[k] = w[i]
    BY <1>1, <2>2
  <2> QED BY <2>2, <2>3
<1>3. ASSUME NEW k \in 1..Len(Tail(w))
      PROVE  Tail(w)[k] \in {w[i] : i \in 1..Len(w)}
  <2>1. k + 1 \in 1..Len(w) /\ Tail(w)[k] = w[k + 1]
    BY <1>1
  <2> QED BY <2>1
<1> QED BY <1>1, <1>2, <1>3

\* Accounts are born and deleted once.
LEMMA AccountsAge ==
  ASSUME TypeOK, SessionsOK, [Next]_vars, NEW a \in Accounts
  PROVE  /\ accountState[a] # "unborn" => accountState'[a] # "unborn"
         /\ accountState[a] = "deleted" => accountState'[a] = "deleted"
<1>1. CASE UNCHANGED accountState
  BY <1>1
<1>2. ASSUME NEW b \in Accounts, NEW opened \in Balances,
             NEW tn \in Tenants \cup {Null}, CreateAccount(b, opened, tn)
      PROVE  /\ accountState[a] # "unborn" => accountState'[a] # "unborn"
             /\ accountState[a] = "deleted" => accountState'[a] = "deleted"
  BY <1>2 DEF CreateAccount, TypeOK
<1>3. ASSUME NEW r \in Requests, CommitRemove(r)
      PROVE  /\ accountState[a] # "unborn" => accountState'[a] # "unborn"
             /\ accountState[a] = "deleted" => accountState'[a] = "deleted"
  BY <1>3 DEF CommitRemove, TypeOK, Live
<1>4. CASE AccountNext
  BY <1>1, <1>2, <1>4 DEF AccountNext, CreateShare, DeleteShare
<1>5. ASSUME NEW r \in Requests, RequestNext(r)
      PROVE  UNCHANGED accountState \/ CommitRemove(r)
  BY <1>5 DEF RequestNext, StartCreate, StartUpdate, StartDelete, OpenForm,
              SubmitForm, StartRemove, AuthorizeTarget, LoadAccount, Abort,
              CommitCreate, CommitUpdate, CommitDelete, Commit, CommitEdit,
              database
<1>6. ASSUME NEW j \in Jobs, ImportNext(j)
      PROVE  UNCHANGED accountState
  BY <1>6 DEF ImportNext, ExecuteImport, ImportLine, CommitImport, database
<1>7. CASE UNCHANGED vars
  BY <1>1, <1>7 DEF vars, database
<1> QED BY <1>1, <1>3, <1>4, <1>5, <1>6, <1>7 DEF Next

LEMMA SessionsStep ==
  ASSUME TypeOK, SessionsOK, ReferentialIntegrity, [Next]_vars
  PROVE  SessionsOK'
<1>1. \A s \in Requests : /\ SessionOK(req[s])
                          /\ req[s] \in Session
                          /\ req[s].old \in Row /\ req[s].new \in Row
  BY DEF TypeOK, SessionsOK, Session
<1>2. ASSUME NEW s \in Requests, NEW q, q = req[s]
      PROVE  SessionOK(q)'
  <2>1. /\ q.old.account # Null => q.old.account \in Accounts
        /\ q.new.account # Null => q.new.account \in Accounts
    BY <1>1, <1>2 DEF Row
  <2>2. SessionOK(q)
    BY <1>1, <1>2
  <2> QED BY <2>1, <2>2, AccountsAge, SessionKept
<1>3. ASSUME NEW r \in Requests, NEW q, SessionOK(q)',
             req' = [req EXCEPT ![r] = q]
      PROVE  SessionsOK'
  <2>1. SUFFICES ASSUME NEW s \in Requests, NEW p, p = req'[s]
                 PROVE  SessionOK(p)'
    BY DEF SessionsOK, SessionOK
  <2>2. CASE s = r
    <3>1. p = q
      BY <1>3, <2>1, <2>2 DEF TypeOK
    <3> QED BY <1>3, <3>1
  <2>3. CASE s # r
    <3>1. p = req[s]
      BY <1>3, <2>1, <2>3 DEF TypeOK
    <3> QED BY <1>2, <3>1
  <2> QED BY <2>2, <2>3
<1>4. ASSUME NEW r \in Requests, req' = [req EXCEPT ![r] = Finished]
      PROVE  SessionsOK'
  <2>1. SessionOK(Finished)'
    BY DEF SessionOK, Finished, NoSession, NoRow
  <2> QED BY <1>3, <1>4, <2>1
<1>5. CASE UNCHANGED req
  <2> SUFFICES ASSUME NEW s \in Requests, NEW p, p = req'[s]
               PROVE  SessionOK(p)'
    BY DEF SessionsOK, SessionOK
  <2> QED BY <1>2, <1>5
<1>6. ASSUME NEW r \in Requests, RequestNext(r)
      PROVE  SessionsOK'
  <2> DEFINE q == req[r]
  <2>1. ASSUME NEW u \in Users, NEW tn \in Tenants, NEW a \in Accounts,
               NEW type \in Types, NEW amount \in Amounts,
               StartCreate(r, u, tn, a, type, amount)
        PROVE  SessionsOK'
    <3> DEFINE x == [state |-> "live", account |-> a, tenant |-> tn,
                     creator |-> u, type |-> type, amount |-> amount]
    <3>1. PICK t \in FreshTxns :
            req' = [req EXCEPT ![r] = Loaded([NoSession EXCEPT !.pc = "open",
              !.op = "create", !.user = u, !.tenant = tn, !.txn = t,
              !.new = x], a)]
      BY <2>1 DEF StartCreate
    <3>2. PICK p : p = Loaded([NoSession EXCEPT !.pc = "open",
              !.op = "create", !.user = u, !.tenant = tn, !.txn = t,
              !.new = x], a)
      OBVIOUS
    <3>3. /\ p.pc = "open" /\ p.op = "create" /\ p.txn = t
          /\ p.old = NoRow /\ p.new = x /\ p.want = << >> /\ p.got = {a}
      BY <3>2 DEF Loaded, NoSession
    <3>4. t \in Txns /\ NoRow.account = Null /\ accountState'[a] = "live"
      BY <2>1 DEF StartCreate, Authorized, Live, FreshTxns, NoRow, database
    <3>5. \A b \in Accounts : (EffectOn(x, b) # EffectOn(NoRow, b))' => b = a
      BY DEF EffectOn, NoRow
    <3>6. SessionOK(p)'
      BY <3>3, <3>4, <3>5 DEF SessionOK, Wanted
    <3> QED BY <1>3, <3>1, <3>2, <3>6
  <2>2. ASSUME NEW u \in Users, NEW tn \in Tenants, NEW t \in Txns,
               NEW p \in [account: Accounts \cup {Null},
                          type: Types \cup {Null},
                          amount: Amounts \cup {Null}],
               StartUpdate(r, u, tn, t, p)
        PROVE  SessionsOK'
    <3>1. PICK old : old = row[t]
      OBVIOUS
    <3>2. PICK new : new = Patched(old, p)
      OBVIOUS
    <3>3. PICK want : want = UpdateLoads(old, new)
      OBVIOUS
    <3>4. PICK s : s = [NoSession EXCEPT
            !.pc = IF p.account = Null THEN "open" ELSE "checking",
            !.op = "update", !.user = u, !.tenant = tn, !.txn = t,
            !.old = old, !.new = new, !.want = want]
      OBVIOUS
    <3>5. req' = [req EXCEPT ![r] = s]
      BY <2>2, <3>1, <3>2, <3>3, <3>4 DEF StartUpdate
    <3>6. /\ s.pc = (IF p.account = Null THEN "open" ELSE "checking")
          /\ s.op = "update" /\ s.txn = t /\ s.got = {}
          /\ s.old = old /\ s.new = new /\ s.want = want
      BY <3>4 DEF NoSession
    <3>7. old \in Row /\ new \in Row /\ old.state = "live"
      <4>1. p \in Payload
        BY AmountsAssumption DEF Payload
      <4> QED BY <2>2, <3>1, <3>2, <4>1, PatchedType DEF StartUpdate, TypeOK
    <3>8. /\ new.state = "live"
          /\ p.account = Null => new.account = old.account
          /\ new.account = Null => old.account = Null
      BY <3>2, <3>7 DEF Patched, Row
    <3>9. old.account # Null => accountState[old.account] = "live"
      BY <3>1 DEF ReferentialIntegrity, LiveAccounts, Live
    <3>10. UNCHANGED accountState
      BY <2>2 DEF StartUpdate, database
    <3>11. \A a \in Accounts : EffectOn(new, a) # EffectOn(old, a)
                                 => a \in Wanted(s)
      BY <3>3, <3>6, <3>7, <3>8, UpdateLoadsAll DEF Wanted
    <3>12. Wanted(s) \subseteq {old.account, new.account}
      BY <3>3, <3>6, UpdateLoadsOnly DEF Wanted
    <3>13. SessionOK(s)
      BY <3>6, <3>7, <3>8, <3>9, <3>11, <3>12 DEF SessionOK
    <3>14. SessionOK(s)'
      BY <3>10, <3>13 DEF SessionOK, Wanted, EffectOn, BalanceDelta
    <3> QED BY <1>3, <3>5, <3>14
  <2>3. ASSUME NEW u \in Users, NEW tn \in Tenants, NEW t \in Txns,
               StartDelete(r, u, tn, t)
        PROVE  SessionsOK'
    <3>1. PICK old : old = row[t]
      OBVIOUS
    <3>2. PICK want : want = IF old.account = Null THEN << >>
                             ELSE <<old.account>>
      OBVIOUS
    <3>3. PICK s : s = [NoSession EXCEPT !.pc = "open", !.op = "delete",
            !.user = u, !.tenant = tn, !.txn = t, !.old = old,
            !.new = DeletedRow, !.want = want]
      OBVIOUS
    <3>4. req' = [req EXCEPT ![r] = s]
      BY <2>3, <3>1, <3>2, <3>3 DEF StartDelete
    <3>5. /\ s.pc = "open" /\ s.op = "delete" /\ s.txn = t /\ s.got = {}
          /\ s.old = old /\ s.new = DeletedRow /\ s.want = want
      BY <3>3 DEF NoSession
    <3>6. /\ old.state = "live" /\ UNCHANGED accountState
          /\ old.account # Null => accountState[old.account] = "live"
      BY <2>3, <3>1
         DEF StartDelete, ReferentialIntegrity, LiveAccounts, Live, database
    <3>7. Wanted(s) = IF old.account = Null THEN {} ELSE {old.account}
      BY <3>2, <3>5 DEF Wanted
    <3>8. DeletedRow.account = Null /\ DeletedRow.state = "deleted"
      BY DEF DeletedRow, NoRow
    <3>9. \A a \in Accounts : EffectOn(DeletedRow, a) # EffectOn(old, a)
                                => a \in Wanted(s)
      BY <3>7, <3>8, Constants DEF EffectOn
    <3>10. SessionOK(s)
      BY <3>5, <3>6, <3>7, <3>8, <3>9 DEF SessionOK
    <3>11. SessionOK(s)'
      BY <3>6, <3>10
         DEF SessionOK, Wanted, EffectOn, BalanceDelta, DeletedRow, NoRow
    <3> QED BY <1>3, <3>4, <3>11
  <2>4. ASSUME NEW a \in Accounts, OpenForm(r, a)
        PROVE  SessionsOK'
    <3>1. PICK s : s = [NoSession EXCEPT !.pc = "form", !.op = "edit",
            !.user = Owner[a], !.new.account = a, !.value = balance[a],
            !.seen[a] = balance[a]]
      OBVIOUS
    <3>2. s.pc = "form" /\ s.op = "edit" /\ s.new.account = a /\ s.old = NoRow
      BY <3>1 DEF NoSession, NoRow
    <3>3. SessionOK(s)'
      BY <3>2 DEF SessionOK, NoRow
    <3> QED BY <1>3, <2>4, <3>1, <3>3 DEF OpenForm
  <2>5. ASSUME NEW v \in Balances \cup {q.value}, SubmitForm(r, v)
        PROVE  SessionsOK'
    <3>1. PICK s : s = Loaded([q EXCEPT !.pc = "open", !.value = v,
                         !.old.amount = q.value], q.new.account)
      OBVIOUS
    <3>2. q.op = "edit" /\ q.new.account \in Accounts
          /\ (q.old.account # Null => accountState[q.old.account] # "unborn")
      BY <1>1, <2>5 DEF SubmitForm, SessionOK
    <3>3. s.pc = "open" /\ s.op = "edit" /\ s.new = q.new
          /\ s.old.account = q.old.account
      BY <1>1, <3>1, <3>2 DEF Loaded, Session, Row
    <3>4. SessionOK(s)'
      BY <2>5, <3>2, <3>3 DEF SessionOK, SubmitForm, database
    <3> QED BY <1>3, <2>5, <3>1, <3>4 DEF SubmitForm
  <2>6. ASSUME NEW a \in Accounts, NEW family \in BOOLEAN,
               StartRemove(r, a, family)
        PROVE  SessionsOK'
    <3>1. PICK s : s = [NoSession EXCEPT !.pc = "open", !.op = "remove",
            !.user = Owner[a], !.new.account = a,
            !.value = IF family THEN 1 ELSE 0]
      OBVIOUS
    <3>2. s.pc = "open" /\ s.op = "remove" /\ s.new.account = a
          /\ s.old = NoRow
      BY <3>1 DEF NoSession, NoRow
    <3>3. SessionOK(s)'
      BY <3>2 DEF SessionOK, NoRow
    <3> QED BY <1>3, <2>6, <3>1, <3>3 DEF StartRemove
  <2>7. CASE AuthorizeTarget(r)
    <3>1. PICK s : s = [q EXCEPT !.pc = "open"]
      OBVIOUS
    <3>2. /\ s.pc = "open" /\ s.op = q.op /\ s.txn = q.txn /\ s.got = q.got
          /\ s.old = q.old /\ s.new = q.new /\ s.want = q.want
      BY <1>1, <3>1 DEF Session
    <3>3. SessionOK(s)
      <4>1. SessionOK(q) /\ accountState[q.new.account] = "live"
        BY <1>1, <2>7 DEF AuthorizeTarget, Authorized, Live
      <4>2. Wanted(s) = Wanted(q)
        BY <3>2 DEF Wanted
      <4> QED BY <3>2, <4>1, <4>2 DEF SessionOK
    <3>4. SessionOK(s)'
      BY <2>7, <3>3 DEF AuthorizeTarget, database, SessionOK, Wanted, EffectOn,
                        BalanceDelta, NoRow, DeletedRow
    <3> QED BY <1>3, <2>7, <3>1, <3>4 DEF AuthorizeTarget
  <2>8. CASE LoadAccount(r)
    <3>1. PICK s : s = req'[r]
      OBVIOUS
    <3>2. /\ s.pc = q.pc /\ s.op = q.op /\ s.txn = q.txn
          /\ s.old = q.old /\ s.new = q.new /\ s.want = Tail(q.want)
          /\ s.got = IF Live(Head(q.want)) THEN q.got \cup {Head(q.want)}
                     ELSE q.got
      BY <1>1, <2>8, <3>1 DEF LoadAccount, Loaded, TypeOK, Session
    <3>3. /\ Wanted(q) = {Head(q.want)} \cup Wanted(s)
          /\ Head(q.want) \in Accounts
      <4>1. q.want \in Seq(Accounts) /\ q.want # << >>
        BY <1>1, <2>8 DEF LoadAccount, Session
      <4>2. s.want = Tail(q.want)
        BY <3>2
      <4>3. /\ {q.want[i] : i \in 1..Len(q.want)}
                 = {Head(q.want)}
                     \cup {Tail(q.want)[i] : i \in 1..Len(Tail(q.want))}
            /\ Head(q.want) \in Accounts
        BY <4>1, HeadAndTail, Zenon
      <4>4. Wanted(s) = {Tail(q.want)[i] : i \in 1..Len(Tail(q.want))}
        BY <4>2, Zenon DEF Wanted
      <4> HIDE DEF q
      <4> QED BY <4>3, <4>4, Zenon DEF Wanted
    <3>4. q.pc = "open" /\ q.want # << >> /\ SessionOK(q)
      BY <1>1, <2>8 DEF LoadAccount
    <3>5. q.op \in {"create", "update", "delete"}
            /\ ~ Live(Head(q.want)) => accountState[Head(q.want)] = "deleted"
      <4> DEFINE a == Head(q.want)
      <4>1. SUFFICES ASSUME q.op \in {"create", "update", "delete"}
                     PROVE  accountState[a] # "unborn"
        BY <3>3 DEF TypeOK, Live
      <4>2. a \in {q.old.account, q.new.account} /\ a # Null
        BY <3>3, <3>4, <4>1, Constants DEF SessionOK
      <4> QED BY <3>4, <4>1, <4>2 DEF SessionOK
    <3>6. SessionOK(s)
      BY <3>2, <3>3, <3>4, <3>5 DEF SessionOK
    <3>7. SessionOK(s)'
      BY <2>8, <3>6 DEF LoadAccount, database, SessionOK, Wanted, EffectOn,
                        BalanceDelta, NoRow, DeletedRow
    <3>8. req' = [req EXCEPT ![r] = s]
      BY <2>8, <3>1 DEF LoadAccount, TypeOK
    <3> QED BY <1>3, <3>7, <3>8
  <2> QED
    BY <1>4, <1>6, <2>1, <2>2, <2>3, <2>4, <2>5, <2>6, <2>7, <2>8
       DEF RequestNext, Abort, CommitCreate, CommitUpdate, CommitDelete, Commit,
           CommitEdit, CommitRemove
<1> QED BY <1>5, <1>6 DEF Next, AccountNext, ImportNext, CreateAccount,
      CreateShare, DeleteShare, ExecuteImport, ImportLine, CommitImport, vars

-----------------------------------------------------------------------------
(* Books *)

\* Once everything is loaded, the handler's arithmetic is the difference the
\* new row makes, and it writes every live account that differs.
LEMMA CommitArithmetic ==
  ASSUME NEW q \in Session, SessionOK(q), NEW a \in Accounts,
         q.op \in {"create", "update", "delete"}
  PROVE  /\ a \in q.got => Rebalance(q, a) = EffectOn(q.new, a)
                                               - EffectOn(q.old, a)
         /\ a \in Written(q) => a \in {q.old.account, q.new.account}
<1>1. /\ q.old \in Row /\ q.new \in Row
      /\ q.old.type \in Types /\ q.old.amount \in Int
      /\ q.new.type \in Types /\ q.new.amount \in Int
  BY DEF Session, Row
<1>2. PICK added \in Int : added = BalanceDelta(q.new.type, q.new.amount)
  BY <1>1, DeltaType
<1>3. PICK reversed \in Int : reversed = BalanceDelta(q.old.type, q.old.amount)
  BY <1>1, DeltaType
<1>4. q.got \subseteq {q.old.account, q.new.account}
  BY DEF SessionOK
<1>5. a # Null /\ NoRow.state = "none" /\ NoRow.account = Null
      /\ DeletedRow.state = "deleted" /\ DeletedRow.account = Null
  BY Constants DEF NoRow, DeletedRow
<1>6. ASSUME a \in q.got
      PROVE  Rebalance(q, a) = EffectOn(q.new, a) - EffectOn(q.old, a)
  <2>1. CASE q.op = "create"
    BY <1>2, <1>4, <1>5, <1>6, <2>1 DEF SessionOK, Rebalance, EffectOn
  <2>2. CASE q.op = "delete"
    BY <1>3, <1>4, <1>5, <1>6, <2>2 DEF SessionOK, Rebalance, EffectOn
  <2>3. CASE q.op = "update"
    <3>1. q.old.state = "live" /\ q.new.state = "live"
      BY <2>3 DEF SessionOK
    <3> QED BY <1>2, <1>3, <1>4, <1>6, <2>3, <3>1 DEF Rebalance, EffectOn
  <2> QED BY <2>1, <2>2, <2>3
<1> QED BY <1>4, <1>6 DEF Written

\* Committing row x keeps the books of every account not marked as drifted,
\* if x counts as the session's new row does.
LEMMA CommitBooks ==
  ASSUME TypeOK, BooksBalance, NEW r \in Requests, NEW t \in Txns, NEW x \in Row,
         SessionOK(req[r]), t = req[r].txn, req[r].want = << >>,
         req[r].op \in {"create", "update", "delete"},
         req[r].old = row[t] =>
           \A a \in Accounts : EffectOn(x, a) = EffectOn(req[r].new, a),
         x.account \in {row[t].account, req[r].new.account, Null},
         Commit(r, t, x)
  PROVE  BooksBalance'
<1> DEFINE q == req[r]
<1>1. q \in Session /\ q.old \in Row /\ q.new \in Row /\ row[t] \in Row
  BY DEF TypeOK, Session
<1>2. SUFFICES ASSUME NEW a \in Accounts, accountState[a] = "live",
                      a \notin drifted, a \notin Stale(q)
               PROVE  balance'[a] = opening'[a] + posted'[a]
  BY DEF BooksBalance, LiveAccounts, Live, Commit
<1>3. balance[a] = opening[a] + posted[a]
  BY <1>2 DEF BooksBalance, LiveAccounts, Live
<1>4. /\ balance'[a] = IF a \in Written(q) THEN NewBalance(q, a)
                       ELSE balance[a]
      /\ posted'[a] = posted[a] - EffectOn(row[t], a) + EffectOn(x, a)
      /\ opening'[a] = opening[a]
  BY DEF Commit
<1>5. /\ balance[a] \in Int /\ opening[a] \in Int /\ posted[a] \in Int
      /\ q.seen[a] \in Int
      /\ EffectOn(row[t], a) \in Int /\ EffectOn(x, a) \in Int
      /\ EffectOn(q.old, a) \in Int /\ EffectOn(q.new, a) \in Int
  BY <1>1, EffectType DEF TypeOK, Session
<1>6. /\ a \in q.got => Rebalance(q, a) = EffectOn(q.new, a)
                                            - EffectOn(q.old, a)
      /\ a \in Written(q) => a \in {q.old.account, q.new.account}
  BY <1>1, CommitArithmetic
<1>7. CASE q.old = row[t]
  <2>1. EffectOn(x, a) = EffectOn(q.new, a)
        /\ EffectOn(row[t], a) = EffectOn(q.old, a)
    BY <1>7
  <2>2. CASE a \in Written(q)
    <3>1. a \in q.got /\ q.seen[a] = balance[a]
      BY <1>2, <2>2 DEF Stale, Written
    <3>2. NewBalance(q, a) = q.seen[a] + Rebalance(q, a)
      BY DEF NewBalance
    <3> QED BY <1>3, <1>4, <1>5, <1>6, <2>1, <2>2, <3>1, <3>2
  <2>3. CASE a \notin Written(q)
    <3>1. CASE a \in q.got
      <4>1. q.seen[a] + Rebalance(q, a) = q.seen[a]
        BY <2>3, <3>1 DEF Written, NewBalance
      <4> QED BY <1>3, <1>4, <1>5, <1>6, <2>1, <2>3, <3>1, <4>1
    <3>2. CASE a \notin q.got
      <4>1. Wanted(q) = {}
        BY DEF Wanted
      <4>2. EffectOn(q.new, a) = EffectOn(q.old, a)
        BY <1>2, <3>2, <4>1 DEF SessionOK
      <4> QED BY <1>3, <1>4, <1>5, <2>1, <2>3, <4>2
    <3> QED BY <3>1, <3>2
  <2> QED BY <2>2, <2>3
<1>8. CASE q.old # row[t]
  <2>1. a \notin {q.old.account, q.new.account, row[t].account}
    BY <1>2, <1>8, Constants DEF Stale
  <2>2. EffectOn(row[t], a) = 0 /\ EffectOn(x, a) = 0 /\ a \notin Written(q)
    BY <1>6, <2>1, Constants DEF EffectOn
  <2> QED BY <1>3, <1>4, <1>5, <2>2
<1> QED BY <1>7, <1>8

\* The row x an open transaction session commits.
Committed(r) ==
  LET q == req[r] IN
  IF q.op = "update" THEN Columns(q, row[q.txn]) ELSE q.new

LEMMA CommittedRow ==
  ASSUME TypeOK, SessionsOK, ReferentialIntegrity, NEW r \in Requests,
         CommitCreate(r) \/ CommitUpdate(r) \/ CommitDelete(r)
  PROVE  LET q == req[r]
             x == Committed(r)
         IN  /\ SessionOK(q) /\ q.want = << >>
             /\ q.op \in {"create", "update", "delete"}
             /\ q.txn \in Txns /\ x \in Row
             /\ Commit(r, q.txn, x)
             /\ x.account \in {row[q.txn].account, q.new.account, Null}
             /\ x.account # Null => Live(x.account)
             /\ q.old = row[q.txn] =>
                  \A a \in Accounts : EffectOn(x, a) = EffectOn(q.new, a)
<1> DEFINE q == req[r]
           x == Committed(r)
<1>1. q \in Session /\ q.old \in Row /\ q.new \in Row /\ SessionOK(q)
  BY DEF TypeOK, SessionsOK, Session
<1>2. CASE CommitCreate(r)
  BY <1>1, <1>2 DEF CommitCreate, Committed, SessionOK
<1>3. CASE CommitUpdate(r)
  <2>1. q.op = "update" /\ q.txn \in Txns /\ q.want = << >>
        /\ q.new.state = "live" /\ q.old.state = "live"
    BY <1>1, <1>3 DEF CommitUpdate, SessionOK
  <2>2. row[q.txn] \in Row /\ row[q.txn].state = "live"
    BY <1>3, <2>1 DEF CommitUpdate, Flushable, TypeOK
  <2>3. x = Columns(q, row[q.txn])
    BY <2>1 DEF Committed
  <2>4. /\ x \in Row /\ x.state = "live"
        /\ x.account = IF q.old.account = q.new.account
                       THEN row[q.txn].account ELSE q.new.account
        /\ x.type = IF q.old.type = q.new.type THEN row[q.txn].type
                    ELSE q.new.type
        /\ x.amount = IF q.old.amount = q.new.amount THEN row[q.txn].amount
                      ELSE q.new.amount
    BY <1>1, <2>2, <2>3 DEF Columns, Row
  <2>5. x.account # Null => Live(x.account)
    BY <1>3, <2>1, <2>4
       DEF CommitUpdate, Flushable, ReferentialIntegrity, LiveAccounts
  <2>6. q.old = row[q.txn] =>
          \A a \in Accounts : EffectOn(x, a) = EffectOn(q.new, a)
    BY <2>1, <2>4 DEF EffectOn
  <2> QED BY <1>1, <1>3, <2>1, <2>3, <2>4, <2>5, <2>6 DEF CommitUpdate
<1>4. CASE CommitDelete(r)
  <2>1. DeletedRow.account = Null
    BY DEF DeletedRow, NoRow
  <2> QED BY <1>1, <1>4, <2>1 DEF CommitDelete, Committed, SessionOK
<1> QED BY <1>2, <1>3, <1>4

LEMMA UnbornStep ==
  ASSUME TypeOK, SessionsOK, ReferentialIntegrity, UnbornUnposted, [Next]_vars
  PROVE  UnbornUnposted'
<1> USE DEF UnbornUnposted
<1>1. CASE UNCHANGED <<accountState, posted>>
  BY <1>1
<1>2. ASSUME NEW a \in Accounts, NEW opened \in Balances,
             NEW tn \in Tenants \cup {Null}, CreateAccount(a, opened, tn)
      PROVE  UnbornUnposted'
  BY <1>2 DEF CreateAccount, TypeOK
<1>3. ASSUME NEW r \in Requests,
             CommitCreate(r) \/ CommitUpdate(r) \/ CommitDelete(r)
      PROVE  UnbornUnposted'
  <2> DEFINE q == req[r]
             x == Committed(r)
  <2>1. /\ q.txn \in Txns /\ Commit(r, q.txn, x)
        /\ x.account # Null => Live(x.account)
    BY <1>3, CommittedRow
  <2>2. ASSUME NEW a \in Accounts, accountState[a] = "unborn"
        PROVE  posted'[a] = 0
    <3>1. EffectOn(row[q.txn], a) = 0 /\ EffectOn(x, a) = 0
      BY <2>1, <2>2, Constants
         DEF EffectOn, ReferentialIntegrity, LiveAccounts, Live
    <3> QED BY <2>1, <2>2, <3>1 DEF Commit
  <2> QED BY <2>1, <2>2 DEF Commit
<1>4. ASSUME NEW r \in Requests, CommitRemove(r)
      PROVE  UnbornUnposted'
  BY <1>4 DEF CommitRemove, TypeOK, Live
<1>5. ASSUME NEW j \in Jobs, CommitImport(j)
      PROVE  UnbornUnposted'
  BY <1>5 DEF CommitImport, ReferentialIntegrity, LiveAccounts, Live, TypeOK
<1>6. CASE AccountNext
  BY <1>1, <1>2, <1>6 DEF AccountNext, CreateShare, DeleteShare, history
<1>7. ASSUME NEW r \in Requests, RequestNext(r)
      PROVE  UnbornUnposted'
  BY <1>1, <1>3, <1>4, <1>7, ZenonT(40)
     DEF RequestNext, StartCreate, StartUpdate, StartDelete, OpenForm,
         SubmitForm, StartRemove, AuthorizeTarget, LoadAccount, Abort,
         CommitEdit, database, history
<1>8. ASSUME NEW j \in Jobs, ImportNext(j)
      PROVE  UnbornUnposted'
  BY <1>1, <1>5, <1>8
     DEF ImportNext, ExecuteImport, ImportLine, database, history
<1> QED BY <1>1, <1>6, <1>7, <1>8 DEF Next, vars, database, history

LEMMA BooksStep ==
  ASSUME IInv, [Next]_vars
  PROVE  BooksBalance'
<1> USE DEF IInv
<1>1. CASE UNCHANGED <<accountState, balance, opening, posted, drifted>>
  BY <1>1 DEF BooksBalance, LiveAccounts, Live
<1>2. ASSUME NEW a \in Accounts, NEW opened \in Balances,
             NEW tn \in Tenants \cup {Null}, CreateAccount(a, opened, tn)
      PROVE  BooksBalance'
  <2>1. posted[a] = 0 /\ opened \in Int
    BY <1>2, AmountsAssumption DEF CreateAccount, UnbornUnposted
  <2> QED BY <1>2, <2>1
          DEF CreateAccount, BooksBalance, LiveAccounts, Live, TypeOK
<1>3. ASSUME NEW r \in Requests,
             CommitCreate(r) \/ CommitUpdate(r) \/ CommitDelete(r)
      PROVE  BooksBalance'
  BY <1>3, CommittedRow, CommitBooks
<1>4. ASSUME NEW r \in Requests, CommitEdit(r)
      PROVE  BooksBalance'
  <2> DEFINE q == req[r]
             a == q.new.account
             rebased == a \in Written(q) /\ q.value # q.old.amount
  <2>1. a \in Accounts /\ q.value \in Int
    BY <1>4 DEF CommitEdit, SessionsOK, SessionOK, TypeOK, Session
  <2>2. posted[a] \in Int /\ opening[a] \in Int /\ balance[a] \in Int
    BY <2>1 DEF TypeOK
  <2>3. CASE rebased
    BY <1>4, <2>1, <2>2, <2>3
       DEF CommitEdit, BooksBalance, LiveAccounts, Live, TypeOK
  <2>4. CASE ~ rebased
    BY <1>4, <2>1, <2>2, <2>4
       DEF CommitEdit, BooksBalance, LiveAccounts, Live, TypeOK
  <2> QED BY <2>3, <2>4
<1>5. ASSUME NEW r \in Requests, CommitRemove(r)
      PROVE  BooksBalance'
  <2>1. req[r].new.account \in Accounts
    BY <1>5 DEF CommitRemove, SessionsOK, SessionOK
  <2> QED BY <1>5, <2>1
          DEF CommitRemove, BooksBalance, LiveAccounts, Live, TypeOK
<1>6. ASSUME NEW j \in Jobs, CommitImport(j)
      PROVE  BooksBalance'
  <2>1. job[j].account \in Accounts /\ job[j].delta \in Int
    BY <1>6 DEF CommitImport, ReferentialIntegrity, LiveAccounts, TypeOK, Job
  <2> QED BY <1>6, <2>1
          DEF CommitImport, BooksBalance, LiveAccounts, Live, TypeOK
<1>7. CASE AccountNext
  BY <1>1, <1>2, <1>7 DEF AccountNext, CreateShare, DeleteShare, history
<1>8. ASSUME NEW r \in Requests, RequestNext(r)
      PROVE  BooksBalance'
  BY <1>1, <1>3, <1>4, <1>5, <1>8, ZenonT(40)
     DEF RequestNext, StartCreate, StartUpdate, StartDelete, OpenForm,
         SubmitForm, StartRemove, AuthorizeTarget, LoadAccount, Abort,
         database, history
<1>9. ASSUME NEW j \in Jobs, ImportNext(j)
      PROVE  BooksBalance'
  BY <1>1, <1>6, <1>9
     DEF ImportNext, ExecuteImport, ImportLine, database, history
<1> QED BY <1>1, <1>7, <1>8, <1>9 DEF Next, vars, database, history

-----------------------------------------------------------------------------
(* The theorems *)

LEMMA InvInit == Init => IInv
<1> SUFFICES ASSUME Init PROVE IInv
  OBVIOUS
<1>1. TypeOK
  BY TypeInit
<1>2. SessionsOK
  BY DEF Init, SessionsOK, SessionOK, NoSession, NoRow
<1>3. ReferentialIntegrity
  BY DEF Init, ReferentialIntegrity, NoRow, NoJob
<1>4. UnbornUnposted /\ BooksBalance
  BY DEF Init, UnbornUnposted, BooksBalance, LiveAccounts, Live
<1> QED BY <1>1, <1>2, <1>3, <1>4 DEF IInv

LEMMA InvStep == IInv /\ [Next]_vars => IInv'
<1> SUFFICES ASSUME IInv, [Next]_vars PROVE IInv'
  OBVIOUS
<1> QED BY TypeStep, SessionsStep, ReferencesStep, UnbornStep, BooksStep
        DEF IInv

\* The invariant every later result rests on.
THEOREM Invariance == Spec => []IInv
BY InvInit, InvStep, PTL DEF Spec

\* Every reachable state is well typed.
THEOREM TypeCorrect == Spec => []TypeOK
<1>1. IInv => TypeOK
  BY DEF IInv
<1> QED BY <1>1, Invariance, PTL

\* However the requests and the import workers interleave, the balance of a
\* live account is its opening balance plus what its rows post, unless a
\* request committed a balance or a row it had read before someone else's
\* commit changed it.
THEOREM BooksBalanced == Spec => []BooksBalance
<1>1. IInv => BooksBalance
  BY DEF IInv
<1> QED BY <1>1, Invariance, PTL

\* Transactions, shares and queued import jobs never name an account that is
\* not there, whatever was read before the account was deleted.
THEOREM ReferencesHold == Spec => []ReferentialIntegrity
<1>1. IInv => ReferentialIntegrity
  BY DEF IInv
<1> QED BY <1>1, Invariance, PTL

\* No session is about to post a row without the account it counts on,
\* whatever has been committed since its first SELECT.
THEOREM SessionsKnow == Spec => []SessionsOK
<1>1. IInv => SessionsOK
  BY DEF IInv
<1> QED BY <1>1, Invariance, PTL

=============================================================================
