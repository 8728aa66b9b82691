------------------------------- MODULE Ledger -------------------------------
(***************************************************************************)
(* Accounts, transactions and the balances that are meant to agree.        *)
(*                                                                         *)
(* Every API handler runs in one database session under READ COMMITTED: it *)
(* SELECTs rows, computes in Python, and COMMITs.  An ORM flush writes the *)
(* value computed from the row as it was read (UPDATE account SET balance  *)
(* = <number>), whereas the import worker lets the database add            *)
(* (balance = balance + delta).  A request is therefore modelled by the    *)
(* steps at which it touches the database: start (the first SELECT), one   *)
(* step per further account it loads, and the commit.  A SELECT in the     *)
(* middle of a request autoflushes: the UPDATEs made so far are sent and   *)
(* their rows stay locked, unseen by others, until the request ends.       *)
(*                                                                         *)
(* opening, posted and drifted are history variables: they never guard an  *)
(* action and exist only for the properties.                               *)
(***************************************************************************)
EXTENDS Integers, Sequences, FiniteSets, Functions

CONSTANTS
  Users, Tenants, Accounts,
  Txns,       \* identities of transaction rows; a UUID is never used twice
  Requests,   \* HTTP requests, each of which runs once
  Jobs,       \* ImportJob rows
  Amounts,    \* amounts a client may post
  Balances,   \* balances a client may type into the account form
  Owner,      \* Owner[a]: the user who creates account a (account.user_id)
  Writers,    \* <<u, tn>>: u is an ACTIVE, non-viewer member of tenant tn
  MaxLines,   \* bound: rows in one CSV import
  Null

ASSUME NullAssumption ==
  Null \notin Users \cup Tenants \cup Accounts \cup Txns \cup Int
          \cup {"income", "expense"}
ASSUME AmountsAssumption == Amounts \subseteq Int /\ Balances \subseteq Int
ASSUME OwnerAssumption == Owner \in [Accounts -> Users]
ASSUME WritersAssumption == Writers \subseteq Users \X Tenants
ASSUME MaxLinesAssumption == MaxLines \in Nat
ASSUME DisjointAssumption == Accounts \cap Txns = {}

VARIABLES
  accountState,  \* [Accounts -> {"unborn", "live", "deleted"}]
  balance,       \* account.balance as committed
  row,           \* the transaction table
  share,         \* accountshare: <<account, tenant>>
  job,           \* importjob rows and what the worker has accumulated
  req,           \* the requests' sessions
  opening,       \* history: the balance not explained by any row
  posted,        \* history: net effect of the committed rows of an account
  drifted        \* history: accounts written from a stale read

database == <<accountState, balance, row, share>>
history == <<opening, posted, drifted>>
vars == <<database, job, req, history>>

-----------------------------------------------------------------------------
(* Rows, payloads and sessions *)

Types == {"income", "expense"}

\* The signed change a transaction makes to its account.
BalanceDelta(type, amount) ==
  IF type = "income" THEN amount ELSE -amount

Row == [state: {"none", "live", "deleted"}, account: Accounts \cup {Null},
        tenant: Tenants \cup {Null}, creator: Users \cup {Null},
        type: Types, amount: Int]
NoRow == [state |-> "none", account |-> Null, tenant |-> Null,
          creator |-> Null, type |-> "expense", amount |-> 0]
DeletedRow == [NoRow EXCEPT !.state = "deleted"]

\* What row x contributes to account a: nothing once it is deleted, or after
\* the account's deletion has set its account_id to NULL.
EffectOn(x, a) ==
  IF x.state = "live" /\ x.account = a THEN BalanceDelta(x.type, x.amount)
  ELSE 0

\* TransactionUpdate: Null stands for a field the client did not send.
Payload == [account: Accounts \cup {Null}, type: Types \cup {Null},
            amount: Int \cup {Null}]
NoPayload == [account |-> Null, type |-> Null, amount |-> Null]

Session == [pc: {"idle", "form", "checking", "open", "done"},
            op: {"none", "create", "update", "delete", "edit", "remove"},
            user: Users \cup {Null}, tenant: Tenants \cup {Null},
            txn: Txns \cup {Null},
            old: Row,      \* the transaction as SELECTed
            new: Row,      \* the transaction as the ORM object now reads
            want: Seq(Accounts),      \* accounts still to load
            got: SUBSET Accounts,     \* accounts in the identity map
            seen: [Accounts -> Int],  \* their balance as loaded
            held: SUBSET (Accounts \cup Txns),  \* rows locked by its UPDATEs
            value: Int]    \* edit: the balance in the account form
NoSession == [pc |-> "idle", op |-> "none", user |-> Null, tenant |-> Null,
              txn |-> Null, old |-> NoRow, new |-> NoRow, want |-> << >>,
              got |-> {}, seen |-> [a \in Accounts |-> 0], held |-> {},
              value |-> 0]
Finished == [NoSession EXCEPT !.pc = "done"]

Job == [state: {"none", "queued", "closed"}, account: Accounts \cup {Null},
        tenant: Tenants \cup {Null}, user: Users \cup {Null},
        lines: SUBSET [txn: Txns, type: Types, amount: Int], delta: Int]
NoJob == [state |-> "none", account |-> Null, tenant |-> Null,
          user |-> Null, lines |-> {}, delta |-> 0]
ClosedJob == [NoJob EXCEPT !.state = "closed"]

Live(a) == accountState[a] = "live"
LiveAccounts == {a \in Accounts : Live(a)}

\* Ids a new transaction row may take: never used, not held by a session.
FreshTxns == {t \in Txns : /\ row[t].state = "none"
                           /\ \A r \in Requests : req[r].txn # t
                           /\ \A j \in Jobs : \A l \in job[j].lines : l.txn # t}

TypeOK ==
  /\ accountState \in [Accounts -> {"unborn", "live", "deleted"}]
  /\ balance \in [Accounts -> Int]
  /\ row \in [Txns -> Row]
  /\ share \subseteq Accounts \X Tenants
  /\ job \in [Jobs -> Job]
  /\ req \in [Requests -> Session]
  /\ opening \in [Accounts -> Int]
  /\ posted \in [Accounts -> Int]
  /\ drifted \subseteq Accounts

Init ==
  /\ accountState = [a \in Accounts |-> "unborn"]
  /\ balance = [a \in Accounts |-> 0]
  /\ row = [t \in Txns |-> NoRow]
  /\ share = {}
  /\ job = [j \in Jobs |-> NoJob]
  /\ req = [r \in Requests |-> NoSession]
  /\ opening = [a \in Accounts |-> 0]
  /\ posted = [a \in Accounts |-> 0]
  /\ drifted = {}

-----------------------------------------------------------------------------
(* Account sharing: one short transaction each, decided by a unique key *)

\* POST /accounts by Owner[a], optionally sharing into tenant tn.
CreateAccount(a, opened, tn) ==
  /\ accountState[a] = "unborn"
  /\ tn # Null => <<Owner[a], tn>> \in Writers
  /\ accountState' = [accountState EXCEPT ![a] = "live"]
  /\ balance' = [balance EXCEPT ![a] = opened]
  /\ opening' = [opening EXCEPT ![a] = opened]
  /\ share' = IF tn = Null THEN share ELSE share \cup {<<a, tn>>}
  /\ UNCHANGED <<row, job, req, posted, drifted>>

\* POST /accounts/{a}/shares
CreateShare(a, tn) ==
  /\ Live(a)
  /\ <<Owner[a], tn>> \in Writers
  /\ <<a, tn>> \notin share
  /\ share' = share \cup {<<a, tn>>}
  /\ UNCHANGED <<accountState, balance, row, job, req, history>>

\* DELETE /accounts/{a}/shares/{tn}
DeleteShare(a, tn) ==
  /\ Live(a)
  /\ <<a, tn>> \in share
  /\ share' = share \ {<<a, tn>>}
  /\ UNCHANGED <<accountState, balance, row, job, req, history>>

\* The rule that lets u write to account a while tenant tn is active.
Authorized(u, tn, a) ==
  /\ Live(a)
  /\ Owner[a] = u \/ <<a, tn>> \in share

-----------------------------------------------------------------------------
(* Reading: the SELECTs a handler makes before it commits *)

Loaded(q, a) == [q EXCEPT !.got = @ \cup {a}, !.seen[a] = balance[a]]

\* POST /transactions: authorize_account_for_tenant loads the account.
StartCreate(r, u, tn, a, type, amount) ==
  /\ req[r].pc = "idle"
  /\ <<u, tn>> \in Writers
  /\ Authorized(u, tn, a)
  /\ \E t \in FreshTxns :
       req' = [req EXCEPT ![r] = Loaded(
         [NoSession EXCEPT !.pc = "open", !.op = "create", !.user = u,
            !.tenant = tn, !.txn = t,
            !.new = [state |-> "live", account |-> a, tenant |-> tn,
                     creator |-> u, type |-> type, amount |-> amount]], a)]
  /\ UNCHANGED <<database, job, history>>

\* The ORM object after the payload's fields have been assigned to it.
Patched(x, p) ==
  [x EXCEPT !.account = IF p.account = Null THEN @ ELSE p.account,
            !.type = IF p.type = Null THEN @ ELSE p.type,
            !.amount = IF p.amount = Null THEN @ ELSE p.amount]

\* Mutant: a move is taken for granted to have an account to move from.
MoveFromNowhere(old, new) ==
  IF old.account = new.account THEN << >> ELSE <<old.account, new.account>>

\* Mutant: a move forgets the account it moves from.
ForgetsOldAccount(old, new) ==
  IF old.account = new.account
  THEN IF \/ old.account = Null
          \/ BalanceDelta(old.type, old.amount)
               = BalanceDelta(new.type, new.amount)
       THEN << >> ELSE <<old.account>>
  ELSE <<new.account>>

\* The accounts an update loads to re-balance them, in order: none if the
\* effect is unchanged, else the one of the row, or the old and the new one.
UpdateLoads(old, new) ==
  IF old.account = new.account
  THEN IF \/ old.account = Null
          \/ BalanceDelta(old.type, old.amount)
               = BalanceDelta(new.type, new.amount)
       THEN << >> ELSE <<old.account>>
  ELSE IF old.account = Null THEN <<new.account>>
       ELSE <<old.account, new.account>>

\* PATCH /transactions/{t}: only the creator, only in the row's tenant.
StartUpdate(r, u, tn, t, p) ==
  /\ req[r].pc = "idle"
  /\ <<u, tn>> \in Writers
  /\ row[t].state = "live" /\ row[t].tenant = tn /\ row[t].creator = u
  /\ LET new == Patched(row[t], p) IN
       req' = [req EXCEPT ![r] =
         [NoSession EXCEPT
            !.pc = IF p.account = Null THEN "open" ELSE "checking",
            !.op = "update", !.user = u, !.tenant = tn, !.txn = t,
            !.old = row[t], !.new = new, !.want = UpdateLoads(row[t], new)]]
  /\ UNCHANGED <<database, job, history>>

\* A given account_id is authorized first.  The object loaded for that is
\* dropped (the identity map is weak), so the re-balancing SELECTs it again.
AuthorizeTarget(r) ==
  /\ req[r].pc = "checking"
  /\ Authorized(req[r].user, req[r].tenant, req[r].new.account)
  /\ req' = [req EXCEPT ![r].pc = "open"]
  /\ UNCHANGED <<database, job, history>>

\* DELETE /transactions/{t}
StartDelete(r, u, tn, t) ==
  /\ req[r].pc = "idle"
  /\ <<u, tn>> \in Writers
  /\ row[t].state = "live" /\ row[t].tenant = tn /\ row[t].creator = u
  /\ req' = [req EXCEPT ![r] =
       [NoSession EXCEPT !.pc = "open", !.op = "delete", !.user = u,
          !.tenant = tn, !.txn = t, !.old = row[t], !.new = DeletedRow,
          !.want = IF row[t].account = Null THEN << >>
                   ELSE <<row[t].account>>]]
  /\ UNCHANGED <<database, job, history>>

-----------------------------------------------------------------------------
(* Writing: what a flush computes and the commit makes visible *)

\* No other session holds the lock of one of these rows.
Free(r, rows) == \A s \in Requests \ {r} : req[s].held \cap rows = {}

\* Mutants of Rebalance: an update adds the new effect without reversing the
\* old one; a move does not reverse; a delete leaves the balance.
NoReversal(q, a) ==
  LET added == BalanceDelta(q.new.type, q.new.amount)
      reversed == BalanceDelta(q.old.type, q.old.amount)
  IN  CASE q.op = "create" -> added
        [] q.op = "delete" -> -reversed
        [] q.op = "update" /\ q.old.account = q.new.account -> added
        [] OTHER -> IF a = q.old.account THEN -reversed ELSE added
MoveKeepsOld(q, a) ==
  LET added == BalanceDelta(q.new.type, q.new.amount)
      reversed == BalanceDelta(q.old.type, q.old.amount)
  IN  CASE q.op = "create" -> added
        [] q.op = "delete" -> -reversed
        [] q.op = "update" /\ q.old.account = q.new.account -> added - reversed
        [] OTHER -> IF a = q.old.account THEN 0 ELSE added
DeleteKeeps(q, a) ==
  IF q.op = "create" /\ a \in Accounts
  THEN BalanceDelta(q.new.type, q.new.amount) ELSE 0

\* What a transaction handler adds to the account object a it has loaded.
Rebalance(q, a) ==
  LET added == BalanceDelta(q.new.type, q.new.amount)
      reversed == BalanceDelta(q.old.type, q.old.amount)
  IN  CASE q.op = "create" -> added
        [] q.op = "delete" -> -reversed
        [] q.op = "update" /\ q.old.account = q.new.account -> added - reversed
        [] OTHER -> IF a = q.old.account THEN -reversed ELSE added

NewBalance(q, a) ==
  IF q.op = "edit" THEN q.value ELSE q.seen[a] + Rebalance(q, a)

\* A flush emits an UPDATE only for accounts whose attribute changed.
Written(q) == {a \in q.got : NewBalance(q, a) # q.seen[a]}

\* The UPDATEs of an update find their rows (StaleDataError otherwise), the
\* foreign key its account, and no lock of another session.
Flushable(r) ==
  LET q == req[r] IN
  /\ row[q.txn].state = "live"
  /\ q.old.account # q.new.account => Live(q.new.account)
  /\ \A a \in Written(q) : Live(a)
  /\ Free(r, {q.txn} \cup Written(q))

\* session.get(Account, ...): an update autoflushes what it has changed so
\* far, then the account is read; a deleted one is skipped.
LoadAccount(r) ==
  /\ req[r].pc = "open"
  /\ req[r].want # << >>
  /\ req[r].op = "update" => Flushable(r)
  /\ LET q == req[r]
         a == Head(q.want)
         rest == [q EXCEPT !.want = Tail(@),
                    !.held = IF q.op = "update"
                             THEN {q.txn} \cup Written(q) ELSE {}]
     IN req' = [req EXCEPT ![r] = IF Live(a) THEN Loaded(rest, a) ELSE rest]
  /\ UNCHANGED <<database, job, history>>

\* The flush updates only the columns of the row that changed.
Columns(q, x) ==
  [x EXCEPT !.account = IF q.old.account = q.new.account THEN @
                        ELSE q.new.account,
            !.type = IF q.old.type = q.new.type THEN @ ELSE q.new.type,
            !.amount = IF q.old.amount = q.new.amount THEN @
                       ELSE q.new.amount]

\* The accounts whose books an emitted statement of q may put wrong: one
\* whose balance moved since q loaded it, and, if the row itself changed
\* since q read it, every account the two versions mention.
Stale(q) ==
  {a \in Written(q) : q.seen[a] # balance[a]}
    \cup IF q.old = row[q.txn] THEN {}
         ELSE {q.old.account, q.new.account, row[q.txn].account} \ {Null}

\* Row t becomes x and the balances of q's accounts become those q computed.
Commit(r, t, x) ==
  LET q == req[r] IN
  /\ balance' = [a \in Accounts |-> IF a \in Written(q) THEN NewBalance(q, a)
                                    ELSE balance[a]]
  /\ row' = [row EXCEPT ![t] = x]
  /\ posted' = [a \in Accounts |->
                  posted[a] - EffectOn(row[t], a) + EffectOn(x, a)]
  /\ drifted' = drifted \cup Stale(q)
  /\ req' = [req EXCEPT ![r] = Finished]
  /\ UNCHANGED <<accountState, share, job, opening>>

\* Mutant: without the foreign key.
CommitCreateAnywhere(r) ==
  /\ req[r].pc = "open" /\ req[r].op = "create"
  /\ Free(r, Written(req[r]))
  /\ Commit(r, req[r].txn, req[r].new)

\* INSERT and UPDATE in one commit; the foreign key needs a live account.
CommitCreate(r) ==
  /\ req[r].pc = "open" /\ req[r].op = "create"
  /\ Live(req[r].new.account)
  /\ Free(r, Written(req[r]))
  /\ Commit(r, req[r].txn, req[r].new)

CommitUpdate(r) ==
  /\ req[r].pc = "open" /\ req[r].op = "update"
  /\ req[r].want = << >>
  /\ req[r].old # req[r].new
  /\ Flushable(r)
  /\ Commit(r, req[r].txn, Columns(req[r], row[req[r].txn]))

\* The row goes by a bulk DELETE, to which no matching row is no error.
CommitDelete(r) ==
  /\ req[r].pc = "open" /\ req[r].op = "delete"
  /\ req[r].want = << >>
  /\ \A a \in Written(req[r]) : Live(a)
  /\ Free(r, {req[r].txn} \cup Written(req[r]))
  /\ Commit(r, req[r].txn, DeletedRow)

\* A payload that changes nothing emits nothing; a request that is refused,
\* hits a database error, or whose process dies rolls back.
Abort(r) ==
  /\ req[r].pc \in {"form", "checking", "open"}
  /\ req' = [req EXCEPT ![r] = Finished]
  /\ UNCHANGED <<database, job, history>>

-----------------------------------------------------------------------------
(* PATCH and DELETE /accounts/{a} *)

\* The edit page loads the account and keeps its balance in the form.
OpenForm(r, a) ==
  /\ req[r].pc = "idle"
  /\ Live(a)
  /\ req' = [req EXCEPT ![r] =
       [NoSession EXCEPT !.pc = "form", !.op = "edit", !.user = Owner[a],
          !.new.account = a, !.value = balance[a], !.seen[a] = balance[a]]]
  /\ UNCHANGED <<database, job, history>>

\* Submitting sends every field, the balance too, whether typed or untouched;
\* the handler then loads the account.  !.old keeps the untouched value.
SubmitForm(r, typed) ==
  /\ req[r].pc = "form"
  /\ LET q == req[r]
         a == q.new.account
     IN /\ Live(a)
        /\ typed \in Balances \cup {q.value}
        /\ req' = [req EXCEPT ![r] =
             Loaded([q EXCEPT !.pc = "open", !.value = typed,
                              !.old.amount = q.value], a)]
  /\ UNCHANGED <<database, job, history>>

\* Typing a balance re-bases the account; an untouched field that overwrites
\* a balance that has moved since the form was opened makes it drift.
CommitEdit(r) ==
  /\ req[r].pc = "open" /\ req[r].op = "edit"
  /\ LET q == req[r]
         a == q.new.account
         rebased == a \in Written(q) /\ q.value # q.old.amount
     IN /\ a \in Written(q) => Live(a) /\ Free(r, {a})
        /\ balance' = [balance EXCEPT ![a] =
                         IF a \in Written(q) THEN q.value ELSE @]
        /\ opening' = [opening EXCEPT ![a] =
                         IF rebased THEN q.value - posted[a] ELSE @]
        /\ drifted' = IF rebased THEN drifted \ {a}
                      ELSE IF a \in Written(q) /\ balance[a] # q.value
                           THEN drifted \cup {a} ELSE drifted
  /\ req' = [req EXCEPT ![r] = Finished]
  /\ UNCHANGED <<accountState, row, share, job, posted>>

SharesOf(a) == {s \in share : s[1] = a}

\* DELETE /accounts/{a}: from a family page only while at most one family
\* sees the account.
StartRemove(r, a, fromFamily) ==
  /\ req[r].pc = "idle"
  /\ Live(a)
  /\ fromFamily => Cardinality(SharesOf(a)) <= 1
  /\ req' = [req EXCEPT ![r] =
       [NoSession EXCEPT !.pc = "open", !.op = "remove", !.user = Owner[a],
          !.new.account = a, !.value = IF fromFamily THEN 1 ELSE 0]]
  /\ UNCHANGED <<database, job, history>>

\* The foreign keys: shares and import jobs CASCADE, transactions SET NULL.
\* A row being moved to the account, not yet committed, makes it wait.
CommitRemove(r) ==
  /\ req[r].pc = "open" /\ req[r].op = "remove"
  /\ LET a == req[r].new.account IN
       /\ Live(a)
       /\ Free(r, {a} \cup {t \in Txns : row[t].account = a})
       /\ \A s \in Requests :
            req[s].held \cap Txns # {} => req[s].new.account # a
       /\ accountState' = [accountState EXCEPT ![a] = "deleted"]
       /\ balance' = [balance EXCEPT ![a] = 0]
       /\ row' = [t \in Txns |-> IF row[t].account = a
                                 THEN [row[t] EXCEPT !.account = Null]
                                 ELSE row[t]]
       /\ share' = share \ SharesOf(a)
       /\ job' = [j \in Jobs |-> IF job[j].account = a THEN ClosedJob
                                 ELSE job[j]]
       /\ opening' = [opening EXCEPT ![a] = 0]
       /\ posted' = [posted EXCEPT ![a] = 0]
       /\ drifted' = drifted \ {a}
  /\ req' = [req EXCEPT ![r] = Finished]

-----------------------------------------------------------------------------
(* CSV import: the job is authorized now and posted later by the worker *)

\* POST /imports/execute
ExecuteImport(j, u, tn, a) ==
  /\ job[j].state = "none"
  /\ <<u, tn>> \in Writers
  /\ Authorized(u, tn, a)
  /\ job' = [job EXCEPT ![j] = [NoJob EXCEPT !.state = "queued",
                                  !.account = a, !.tenant = tn, !.user = u]]
  /\ UNCHANGED <<database, req, history>>

\* Mutant: the sign is forgotten.
ImportUnsigned(j, type, amount) ==
  /\ job[j].state = "queued"
  /\ Cardinality(job[j].lines) < MaxLines
  /\ \E t \in FreshTxns :
       job' = [job EXCEPT
         ![j].lines = @ \cup {[txn |-> t, type |-> type, amount |-> amount]},
         ![j].delta = @ + amount]
  /\ UNCHANGED <<database, req, history>>

\* One turn of process_import's loop.  Nothing reads the CSV's rows before
\* the worker does, so they are chosen here rather than by ExecuteImport.
ImportLine(j, type, amount) ==
  /\ job[j].state = "queued"
  /\ Cardinality(job[j].lines) < MaxLines
  /\ \E t \in FreshTxns :
       job' = [job EXCEPT
         ![j].lines = @ \cup {[txn |-> t, type |-> type, amount |-> amount]},
         ![j].delta = @ + BalanceDelta(type, amount)]
  /\ UNCHANGED <<database, req, history>>

Imported(j, t) ==
  LET line == CHOOSE l \in job[j].lines : l.txn = t
  IN  [state |-> "live", account |-> job[j].account, tenant |-> job[j].tenant,
       creator |-> job[j].user, type |-> line.type, amount |-> line.amount]

\* The worker's single transaction: bulk INSERT, then the database adds the
\* accumulated delta to whatever the balance is at that moment.
CommitImport(j) ==
  /\ job[j].state = "queued"
  /\ Free(Null, {job[j].account})
  /\ LET a == job[j].account
         inserted == {l.txn : l \in job[j].lines}
     IN /\ row' = [t \in Txns |-> IF t \in inserted THEN Imported(j, t)
                                  ELSE row[t]]
        /\ balance' = [balance EXCEPT ![a] = @ + job[j].delta]
        /\ posted' = [posted EXCEPT ![a] = @ + job[j].delta]
  /\ job' = [job EXCEPT ![j] = ClosedJob]
  /\ UNCHANGED <<accountState, share, req, opening, drifted>>

-----------------------------------------------------------------------------

AccountNext ==
  \/ \E a \in Accounts, b \in Balances, tn \in Tenants \cup {Null} :
       CreateAccount(a, b, tn)
  \/ \E a \in Accounts, tn \in Tenants :
       CreateShare(a, tn) \/ DeleteShare(a, tn)

RequestNext(r) ==
  \/ \E u \in Users, tn \in Tenants, a \in Accounts, type \in Types,
        amount \in Amounts : StartCreate(r, u, tn, a, type, amount)
  \/ \E u \in Users, tn \in Tenants, t \in Txns,
        p \in [account: Accounts \cup {Null}, type: Types \cup {Null},
               amount: Amounts \cup {Null}] : StartUpdate(r, u, tn, t, p)
  \/ \E u \in Users, tn \in Tenants, t \in Txns : StartDelete(r, u, tn, t)
  \/ \E a \in Accounts : OpenForm(r, a)
  \/ \E v \in Balances \cup {req[r].value} : SubmitForm(r, v)
  \/ \E a \in Accounts, family \in BOOLEAN : StartRemove(r, a, family)
  \/ AuthorizeTarget(r) \/ LoadAccount(r) \/ Abort(r)
  \/ CommitCreate(r) \/ CommitUpdate(r) \/ CommitDelete(r)
  \/ CommitEdit(r) \/ CommitRemove(r)

ImportNext(j) ==
  \/ \E u \in Users, tn \in Tenants, a \in Accounts :
       ExecuteImport(j, u, tn, a)
  \/ \E type \in Types, amount \in Amounts : ImportLine(j, type, amount)
  \/ CommitImport(j)

Next ==
  \/ AccountNext
  \/ \E r \in Requests : RequestNext(r)
  \/ \E j \in Jobs : ImportNext(j)

Spec == Init /\ [][Next]_vars
-----------------------------------------------------------------------------
(* Properties *)

\* The two pieces of state every handler must move together: the balance of
\* a live account is its opening balance plus what its rows post, unless a
\* request wrote it from a stale read (services/transactions.py: the row and
\* the balance are staged together and committed once).
BooksBalance ==
  \A a \in LiveAccounts \ drifted : balance[a] = opening[a] + posted[a]

\* The same without the exception: "balance is always correct after any
\* mutation" (docs/Pull Requests/QCSD_Security_Hardening_Release.md:26).
\* Requests that overlap break it; one at a time they keep it.
BooksAlwaysBalance ==
  \A a \in LiveAccounts : balance[a] = opening[a] + posted[a]

\* The rows of a transaction table that name account a, and their sum.
RowsOf(rows, a) == {t \in Txns : rows[t].state = "live" /\ rows[t].account = a}
RowSum(rows, a) ==
  SumFunctionOnSet([t \in Txns |-> EffectOn(rows[t], a)], RowsOf(rows, a))

\* What the commits have posted to an account, step by step, is what its
\* rows in the transaction table add up to: no commit posts a row twice,
\* forgets one it replaces or removes, or keeps one of a deleted account.
PostedIsSum == \A a \in Accounts : posted[a] = RowSum(row, a)

\* Nothing points at an account that is not there, whatever was read before
\* it was deleted: rows are detached, shares and import jobs go with it.
ReferentialIntegrity ==
  /\ \A t \in Txns : row[t].account \in LiveAccounts \cup {Null}
  /\ \A s \in share : s[1] \in LiveAccounts
  /\ \A j \in Jobs : job[j].state = "queued" => job[j].account \in LiveAccounts

\* The ledger keeps the abstract promise: transactions map to the entries
\* they contribute, drifted accounts to the suspect ones.
Atomic == INSTANCE AtomicLedger WITH
  Entries <- Txns,
  Nowhere <- Null,
  open <- LiveAccounts,
  book <- balance,
  entry <- [t \in Txns |->
              IF row[t].account = Null THEN [account |-> Null, delta |-> 0]
              ELSE [account |-> row[t].account,
                    delta |-> BalanceDelta(row[t].type, row[t].amount)]],
  suspect <- drifted
ImplementsAtomicLedger == Atomic!Spec

-----------------------------------------------------------------------------
(* The inductive invariant behind BooksBalance *)

Wanted(q) == {q.want[i] : i \in 1..Len(q.want)}

\* What a session between its first SELECT and its commit knows: it has
\* loaded, or will, every account on which the row as it is to be counts
\* differently from the row as it was read, unless that account is gone.
SessionOK(q) ==
  /\ q.pc = "form" => q.op = "edit"
  /\ q.op \in {"edit", "remove"} => q.new.account \in Accounts
  /\ q.op = "create" =>
       /\ q.old = NoRow /\ q.want = << >>
       /\ q.new.state = "live" /\ q.new.account \in Accounts
  /\ q.op = "update" => q.old.state = "live" /\ q.new.state = "live"
  /\ q.op = "delete" => q.old.state = "live" /\ q.new = DeletedRow
  /\ q.old.account # Null => accountState[q.old.account] # "unborn"
  /\ q.op \in {"create", "update", "delete"} =>
       /\ q.txn \in Txns
       /\ q.got \cup Wanted(q) \subseteq {q.old.account, q.new.account}
       /\ q.pc = "open" /\ q.new.account # Null
            => accountState[q.new.account] # "unborn"
       /\ \A a \in Accounts : EffectOn(q.new, a) # EffectOn(q.old, a)
            => a \in q.got \cup Wanted(q) \/ accountState[a] = "deleted"

\* No session, whatever committed since its first SELECT, is about to post a
\* row without the account it counts on (apply_transaction_update loads the
\* old and the new account before it re-balances).
SessionsOK == \A r \in Requests : SessionOK(req[r])

\* Nothing is posted to an account before it exists.
UnbornUnposted ==
  \A a \in Accounts : accountState[a] = "unborn" => posted[a] = 0

\* Balances follow the rows (BooksBalance) because sessions know the accounts
\* they must move, and those accounts exist.
IInv == TypeOK /\ SessionsOK /\ ReferentialIntegrity /\ UnbornUnposted
          /\ BooksBalance

-----------------------------------------------------------------------------
(* The inductive invariant behind PostedIsSum and ImplementsAtomicLedger *)

\* A row that was never inserted, or was deleted, counts on no account.
BlankRows ==
  \A t \in Txns : /\ row[t].state = "none" => row[t] = NoRow
                  /\ row[t].state = "deleted" => row[t].account = Null

\* The rows that lines of a job will become, and what they will post.
Inserted(lines) == {l.txn : l \in lines}
LineDelta(lines, t) ==
  LET line == CHOOSE l \in lines : l.txn = t
  IN  BalanceDelta(line.type, line.amount)
LineSum(lines) ==
  SumFunctionOnSet([t \in Txns |-> LineDelta(lines, t)], Inserted(lines))

\* An id taken for a new row stays free until its one taker commits.
IdsOK ==
  /\ \A r \in Requests : req[r].op = "create" =>
       /\ row[req[r].txn].state = "none"
       /\ \A s \in Requests \ {r} :
            req[s].op = "create" => req[s].txn # req[r].txn
       /\ \A j \in Jobs : req[r].txn \notin Inserted(job[j].lines)
  /\ \A r \in Requests : req[r].op \in {"update", "delete"} =>
       row[req[r].txn].state # "none"
  /\ \A j \in Jobs : \A l \in job[j].lines :
       /\ row[l.txn].state = "none"
       /\ \A k \in Jobs : \A m \in job[k].lines :
            l.txn = m.txn => j = k /\ l = m

\* The worker's delta is what the lines it has read add up to.
LinesSummed ==
  \A j \in Jobs :
    /\ IsFiniteSet(job[j].lines)
    /\ job[j].delta = LineSum(job[j].lines)

FiniteRows == \A a \in Accounts : IsFiniteSet(RowsOf(row, a))

SumInv == IInv /\ BlankRows /\ IdsOK /\ LinesSummed /\ FiniteRows /\ PostedIsSum

-----------------------------------------------------------------------------
(* The schedules the tests exercise: one request at a time *)

Busy == {r \in Requests : req[r].pc \in {"form", "checking", "open"}}

SerialNext ==
  \/ Busy = {} /\ (AccountNext \/ \E j \in Jobs : ImportNext(j))
  \/ \E r \in Requests : Busy \subseteq {r} /\ RequestNext(r)

SerialSpec == Init /\ [][SerialNext]_vars

\* What the only request under way has read is still so.
UpToDate(q) ==
  /\ q.pc = "checking" => q.op = "update"
  /\ q.op \in {"create", "update", "delete"} => q.old = row[q.txn]
  /\ \A a \in q.got : q.seen[a] = balance[a]
  /\ q.op = "edit" /\ q.pc = "form" => q.value = balance[q.new.account]
  /\ q.op = "edit" /\ q.pc = "open" => q.old.amount = balance[q.new.account]

\* With one request at a time no account ever drifts, so that BooksBalance
\* has no exception left.
SerialInv ==
  SumInv /\ drifted = {} /\ \A r \in Busy : UpToDate(req[r])

=============================================================================
