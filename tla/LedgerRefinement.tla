-------------------------- MODULE LedgerRefinement --------------------------
(***************************************************************************)
(* Proofs about Ledger that need sums: what the commits have posted is what *)
(* the rows add up to, the ledger implements AtomicLedger, and one request  *)
(* at a time never lets an account drift.                                   *)
(***************************************************************************)
EXTENDS LedgerProofs, FiniteSums

-----------------------------------------------------------------------------
(* Rows and their ids *)

\* The row a commit leaves behind is live, or that of a deletion.
LEMMA CommittedState ==
  ASSUME TypeOK, SessionsOK, NEW r \in Requests,
         CommitCreate(r) \/ CommitUpdate(r) \/ CommitDelete(r)
  PROVE  \/ /\ Committed(r).state = "live"
            /\ req[r].op = "update" => row[req[r].txn].state = "live"
         \/ Committed(r) = DeletedRow /\ req[r].op = "delete"
<1> DEFINE q == req[r]
<1>1. q \in Session /\ q.old \in Row /\ q.new \in Row /\ SessionOK(q)
  BY DEF TypeOK, SessionsOK, Session
<1>2. CASE CommitCreate(r)
  BY <1>1, <1>2 DEF CommitCreate, Committed, SessionOK
<1>3. CASE CommitUpdate(r)
  <2>1. q.op = "update" /\ q.txn \in Txns /\ row[q.txn].state = "live"
        /\ row[q.txn] \in Row
    BY <1>1, <1>3 DEF CommitUpdate, Flushable, SessionOK, TypeOK
  <2>2. Columns(q, row[q.txn]).state = "live"
    BY <2>1 DEF Columns, Row
  <2> QED BY <2>1, <2>2 DEF Committed
<1>4. CASE CommitDelete(r)
  BY <1>1, <1>4 DEF CommitDelete, Committed, SessionOK
<1> QED BY <1>2, <1>3, <1>4

LEMMA BlankStep ==
  ASSUME TypeOK, SessionsOK, ReferentialIntegrity, BlankRows, [Next]_vars
  PROVE  BlankRows'
<1>1. CASE UNCHANGED row
  BY <1>1 DEF BlankRows, NoRow
<1>2. ASSUME NEW r \in Requests,
             CommitCreate(r) \/ CommitUpdate(r) \/ CommitDelete(r)
      PROVE  BlankRows'
  <2> DEFINE t == req[r].txn
             x == Committed(r)
  <2>1. t \in Txns /\ Commit(r, t, x)
    BY <1>2, CommittedRow
  <2>2. x.state = "live" \/ x = DeletedRow
    BY <1>2, CommittedState
  <2>3. DeletedRow.state = "deleted" /\ DeletedRow.account = Null
    BY DEF DeletedRow, NoRow
  <2>4. row' = [row EXCEPT ![t] = x]
    BY <2>1 DEF Commit
  <2> HIDE DEF x, t
  <2> QED BY <2>1, <2>2, <2>3, <2>4 DEF BlankRows, TypeOK, NoRow
<1>3. ASSUME NEW r \in Requests, CommitRemove(r)
      PROVE  BlankRows'
  <2> DEFINE a == req[r].new.account
  <2>1. a \in Accounts /\ a # Null
    BY <1>3, Constants DEF CommitRemove, SessionsOK, SessionOK
  <2>2. NoRow.account = Null
    BY DEF NoRow
  <2>3. ASSUME NEW t \in Txns
        PROVE  /\ row'[t].state = row[t].state
               /\ row'[t] = row[t] \/ row'[t].account = Null
               /\ row[t].state = "none" => row'[t] = row[t]
    <3>1. row[t] \in Row
      BY DEF TypeOK
    <3>2. row'[t] = IF row[t].account = a
                    THEN [row[t] EXCEPT !.account = Null] ELSE row[t]
      BY <1>3 DEF CommitRemove
    <3>3. row[t].state = "none" => row[t].account # a
      BY <2>1, <2>2 DEF BlankRows
    <3> QED BY <3>1, <3>2, <3>3 DEF Row
  <2> QED BY <2>3 DEF BlankRows, NoRow
<1>4. ASSUME NEW j \in Jobs, CommitImport(j)
      PROVE  BlankRows'
  <2>1. \A t \in Txns : Imported(j, t).state = "live"
    BY DEF Imported
  <2> QED BY <1>4, <2>1 DEF CommitImport, BlankRows, NoRow
<1>5. CASE AccountNext
  BY <1>1, <1>5 DEF AccountNext, CreateAccount, CreateShare, DeleteShare
<1>6. ASSUME NEW r \in Requests, RequestNext(r)
      PROVE  BlankRows'
  BY <1>1, <1>2, <1>3, <1>6, ZenonT(40)
     DEF RequestNext, StartCreate, StartUpdate, StartDelete, OpenForm,
         SubmitForm, StartRemove, AuthorizeTarget, LoadAccount, Abort,
         CommitEdit, database
<1>7. ASSUME NEW j \in Jobs, ImportNext(j)
      PROVE  BlankRows'
  BY <1>1, <1>4, <1>7 DEF ImportNext, ExecuteImport, ImportLine, database
<1> QED BY <1>1, <1>5, <1>6, <1>7 DEF Next, vars, database

\* A request that goes on, or one that starts on a row that exists, takes no
\* new id.
LEMMA SessionIds ==
  ASSUME TypeOK, SessionsOK, IdsOK, NEW r \in Requests,
         \/ \E u \in Users, tn \in Tenants, t \in Txns,
               p \in [account: Accounts \cup {Null}, type: Types \cup {Null},
                      amount: Amounts \cup {Null}] : StartUpdate(r, u, tn, t, p)
         \/ \E u \in Users, tn \in Tenants, t \in Txns :
               StartDelete(r, u, tn, t)
         \/ \E a \in Accounts : OpenForm(r, a)
         \/ \E v \in Balances \cup {req[r].value} : SubmitForm(r, v)
         \/ \E a \in Accounts, family \in BOOLEAN : StartRemove(r, a, family)
         \/ AuthorizeTarget(r)
         \/ LoadAccount(r)
         \/ Abort(r)
  PROVE  /\ req' = [req EXCEPT ![r] = req'[r]]
         /\ req'[r].op = "create" => /\ req[r].op = "create"
                                     /\ req'[r].txn = req[r].txn
         /\ req'[r].op \in {"update", "delete"} =>
              row[req'[r].txn].state # "none"
         /\ UNCHANGED <<row, job>>
<1> DEFINE q == req[r]
<1>1. q \in Session /\ r \in DOMAIN req
  BY DEF TypeOK
<1>2. ASSUME NEW u \in Users, NEW tn \in Tenants, NEW t \in Txns,
             NEW p \in [account: Accounts \cup {Null}, type: Types \cup {Null},
                        amount: Amounts \cup {Null}],
             StartUpdate(r, u, tn, t, p)
      PROVE  /\ req' = [req EXCEPT ![r] = req'[r]]
             /\ req'[r].op = "update" /\ req'[r].txn = t
             /\ row[t].state = "live"
             /\ UNCHANGED <<row, job>>
  BY <1>1, <1>2 DEF StartUpdate, NoSession, database
<1>3. ASSUME NEW u \in Users, NEW tn \in Tenants, NEW t \in Txns,
             StartDelete(r, u, tn, t)
      PROVE  /\ req' = [req EXCEPT ![r] = req'[r]]
             /\ req'[r].op = "delete" /\ req'[r].txn = t
             /\ row[t].state = "live"
             /\ UNCHANGED <<row, job>>
  BY <1>1, <1>3 DEF StartDelete, NoSession, database
<1>4. ASSUME NEW a \in Accounts, OpenForm(r, a)
      PROVE  /\ req' = [req EXCEPT ![r] = req'[r]]
             /\ req'[r].op = "edit"
             /\ UNCHANGED <<row, job>>
  BY <1>1, <1>4 DEF OpenForm, NoSession, database
<1>5. ASSUME NEW v \in Balances \cup {req[r].value}, SubmitForm(r, v)
      PROVE  /\ req' = [req EXCEPT ![r] = req'[r]]
             /\ req'[r].op = q.op /\ req'[r].txn = q.txn
             /\ UNCHANGED <<row, job>>
  BY <1>1, <1>5 DEF SubmitForm, Loaded, Session, database
<1>6. ASSUME NEW a \in Accounts, NEW family \in BOOLEAN,
             StartRemove(r, a, family)
      PROVE  /\ req' = [req EXCEPT ![r] = req'[r]]
             /\ req'[r].op = "remove"
             /\ UNCHANGED <<row, job>>
  BY <1>1, <1>6 DEF StartRemove, NoSession, database
<1>7. ASSUME AuthorizeTarget(r)
      PROVE  /\ req' = [req EXCEPT ![r] = req'[r]]
             /\ req'[r].op = q.op /\ req'[r].txn = q.txn
             /\ UNCHANGED <<row, job>>
  BY <1>1, <1>7 DEF AuthorizeTarget, Session, database
<1>8. ASSUME LoadAccount(r)
      PROVE  /\ req' = [req EXCEPT ![r] = req'[r]]
             /\ req'[r].op = q.op /\ req'[r].txn = q.txn
             /\ UNCHANGED <<row, job>>
  BY <1>1, <1>8 DEF LoadAccount, Loaded, Session, database
<1>9. ASSUME Abort(r)
      PROVE  /\ req' = [req EXCEPT ![r] = req'[r]]
             /\ req'[r].op = "none"
             /\ UNCHANGED <<row, job>>
  BY <1>1, <1>9 DEF Abort, Finished, NoSession, database
<1>10. q.op \in {"update", "delete"} => row[q.txn].state # "none"
  BY DEF IdsOK
<1> QED BY <1>2, <1>3, <1>4, <1>5, <1>6, <1>7, <1>8, <1>9, <1>10

LEMMA IdsStep ==
  ASSUME TypeOK, SessionsOK, ReferentialIntegrity, IdsOK, [Next]_vars
  PROVE  IdsOK'
<1> USE DEF IdsOK, Inserted
<1>1. CASE UNCHANGED <<row, job, req>>
  BY <1>1
<1>2. ASSUME NEW r \in Requests,
             req' = [req EXCEPT ![r] = req'[r]],
             req'[r].op = "create" => /\ req[r].op = "create"
                                      /\ req'[r].txn = req[r].txn,
             req'[r].op \in {"update", "delete"} =>
               row[req'[r].txn].state # "none",
             UNCHANGED <<row, job>>
      PROVE  IdsOK'
  <2>1. \A s \in Requests : s # r => req'[s] = req[s]
    BY <1>2 DEF TypeOK
  <2> QED BY <1>2, <2>1
<1>3. ASSUME NEW r \in Requests, NEW u \in Users, NEW tn \in Tenants,
             NEW a \in Accounts, NEW type \in Types, NEW amount \in Amounts,
             StartCreate(r, u, tn, a, type, amount)
      PROVE  IdsOK'
  <2>1. PICK t \in FreshTxns :
          /\ req' = [req EXCEPT ![r] = req'[r]]
          /\ req'[r].op = "create" /\ req'[r].txn = t
    BY <1>3 DEF StartCreate, Loaded, NoSession, TypeOK
  <2>2. \A s \in Requests : s # r => req'[s] = req[s]
    BY <2>1 DEF TypeOK
  <2>3. UNCHANGED <<row, job>>
    BY <1>3 DEF StartCreate, database
  <2>4. /\ row[t].state = "none"
        /\ \A s \in Requests : req[s].txn # t
        /\ \A j \in Jobs : \A l \in job[j].lines : l.txn # t
    BY <2>1 DEF FreshTxns
  <2> QED BY <2>1, <2>2, <2>3, <2>4
<1>4. ASSUME NEW r \in Requests,
             CommitCreate(r) \/ CommitUpdate(r) \/ CommitDelete(r)
      PROVE  IdsOK'
  <2> DEFINE t == req[r].txn
             x == Committed(r)
  <2>1. /\ t \in Txns /\ Commit(r, t, x)
        /\ req[r].op \in {"create", "update", "delete"}
    BY <1>4, CommittedRow
  <2>2. x.state # "none"
    <3>1. DeletedRow.state = "deleted"
      BY DEF DeletedRow
    <3> QED BY <1>4, <3>1, CommittedState
  <2>3. /\ row' = [row EXCEPT ![t] = x]
        /\ req' = [req EXCEPT ![r] = Finished]
        /\ UNCHANGED job
    BY <2>1 DEF Commit
  <2>4. /\ \A s \in Requests : s # r => req'[s] = req[s]
        /\ req'[r].op = "none"
    BY <2>3 DEF TypeOK, Finished, NoSession
  <2>5. /\ row'[t].state # "none"
        /\ \A k \in Txns : k # t => row'[k] = row[k]
    BY <2>1, <2>2, <2>3 DEF TypeOK
  <2>6. \A s \in Requests \ {r} : req[s].op = "create" => req[s].txn # t
    BY <2>1
  <2>7. \A j \in Jobs : \A l \in job[j].lines : l.txn # t
    BY <2>1
  <2>8. /\ \A s \in Requests : req[s].op \in {"create", "update", "delete"}
                                 => req[s].txn \in Txns
        /\ \A j \in Jobs : \A l \in job[j].lines : l.txn \in Txns
    BY DEF SessionsOK, SessionOK, TypeOK, Job
  <2> HIDE DEF t, x
  <2> QED BY <2>3, <2>4, <2>5, <2>6, <2>7, <2>8
<1>5. ASSUME NEW r \in Requests, CommitEdit(r)
      PROVE  IdsOK'
  <2>1. /\ req' = [req EXCEPT ![r] = req'[r]]
        /\ req'[r].op = "none"
        /\ UNCHANGED <<row, job>>
    BY <1>5 DEF CommitEdit, Finished, NoSession, TypeOK
  <2> QED BY <1>2, <2>1
<1>6. ASSUME NEW r \in Requests, CommitRemove(r)
      PROVE  IdsOK'
  <2>1. /\ req' = [req EXCEPT ![r] = Finished]
        /\ \A s \in Requests : s # r => req'[s] = req[s]
        /\ req'[r].op = "none"
    BY <1>6 DEF CommitRemove, Finished, NoSession, TypeOK
  <2>2. \A t \in Txns : row'[t].state = row[t].state
    BY <1>6 DEF CommitRemove, TypeOK, Row
  <2>3. \A j \in Jobs : \A l \in job'[j].lines : l \in job[j].lines
    BY <1>6 DEF CommitRemove, ClosedJob, NoJob
  <2>4. /\ \A s \in Requests : req[s].op \in {"create", "update", "delete"}
                                 => req[s].txn \in Txns
        /\ \A j \in Jobs : \A l \in job[j].lines : l.txn \in Txns
    BY DEF SessionsOK, SessionOK, TypeOK, Job
  <2> QED BY <2>1, <2>2, <2>3, <2>4
<1>7. ASSUME NEW j \in Jobs, NEW u \in Users, NEW tn \in Tenants,
             NEW a \in Accounts, ExecuteImport(j, u, tn, a)
      PROVE  IdsOK'
  <2>1. /\ \A k \in Jobs : \A l \in job'[k].lines : l \in job[k].lines
        /\ UNCHANGED <<row, req>>
    BY <1>7 DEF ExecuteImport, NoJob, TypeOK, database
  <2> QED BY <2>1
<1>8. ASSUME NEW j \in Jobs, NEW type \in Types, NEW amount \in Amounts,
             ImportLine(j, type, amount)
      PROVE  IdsOK'
  <2>1. PICK t \in FreshTxns :
          job' = [job EXCEPT
            ![j].lines = @ \cup {[txn |-> t, type |-> type, amount |-> amount]},
            ![j].delta = @ + BalanceDelta(type, amount)]
    BY <1>8 DEF ImportLine
  <2> DEFINE new == [txn |-> t, type |-> type, amount |-> amount]
  <2>2. /\ job'[j].lines = job[j].lines \cup {new}
        /\ \A k \in Jobs : k # j => job'[k].lines = job[k].lines
        /\ UNCHANGED <<row, req>>
    BY <1>8, <2>1 DEF ImportLine, TypeOK, Job, database
  <2>3. /\ row[t].state = "none"
        /\ \A s \in Requests : req[s].txn # t
        /\ \A k \in Jobs : \A l \in job[k].lines : l.txn # t
    BY <2>1 DEF FreshTxns
  <2>4. PICK n : n = new
    OBVIOUS
  <2>5. n.txn = t /\ job'[j].lines = job[j].lines \cup {n}
    BY <2>2, <2>4
  <2> HIDE DEF new
  <2> QED BY <2>2, <2>3, <2>5
<1>9. ASSUME NEW j \in Jobs, CommitImport(j)
      PROVE  IdsOK'
  <2>1. /\ job' = [job EXCEPT ![j] = ClosedJob]
        /\ job'[j].lines = {}
        /\ \A k \in Jobs : k # j => job'[k] = job[k]
        /\ UNCHANGED req
    BY <1>9 DEF CommitImport, ClosedJob, NoJob, TypeOK
  <2>2. /\ \A t \in Inserted(job[j].lines) \cap Txns : row'[t].state # "none"
        /\ \A t \in Txns \ Inserted(job[j].lines) : row'[t] = row[t]
    BY <1>9 DEF CommitImport, Imported
  <2>3. /\ \A s \in Requests : req[s].op \in {"create", "update", "delete"}
                                 => req[s].txn \in Txns
        /\ \A k \in Jobs : \A l \in job[k].lines : l.txn \in Txns
    BY DEF SessionsOK, SessionOK, TypeOK, Job
  <2>4. \A k \in Jobs \ {j} : \A l \in job[k].lines : l.txn \notin Inserted(job[j].lines)
    OBVIOUS
  <2> QED BY <2>1, <2>2, <2>3, <2>4
<1>10. CASE AccountNext
  BY <1>1, <1>10 DEF AccountNext, CreateAccount, CreateShare, DeleteShare
<1>11. ASSUME NEW r \in Requests, RequestNext(r)
      PROVE  IdsOK'
  <2> HIDE DEF IdsOK
  <2> QED BY <1>2, <1>3, <1>4, <1>5, <1>6, <1>11, SessionIds, ZenonT(60)
          DEF RequestNext
<1>12. ASSUME NEW j \in Jobs, ImportNext(j)
      PROVE  IdsOK'
  <2> HIDE DEF IdsOK
  <2> QED BY <1>7, <1>8, <1>9, <1>12 DEF ImportNext
<1> QED BY <1>1, <1>10, <1>11, <1>12 DEF Next, vars, database

-----------------------------------------------------------------------------
(* Sums *)

Line == [txn: Txns, type: Types, amount: Int]

LEMMA LineDeltaType ==
  ASSUME NEW lines, lines \subseteq Line, NEW t \in Inserted(lines)
  PROVE  LineDelta(lines, t) \in Int
<1> DEFINE line == CHOOSE l \in lines : l.txn = t
<1>1. line \in lines
  BY DEF Inserted
<1>2. line.type \in Types /\ line.amount \in Int
  BY <1>1 DEF Line
<1> HIDE DEF line
<1> QED BY <1>2, DeltaType DEF LineDelta, line

\* The line that will become row l.txn is l itself.
LEMMA LineOf ==
  ASSUME NEW lines, NEW l \in lines, \A m \in lines : m.txn = l.txn => m = l
  PROVE  /\ (CHOOSE m \in lines : m.txn = l.txn) = l
         /\ LineDelta(lines, l.txn) = BalanceDelta(l.type, l.amount)
<1>1. (CHOOSE m \in lines : m.txn = l.txn) = l
  OBVIOUS
<1> QED BY <1>1 DEF LineDelta

LEMMA InsertedFinite ==
  ASSUME NEW lines, IsFiniteSet(lines)
  PROVE  IsFiniteSet(Inserted(lines))
<1> DEFINE f == [l \in lines |-> l.txn]
<1>1. f \in Surjection(lines, Inserted(lines))
  BY DEF Surjection, Inserted
<1> QED BY <1>1, FS_Surjection

LEMMA LineSumEmpty == LineSum({}) = 0
<1>1. Inserted({}) = {}
  BY DEF Inserted
<1> QED BY <1>1, SumEmpty, Zenon DEF LineSum

\* One line more adds its signed amount.
LEMMA LineSumAdd ==
  ASSUME NEW lines, lines \subseteq Line, IsFiniteSet(lines),
         \A k, m \in lines : k.txn = m.txn => k = m,
         NEW l \in Line, l.txn \notin Inserted(lines)
  PROVE  /\ IsFiniteSet(lines \cup {l})
         /\ LineSum(lines \cup {l})
              = LineSum(lines) + BalanceDelta(l.type, l.amount)
<1> DEFINE more == lines \cup {l}
           f == [t \in Txns |-> LineDelta(lines, t)]
           g == [t \in Txns |-> LineDelta(more, t)]
<1>1. \A k, m \in more : k.txn = m.txn => k = m
  BY DEF Inserted
<1>2. Inserted(more) = Inserted(lines) \cup {l.txn}
  BY DEF Inserted
<1>3. ASSUME NEW m \in lines
      PROVE  LineDelta(more, m.txn) = LineDelta(lines, m.txn)
  <2>1. LineDelta(more, m.txn) = BalanceDelta(m.type, m.amount)
    <3> HIDE DEF more
    <3>1. m \in more
      BY DEF more
    <3> QED BY <1>1, <3>1, LineOf
  <2>2. LineDelta(lines, m.txn) = BalanceDelta(m.type, m.amount)
    BY LineOf
  <2> QED BY <2>1, <2>2
<1>4. \A t \in Inserted(lines) : g[t] = f[t]
  <2>1. Inserted(lines) \subseteq Txns
    BY DEF Inserted, Line
  <2> QED BY <1>3, <2>1 DEF Inserted
<1>5. l.txn \in Txns /\ g[l.txn] = BalanceDelta(l.type, l.amount)
  <2>1. l.txn \in Txns
    BY DEF Line
  <2>2. LineDelta(more, l.txn) = BalanceDelta(l.type, l.amount)
    <3> HIDE DEF more
    <3>1. l \in more
      BY DEF more
    <3> QED BY <1>1, <3>1, LineOf
  <2> QED BY <2>1, <2>2
<1>6. \A t \in Inserted(more) : g[t] \in Int
  <2>1. more \subseteq Line /\ Inserted(more) \subseteq Txns
    BY DEF Inserted, Line
  <2> HIDE DEF more
  <2> QED BY <2>1, LineDeltaType
<1>7. IsFiniteSet(Inserted(lines)) /\ IsFiniteSet(more)
  BY InsertedFinite, FS_AddElement
<1>8. SumFunctionOnSet(g, Inserted(lines) \cup {l.txn})
        = SumFunctionOnSet(g, Inserted(lines)) + g[l.txn]
  <2>1. \A t \in Inserted(lines) \cup {l.txn} : g[t] \in Int
    BY <1>2, <1>6
  <2> HIDE DEF g
  <2> QED BY <1>7, <2>1, SumAdd
<1>9. SumFunctionOnSet(g, Inserted(lines)) = SumFunctionOnSet(f, Inserted(lines))
  <2> HIDE DEF g, f
  <2> QED BY <1>4, <1>7, SumEqual
<1>10. LineSum(more) = SumFunctionOnSet(g, Inserted(lines) \cup {l.txn})
  BY <1>2, Zenon DEF LineSum
<1>11. LineSum(lines) = SumFunctionOnSet(f, Inserted(lines))
  BY Zenon DEF LineSum
<1> HIDE DEF g, f, more
<1> QED BY <1>5, <1>7, <1>8, <1>9, <1>10, <1>11 DEF more

LEMMA LinesStep ==
  ASSUME TypeOK, IdsOK, LinesSummed, [Next]_vars
  PROVE  LinesSummed'
<1> DEFINE Summed(q) == IsFiniteSet(q.lines) /\ q.delta = LineSum(q.lines)
<1>1. SUFFICES ASSUME NEW k \in Jobs
               PROVE  Summed(job'[k])
  BY DEF LinesSummed
<1>2. Summed(job[k])
  BY DEF LinesSummed
<1>3. \A q : q.lines = {} /\ q.delta = 0 => Summed(q)
  BY LineSumEmpty, FS_EmptySet, Zenon
<1>4. \A q : q.lines = job[k].lines /\ q.delta = job[k].delta => Summed(q)
  BY <1>2, Zenon
<1>5. ClosedJob.lines = {} /\ ClosedJob.delta = 0 /\ NoJob.lines = {}
      /\ NoJob.delta = 0
  BY DEF ClosedJob, NoJob
<1> HIDE DEF Summed
<1>6. CASE UNCHANGED job
  BY <1>2, <1>6
<1>7. ASSUME NEW r \in Requests, CommitRemove(r)
      PROVE  Summed(job'[k])
  BY <1>2, <1>3, <1>5, <1>7 DEF CommitRemove
<1>8. ASSUME NEW j \in Jobs, NEW u \in Users, NEW tn \in Tenants,
             NEW a \in Accounts, ExecuteImport(j, u, tn, a)
      PROVE  Summed(job'[k])
  <2>1. PICK n : n = [NoJob EXCEPT !.state = "queued", !.account = a,
                        !.tenant = tn, !.user = u]
    OBVIOUS
  <2>2. n.lines = {} /\ n.delta = 0
    BY <2>1 DEF NoJob
  <2>3. job'[k] = job[k] \/ job'[k] = n
    BY <1>8, <2>1, Zenon DEF ExecuteImport, TypeOK
  <2> QED BY <1>2, <1>3, <2>2, <2>3, Zenon
<1>9. ASSUME NEW j \in Jobs, CommitImport(j)
      PROVE  Summed(job'[k])
  BY <1>2, <1>3, <1>5, <1>9 DEF CommitImport, TypeOK
<1>10. ASSUME NEW j \in Jobs, NEW type \in Types, NEW amount \in Amounts,
              ImportLine(j, type, amount)
       PROVE  Summed(job'[k])
  <2>1. PICK t \in FreshTxns :
          job' = [job EXCEPT
            ![j].lines = @ \cup {[txn |-> t, type |-> type, amount |-> amount]},
            ![j].delta = @ + BalanceDelta(type, amount)]
    BY <1>10 DEF ImportLine
  <2>2. PICK l : l = [txn |-> t, type |-> type, amount |-> amount]
    OBVIOUS
  <2>3. CASE k # j
    BY <1>2, <2>1, <2>3 DEF TypeOK
  <2>4. CASE k = j
    <3>1. job'[k].lines = job[k].lines \cup {l}
          /\ job'[k].delta = job[k].delta + BalanceDelta(l.type, l.amount)
      BY <2>1, <2>2, <2>4 DEF TypeOK, Job
    <3>2. l \in Line /\ l.txn = t
      BY <2>1, <2>2, AmountsAssumption DEF Line, FreshTxns
    <3>3. l.txn \notin Inserted(job[k].lines)
      BY <2>1, <3>2 DEF FreshTxns, Inserted
    <3>4. /\ job[k].lines \subseteq Line
          /\ \A n, m \in job[k].lines : n.txn = m.txn => n = m
      BY DEF TypeOK, Job, Line, IdsOK
    <3>5. /\ IsFiniteSet(job[k].lines \cup {l})
          /\ LineSum(job[k].lines \cup {l})
               = LineSum(job[k].lines) + BalanceDelta(l.type, l.amount)
      BY <1>2, <3>2, <3>3, <3>4, LineSumAdd DEF Summed
    <3> QED BY <1>2, <3>1, <3>5, Zenon DEF Summed
  <2> QED BY <2>3, <2>4
<1>11. CASE AccountNext
  BY <1>6, <1>11 DEF AccountNext, CreateAccount, CreateShare, DeleteShare
<1>12. ASSUME NEW r \in Requests, RequestNext(r)
       PROVE  Summed(job'[k])
  BY <1>6, <1>7, <1>12, ZenonT(40)
     DEF RequestNext, StartCreate, StartUpdate, StartDelete, OpenForm,
         SubmitForm, StartRemove, AuthorizeTarget, LoadAccount, Abort,
         CommitCreate, CommitUpdate, CommitDelete, CommitEdit, Commit
<1>13. ASSUME NEW j \in Jobs, ImportNext(j)
       PROVE  Summed(job'[k])
  BY <1>8, <1>9, <1>10, <1>13 DEF ImportNext
<1> QED BY <1>6, <1>11, <1>12, <1>13 DEF Next, vars

\* What row t contributes may be taken out of the sum.
LEMMA RowSumWithout ==
  ASSUME NEW rows \in [Txns -> Row], NEW a \in Accounts, NEW t \in Txns,
         IsFiniteSet(RowsOf(rows, a))
  PROVE  LET rest == RowsOf(rows, a) \ {t}
             f == [k \in Txns |-> EffectOn(rows[k], a)]
         IN  /\ IsFiniteSet(rest)
             /\ SumFunctionOnSet(f, rest) \in Int
             /\ RowSum(rows, a) = EffectOn(rows[t], a) + SumFunctionOnSet(f, rest)
<1> DEFINE S == RowsOf(rows, a)
           f == [k \in Txns |-> EffectOn(rows[k], a)]
<1>1. \A k \in S : f[k] \in Int
  BY EffectType DEF RowsOf
<1>2. IsFiniteSet(S \ {t}) /\ f[t] = EffectOn(rows[t], a)
  BY FS_RemoveElement
<1>3. RowSum(rows, a) = SumFunctionOnSet(f, S)
  BY Zenon DEF RowSum
<1>4. t \notin S => S \ {t} = S /\ EffectOn(rows[t], a) = 0
  BY DEF RowsOf, EffectOn
<1> HIDE DEF S, f
<1>5. SumFunctionOnSet(f, S \ {t}) \in Int
  BY <1>1, <1>2, SumType
<1>6. CASE t \in S
  BY <1>1, <1>2, <1>3, <1>5, <1>6, SumRemove DEF S, f
<1>7. CASE t \notin S
  <2>1. RowSum(rows, a) = SumFunctionOnSet(f, S \ {t})
    BY <1>3, <1>4, <1>7, Zenon
  <2> QED BY <1>2, <1>4, <1>5, <1>7, <2>1 DEF S, f
<1> QED BY <1>6, <1>7

\* Replacing row t moves an account's sum by the difference it makes.
LEMMA RowSumReplace ==
  ASSUME NEW rows \in [Txns -> Row], NEW a \in Accounts, NEW t \in Txns,
         NEW x \in Row, IsFiniteSet(RowsOf(rows, a))
  PROVE  LET next == [rows EXCEPT ![t] = x]
         IN  /\ IsFiniteSet(RowsOf(next, a))
             /\ RowSum(next, a)
                  = RowSum(rows, a) - EffectOn(rows[t], a) + EffectOn(x, a)
<1> DEFINE next == [rows EXCEPT ![t] = x]
           f == [k \in Txns |-> EffectOn(rows[k], a)]
           g == [k \in Txns |-> EffectOn(next[k], a)]
           rest == RowsOf(rows, a) \ {t}
<1>1. next \in [Txns -> Row] /\ next[t] = x
      /\ \A k \in Txns : k # t => next[k] = rows[k]
  OBVIOUS
<1>2. RowsOf(next, a) \ {t} = rest
  <2> HIDE DEF next
  <2> QED BY <1>1 DEF RowsOf
<1>3. /\ IsFiniteSet(rest)
      /\ SumFunctionOnSet(f, rest) \in Int
      /\ RowSum(rows, a) = EffectOn(rows[t], a) + SumFunctionOnSet(f, rest)
  BY RowSumWithout, Zenon
<1>4. IsFiniteSet(RowsOf(next, a))
  <2>1. IsFiniteSet(rest \cup {t})
    BY <1>3, FS_AddElement
  <2>2. RowsOf(next, a) \subseteq rest \cup {t}
    BY <1>2
  <2> HIDE DEF rest, next
  <2> QED BY <2>1, <2>2, FS_Subset
<1>5. RowSum(next, a) = EffectOn(x, a) + SumFunctionOnSet(g, rest)
  <2>1. RowSum(next, a)
          = EffectOn(next[t], a) + SumFunctionOnSet(g, RowsOf(next, a) \ {t})
    <3> HIDE DEF next
    <3> QED BY <1>1, <1>4, RowSumWithout, Zenon
  <2> QED BY <1>1, <1>2, <2>1, Zenon
<1>6. SumFunctionOnSet(g, rest) = SumFunctionOnSet(f, rest)
  <2>1. \A k \in rest : g[k] = f[k]
    BY <1>1 DEF RowsOf
  <2> HIDE DEF f, g, rest
  <2> QED BY <1>3, <2>1, SumEqual
<1>7. EffectOn(rows[t], a) \in Int /\ EffectOn(x, a) \in Int
  BY EffectType
<1>8. RowSum(next, a) = EffectOn(x, a) + SumFunctionOnSet(f, rest)
  BY <1>5, <1>6, Zenon
<1>9. RowSum(next, a) = RowSum(rows, a) - EffectOn(rows[t], a) + EffectOn(x, a)
  <2> HIDE DEF f, g, rest, next
  <2> QED BY <1>3, <1>7, <1>8
<1> QED BY <1>4, <1>9

\* An account none of whose rows changed keeps its sum.
LEMMA RowSumSame ==
  ASSUME NEW rows, NEW next, NEW a, IsFiniteSet(RowsOf(rows, a)),
         RowsOf(next, a) = RowsOf(rows, a),
         \A t \in RowsOf(rows, a) : next[t] = rows[t]
  PROVE  IsFiniteSet(RowsOf(next, a)) /\ RowSum(next, a) = RowSum(rows, a)
<1> DEFINE f == [k \in Txns |-> EffectOn(rows[k], a)]
           g == [k \in Txns |-> EffectOn(next[k], a)]
           S == RowsOf(rows, a)
<1>1. \A t \in S : g[t] = f[t]
  BY DEF RowsOf
<1>2. SumFunctionOnSet(g, S) = SumFunctionOnSet(f, S)
  <2> HIDE DEF f, g, S
  <2> QED BY <1>1, SumEqual DEF S
<1> QED BY <1>2, Zenon DEF RowSum

\* Inserting the rows of a job's lines adds the lines' sum to the account.
LEMMA RowSumInsert ==
  ASSUME NEW rows \in [Txns -> Row], NEW next, NEW a \in Accounts,
         NEW lines, lines \subseteq Line, IsFiniteSet(lines),
         \A t \in Inserted(lines) :
           /\ rows[t].state = "none"
           /\ next[t].state = "live" /\ next[t].account = a
           /\ BalanceDelta(next[t].type, next[t].amount) = LineDelta(lines, t),
         \A t \in Txns \ Inserted(lines) : next[t] = rows[t],
         IsFiniteSet(RowsOf(rows, a))
  PROVE  /\ IsFiniteSet(RowsOf(next, a))
         /\ RowSum(next, a) = RowSum(rows, a) + LineSum(lines)
<1> DEFINE f == [k \in Txns |-> EffectOn(rows[k], a)]
           g == [k \in Txns |-> EffectOn(next[k], a)]
           d == [k \in Txns |-> LineDelta(lines, k)]
           S == RowsOf(rows, a)
           N == Inserted(lines)
<1>1. N \subseteq Txns
  BY DEF Inserted, Line
<1>2. S \cap N = {} /\ RowsOf(next, a) = S \cup N
  BY <1>1 DEF RowsOf
<1>3. IsFiniteSet(N) /\ IsFiniteSet(S \cup N)
  BY InsertedFinite, FS_Union
<1>4. \A t \in S : g[t] = f[t] /\ f[t] \in Int
  BY <1>2, EffectType DEF RowsOf
<1>5. \A t \in N : g[t] = d[t] /\ d[t] \in Int
  <2>1. \A t \in N : LineDelta(lines, t) \in Int
    BY LineDeltaType
  <2> QED BY <1>1, <2>1 DEF EffectOn
<1>6. SumFunctionOnSet(g, S) = SumFunctionOnSet(f, S)
  <2> HIDE DEF f, g, S
  <2> QED BY <1>4, SumEqual DEF S
<1>7. SumFunctionOnSet(g, N) = SumFunctionOnSet(d, N)
  <2> HIDE DEF d, g, N
  <2> QED BY <1>3, <1>5, SumEqual
<1>8. SumFunctionOnSet(g, S \cup N)
        = SumFunctionOnSet(g, S) + SumFunctionOnSet(g, N)
  <2>1. \A t \in S \cup N : g[t] \in Int
    BY <1>4, <1>5
  <2>2. IsFiniteSet(S)
    OBVIOUS
  <2> HIDE DEF g, S, N
  <2> QED BY <1>2, <1>3, <2>1, <2>2, SumUnion
<1>9. RowSum(next, a) = SumFunctionOnSet(g, S \cup N)
  BY <1>2, Zenon DEF RowSum
<1>10. RowSum(rows, a) = SumFunctionOnSet(f, S)
       /\ LineSum(lines) = SumFunctionOnSet(d, N)
  BY Zenon DEF RowSum, LineSum
<1>11. RowSum(next, a) = RowSum(rows, a) + LineSum(lines)
  BY <1>6, <1>7, <1>8, <1>9, <1>10, Zenon
<1> QED BY <1>2, <1>3, <1>11, Zenon

\* The worker's commit writes exactly the rows of the job's lines.
LEMMA ImportWrites ==
  ASSUME TypeOK, IdsOK, ReferentialIntegrity, NEW j \in Jobs, CommitImport(j)
  PROVE  /\ job[j].account \in Accounts /\ Live(job[j].account)
         /\ job[j].lines \subseteq Line
         /\ \A t \in Inserted(job[j].lines) :
              /\ t \in Txns
              /\ row[t].state = "none"
              /\ row'[t].state = "live" /\ row'[t].account = job[j].account
              /\ BalanceDelta(row'[t].type, row'[t].amount)
                   = LineDelta(job[j].lines, t)
         /\ \A t \in Txns \ Inserted(job[j].lines) : row'[t] = row[t]
<1>1. job[j].account \in Accounts /\ Live(job[j].account)
  BY DEF CommitImport, ReferentialIntegrity, LiveAccounts
<1>2. job[j].lines \subseteq Line
  BY DEF TypeOK, Job, Line
<1>3. ASSUME NEW t \in Inserted(job[j].lines)
      PROVE  /\ t \in Txns
             /\ row[t].state = "none"
             /\ row'[t].state = "live" /\ row'[t].account = job[j].account
             /\ BalanceDelta(row'[t].type, row'[t].amount)
                  = LineDelta(job[j].lines, t)
  <2>1. t \in Txns /\ row[t].state = "none"
    BY <1>2 DEF Inserted, Line, IdsOK
  <2>2. row'[t] = Imported(j, t)
    BY <2>1 DEF CommitImport, Inserted
  <2>3. /\ row'[t].state = "live" /\ row'[t].account = job[j].account
        /\ BalanceDelta(row'[t].type, row'[t].amount)
             = LineDelta(job[j].lines, t)
    BY <2>2 DEF Imported, LineDelta
  <2> QED BY <2>1, <2>3
<1>4. \A t \in Txns \ Inserted(job[j].lines) : row'[t] = row[t]
  BY DEF CommitImport, Inserted
<1> QED BY <1>1, <1>2, <1>3, <1>4

LEMMA RowsStep ==
  ASSUME IInv, BlankRows, IdsOK, LinesSummed, FiniteRows, PostedIsSum,
         [Next]_vars
  PROVE  FiniteRows' /\ PostedIsSum'
<1> USE DEF IInv
<1>1. SUFFICES ASSUME NEW a \in Accounts
               PROVE  /\ IsFiniteSet(RowsOf(row', a))
                      /\ posted'[a] = RowSum(row', a)
  BY DEF FiniteRows, PostedIsSum
<1>2. /\ IsFiniteSet(RowsOf(row, a))
      /\ posted[a] = RowSum(row, a)
      /\ posted[a] \in Int /\ row \in [Txns -> Row]
  BY DEF FiniteRows, PostedIsSum, TypeOK
<1> DEFINE Goal == IsFiniteSet(RowsOf(row', a)) /\ posted'[a] = RowSum(row', a)
<1>3. CASE UNCHANGED <<row, posted>>
  BY <1>2, <1>3
<1>4. ASSUME NEW r \in Requests,
             CommitCreate(r) \/ CommitUpdate(r) \/ CommitDelete(r)
      PROVE  Goal
  <2> DEFINE t == req[r].txn
             x == Committed(r)
  <2>1. t \in Txns /\ x \in Row /\ Commit(r, t, x)
    BY <1>4, CommittedRow
  <2>2. /\ row' = [row EXCEPT ![t] = x]
        /\ posted'[a] = posted[a] - EffectOn(row[t], a) + EffectOn(x, a)
    BY <2>1 DEF Commit
  <2>3. LET next == [row EXCEPT ![t] = x]
        IN  /\ IsFiniteSet(RowsOf(next, a))
            /\ RowSum(next, a)
                 = RowSum(row, a) - EffectOn(row[t], a) + EffectOn(x, a)
    <3> HIDE DEF t, x
    <3> QED BY <1>2, <2>1, RowSumReplace, Zenon
  <2> HIDE DEF t, x
  <2> QED BY <1>2, <2>2, <2>3, Zenon
<1>5. ASSUME NEW r \in Requests, CommitRemove(r)
      PROVE  Goal
  <2> DEFINE b == req[r].new.account
  <2>1. b \in Accounts /\ b # Null /\ a # Null
    BY <1>5, Constants DEF CommitRemove, SessionsOK, SessionOK
  <2>2. \A t \in Txns :
          row'[t] = IF row[t].account = b
                    THEN [row[t] EXCEPT !.account = Null] ELSE row[t]
    BY <1>5 DEF CommitRemove
  <2>3. \A t \in Txns : [row[t] EXCEPT !.account = Null].account = Null
    BY <1>2 DEF Row
  <2>4. posted'[a] = IF a = b THEN 0 ELSE posted[a]
    BY <1>5 DEF CommitRemove, TypeOK
  <2> HIDE DEF b
  <2>5. CASE a = b
    <3>1. RowsOf(row', a) = {}
      BY <2>1, <2>2, <2>3, <2>5 DEF RowsOf
    <3>2. RowSum(row', a) = 0
      BY <3>1, SumEmpty, Zenon DEF RowSum
    <3> QED BY <2>4, <2>5, <3>1, <3>2, FS_EmptySet, Zenon
  <2>6. CASE a # b
    <3>1. /\ RowsOf(row', a) = RowsOf(row, a)
          /\ \A t \in RowsOf(row, a) : row'[t] = row[t]
      BY <2>1, <2>2, <2>3, <2>6 DEF RowsOf
    <3>2. IsFiniteSet(RowsOf(row', a)) /\ RowSum(row', a) = RowSum(row, a)
      BY <1>2, <3>1, RowSumSame
    <3> QED BY <1>2, <2>4, <2>6, <3>2, Zenon
  <2> QED BY <2>5, <2>6
<1>6. ASSUME NEW j \in Jobs, CommitImport(j)
      PROVE  Goal
  <2> DEFINE lines == job[j].lines
  <2>1. /\ job[j].account \in Accounts
        /\ lines \subseteq Line
        /\ \A t \in Inserted(lines) :
             /\ t \in Txns
             /\ row[t].state = "none"
             /\ row'[t].state = "live" /\ row'[t].account = job[j].account
             /\ BalanceDelta(row'[t].type, row'[t].amount)
                  = LineDelta(lines, t)
        /\ \A t \in Txns \ Inserted(lines) : row'[t] = row[t]
    BY <1>6, ImportWrites
  <2>2. IsFiniteSet(lines) /\ job[j].delta = LineSum(lines)
    BY DEF LinesSummed
  <2>3. posted'[a] = IF a = job[j].account THEN posted[a] + job[j].delta
                     ELSE posted[a]
    BY <1>6 DEF CommitImport, TypeOK
  <2> HIDE DEF lines
  <2>4. CASE a = job[j].account
    <3>1. /\ IsFiniteSet(RowsOf(row', a))
          /\ RowSum(row', a) = RowSum(row, a) + LineSum(lines)
      BY <1>2, <2>1, <2>2, <2>4, RowSumInsert
    <3> QED BY <1>2, <2>2, <2>3, <2>4, <3>1, Zenon
  <2>5. CASE a # job[j].account
    <3>1. /\ RowsOf(row', a) = RowsOf(row, a)
          /\ \A t \in RowsOf(row, a) : row'[t] = row[t]
      BY <2>1, <2>5 DEF RowsOf
    <3>2. IsFiniteSet(RowsOf(row', a)) /\ RowSum(row', a) = RowSum(row, a)
      BY <1>2, <3>1, RowSumSame
    <3> QED BY <1>2, <2>3, <2>5, <3>2, Zenon
  <2> QED BY <2>4, <2>5
<1>7. CASE AccountNext
  BY <1>3, <1>7
     DEF AccountNext, CreateAccount, CreateShare, DeleteShare, history
<1>8. ASSUME NEW r \in Requests, RequestNext(r)
      PROVE  Goal
  <2> HIDE DEF Goal
  <2>1. UNCHANGED <<row, posted>> \/ CommitCreate(r) \/ CommitUpdate(r)
          \/ CommitDelete(r) \/ CommitRemove(r)
    BY <1>8, ZenonT(40)
       DEF RequestNext, StartCreate, StartUpdate, StartDelete, OpenForm,
           SubmitForm, StartRemove, AuthorizeTarget, LoadAccount, Abort,
           CommitEdit, database, history
  <2> QED BY <1>3, <1>4, <1>5, <2>1 DEF Goal
<1>9. ASSUME NEW j \in Jobs, ImportNext(j)
      PROVE  Goal
  <2> HIDE DEF Goal
  <2>1. UNCHANGED <<row, posted>> \/ CommitImport(j)
    BY <1>9 DEF ImportNext, ExecuteImport, ImportLine, database, history
  <2> QED BY <1>3, <1>6, <2>1 DEF Goal
<1> HIDE DEF Goal
<1>10. CASE UNCHANGED vars
  BY <1>3, <1>10 DEF vars, database, history
<1>11. Goal
  <2>1. UNCHANGED <<row, posted>> => Goal
    BY <1>3 DEF Goal
  <2> QED BY <1>7, <1>8, <1>9, <1>10, <2>1 DEF Next, vars, database, history, Goal
<1> QED BY <1>11 DEF Goal

LEMMA SumInit == Init => SumInv
<1> SUFFICES ASSUME Init PROVE SumInv
  OBVIOUS
<1>1. IInv
  BY InvInit
<1>2. BlankRows /\ IdsOK
  BY DEF Init, BlankRows, IdsOK, NoSession, NoRow, NoJob, Inserted
<1>3. LinesSummed
  <2>1. NoJob.lines = {} /\ NoJob.delta = 0
    BY DEF NoJob
  <2>2. \A j \in Jobs : job[j] = NoJob
    BY DEF Init
  <2> QED BY <2>1, <2>2, LineSumEmpty, FS_EmptySet, Zenon DEF LinesSummed
<1>4. \A a \in Accounts : RowsOf(row, a) = {}
  BY DEF Init, RowsOf, NoRow
<1>5. \A a \in Accounts : RowSum(row, a) = 0
  BY <1>4, SumEmpty, Zenon DEF RowSum
<1>6. \A a \in Accounts : posted[a] = 0
  BY DEF Init
<1>7. FiniteRows /\ PostedIsSum
  BY <1>4, <1>5, <1>6, FS_EmptySet, Zenon DEF FiniteRows, PostedIsSum
<1> QED BY <1>1, <1>2, <1>3, <1>7 DEF SumInv

LEMMA SumStep == SumInv /\ [Next]_vars => SumInv'
<1> SUFFICES ASSUME SumInv, [Next]_vars PROVE SumInv'
  OBVIOUS
<1>1. IInv'
  BY InvStep DEF SumInv
<1>2. BlankRows'
  BY BlankStep DEF SumInv, IInv
<1>3. IdsOK'
  BY IdsStep DEF SumInv, IInv
<1>4. LinesSummed'
  BY LinesStep DEF SumInv, IInv
<1>5. FiniteRows' /\ PostedIsSum'
  BY RowsStep DEF SumInv
<1> QED BY <1>1, <1>2, <1>3, <1>4, <1>5 DEF SumInv

\* The invariant behind the results on sums.
THEOREM SumInvariance == Spec => []SumInv
BY SumInit, SumStep, PTL DEF Spec

\* What the handlers and the import worker have posted to an account, commit
\* by commit, is the sum of the rows the table then holds for it, however
\* they interleave: no commit posts a row twice or forgets one it replaces,
\* and an import's delta is the sum of the lines it inserts.
THEOREM PostedAddsUp == Spec => []PostedIsSum
<1>1. SumInv => PostedIsSum
  BY DEF SumInv
<1> QED BY <1>1, SumInvariance, PTL

-----------------------------------------------------------------------------
(* The ledger implements AtomicLedger *)

Entry(x) ==
  IF x.account = Null THEN [account |-> Null, delta |-> 0]
  ELSE [account |-> x.account, delta |-> BalanceDelta(x.type, x.amount)]

\* A row counts on an account as the entry it maps to does.
LEMMA EntryEffect ==
  ASSUME BlankRows, TypeOK, NEW t \in Txns, NEW a \in Accounts
  PROVE  Atomic!On(Entry(row[t]), a) = EffectOn(row[t], a)
<1>1. row[t] \in Row /\ a # Null
  BY Constants DEF TypeOK
<1>2. row[t].state # "live" => row[t].account = Null
  BY DEF BlankRows, NoRow, TypeOK, Row
<1> QED BY <1>1, <1>2 DEF Atomic!On, Entry, EffectOn

LEMMA RefineInit == Init => Atomic!Init
<1> SUFFICES ASSUME Init PROVE Atomic!Init
  OBVIOUS
<1>1. LiveAccounts = {}
  BY DEF Init, LiveAccounts, Live
<1>2. \A t \in Txns : row[t].account = Null
  BY DEF Init, NoRow
<1> QED BY <1>1, <1>2 DEF Init, Atomic!Init, Atomic!NoEntry

\* The commit of a transaction handler records one entry.
LEMMA RefineCommit ==
  ASSUME SumInv, SumInv', NEW r \in Requests,
         CommitCreate(r) \/ CommitUpdate(r) \/ CommitDelete(r)
  PROVE  Atomic!Next
<1> DEFINE x == Committed(r)
<1>0. PICK t : t = req[r].txn
  OBVIOUS
<1>1. /\ t \in Txns /\ x \in Row /\ Commit(r, t, x)
      /\ x.account # Null => Live(x.account)
  <2>1. Commit(r, t, x) <=> Commit(r, req[r].txn, x)
    BY <1>0 DEF Commit
  <2> HIDE DEF x
  <2> QED BY <1>0, <2>1, CommittedRow DEF SumInv, IInv, x
<1>2. /\ row \in [Txns -> Row] /\ row' \in [Txns -> Row]
      /\ row' = [row EXCEPT ![t] = x]
  BY <1>1 DEF Commit, SumInv, IInv, TypeOK
<1>3. LiveAccounts' = LiveAccounts
  BY <1>1 DEF Commit, LiveAccounts, Live
<1> HIDE DEF x
<1>4. \A s \in Txns \ {t} : row'[s] = row[s]
  BY <1>2
<1>5. Entry(row'[t]).account \in LiveAccounts \cup {Null}
  <2>1. row'[t] = x
    BY <1>1, <1>2
  <2> QED BY <1>1, <2>1 DEF Entry, LiveAccounts, Row
<1>6. drifted \subseteq drifted'
  BY <1>1 DEF Commit
<1>7. ASSUME NEW a \in LiveAccounts \ drifted'
      PROVE  balance'[a] = balance[a] - Atomic!On(Entry(row[t]), a)
                             + Atomic!On(Entry(row'[t]), a)
  <2>1. /\ balance[a] = opening[a] + posted[a]
        /\ balance'[a] = opening'[a] + posted'[a]
    BY <1>3, <1>6, <1>7 DEF SumInv, IInv, BooksBalance
  <2>2. a \in Accounts
    BY <1>7 DEF LiveAccounts
  <2>3. /\ opening'[a] = opening[a]
        /\ posted'[a] = posted[a] - EffectOn(row[t], a) + EffectOn(x, a)
    BY <1>1, <2>2 DEF Commit
  <2>4. Atomic!On(Entry(row[t]), a) = EffectOn(row[t], a)
    BY <1>1, <2>2, EntryEffect DEF SumInv, IInv
  <2>5. Atomic!On(Entry(row'[t]), a) = EffectOn(x, a)
    <3>1. row'[t] = x
      BY <1>1, <1>2
    <3>2. x.state # "live" => x.account = Null
      BY <1>1, <1>2, <3>1 DEF SumInv, BlankRows, NoRow, Row
    <3> QED BY <2>2, <3>1, <3>2, Constants DEF Atomic!On, Entry, EffectOn
  <2>6. /\ opening[a] \in Int /\ posted[a] \in Int
        /\ EffectOn(row[t], a) \in Int /\ EffectOn(x, a) \in Int
    BY <1>1, <1>2, <2>2, EffectType DEF SumInv, IInv, TypeOK
  <2> QED BY <2>1, <2>3, <2>4, <2>5, <2>6
<1>8. Atomic!Record(t)
  BY <1>1, <1>3, <1>4, <1>5, <1>6, <1>7 DEF Atomic!Record, Entry
<1>9. \E k \in Txns : Atomic!Record(k)
  BY <1>1, <1>8
<1> QED BY <1>9 DEF Atomic!Next

\* The commit of the account form states a balance, or changes nothing.
LEMMA RefineEdit ==
  ASSUME SumInv, NEW r \in Requests, CommitEdit(r)
  PROVE  Atomic!Next \/ UNCHANGED Atomic!vars
<1> DEFINE q == req[r]
           a == q.new.account
<1>1. a \in Accounts /\ balance \in [Accounts -> Int]
  BY DEF CommitEdit, SumInv, IInv, TypeOK, SessionsOK, SessionOK
<1>2. UNCHANGED <<row, accountState>>
  BY DEF CommitEdit
<1>3. UNCHANGED LiveAccounts
  BY <1>2 DEF LiveAccounts, Live
<1>4. \A b \in Accounts \ {a} : balance'[b] = balance[b]
  BY <1>1 DEF CommitEdit
<1>5. drifted' \in {drifted, drifted \cup {a}, drifted \ {a}}
  BY DEF CommitEdit
<1>6. CASE a \in Written(q)
  <2>1. a \in LiveAccounts
    BY <1>1, <1>6 DEF CommitEdit, LiveAccounts
  <2>2. Atomic!State(a)
    BY <1>2, <1>3, <1>4, <1>5, <2>1 DEF Atomic!State
  <2> QED BY <1>1, <2>2 DEF Atomic!Next
<1>7. CASE a \notin Written(q)
  <2>1. UNCHANGED <<balance, drifted>>
    BY <1>1, <1>7 DEF CommitEdit
  <2> QED BY <1>2, <1>3, <2>1 DEF Atomic!vars
<1> QED BY <1>6, <1>7

\* Deleting an account closes its book and blanks the entries in it.
LEMMA RefineRemove ==
  ASSUME SumInv, NEW r \in Requests, CommitRemove(r)
  PROVE  Atomic!Next
<1>0. PICK a : a = req[r].new.account
  OBVIOUS
<1>1. a \in Accounts /\ a # Null /\ Live(a)
  BY <1>0, Constants DEF CommitRemove, SumInv, IInv, SessionsOK, SessionOK
<1>2. a \in LiveAccounts /\ LiveAccounts' = LiveAccounts \ {a}
  BY <1>0, <1>1 DEF CommitRemove, LiveAccounts, Live, SumInv, IInv, TypeOK
<1>3. \A b \in Accounts \ {a} : balance'[b] = balance[b]
  BY <1>0 DEF CommitRemove, SumInv, IInv, TypeOK
<1>4. drifted' = drifted \ {a}
  BY <1>0 DEF CommitRemove
<1>5. \A t \in Txns : Entry(row'[t]) = IF Entry(row[t]).account = a
                                       THEN Atomic!NoEntry ELSE Entry(row[t])
  <2>1. SUFFICES ASSUME NEW t \in Txns
                 PROVE  Entry(row'[t]) = IF Entry(row[t]).account = a
                                         THEN Atomic!NoEntry ELSE Entry(row[t])
    OBVIOUS
  <2>2. row[t] \in Row
    BY DEF SumInv, IInv, TypeOK
  <2>3. row'[t] = IF row[t].account = a
                  THEN [row[t] EXCEPT !.account = Null] ELSE row[t]
    BY <1>0 DEF CommitRemove
  <2>4. Entry(row[t]).account = row[t].account
    BY DEF Entry
  <2>5. [row[t] EXCEPT !.account = Null].account = Null
    BY <2>2 DEF Row
  <2> QED BY <2>3, <2>4, <2>5 DEF Entry, Atomic!NoEntry
<1>6. Atomic!Close(a)
  <2>1. [t \in Txns |-> Entry(row'[t])]
          = [t \in Txns |-> IF [s \in Txns |-> Entry(row[s])][t].account = a
                            THEN Atomic!NoEntry
                            ELSE [s \in Txns |-> Entry(row[s])][t]]
    BY <1>5
  <2> QED BY <1>2, <1>3, <1>4, <2>1 DEF Atomic!Close, Entry
<1>7. \E b \in Accounts : Atomic!Close(b)
  BY <1>1, <1>6
<1> QED BY <1>7 DEF Atomic!Next

\* The worker's commit records the entries of one account at once.
LEMMA RefineImport ==
  ASSUME SumInv, NEW j \in Jobs, CommitImport(j)
  PROVE  Atomic!Next
<1>0. PICK a : a = job[j].account
  OBVIOUS
<1>1. PICK lines : lines = job[j].lines
  OBVIOUS
<1>2. /\ a \in Accounts /\ Live(a) /\ a # Null
      /\ lines \subseteq Line
      /\ \A t \in Inserted(lines) :
           /\ t \in Txns
           /\ row[t].state = "none"
           /\ row'[t].account = a
           /\ BalanceDelta(row'[t].type, row'[t].amount) = LineDelta(lines, t)
      /\ \A t \in Txns \ Inserted(lines) : row'[t] = row[t]
  BY <1>0, <1>1, ImportWrites, Constants DEF SumInv, IInv
<1>3. /\ IsFiniteSet(lines) /\ job[j].delta = LineSum(lines)
      /\ balance' = [balance EXCEPT ![a] = @ + LineSum(lines)]
  BY <1>0, <1>1, Zenon DEF SumInv, LinesSummed, CommitImport
<1>4. UNCHANGED <<accountState, drifted, LiveAccounts>> /\ a \in LiveAccounts
  BY <1>2 DEF CommitImport, LiveAccounts, Live
<1> DEFINE new == {t \in Txns : Entry(row'[t]) # Entry(row[t])}
<1>5. \A t \in Inserted(lines) :
        /\ t \in Txns
        /\ Entry(row[t]) = Atomic!NoEntry
        /\ Entry(row'[t]).account = a
        /\ Entry(row'[t]).delta = LineDelta(lines, t)
  <2>1. \A t \in Inserted(lines) : row[t].account = Null
    BY <1>2 DEF SumInv, BlankRows, NoRow
  <2> QED BY <1>2, <2>1 DEF Entry, Atomic!NoEntry
<1>6. new = Inserted(lines)
  <2>1. Atomic!NoEntry.account = Null
    BY DEF Atomic!NoEntry
  <2>2. \A t \in Inserted(lines) : Entry(row'[t]) # Entry(row[t])
    BY <1>2, <1>5, <2>1
  <2>3. \A t \in Txns \ Inserted(lines) : Entry(row'[t]) = Entry(row[t])
    BY <1>2
  <2>4. Inserted(lines) \subseteq Txns
    BY <1>2
  <2> QED BY <2>2, <2>3, <2>4
<1> DEFINE d == [t \in Txns |-> LineDelta(lines, t)]
           e == [t \in new |-> Entry(row'[t]).delta]
<1>7. SumFunction(e) = LineSum(lines)
  <2>1. DOMAIN e = Inserted(lines) /\ IsFiniteSet(Inserted(lines))
    BY <1>3, <1>6, InsertedFinite
  <2>2. \A t \in Inserted(lines) : e[t] = d[t]
    BY <1>5, <1>6
  <2>3. SumFunctionOnSet(e, Inserted(lines))
          = SumFunctionOnSet(d, Inserted(lines))
    <3> HIDE DEF e, d
    <3> QED BY <2>1, <2>2, SumEqual
  <2> QED BY <2>1, <2>3, Zenon DEF SumFunction, LineSum
<1>8. \A t \in new : Entry(row[t]) = Atomic!NoEntry /\ Entry(row'[t]).account = a
  BY <1>5, <1>6
<1>9. balance' = [balance EXCEPT ![a] = @ + Atomic!SumFunction(e)]
  <2>1. \A f : Atomic!SumFunction(f) = SumFunction(f)
    BY DEF SumFunction, SumFunctionOnSet, FoldFunctionOnSet, MapThenFoldSet,
           Atomic!SumFunction, Atomic!SumFunctionOnSet,
           Atomic!FoldFunctionOnSet, Atomic!MapThenFoldSet
  <2> QED BY <1>3, <1>7, <2>1, Zenon
<1>10. Atomic!RecordAll(a)
  <2> DEFINE before == [t \in Txns |-> Entry(row[t])]
             after == [t \in Txns |-> Entry(row'[t])]
  <2>1. new = {t \in Txns : after[t] # before[t]}
    OBVIOUS
  <2>2. e = [t \in new |-> after[t].delta]
    OBVIOUS
  <2>3. \A t \in new : before[t] = Atomic!NoEntry /\ after[t].account = a
    BY <1>8
  <2>4. /\ a \in LiveAccounts
        /\ \A t \in new : before[t] = Atomic!NoEntry /\ after[t].account = a
        /\ balance' = [balance EXCEPT ![a] =
             @ + Atomic!SumFunction([t \in new |-> after[t].delta])]
        /\ UNCHANGED <<LiveAccounts, drifted>>
    BY <1>4, <1>9, <2>2, <2>3, Zenon
  <2>5. LET n == {t \in Txns : after[t] # before[t]}
        IN  /\ a \in LiveAccounts
            /\ \A t \in n : before[t] = Atomic!NoEntry /\ after[t].account = a
            /\ balance' = [balance EXCEPT ![a] =
                 @ + Atomic!SumFunction([t \in n |-> after[t].delta])]
            /\ UNCHANGED <<LiveAccounts, drifted>>
    BY <2>1, <2>4, Zenon
  <2> HIDE DEF new
  <2> QED BY <2>5, Zenon DEF Atomic!RecordAll, Entry
<1>11. \E b \in Accounts : Atomic!RecordAll(b)
  BY <1>2, <1>10
<1> QED BY <1>11 DEF Atomic!Next

LEMMA RefineCreate ==
  ASSUME SumInv, NEW a \in Accounts, NEW opened \in Balances,
         NEW tn \in Tenants \cup {Null}, CreateAccount(a, opened, tn)
  PROVE  Atomic!Next
<1>1. a \notin LiveAccounts /\ LiveAccounts' = LiveAccounts \cup {a}
  BY DEF CreateAccount, LiveAccounts, Live, SumInv, IInv, TypeOK
<1>2. \A b \in Accounts \ {a} : balance'[b] = balance[b]
  BY DEF CreateAccount, SumInv, IInv, TypeOK
<1>3. UNCHANGED <<row, drifted>>
  BY DEF CreateAccount
<1>4. Atomic!Open(a)
  BY <1>1, <1>2, <1>3 DEF Atomic!Open
<1> QED BY <1>4 DEF Atomic!Next

\* Every step of the ledger is a step of the abstract one, or none of its
\* business.
LEMMA RefineStep ==
  SumInv /\ SumInv' /\ [Next]_vars => [Atomic!Next]_(Atomic!vars)
<1> SUFFICES ASSUME SumInv, SumInv', [Next]_vars
             PROVE  Atomic!Next \/ UNCHANGED Atomic!vars
  OBVIOUS
<1>1. CASE UNCHANGED <<accountState, balance, row, drifted>>
  BY <1>1 DEF Atomic!vars, LiveAccounts, Live
<1>2. CASE AccountNext
  BY <1>1, <1>2, RefineCreate
     DEF AccountNext, CreateShare, DeleteShare, history
<1>3. ASSUME NEW r \in Requests, RequestNext(r)
      PROVE  Atomic!Next \/ UNCHANGED Atomic!vars
  <2>1. \/ UNCHANGED <<accountState, balance, row, drifted>>
        \/ CommitCreate(r) \/ CommitUpdate(r) \/ CommitDelete(r)
        \/ CommitEdit(r) \/ CommitRemove(r)
    BY <1>3, ZenonT(40)
       DEF RequestNext, StartCreate, StartUpdate, StartDelete, OpenForm,
           SubmitForm, StartRemove, AuthorizeTarget, LoadAccount, Abort,
           database, history
  <2> QED BY <1>1, <2>1, RefineCommit, RefineEdit, RefineRemove
<1>4. ASSUME NEW j \in Jobs, ImportNext(j)
      PROVE  Atomic!Next \/ UNCHANGED Atomic!vars
  <2>1. \/ UNCHANGED <<accountState, balance, row, drifted>>
        \/ CommitImport(j)
    BY <1>4 DEF ImportNext, ExecuteImport, ImportLine, database, history
  <2> QED BY <1>1, <2>1, RefineImport
<1> QED BY <1>1, <1>2, <1>3, <1>4 DEF Next, vars, database, history

\* The database transactions, for all their interleavings, look like single
\* steps that each record an entry and move its book together, but for the
\* accounts two requests have written at the same time: the handlers and the
\* import worker implement AtomicLedger.
THEOREM Refinement == Spec => ImplementsAtomicLedger
<1>1. Spec => Atomic!Init /\ [][Atomic!Next]_(Atomic!vars)
  BY RefineInit, RefineStep, SumInvariance, PTL DEF Spec
<1> QED BY <1>1 DEF ImplementsAtomicLedger, Atomic!Spec

-----------------------------------------------------------------------------
(* One request at a time *)

LEMMA SerialIsNext == SerialNext => Next
BY DEF SerialNext, Next

\* Nothing a request has read is stale if no other is under way.
LEMMA NothingStale ==
  ASSUME NEW q, UpToDate(q), q.op \in {"create", "update", "delete"}
  PROVE  Stale(q) = {}
<1>1. q.old = row[q.txn] /\ \A a \in q.got : q.seen[a] = balance[a]
  BY DEF UpToDate
<1>2. Written(q) \subseteq q.got
  BY DEF Written
<1> QED BY <1>1, <1>2 DEF Stale

\* A request goes on knowing what it has read, as no other commits.
LEMMA SerialReads ==
  ASSUME SerialInv, NEW r \in Requests,
         req[r].pc \in {"form", "checking", "open"} => UpToDate(req[r]),
         \/ \E u \in Users, tn \in Tenants, a \in Accounts, type \in Types,
               amount \in Amounts : StartCreate(r, u, tn, a, type, amount)
         \/ \E u \in Users, tn \in Tenants, t \in Txns,
               p \in [account: Accounts \cup {Null}, type: Types \cup {Null},
                      amount: Amounts \cup {Null}] : StartUpdate(r, u, tn, t, p)
         \/ \E u \in Users, tn \in Tenants, t \in Txns :
               StartDelete(r, u, tn, t)
         \/ \E a \in Accounts : OpenForm(r, a)
         \/ \E v \in Balances \cup {req[r].value} : SubmitForm(r, v)
         \/ \E a \in Accounts, family \in BOOLEAN : StartRemove(r, a, family)
         \/ AuthorizeTarget(r) \/ LoadAccount(r)
  PROVE  /\ UpToDate(req'[r])
         /\ UNCHANGED <<row, balance, drifted>>
         /\ \A s \in Requests \ {r} : req'[s] = req[s]
<1> DEFINE q == req[r]
           n == req'[r]
<1>1. /\ TypeOK /\ q \in Session /\ SessionOK(q) /\ q.old \in Row
      /\ q.new \in Row /\ r \in DOMAIN req
  BY DEF SerialInv, SumInv, IInv, SessionsOK, TypeOK, Session
<1>2. ASSUME NEW u \in Users, NEW tn \in Tenants, NEW a \in Accounts,
             NEW type \in Types, NEW amount \in Amounts,
             StartCreate(r, u, tn, a, type, amount)
      PROVE  UpToDate(n)
  <2>1. PICK t \in FreshTxns :
          req' = [req EXCEPT ![r] = Loaded(
            [NoSession EXCEPT !.pc = "open", !.op = "create", !.user = u,
               !.tenant = tn, !.txn = t,
               !.new = [state |-> "live", account |-> a, tenant |-> tn,
                        creator |-> u, type |-> type, amount |-> amount]], a)]
    BY <1>2 DEF StartCreate
  <2>2. /\ n.pc = "open" /\ n.op = "create" /\ n.txn = t /\ n.old = NoRow
        /\ n.got = {a} /\ n.seen[a] = balance[a]
    BY <1>1, <2>1 DEF Loaded, NoSession
  <2>3. row[t] = NoRow
    BY <2>1 DEF FreshTxns, SerialInv, SumInv, BlankRows
  <2> HIDE DEF n
  <2> QED BY <2>2, <2>3 DEF UpToDate
<1>3. ASSUME NEW u \in Users, NEW tn \in Tenants, NEW t \in Txns,
             NEW p \in [account: Accounts \cup {Null}, type: Types \cup {Null},
                        amount: Amounts \cup {Null}],
             StartUpdate(r, u, tn, t, p)
      PROVE  UpToDate(n)
  <2>1. /\ n.pc \in {"open", "checking"} /\ n.op = "update" /\ n.txn = t
        /\ n.old = row[t] /\ n.got = {}
    BY <1>1, <1>3 DEF StartUpdate, NoSession
  <2> HIDE DEF n
  <2> QED BY <2>1 DEF UpToDate
<1>4. ASSUME NEW u \in Users, NEW tn \in Tenants, NEW t \in Txns,
             StartDelete(r, u, tn, t)
      PROVE  UpToDate(n)
  <2>1. /\ n.pc = "open" /\ n.op = "delete" /\ n.txn = t
        /\ n.old = row[t] /\ n.got = {}
    BY <1>1, <1>4 DEF StartDelete, NoSession
  <2> HIDE DEF n
  <2> QED BY <2>1 DEF UpToDate
<1>5. ASSUME NEW a \in Accounts, OpenForm(r, a)
      PROVE  UpToDate(n)
  <2>1. /\ n.pc = "form" /\ n.op = "edit" /\ n.new.account = a
        /\ n.got = {} /\ n.value = balance[a]
    BY <1>1, <1>5 DEF OpenForm, NoSession, NoRow
  <2> HIDE DEF n
  <2> QED BY <2>1 DEF UpToDate
<1>6. ASSUME NEW v \in Balances \cup {q.value}, SubmitForm(r, v)
      PROVE  UpToDate(n)
  <2>1. q.op = "edit" /\ UpToDate(q) /\ q.pc = "form"
        /\ q.new.account \in Accounts
    BY <1>1, <1>6 DEF SubmitForm, SessionOK
  <2>2. /\ n.pc = "open" /\ n.op = q.op /\ n.new = q.new
        /\ n.got = q.got \cup {q.new.account}
        /\ n.seen = [q.seen EXCEPT ![q.new.account] = balance[q.new.account]]
        /\ n.old.amount = q.value
    BY <1>1, <1>6 DEF SubmitForm, Loaded, Session, Row
  <2>3. q.seen \in [Accounts -> Int]
    BY <1>1 DEF Session
  <2> HIDE DEF n, q
  <2> QED BY <2>1, <2>2, <2>3 DEF UpToDate
<1>7. ASSUME NEW a \in Accounts, NEW family \in BOOLEAN,
             StartRemove(r, a, family)
      PROVE  UpToDate(n)
  <2>1. n.pc = "open" /\ n.op = "remove" /\ n.got = {}
    BY <1>1, <1>7 DEF StartRemove, NoSession
  <2> HIDE DEF n
  <2> QED BY <2>1 DEF UpToDate
<1>8. ASSUME AuthorizeTarget(r)
      PROVE  UpToDate(n)
  <2>1. /\ n.pc = "open" /\ n.op = q.op /\ n.txn = q.txn /\ n.old = q.old
        /\ n.got = q.got /\ n.seen = q.seen
        /\ q.pc = "checking" /\ UpToDate(q)
    BY <1>1, <1>8 DEF AuthorizeTarget, Session
  <2> HIDE DEF n, q
  <2> QED BY <2>1 DEF UpToDate
<1>9. ASSUME LoadAccount(r)
      PROVE  UpToDate(n)
  <2> DEFINE a == Head(q.want)
  <2>1. /\ n.pc = "open" /\ n.op = q.op /\ n.txn = q.txn /\ n.old = q.old
        /\ n.new = q.new /\ q.pc = "open" /\ UpToDate(q)
        /\ \/ n.got = q.got /\ n.seen = q.seen
           \/ /\ n.got = q.got \cup {a}
              /\ n.seen = [q.seen EXCEPT ![a] = balance[a]]
    BY <1>1, <1>9 DEF LoadAccount, Loaded, Session
  <2>2. q.seen \in [Accounts -> Int] /\ q.got \subseteq Accounts
        /\ a \in Accounts
    BY <1>1, <1>9 DEF Session, LoadAccount
  <2> HIDE DEF n, q, a
  <2> QED BY <2>1, <2>2 DEF UpToDate
<1>10. UpToDate(n)
  <2> HIDE DEF n, q
  <2> QED BY <1>2, <1>3, <1>4, <1>5, <1>6, <1>7, <1>8, <1>9 DEF q
<1>11. UNCHANGED <<row, balance, drifted>>
  BY ZenonT(40)
     DEF StartCreate, StartUpdate, StartDelete, OpenForm, SubmitForm,
         StartRemove, AuthorizeTarget, LoadAccount, database, history
<1>12. req' = [req EXCEPT ![r] = req'[r]]
  <2>1. \/ req' = [req EXCEPT ![r] = req'[r]]
        \/ \E u \in Users, tn \in Tenants, a \in Accounts, type \in Types,
              amount \in Amounts : StartCreate(r, u, tn, a, type, amount)
    <3> HIDE DEF n, q
    <3> QED BY SessionIds, <1>1, ZenonT(40) DEF SerialInv, SumInv, IInv
  <2>2. ASSUME NEW u \in Users, NEW tn \in Tenants, NEW a \in Accounts,
               NEW type \in Types, NEW amount \in Amounts,
               StartCreate(r, u, tn, a, type, amount)
        PROVE  req' = [req EXCEPT ![r] = req'[r]]
    BY <1>1, <2>2 DEF StartCreate
  <2> QED BY <2>1, <2>2
<1>13. \A s \in Requests \ {r} : req'[s] = req[s]
  BY <1>1, <1>12 DEF TypeOK
<1> QED BY <1>10, <1>11, <1>13

LEMMA SerialStep == SerialInv /\ [SerialNext]_vars => SerialInv'
<1> SUFFICES ASSUME SerialInv, [SerialNext]_vars PROVE SerialInv'
  OBVIOUS
<1>1. SumInv /\ SumInv' /\ drifted = {}
  BY SerialIsNext, SumStep DEF SerialInv
<1>2. CASE UNCHANGED vars
  BY <1>1, <1>2
     DEF SerialInv, Busy, UpToDate, vars, database, history
<1>3. ASSUME Busy = {}, UNCHANGED <<req, drifted>>
      PROVE  SerialInv'
  BY <1>1, <1>3 DEF SerialInv, Busy
<1>4. CASE Busy = {} /\ AccountNext
  BY <1>3, <1>4 DEF AccountNext, CreateAccount, CreateShare, DeleteShare,
                    history
<1>5. ASSUME NEW j \in Jobs, Busy = {}, ImportNext(j)
      PROVE  SerialInv'
  BY <1>3, <1>5 DEF ImportNext, ExecuteImport, ImportLine, CommitImport,
                    history
<1>6. ASSUME NEW r \in Requests, Busy \subseteq {r}, RequestNext(r)
      PROVE  SerialInv'
  <2> DEFINE q == req[r]
  <2>1. TypeOK /\ SessionsOK /\ q \in Session
    BY <1>1 DEF SumInv, IInv, TypeOK
  <2>2. q.pc \in {"form", "checking", "open"} => UpToDate(q)
    BY DEF SerialInv, Busy
  <2>3. ASSUME req' = [req EXCEPT ![r] = Finished], drifted' = {}
        PROVE  SerialInv'
    <3>1. Finished.pc = "done"
      BY DEF Finished, NoSession
    <3>2. Busy' = {}
      BY <1>6, <2>1, <2>3, <3>1 DEF Busy, TypeOK
    <3> QED BY <1>1, <2>3, <3>2 DEF SerialInv
  <2>4. ASSUME CommitCreate(r) \/ CommitUpdate(r) \/ CommitDelete(r)
        PROVE  SerialInv'
    <3>1. /\ Commit(r, q.txn, Committed(r))
          /\ q.op \in {"create", "update", "delete"} /\ q.pc = "open"
      BY <1>1, <2>4, CommittedRow
         DEF SumInv, IInv, CommitCreate, CommitUpdate, CommitDelete
    <3>2. Stale(q) = {}
      <4> HIDE DEF q
      <4> QED BY <2>2, <3>1, NothingStale
    <3>3. req' = [req EXCEPT ![r] = Finished] /\ drifted' = {}
      BY <1>1, <3>1, <3>2 DEF Commit
    <3> QED BY <2>3, <3>3
  <2>5. ASSUME CommitEdit(r)
        PROVE  SerialInv'
    <3>1. q.old.amount = balance[q.new.account]
      BY <2>2, <2>5 DEF CommitEdit, UpToDate
    <3>2. req' = [req EXCEPT ![r] = Finished] /\ drifted' = {}
      BY <1>1, <2>5, <3>1 DEF CommitEdit
    <3> QED BY <2>3, <3>2
  <2>6. ASSUME CommitRemove(r)
        PROVE  SerialInv'
    <3>1. req' = [req EXCEPT ![r] = Finished] /\ drifted' = {}
      BY <1>1, <2>6 DEF CommitRemove
    <3> QED BY <2>3, <3>1
  <2>7. ASSUME Abort(r)
        PROVE  SerialInv'
    <3>1. req' = [req EXCEPT ![r] = Finished] /\ drifted' = {}
      BY <1>1, <2>7 DEF Abort, history
    <3> QED BY <2>3, <3>1
  <2>8. ASSUME UpToDate(req'[r]), UNCHANGED <<row, balance, drifted>>,
               \A s \in Requests \ {r} : req'[s] = req[s]
        PROVE  SerialInv'
    <3>1. Busy' \subseteq {r}
      BY <1>6, <2>8 DEF Busy
    <3>2. ASSUME NEW s \in Busy' PROVE UpToDate(req[s])'
      <4>1. s = r
        BY <3>1
      <4> QED BY <2>8, <4>1 DEF UpToDate
    <3> QED BY <1>1, <2>8, <3>2 DEF SerialInv
  <2>9. ASSUME \/ \E u \in Users, tn \in Tenants, a \in Accounts,
                     type \in Types, amount \in Amounts :
                       StartCreate(r, u, tn, a, type, amount)
               \/ \E u \in Users, tn \in Tenants, t \in Txns,
                     p \in [account: Accounts \cup {Null},
                            type: Types \cup {Null},
                            amount: Amounts \cup {Null}] :
                       StartUpdate(r, u, tn, t, p)
               \/ \E u \in Users, tn \in Tenants, t \in Txns :
                     StartDelete(r, u, tn, t)
               \/ \E a \in Accounts : OpenForm(r, a)
               \/ \E v \in Balances \cup {req[r].value} : SubmitForm(r, v)
               \/ \E a \in Accounts, family \in BOOLEAN :
                    StartRemove(r, a, family)
               \/ AuthorizeTarget(r) \/ LoadAccount(r)
        PROVE  SerialInv'
    <3>1. /\ UpToDate(req'[r])
          /\ UNCHANGED <<row, balance, drifted>>
          /\ \A s \in Requests \ {r} : req'[s] = req[s]
      BY <2>2, <2>9, SerialReads, ZenonT(40)
    <3> QED BY <2>8, <3>1
  <2> HIDE DEF q
  <2> QED BY <1>6, <2>4, <2>5, <2>6, <2>7, <2>9, ZenonT(40) DEF RequestNext
<1> QED BY <1>2, <1>4, <1>5, <1>6 DEF SerialNext

LEMMA SerialInit == Init => SerialInv
<1> SUFFICES ASSUME Init PROVE SerialInv
  OBVIOUS
<1>1. SumInv
  BY SumInit
<1>2. drifted = {} /\ Busy = {}
  BY DEF Init, Busy, NoSession
<1> QED BY <1>1, <1>2 DEF SerialInv

\* One request at a time keeps every balance right: the release note's
\* "balance is always correct after any mutation" holds of the handlers as
\* long as none of their database transactions overlap.
THEOREM SerialBooks == SerialSpec => []BooksAlwaysBalance
<1>1. SerialSpec => []SerialInv
  BY SerialInit, SerialStep, PTL DEF SerialSpec
<1>2. SerialInv => BooksAlwaysBalance
  BY DEF SerialInv, SumInv, IInv, BooksBalance, BooksAlwaysBalance
<1> QED BY <1>1, <1>2, PTL

=============================================================================
