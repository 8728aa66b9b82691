-------------------------- MODULE ImportJobsProofs --------------------------
(* Proofs about ImportJobs, for every value of its constants. *)
EXTENDS ImportJobs, TLAPS

LEMMA Initially == Init => IInv
<1> SUFFICES ASSUME Init PROVE IInv
  OBVIOUS
<1>1. TypeOK
  BY BoundsAssumption DEF Init, TypeOK, Statuses, Idle
<1>2. TasksOK /\ RowsOK /\ StatusTellsTruth /\ NothingDropped
        /\ FileOutlivesImport
  BY DEF Init, TasksOK, RowsOK, StatusTellsTruth, NothingDropped,
         FileOutlivesImport
<1>3. \A w \in Workers : WorkerOK(w)
  BY DEF Init, Idle, WorkerOK
<1> QED BY <1>1, <1>2, <1>3 DEF IInv

-----------------------------------------------------------------------------
(* The request's steps touch no worker. *)

LEMMA RequestStep ==
  ASSUME IInv, NEW j \in Jobs, Request(j) \/ DeleteAccount(j) \/ Redeliver(j)
  PROVE  IInv'
<1> USE NoneAssumption, BoundsAssumption
<1>1. TypeOK'
  <2>1. CASE CommitPending(j)
    BY <2>1 DEF IInv, TypeOK, CommitPending, Statuses, deployment, delivery,
           effects
  <2>2. CASE SendTask(j)
    BY <2>2 DEF IInv, TypeOK, SendTask, Statuses, deployment, importjob,
           effects
  <2>3. CASE SendTaskRaises(j)
    BY <2>3 DEF IInv, TypeOK, SendTaskRaises, Statuses, deployment, importjob,
           effects
  <2>4. CASE MarkUnsent(j)
    BY <2>4 DEF IInv, TypeOK, MarkUnsent, SetFailed, Statuses, deployment,
           delivery, effects
  <2>5. CASE RecordTaskId(j)
    BY <2>5 DEF IInv, TypeOK, RecordTaskId, Statuses, deployment, importjob,
           delivery, effects
  <2>6. CASE HandlerDies(j)
    BY <2>6 DEF IInv, TypeOK, HandlerDies, Statuses, deployment, importjob,
           delivery, effects
  <2>7. CASE DeleteAccount(j)
    BY <2>7 DEF IInv, TypeOK, DeleteAccount, Statuses, deployment, delivery,
           effects
  <2>8. CASE Redeliver(j)
    BY <2>8 DEF IInv, TypeOK, Redeliver, Statuses, deployment, importjob,
           effects
  <2> QED BY <2>1, <2>2, <2>3, <2>4, <2>5, <2>6, <2>7, <2>8 DEF Request
<1>2. TasksOK'
  <2>1. CASE CommitPending(j)
    BY <2>1 DEF IInv, TypeOK, TasksOK, CommitPending, Statuses, deployment,
           delivery, effects
  <2>2. CASE SendTask(j)
    BY <2>2 DEF IInv, TypeOK, TasksOK, SendTask, Statuses, deployment,
           importjob, effects
  <2>3. CASE SendTaskRaises(j)
    <3>1. message' = message \/ message' = [message EXCEPT ![j] = "queued"]
      BY <2>3 DEF SendTaskRaises
    <3>2. /\ handler[j] = "committed"
          /\ handler' = [handler EXCEPT ![j] = "unsent"]
          /\ UNCHANGED <<status, attempts, inserted>>
      BY <2>3 DEF SendTaskRaises, importjob, effects
    <3> QED BY <3>1, <3>2 DEF IInv, TypeOK, TasksOK
  <2>4. CASE MarkUnsent(j)
    BY <2>4 DEF IInv, TypeOK, TasksOK, MarkUnsent, SetFailed, Statuses,
           deployment, delivery, effects
  <2>5. CASE RecordTaskId(j)
    BY <2>5 DEF IInv, TypeOK, TasksOK, RecordTaskId, Statuses, deployment,
           importjob, delivery, effects
  <2>6. CASE HandlerDies(j)
    BY <2>6 DEF IInv, TypeOK, TasksOK, HandlerDies, Statuses, deployment,
           importjob, delivery, effects
  <2>7. CASE DeleteAccount(j)
    BY <2>7 DEF IInv, TypeOK, TasksOK, DeleteAccount, Statuses, deployment,
           delivery, effects
  <2>8. CASE Redeliver(j)
    BY <2>8 DEF IInv, TypeOK, TasksOK, Redeliver, Statuses, deployment,
           importjob, effects
  <2> QED BY <2>1, <2>2, <2>3, <2>4, <2>5, <2>6, <2>7, <2>8 DEF Request
\* While a worker holds the row's lock, its status does not change.
<1>3. /\ \A k \in Jobs : inserted'[k] = inserted[k] /\ file'[k] = file[k]
      /\ \A k \in Jobs : Locked(k) => status'[k] = status[k] \/ status[k] = "none"
      /\ \A k \in Jobs : status[k] = "gone" => status'[k] = "gone"
      /\ \A k \in Jobs : message[k] # "none" => message'[k] # "none"
      /\ \A k \in Jobs : message'[k] = "settled" => message[k] = "settled"
      /\ worker' = worker /\ broker' = broker
      /\ \A k \in Jobs : k \in overwritten' => status[k] = "DONE" \/ k \in overwritten
      /\ \A k \in Jobs : status'[k] = "DONE" => status[k] = "DONE"
  <2>1. CASE CommitPending(j)
    BY <2>1 DEF IInv, TypeOK, TasksOK, CommitPending, deployment, delivery,
           effects
  <2>2. CASE SendTask(j) \/ SendTaskRaises(j)
    BY <2>2, ZenonT(40)
       DEF IInv, TypeOK, SendTask, SendTaskRaises, deployment, importjob,
           effects
  <2>4. CASE MarkUnsent(j)
    BY <2>4 DEF IInv, TypeOK, MarkUnsent, SetFailed, deployment, delivery,
           effects
  <2>5. CASE RecordTaskId(j) \/ HandlerDies(j)
    BY <2>5 DEF IInv, RecordTaskId, HandlerDies, deployment, importjob,
           delivery, effects
  <2>7. CASE DeleteAccount(j)
    BY <2>7 DEF IInv, TypeOK, DeleteAccount, deployment, delivery, effects
  <2>8. CASE Redeliver(j)
    BY <2>8 DEF IInv, TypeOK, Redeliver, deployment, importjob, effects
  <2> QED BY <2>1, <2>2, <2>4, <2>5, <2>7, <2>8 DEF Request
<1>4. RowsOK'
  BY <1>1, <1>3 DEF IInv, TypeOK, RowsOK
<1>5. \A w \in Workers : WorkerOK(w)'
  BY <1>3 DEF IInv, TypeOK, WorkerOK, Locked
<1>6. NothingDropped' /\ FileOutlivesImport'
  BY <1>3 DEF IInv, NothingDropped, FileOutlivesImport
<1>7. StatusTellsTruth'
  <2>1. CASE CommitPending(j)
    BY <2>1 DEF IInv, TypeOK, TasksOK, StatusTellsTruth, CommitPending,
           deployment, delivery, effects
  <2>2. CASE MarkUnsent(j)
    BY <2>2 DEF IInv, TypeOK, StatusTellsTruth, MarkUnsent, SetFailed,
           deployment, delivery, effects
  <2>3. CASE DeleteAccount(j)
    BY <2>3 DEF IInv, TypeOK, StatusTellsTruth, DeleteAccount, deployment,
           delivery, effects
  <2>4. CASE UNCHANGED <<importjob, effects>>
    BY <2>4 DEF IInv, StatusTellsTruth, importjob, effects
  <2> QED BY <2>1, <2>2, <2>3, <2>4 DEF Request, SendTask, SendTaskRaises,
             RecordTaskId, HandlerDies, Redeliver
<1> QED BY <1>1, <1>2, <1>4, <1>5, <1>6, <1>7 DEF IInv

-----------------------------------------------------------------------------
(* The worker's steps. *)

LEMMA WorkerStep ==
  ASSUME IInv, NEW w \in Workers,
         (\E j \in Jobs : Receive(w, j)) \/ Step(w) \/ Crash(w)
  PROVE  IInv'
<1> USE NoneAssumption, BoundsAssumption
<1> DEFINE WorkerState ==
      [pc: {"idle", "claim", "work", "failing", "nack", "cleanup", "ack"},
       job: Jobs \cup {"none"}, transient: BOOLEAN]
\* The job it works on is one it received.
<1>0. worker[w].pc # "idle" =>
        worker[w].job \in Jobs /\ message[worker[w].job] # "none"
  BY DEF IInv, WorkerOK
\* What a commit does, whichever answer the worker gets.
<1>c. ASSUME Commit(w)
      PROVE  LET j == worker[w].job IN
             /\ j \in Jobs /\ worker[w].pc = "work" /\ j \notin poison
             /\ inserted' = [inserted EXCEPT ![j] = @ + 1]
             /\ status' = [status EXCEPT ![j] = "DONE"]
             /\ worker' \in [Workers -> WorkerState]
             /\ worker'[w].job = j /\ worker'[w].pc \in {"cleanup", "failing"}
             /\ \A v \in Workers \ {w} : worker'[v] = worker[v]
             /\ UNCHANGED <<deployment, handler, delivery, file, crashes,
                            overwritten, unmarked>>
  <2>1. worker[w].job \in Jobs /\ worker \in [Workers -> WorkerState]
    BY <1>c, <1>0 DEF Commit, IInv, TypeOK
  <2>2. CASE worker' = [worker EXCEPT ![w].pc = "cleanup"]
    BY <1>c, <2>1, <2>2 DEF Commit
  <2>3. CASE worker' = [worker EXCEPT ![w] =
               [pc |-> "failing", job |-> worker[w].job, transient |-> TRUE]]
    BY <1>c, <2>1, <2>3 DEF Commit
  <2> QED BY <1>c, <2>2, <2>3 DEF Commit
\* The same of a failure.
<1>f. ASSUME Fail(w)
      PROVE  /\ worker[w].job \in Jobs /\ worker[w].pc \in {"claim", "work"}
             /\ worker' \in [Workers -> WorkerState]
             /\ worker'[w].job = worker[w].job /\ worker'[w].pc = "failing"
             /\ \A v \in Workers \ {w} : worker'[v] = worker[v]
             /\ UNCHANGED <<deployment, importjob, handler, delivery, effects,
                            crashes>>
  <2>1. PICK transient \in BOOLEAN :
          worker' = [worker EXCEPT ![w] = [pc |-> "failing",
                       job |-> worker[w].job, transient |-> transient]]
    BY <1>f DEF Fail
  <2>2. worker[w].job \in Jobs /\ worker \in [Workers -> WorkerState]
    BY <1>f, <1>0 DEF Fail, IInv, TypeOK
  <2> QED BY <1>f, <2>1, <2>2 DEF Fail
<1>1. TypeOK'
  <2>1. CASE \E j \in Jobs : Receive(w, j)
    BY <1>0, <2>1 DEF IInv, TypeOK, Statuses, WorkerOK, TasksOK, Receive,
           deployment, importjob, effects
  <2>2. CASE Claim(w)
    BY <1>0, <2>2 DEF IInv, TypeOK, Statuses, WorkerOK, TasksOK, Claim,
           deployment, importjob, delivery, effects
  <2>3. CASE Commit(w)
    BY <1>c, <2>3, SMTT(30)
       DEF IInv, TypeOK, Statuses, deployment, importjob, delivery, effects
  <2>4. CASE Fail(w)
    BY <1>f, <2>4 DEF IInv, TypeOK, Statuses, deployment, importjob, delivery,
           effects
  <2>5. CASE MarkFailed(w)
    <3>1. worker' \in [Workers -> WorkerState]
      BY <1>0, <2>5 DEF IInv, TypeOK, MarkFailed
    <3>2. /\ status' \in [Jobs -> Statuses]
          /\ overwritten' \subseteq Jobs /\ unmarked' \subseteq Jobs
      BY <1>0, <2>5 DEF IInv, TypeOK, MarkFailed, SetFailed, importjob,
             Statuses
    <3> QED BY <2>5, <3>1, <3>2 DEF IInv, TypeOK, MarkFailed, deployment,
               delivery, effects
  <2>6. CASE Cleanup(w)
    <3>1. worker' \in [Workers -> WorkerState]
      BY <1>0, <2>6 DEF IInv, TypeOK, Cleanup
    <3>2. file' \in [Jobs -> BOOLEAN]
      BY <2>6 DEF IInv, TypeOK, Cleanup
    <3> QED BY <2>6, <3>1, <3>2 DEF IInv, TypeOK, Cleanup, deployment,
               importjob, delivery
  <2>7. CASE Ack(w)
    BY <1>0, <2>7 DEF IInv, TypeOK, Statuses, WorkerOK, TasksOK, Ack,
           deployment, importjob, effects, Idle
  <2>8. CASE Nack(w)
    BY <1>0, <2>8 DEF IInv, TypeOK, Statuses, WorkerOK, TasksOK, Nack,
           Returned,
           deployment, importjob, effects, Idle
  <2>9. CASE Crash(w)
    BY <1>0, <2>9 DEF IInv, TypeOK, Statuses, WorkerOK, TasksOK, Crash,
           Returned, deployment, importjob, effects, Idle
  <2> QED BY <1>0, <2>1, <2>2, <2>3, <2>4, <2>5, <2>6, <2>7, <2>8, <2>9 DEF
         Step
<1>2. TasksOK'
  <2>1. CASE \E j \in Jobs : Receive(w, j)
    BY <1>0, <2>1 DEF IInv, TypeOK, TasksOK, WorkerOK, Receive, deployment,
           importjob, effects
  <2>2. CASE Claim(w)
    BY <1>0, <2>2 DEF IInv, TypeOK, TasksOK, WorkerOK, Claim, deployment,
           importjob, delivery, effects
  <2>3. CASE Commit(w)
    BY <1>c, <2>3 DEF IInv, TypeOK, TasksOK, WorkerOK, importjob, delivery,
           effects
  <2>4. CASE Fail(w)
    BY <1>f, <2>4 DEF IInv, TypeOK, TasksOK, importjob, delivery, effects
  <2>5. CASE MarkFailed(w)
    BY <1>0, <2>5 DEF IInv, TypeOK, TasksOK, WorkerOK, MarkFailed, SetFailed,
           deployment, importjob, delivery, effects
  <2>6. CASE Cleanup(w)
    BY <1>0, <2>6 DEF IInv, TypeOK, TasksOK, WorkerOK, Cleanup, deployment,
           importjob, delivery
  <2>7. CASE Ack(w)
    BY <1>0, <2>7 DEF IInv, TypeOK, TasksOK, WorkerOK, Ack, deployment,
           importjob, effects, Idle
  <2>8. CASE Nack(w)
    BY <1>0, <2>8 DEF IInv, TypeOK, TasksOK, WorkerOK, Nack, Returned,
           deployment, importjob, effects, Idle
  <2>9. CASE Crash(w)
    BY <1>0, <2>9 DEF IInv, TypeOK, TasksOK, WorkerOK, Crash, Returned,
           deployment, importjob, effects, Idle
  <2> QED BY <1>0, <2>1, <2>2, <2>3, <2>4, <2>5, <2>6, <2>7, <2>8, <2>9 DEF
         Step
<1>3. RowsOK'
  <2>1. CASE \E j \in Jobs : Receive(w, j)
    BY <1>0, <2>1 DEF IInv, TypeOK, RowsOK, Receive, deployment, importjob,
           effects
  <2>2. CASE Claim(w)
    BY <1>0, <2>2 DEF IInv, TypeOK, RowsOK, Claim, deployment, importjob,
           delivery, effects
  <2>3. CASE Commit(w)
    BY <1>c, <2>3 DEF IInv, TypeOK, RowsOK, importjob, effects
  <2>4. CASE Fail(w)
    BY <1>f, <2>4 DEF IInv, TypeOK, RowsOK, importjob, effects
  <2>5. CASE MarkFailed(w)
    BY <1>0, <2>5 DEF IInv, TypeOK, RowsOK, MarkFailed, SetFailed, deployment,
           importjob, delivery, effects
  <2>6. CASE Cleanup(w)
    BY <1>0, <2>6 DEF IInv, TypeOK, RowsOK, Cleanup, deployment, importjob,
           delivery
  <2>7. CASE Ack(w)
    BY <1>0, <2>7 DEF IInv, TypeOK, RowsOK, Ack, deployment, importjob,
           effects,
           Idle
  <2>8. CASE Nack(w)
    BY <1>0, <2>8 DEF IInv, TypeOK, RowsOK, Nack, Returned, deployment,
           importjob, effects, Idle
  <2>9. CASE Crash(w)
    BY <1>0, <2>9 DEF IInv, TypeOK, RowsOK, Crash, Returned, deployment,
           importjob, effects, Idle
  <2> QED BY <1>0, <2>1, <2>2, <2>3, <2>4, <2>5, <2>6, <2>7, <2>8, <2>9 DEF
         Step
<1>4. \A v \in Workers : WorkerOK(v)'
  <2>1. CASE \E j \in Jobs : Receive(w, j)
    BY <1>0, <2>1 DEF IInv, TypeOK, TasksOK, RowsOK, WorkerOK, Locked,
           Receive,
           deployment, importjob, effects
  <2>2. CASE Claim(w)
    BY <1>0, <2>2 DEF IInv, TypeOK, TasksOK, RowsOK, WorkerOK, Locked, Claim,
           deployment, importjob, delivery, effects
  <2>3. CASE Commit(w)
    <3> SUFFICES ASSUME NEW v \in Workers PROVE WorkerOK(v)'
      OBVIOUS
    <3> DEFINE i == worker[w].job
               k == worker[v].job
    <3>1. /\ inserted \in [Jobs -> Nat] /\ inserted' \in [Jobs -> Nat]
          /\ \A n \in Jobs : inserted'[n] >= inserted[n]
          /\ inserted'[i] >= 1
          /\ \A n \in Jobs \ {i} : status'[n] = status[n]
          /\ message' = message
      BY <1>c, <2>3, SMTT(30) DEF IInv, TypeOK, delivery
    <3>2. CASE v = w
      BY <1>c, <2>3, <3>1, <3>2 DEF IInv, WorkerOK
    <3>3. CASE v # w
      <4>1. worker'[v] = worker[v] /\ WorkerOK(v) /\ WorkerOK(w)
        BY <1>c, <2>3, <3>3 DEF IInv
      <4>2. worker[v].pc # "idle" => k \in Jobs
        BY <4>1 DEF WorkerOK
      <4>3. worker[v].pc = "work" => k # i
        BY <1>c, <2>3, <3>3, <4>1 DEF WorkerOK
      <4>4. \A u \in Workers : worker'[u].pc = "work" => worker[u] = worker'[u]
        BY <1>c, <2>3
      <4> QED BY <3>1, <4>1, <4>2, <4>3, <4>4 DEF WorkerOK
    <3> QED BY <3>2, <3>3
  <2>4. CASE Fail(w)
    BY <1>f, <2>4 DEF IInv, TypeOK, WorkerOK, importjob, delivery, effects
  <2>5. CASE MarkFailed(w)
    BY <1>0, <2>5 DEF IInv, TypeOK, TasksOK, RowsOK, WorkerOK, Locked,
           MarkFailed, SetFailed, deployment, importjob, delivery, effects
  <2>6. CASE Cleanup(w)
    BY <1>0, <2>6 DEF IInv, TypeOK, TasksOK, RowsOK, WorkerOK, Locked,
           Cleanup,
           deployment, importjob, delivery
  <2>7. CASE Ack(w)
    BY <1>0, <2>7 DEF IInv, TypeOK, TasksOK, RowsOK, WorkerOK, Locked, Ack,
           deployment, importjob, effects, Idle
  <2>8. CASE Nack(w)
    BY <1>0, <2>8 DEF IInv, TypeOK, TasksOK, RowsOK, WorkerOK, Locked, Nack,
           Returned, deployment, importjob, effects, Idle
  <2>9. CASE Crash(w)
    BY <1>0, <2>9 DEF IInv, TypeOK, TasksOK, RowsOK, WorkerOK, Locked, Crash,
           Returned, deployment, importjob, effects, Idle
  <2> QED BY <1>0, <2>1, <2>2, <2>3, <2>4, <2>5, <2>6, <2>7, <2>8, <2>9 DEF
         Step
<1>5. StatusTellsTruth'
  <2>1. CASE \E j \in Jobs : Receive(w, j)
    BY <1>0, <2>1 DEF IInv, TypeOK, WorkerOK, StatusTellsTruth, Receive,
           deployment, importjob, effects
  <2>2. CASE Claim(w)
    BY <1>0, <2>2 DEF IInv, TypeOK, WorkerOK, StatusTellsTruth, Claim,
           deployment, importjob, delivery, effects
  <2>3. CASE Commit(w)
    BY <1>c, <2>3 DEF IInv, TypeOK, WorkerOK, StatusTellsTruth, importjob,
           effects
  <2>4. CASE Fail(w)
    BY <1>f, <2>4 DEF IInv, TypeOK, WorkerOK, StatusTellsTruth, importjob,
           effects
  <2>5. CASE MarkFailed(w)
    BY <1>0, <2>5 DEF IInv, TypeOK, WorkerOK, StatusTellsTruth, MarkFailed,
           SetFailed, deployment, importjob, delivery, effects
  <2>6. CASE Cleanup(w)
    BY <1>0, <2>6 DEF IInv, TypeOK, WorkerOK, StatusTellsTruth, Cleanup,
           deployment, importjob, delivery
  <2>7. CASE Ack(w)
    BY <1>0, <2>7 DEF IInv, TypeOK, WorkerOK, StatusTellsTruth, Ack,
           deployment,
           importjob, effects, Idle
  <2>8. CASE Nack(w)
    BY <1>0, <2>8 DEF IInv, TypeOK, WorkerOK, StatusTellsTruth, Nack,
           Returned,
           deployment, importjob, effects, Idle
  <2>9. CASE Crash(w)
    BY <1>0, <2>9 DEF IInv, TypeOK, WorkerOK, StatusTellsTruth, Crash,
           Returned,
           deployment, importjob, effects, Idle
  <2> QED BY <1>0, <2>1, <2>2, <2>3, <2>4, <2>5, <2>6, <2>7, <2>8, <2>9 DEF
         Step
<1>6. NothingDropped'
  <2>1. CASE \E j \in Jobs : Receive(w, j)
    BY <1>0, <2>1 DEF IInv, TypeOK, WorkerOK, NothingDropped, Receive,
           deployment, importjob, effects
  <2>2. CASE Claim(w)
    BY <1>0, <2>2 DEF IInv, TypeOK, WorkerOK, NothingDropped, Claim,
           deployment,
           importjob, delivery, effects
  <2>3. CASE Commit(w)
    BY <1>c, <2>3 DEF IInv, TypeOK, NothingDropped, deployment, importjob,
           delivery, effects
  <2>4. CASE Fail(w)
    BY <1>f, <2>4 DEF IInv, TypeOK, NothingDropped, deployment, importjob,
           delivery, effects
  <2>5. CASE MarkFailed(w)
    BY <1>0, <2>5 DEF IInv, TypeOK, WorkerOK, NothingDropped, MarkFailed,
           SetFailed, deployment, importjob, delivery, effects
  <2>6. CASE Cleanup(w)
    BY <1>0, <2>6 DEF IInv, TypeOK, WorkerOK, NothingDropped, Cleanup,
           deployment, importjob, delivery
  <2>7. CASE Ack(w)
    BY <1>0, <2>7 DEF IInv, TypeOK, WorkerOK, NothingDropped, Ack, deployment,
           importjob, effects, Idle
  <2>8. CASE Nack(w)
    BY <1>0, <2>8 DEF IInv, TypeOK, WorkerOK, NothingDropped, Nack, Returned,
           deployment, importjob, effects, Idle
  <2>9. CASE Crash(w)
    BY <1>0, <2>9 DEF IInv, TypeOK, WorkerOK, NothingDropped, Crash, Returned,
           deployment, importjob, effects, Idle
  <2> QED BY <1>0, <2>1, <2>2, <2>3, <2>4, <2>5, <2>6, <2>7, <2>8, <2>9 DEF
         Step
<1>7. FileOutlivesImport'
  <2>1. CASE \E j \in Jobs : Receive(w, j)
    BY <1>0, <2>1 DEF IInv, TypeOK, WorkerOK, FileOutlivesImport, Receive,
           deployment, importjob, effects
  <2>2. CASE Claim(w)
    BY <1>0, <2>2 DEF IInv, TypeOK, WorkerOK, FileOutlivesImport, Claim,
           deployment, importjob, delivery, effects
  <2>3. CASE Commit(w)
    BY <1>c, <2>3 DEF IInv, TypeOK, FileOutlivesImport, effects
  <2>4. CASE Fail(w)
    BY <1>f, <2>4 DEF IInv, TypeOK, FileOutlivesImport, effects
  <2>5. CASE MarkFailed(w)
    BY <1>0, <2>5 DEF IInv, TypeOK, WorkerOK, FileOutlivesImport, MarkFailed,
           SetFailed, deployment, importjob, delivery, effects
  <2>6. CASE Cleanup(w)
    BY <1>0, <2>6 DEF IInv, TypeOK, WorkerOK, FileOutlivesImport, Cleanup,
           deployment, importjob, delivery
  <2>7. CASE Ack(w)
    BY <1>0, <2>7 DEF IInv, TypeOK, WorkerOK, FileOutlivesImport, Ack,
           deployment, importjob, effects, Idle
  <2>8. CASE Nack(w)
    BY <1>0, <2>8 DEF IInv, TypeOK, WorkerOK, FileOutlivesImport, Nack,
           Returned, deployment, importjob, effects, Idle
  <2>9. CASE Crash(w)
    BY <1>0, <2>9 DEF IInv, TypeOK, WorkerOK, FileOutlivesImport, Crash,
           Returned, deployment, importjob, effects, Idle
  <2> QED BY <1>0, <2>1, <2>2, <2>3, <2>4, <2>5, <2>6, <2>7, <2>8, <2>9 DEF
         Step
<1> QED BY <1>1, <1>2, <1>3, <1>4, <1>5, <1>6, <1>7 DEF IInv

-----------------------------------------------------------------------------
(* The theorems *)

LEMMA Stuttering == ASSUME IInv, UNCHANGED vars PROVE IInv'
BY DEF vars, deployment, importjob, delivery, effects, IInv, TypeOK, TasksOK,
       RowsOK, WorkerOK, StatusTellsTruth, NothingDropped, FileOutlivesImport

\* The whole invariant, from any number of jobs, workers, retries and crashes,
\* and any of the faults.
THEOREM Invariance == Spec => []IInv
<1>1. Init => IInv
  BY Initially
<1>2. IInv /\ [Next]_vars => IInv'
  <2> SUFFICES ASSUME IInv, [Next]_vars PROVE IInv'
    OBVIOUS
  <2>1. CASE \E j \in Jobs : Request(j) \/ DeleteAccount(j) \/ Redeliver(j)
    BY <2>1, RequestStep
  <2>2. CASE \E w \in Workers : Step(w) \/ Crash(w)
    BY <2>2, WorkerStep
  <2>3. CASE \E w \in Workers, j \in Jobs : Receive(w, j)
    BY <2>3, WorkerStep
  <2>4. CASE UNCHANGED vars
    BY <2>4, Stuttering
  <2> QED BY <2>1, <2>2, <2>3, <2>4 DEF Next
<1> QED BY <1>1, <1>2, PTL DEF Spec

\* Types, and with them the bound on receives and tries.
THEOREM TypeCorrect == Spec => []TypeOK
<1>1. IInv => TypeOK
  BY DEF IInv
<1> QED BY <1>1, Invariance, PTL

\* "so a re-run never double-inserts" (tasks/celery_tasks.py:38), but for jobs
\* whose DONE was replaced by FAILED; and the status agrees with the rows.
THEOREM StatusTrue == Spec => []StatusTellsTruth
<1>1. IInv => StatusTellsTruth
  BY DEF IInv
<1> QED BY <1>1, Invariance, PTL

\* SQS deletes the message of an import only when its rows are in, or when the
\* account, and the job with it, is gone (lambda_handler.py handler).
THEOREM NoneDropped == Spec => []NothingDropped
<1>1. IInv => NothingDropped
  BY DEF IInv
<1> QED BY <1>1, Invariance, PTL

\* The upload is deleted after its rows are in (process_import, Cleanup).
THEOREM FilesOutlive == Spec => []FileOutlivesImport
<1>1. IInv => FileOutlivesImport
  BY DEF IInv
<1> QED BY <1>1, Invariance, PTL

-----------------------------------------------------------------------------
(* What a poll of PENDING waits for, under any of the faults. *)

LEMMA MarksRequest ==
  ASSUME IInv, MarksOK, PendingHasTask, NEW j \in Jobs,
         Request(j) \/ DeleteAccount(j) \/ Redeliver(j)
  PROVE  MarksOK' /\ PendingHasTask'
<1>1. CASE CommitPending(j)
  <2>1. /\ status[j] = "none" /\ message[j] = "none"
        /\ status' = [status EXCEPT ![j] = "PENDING"]
        /\ handler' = [handler EXCEPT ![j] = "committed"]
        /\ UNCHANGED <<message, worker, overwritten, unmarked>>
    BY <1>1 DEF IInv, TasksOK, CommitPending, delivery
  <2>2. \A w \in Workers : worker[w].pc # "idle" => worker[w].job \in Jobs \ {j}
    BY <2>1 DEF IInv, WorkerOK
  <2>3. j \notin overwritten
    BY <2>1 DEF MarksOK
  <2> QED BY <2>1, <2>2, <2>3 DEF IInv, TypeOK, MarksOK, PendingHasTask
<1>2. CASE SendTask(j) \/ SendTaskRaises(j)
  <2>1. /\ handler[j] = "committed"
        /\ \/ handler' = [handler EXCEPT ![j] = "sent"]
                /\ message' = [message EXCEPT ![j] = "queued"]
           \/ handler' = [handler EXCEPT ![j] = "unsent"]
                /\ message' \in {message, [message EXCEPT ![j] = "queued"]}
        /\ UNCHANGED <<status, worker, overwritten, unmarked>>
    BY <1>2 DEF SendTask, SendTaskRaises, importjob
  <2> QED BY <2>1 DEF IInv, TypeOK, MarksOK, PendingHasTask
\* It marks a row that has been PENDING, or worse.
<1>3. CASE MarkUnsent(j)
  <2>1. /\ handler' \in {[handler EXCEPT ![j] = "died"], [handler EXCEPT ![j] = "refused"]}
        /\ status' \in {status, [status EXCEPT ![j] = "FAILED"]}
        /\ overwritten' \subseteq overwritten \cup {j}
        /\ j \in overwritten' \ overwritten => status'[j] = "FAILED"
        /\ UNCHANGED <<message, worker, unmarked>>
    BY <1>3 DEF IInv, TypeOK, MarkUnsent, SetFailed, delivery
  <2> QED BY <2>1 DEF IInv, TypeOK, WorkerOK, MarksOK, PendingHasTask
<1>4. CASE RecordTaskId(j) \/ HandlerDies(j)
  <2>1. /\ \/ handler[j] = "sent" /\ handler' = [handler EXCEPT ![j] = "answered"]
           \/ handler' = [handler EXCEPT ![j] = "died"]
        /\ UNCHANGED <<status, message, worker, overwritten, unmarked>>
    BY <1>4 DEF RecordTaskId, HandlerDies, importjob, delivery
  <2> QED BY <2>1 DEF IInv, TypeOK, MarksOK, PendingHasTask
<1>5. CASE DeleteAccount(j)
  <2>1. /\ status' = [status EXCEPT ![j] = "gone"]
        /\ UNCHANGED <<handler, message, worker, overwritten, unmarked>>
    BY <1>5 DEF DeleteAccount, delivery
  <2> QED BY <2>1 DEF IInv, TypeOK, WorkerOK, MarksOK, PendingHasTask
<1>6. CASE Redeliver(j)
  <2>1. /\ message' = [message EXCEPT ![j] = "queued"]
        /\ UNCHANGED <<handler, status, worker, overwritten, unmarked>>
    BY <1>6 DEF Redeliver, importjob
  <2> QED BY <2>1 DEF IInv, TypeOK, MarksOK, PendingHasTask
<1> QED BY <1>1, <1>2, <1>3, <1>4, <1>5, <1>6 DEF Request

LEMMA MarksWorker ==
  ASSUME IInv, MarksOK, PendingHasTask, NEW w \in Workers,
         (\E j \in Jobs : Receive(w, j)) \/ Step(w) \/ Crash(w)
  PROVE  MarksOK' /\ PendingHasTask'
<1> DEFINE i == worker[w].job
           WorkerState ==
             [pc: {"idle", "claim", "work", "failing", "nack", "cleanup", "ack"},
              job: Jobs \cup {"none"}, transient: BOOLEAN]
<1>0. /\ worker \in [Workers -> WorkerState]
      /\ worker[w].pc # "idle" => i \in Jobs /\ message[i] # "none"
      /\ handler' = handler
  BY DEF IInv, TypeOK, WorkerOK, Step, Receive, Claim, Commit, Fail, MarkFailed, Cleanup,
     Ack, Nack, Crash
\* Rows that are in are not those of a job that says PENDING.
<1>1. \A j \in Jobs : inserted[j] >= 1 => status[j] # "PENDING"
  BY DEF IInv, TypeOK, StatusTellsTruth, MarksOK
<1>2. ASSUME NEW j \in Jobs, Receive(w, j) PROVE MarksOK' /\ PendingHasTask'
  <2>1. /\ message' = [message EXCEPT ![j] = "taken"]
        /\ worker'[w].pc = "claim" /\ \A v \in Workers \ {w} : worker'[v] = worker[v]
        /\ UNCHANGED <<status, overwritten, unmarked>>
    BY <1>0, <1>2 DEF Receive, importjob
  <2> QED BY <1>0, <2>1 DEF IInv, TypeOK, MarksOK, PendingHasTask
<1>3. CASE Claim(w) \/ Fail(w) \/ Cleanup(w)
  <2>1. /\ worker'[w].pc # "nack" /\ \A v \in Workers \ {w} : worker'[v] = worker[v]
        /\ UNCHANGED <<message, status, overwritten, unmarked>>
    <3>1. CASE Claim(w) \/ Cleanup(w)
      BY <1>0, <3>1 DEF Claim, Cleanup, importjob, delivery
    <3>2. CASE Fail(w)
      <4>1. PICK t \in BOOLEAN :
              worker' = [worker EXCEPT ![w] = [pc |-> "failing", job |-> i, transient |-> t]]
        BY <3>2 DEF Fail
      <4> QED BY <1>0, <3>2, <4>1 DEF Fail, importjob, delivery
    <3> QED BY <1>3, <3>1, <3>2
  <2> QED BY <1>0, <2>1 DEF MarksOK, PendingHasTask
<1>4. CASE Commit(w)
  <2>1. i \in Jobs /\ status' = [status EXCEPT ![i] = "DONE"]
    BY <1>0, <1>4 DEF Commit
  <2>2. /\ worker'[w].pc # "nack" /\ \A v \in Workers \ {w} : worker'[v] = worker[v]
        /\ UNCHANGED <<message, overwritten, unmarked>>
    <3>1. \/ worker' = [worker EXCEPT ![w].pc = "cleanup"]
          \/ worker' = [worker EXCEPT ![w] = [pc |-> "failing", job |-> i, transient |-> TRUE]]
      BY <1>4 DEF Commit
    <3>2. worker[w].pc = "work" /\ UNCHANGED <<message, overwritten, unmarked>>
      BY <1>4 DEF Commit, delivery
    <3> QED BY <1>0, <3>1, <3>2
  <2> QED BY <1>0, <2>1, <2>2 DEF IInv, TypeOK, MarksOK, PendingHasTask
<1>5. CASE MarkFailed(w)
  <2>1. /\ i \in Jobs /\ worker'[w].pc = "nack" /\ worker'[w].job = i
        /\ \A v \in Workers \ {w} : worker'[v] = worker[v]
        /\ message' = message
    BY <1>0, <1>5 DEF MarkFailed, delivery
  <2>2. CASE SetFailed(i) /\ UNCHANGED unmarked
    <3>1. /\ status' = [status EXCEPT ![i] = IF @ = "gone" THEN @ ELSE "FAILED"]
          /\ overwritten' \subseteq overwritten \cup {i}
      BY <2>2 DEF SetFailed
    <3>2. status'[i] \in {"gone", "FAILED"} /\ \A j \in Jobs \ {i} : status'[j] = status[j]
      BY <2>1, <3>1 DEF IInv, TypeOK
    <3>3. \A j \in overwritten' : status'[j] \in {"DONE", "FAILED", "gone"}
      BY <3>1, <3>2 DEF IInv, TypeOK, MarksOK
    <3>4. ASSUME NEW v \in Workers, worker'[v].pc = "nack"
          PROVE  status'[worker'[v].job] \notin {"none", "PENDING"} \/ worker'[v].job \in unmarked
      <4>1. CASE v = w
        BY <2>1, <3>2, <4>1
      <4>2. CASE v # w
        <5>1. worker'[v] = worker[v] /\ worker[v].job \in Jobs
          BY <2>1, <3>4, <4>2 DEF IInv, WorkerOK
        <5> QED BY <3>2, <3>4, <5>1 DEF MarksOK
      <4> QED BY <4>1, <4>2
    <3> QED BY <1>0, <2>1, <2>2, <3>2, <3>3, <3>4 DEF MarksOK, PendingHasTask
  <2>3. CASE UNCHANGED <<status, overwritten>> /\ unmarked' = unmarked \cup {i}
    BY <1>0, <2>1, <2>3 DEF MarksOK, PendingHasTask
  <2> QED BY <1>5, <2>2, <2>3 DEF MarkFailed
\* What a worker lets go without its rows it has marked, or could not mark.
<1>6. CASE Ack(w) \/ Nack(w) \/ Crash(w)
  <2>1. /\ i \in Jobs /\ worker' = [worker EXCEPT ![w] = Idle]
        /\ \A j \in Jobs \ {i} : message'[j] = message[j]
        /\ UNCHANGED <<status, overwritten>> /\ unmarked \subseteq unmarked'
    BY <1>0, <1>6 DEF IInv, TypeOK, Ack, Nack, Crash, importjob
  <2>2. status[i] # "PENDING" \/ i \in unmarked'
    <3>1. CASE Ack(w)
      BY <1>1, <2>1, <3>1 DEF IInv, WorkerOK, Ack
    <3>2. CASE Nack(w)
      BY <2>1, <3>2 DEF MarksOK, Nack
    <3>3. CASE Crash(w)
      <4>1. CASE worker[w].pc \in {"claim", "work", "failing"}
        BY <3>3, <4>1 DEF Crash
      <4>2. CASE worker[w].pc = "nack"
        BY <2>1, <4>2 DEF MarksOK
      <4>3. CASE worker[w].pc \in {"cleanup", "ack"}
        BY <1>1, <2>1, <4>3 DEF IInv, WorkerOK
      <4> QED BY <1>0, <3>3, <4>1, <4>2, <4>3 DEF Crash
    <3> QED BY <1>6, <3>1, <3>2, <3>3
  <2>3. \A v \in Workers : worker'[v].pc = "nack" => worker'[v] = worker[v]
    BY <1>0, <2>1 DEF Idle
  <2> QED BY <1>0, <2>1, <2>2, <2>3 DEF MarksOK, PendingHasTask
<1> QED BY <1>2, <1>3, <1>4, <1>5, <1>6 DEF Step

\* The frontend polls no job "that no worker will ever pick up" (services/imports.py:
\* 290, which says it of a failed send): however requests, deliveries, crashes and
\* deletions interleave, the task of a job that was sent and says PENDING is with the
\* broker or a worker. What remains are the jobs of which an attempt was killed, or
\* could not write its FAILED (_mark_import_job, import_csv.py:71).
THEOREM PendingIsWorkedOn == Spec => []PendingHasTask
<1>1. Init => MarksOK /\ PendingHasTask
  BY DEF Init, MarksOK, PendingHasTask, Idle
<1>2. IInv /\ MarksOK /\ PendingHasTask /\ [Next]_vars => MarksOK' /\ PendingHasTask'
  <2>1. IInv /\ MarksOK /\ PendingHasTask /\ UNCHANGED vars => MarksOK' /\ PendingHasTask'
    BY DEF vars, importjob, delivery, MarksOK, PendingHasTask
  <2> QED BY <2>1, MarksRequest, MarksWorker DEF Next
<1> QED BY <1>1, <1>2, Invariance, PTL DEF Spec

-----------------------------------------------------------------------------
(* Without lost answers: a send that raised has left no task. *)

LEMMA RefusedStep ==
  ASSUME "lost answer" \notin Faults, IInv, RefusedOK, [Next]_vars
  PROVE  RefusedOK'
<1>1. ASSUME NEW j \in Jobs, Request(j) \/ DeleteAccount(j) \/ Redeliver(j)
      PROVE  RefusedOK'
  <2>1. CASE CommitPending(j) \/ SendTask(j)
    BY <2>1 DEF IInv, TypeOK, CommitPending, SendTask, RefusedOK, delivery,
           effects
  <2>2. CASE SendTaskRaises(j)
    <3>1. /\ handler[j] = "committed" /\ message' = message
          /\ handler' = [handler EXCEPT ![j] = "unsent"]
          /\ inserted' = inserted
      BY <2>2 DEF SendTaskRaises, effects
    <3>2. message[j] = "none"
      BY <3>1 DEF IInv, TasksOK, RefusedOK
    <3> QED BY <3>1, <3>2 DEF IInv, TypeOK, RefusedOK
  <2>3. CASE MarkUnsent(j) \/ RecordTaskId(j) \/ HandlerDies(j)
    BY <2>3 DEF IInv, TypeOK, MarkUnsent, RecordTaskId, HandlerDies,
           RefusedOK, delivery, effects
  <2>4. CASE DeleteAccount(j) \/ Redeliver(j)
    BY <2>4 DEF IInv, TypeOK, DeleteAccount, Redeliver, RefusedOK, delivery,
           effects
  <2> QED BY <1>1, <2>1, <2>2, <2>3, <2>4 DEF Request
\* A worker works on a task the broker had.
<1>2. ASSUME NEW w \in Workers,
             (\E j \in Jobs : Receive(w, j)) \/ Step(w) \/ Crash(w)
      PROVE  RefusedOK'
  <2>1. worker[w].pc # "idle" =>
          worker[w].job \in Jobs /\ message[worker[w].job] # "none"
    BY DEF IInv, WorkerOK
  <2>2. /\ handler' = handler
        /\ \A k \in Jobs : message'[k] = "none" <=> message[k] = "none"
        /\ \A k \in Jobs : message[k] = "none" => inserted'[k] = inserted[k]
    <3>1. CASE \E j \in Jobs : Receive(w, j)
      BY <3>1 DEF IInv, TypeOK, Receive, effects
    <3>2. CASE Claim(w) \/ Fail(w) \/ MarkFailed(w) \/ Cleanup(w)
      BY <3>2 DEF Claim, Fail, MarkFailed, Cleanup, delivery, effects
    <3>3. CASE Commit(w)
      BY <2>1, <3>3 DEF IInv, TypeOK, Commit, delivery
    <3>4. CASE Ack(w)
      BY <2>1, <3>4 DEF IInv, TypeOK, Ack, effects
    <3>5. CASE Nack(w)
      BY <2>1, <3>5 DEF IInv, TypeOK, Nack, Returned, effects
    <3>6. CASE Crash(w)
      BY <2>1, <3>6 DEF IInv, TypeOK, Crash, Returned, effects
    <3> QED BY <1>2, <3>1, <3>2, <3>3, <3>4, <3>5, <3>6 DEF Step
  <2> QED BY <2>2 DEF RefusedOK
<1>3. CASE UNCHANGED vars
  BY <1>3 DEF vars, RefusedOK, delivery, effects
<1> QED BY <1>1, <1>2, <1>3 DEF Next

-----------------------------------------------------------------------------
(* Overlapping deliveries and crashes alone: at most once, and for good. *)

LEMMA OnceStep ==
  ASSUME Faults \subseteq {"overlap"}, IInv, RefusedOK, OnceOK, [Next]_vars
  PROVE  /\ OnceOK'
         /\ \A j \in Jobs : status[j] = "DONE" => status'[j] \in {"DONE", "gone"}
<1> DEFINE Final ==
      \A j \in Jobs : status[j] = "DONE" => status'[j] \in {"DONE", "gone"}
<1>1. ASSUME NEW j \in Jobs, Request(j) \/ DeleteAccount(j) \/ Redeliver(j)
      PROVE  OnceOK' /\ Final
  <2>1. UNCHANGED <<poison, worker, inserted>>
    BY <1>1 DEF Request, CommitPending, SendTask, SendTaskRaises, MarkUnsent,
           RecordTaskId, HandlerDies, DeleteAccount, Redeliver, deployment,
           effects
\* A refused request marks a row whose job is not done.
  <2>2. overwritten' = overwritten /\ Final
    <3>1. CASE CommitPending(j)
      BY <3>1 DEF IInv, TypeOK, TasksOK, CommitPending
    <3>2. CASE MarkUnsent(j)
      <4>1. status[j] # "DONE"
        BY <3>2 DEF IInv, TypeOK, RowsOK, RefusedOK, MarkUnsent
      <4> QED BY <3>2, <4>1 DEF IInv, TypeOK, MarkUnsent, SetFailed
    <3>3. CASE DeleteAccount(j)
      BY <3>3 DEF IInv, TypeOK, DeleteAccount
    <3>4. CASE UNCHANGED importjob
      BY <3>4 DEF importjob
    <3> QED BY <1>1, <3>1, <3>2, <3>3, <3>4 DEF Request, SendTask,
               SendTaskRaises, RecordTaskId, HandlerDies, Redeliver
  <2> QED BY <2>1, <2>2 DEF OnceOK
<1>2. ASSUME NEW w \in Workers,
             (\E j \in Jobs : Receive(w, j)) \/ Step(w) \/ Crash(w)
      PROVE  OnceOK' /\ Final
  <2> DEFINE i == worker[w].job
  <2>1. worker[w].pc # "idle" => i \in Jobs
    BY DEF IInv, WorkerOK
  <2>2. poison' = poison
    BY <1>2 DEF Step, Receive, Claim, Commit, Fail, MarkFailed, Cleanup, Ack,
           Nack, Crash, deployment
\* Only the rows of a well-formed file are ever inserted.
  <2>3. CASE Commit(w)
    <3>1. /\ worker' = [worker EXCEPT ![w].pc = "cleanup"]
          /\ inserted' = [inserted EXCEPT ![i] = @ + 1] /\ i \notin poison
          /\ status' = [status EXCEPT ![i] = "DONE"]
          /\ overwritten' = overwritten
      BY <2>3 DEF Commit
    <3> QED BY <2>2, <3>1 DEF IInv, TypeOK, OnceOK
\* Only the malformed make an attempt fail.
  <2>4. CASE Fail(w)
    <3>1. PICK transient \in BOOLEAN :
            worker' = [worker EXCEPT ![w] = [pc |-> "failing", job |-> i,
                                             transient |-> transient]]
      BY <2>4 DEF Fail
    <3>2. i \in poison
      BY <2>4 DEF Fail
    <3>3. UNCHANGED <<importjob, effects>>
      BY <2>4 DEF Fail
    <3> QED BY <2>2, <3>1, <3>2, <3>3
            DEF IInv, TypeOK, OnceOK, importjob, effects
\* Their jobs are not done when they are marked.
  <2>5. CASE MarkFailed(w)
    <3>1. i \in Jobs /\ i \in poison /\ status[i] # "DONE"
      BY <2>1, <2>5 DEF IInv, TypeOK, RowsOK, OnceOK, MarkFailed
    <3>2. overwritten' = overwritten /\ Final
      BY <2>5, <3>1 DEF IInv, TypeOK, MarkFailed, SetFailed, importjob
    <3>3. worker' = [worker EXCEPT ![w].pc = "nack"] /\ inserted' = inserted
      BY <2>5 DEF MarkFailed, effects
    <3> QED BY <2>2, <3>2, <3>3 DEF IInv, TypeOK, OnceOK
  <2>6. CASE ~ (Commit(w) \/ Fail(w) \/ MarkFailed(w))
    <3>1. UNCHANGED <<status, overwritten, inserted>>
      BY <1>2, <2>6 DEF Step, Receive, Claim, Cleanup, Ack, Nack, Crash,
             importjob, effects
    <3>2. \A v \in Workers : worker'[v].pc = "failing" => worker'[v] = worker[v]
      <4>1. CASE \E j \in Jobs : Receive(w, j)
        BY <4>1 DEF IInv, TypeOK, Receive
      <4>2. CASE Claim(w) \/ Cleanup(w)
        BY <4>2 DEF IInv, TypeOK, Claim, Cleanup
      <4>3. CASE Ack(w) \/ Nack(w) \/ Crash(w)
        BY <4>3 DEF IInv, TypeOK, Ack, Nack, Crash, Idle
      <4> QED BY <1>2, <2>6, <4>1, <4>2, <4>3 DEF Step
    <3> QED BY <2>2, <3>1, <3>2 DEF OnceOK
  <2> QED BY <2>3, <2>4, <2>5, <2>6
<1>3. CASE UNCHANGED vars
  BY <1>3 DEF vars, deployment, importjob, effects, OnceOK
<1> QED BY <1>1, <1>2, <1>3 DEF Next

LEMMA OnceInvariance ==
  ASSUME Faults \subseteq {"overlap"}
  PROVE  Spec => [](IInv /\ RefusedOK /\ OnceOK)
<1>1. Init => RefusedOK /\ OnceOK
  BY DEF Init, RefusedOK, OnceOK, Idle
<1>2. IInv /\ RefusedOK /\ OnceOK /\ [Next]_vars => RefusedOK' /\ OnceOK'
  BY RefusedStep, OnceStep
<1> QED BY <1>1, <1>2, Invariance, PTL DEF Spec

\* "so a re-run never double-inserts" (tasks/celery_tasks.py:38): however often
\* the broker delivers a task, also while a worker is at it, and wherever the
\* workers crash, its rows are committed at most once. Errors of the database
\* and lost answers are excluded, with which the code breaks the sentence.
THEOREM Once ==
  ASSUME Faults \subseteq {"overlap"} PROVE Spec => []AtMostOnce
<1>1. IInv /\ OnceOK => AtMostOnce
  <2> SUFFICES ASSUME IInv, OnceOK, NEW j \in Jobs PROVE inserted[j] <= 1
    BY DEF AtMostOnce
  <2>1. j \in Jobs \ overwritten
    BY DEF OnceOK
  <2>2. CASE status[j] = "gone"
    BY <2>1, <2>2 DEF IInv, StatusTellsTruth
  <2>3. CASE status[j] # "gone"
    <3>1. inserted[j] = 1 \/ inserted[j] = 0
      BY <2>1, <2>3 DEF IInv, StatusTellsTruth
    <3> QED BY <3>1
  <2> QED BY <2>2, <2>3
<1> QED BY <1>1, OnceInvariance, PTL

\* Under the same faults no step of a request or of a worker takes a DONE back;
\* only the account's deletion removes it (mark_import_job_failed,
\* _mark_import_job, which do not look at the status they replace).
THEOREM DoneStays ==
  ASSUME Faults \subseteq {"overlap"} PROVE Spec => DoneIsFinal
<1>1. IInv /\ RefusedOK /\ OnceOK /\ [Next]_vars =>
        [\A j \in Jobs : status[j] = "DONE" => status'[j] \in {"DONE", "gone"}]_vars
  BY OnceStep
<1> QED BY <1>1, OnceInvariance, PTL DEF Spec, DoneIsFinal

-----------------------------------------------------------------------------
(* Where a task is, under any of the faults. *)

\* A worker lets go of a task only by settling it or showing it again.
LEMMA HandsStep ==
  ASSUME IInv, IInv', NoneForgotten, [Next]_vars PROVE NoneForgotten'
<1> DEFINE Has(w, j) == worker[w].pc # "idle" /\ worker[w].job = j
           Held(j) == \E w \in Workers : Has(w, j)
<1>1. /\ message \in [Jobs -> {"none", "queued", "taken", "settled", "dead"}]
      /\ worker \in [Workers ->
           [pc: {"idle", "claim", "work", "failing", "nack", "cleanup", "ack"},
            job: Jobs \cup {"none"}, transient: BOOLEAN]]
  BY DEF IInv, TypeOK
<1>2. \A j \in Jobs : message[j] = "taken" => Held(j)
  BY DEF NoneForgotten
<1>3. \A j \in Jobs : (message[j] = "queued" => attempts[j] < MaxAttempts)'
  BY DEF IInv, TasksOK
<1> SUFFICES ASSUME NEW j \in Jobs, message'[j] = "taken" PROVE Held(j)'
  BY <1>3 DEF NoneForgotten
<1>4. ASSUME worker' = worker, message'[j] = "taken" => message[j] = "taken"
      PROVE  Held(j)'
  BY <1>2, <1>4
<1>5. ASSUME NEW i \in Jobs, Request(i) \/ DeleteAccount(i) \/ Redeliver(i)
      PROVE  Held(j)'
  <2>1. /\ worker' = worker
        /\ message' = message \/ message' = [message EXCEPT ![i] = "queued"]
    BY <1>5 DEF Request, CommitPending, SendTask, SendTaskRaises, MarkUnsent,
           RecordTaskId, HandlerDies, DeleteAccount, Redeliver, delivery
  <2> QED BY <1>1, <1>4, <2>1
<1>6. ASSUME NEW w \in Workers, NEW i \in Jobs, Receive(w, i) PROVE Held(j)'
  <2>1. /\ worker[w].pc = "idle"
        /\ message' = [message EXCEPT ![i] = "taken"]
        /\ worker'[w] = [pc |-> "claim", job |-> i, transient |-> FALSE]
        /\ \A v \in Workers \ {w} : worker'[v] = worker[v]
    BY <1>1, <1>6 DEF Receive
  <2>2. CASE j = i
    BY <2>1, <2>2
  <2>3. CASE j # i
    BY <1>1, <1>2, <2>1, <2>3
  <2> QED BY <2>2, <2>3
\* At its own steps a worker keeps its task in hand.
<1>7. ASSUME NEW w \in Workers,
             Claim(w) \/ Commit(w) \/ Fail(w) \/ MarkFailed(w) \/ Cleanup(w)
      PROVE  Held(j)'
  <2>1. message' = message
    BY <1>7 DEF Claim, Commit, Fail, MarkFailed, Cleanup, delivery
  <2>2. \A v \in Workers \ {w} : worker'[v] = worker[v]
    BY <1>1, <1>7 DEF Claim, Commit, Fail, MarkFailed, Cleanup
  <2>3. worker'[w].pc # "idle" /\ worker'[w].job = worker[w].job
    <3>1. CASE Claim(w) \/ MarkFailed(w) \/ Cleanup(w)
      BY <1>1, <3>1 DEF Claim, MarkFailed, Cleanup
    <3>2. CASE Commit(w)
      <4>1. \/ worker' = [worker EXCEPT ![w].pc = "cleanup"]
            \/ worker' = [worker EXCEPT ![w] = [pc |-> "failing", job |-> worker[w].job,
                                                transient |-> TRUE]]
        BY <3>2 DEF Commit
      <4> QED BY <1>1, <4>1
    <3>3. CASE Fail(w)
      <4>1. PICK t \in BOOLEAN :
              worker' = [worker EXCEPT ![w] = [pc |-> "failing", job |-> worker[w].job,
                                               transient |-> t]]
        BY <3>3 DEF Fail
      <4> QED BY <1>1, <4>1
    <3> QED BY <1>7, <3>1, <3>2, <3>3
  <2>4. \A v \in Workers : Has(v, j) => Has(v, j)'
    BY <2>2, <2>3
  <2> QED BY <1>2, <2>1, <2>4
<1>8. ASSUME NEW w \in Workers, Ack(w) \/ Nack(w) \/ Crash(w) PROVE Held(j)'
  <2>1. \A v \in Workers \ {w} : worker'[v] = worker[v]
    BY <1>1, <1>8 DEF Ack, Nack, Crash
  <2>2. worker[w].job \in Jobs
    BY <1>8 DEF IInv, WorkerOK, Ack, Nack, Crash
  <2>3. message'[worker[w].job] # "taken"
    BY <1>1, <1>8, <2>2 DEF Ack, Nack, Crash, Returned
  <2>4. \A i \in Jobs : i # worker[w].job => message'[i] = message[i]
    BY <1>1, <1>8 DEF Ack, Nack, Crash
  <2>5. j # worker[w].job /\ message[j] = "taken"
    BY <2>3, <2>4
  <2> QED BY <1>2, <2>1, <2>5
<1>9. CASE UNCHANGED vars
  BY <1>4, <1>9 DEF vars, delivery
<1> QED BY <1>5, <1>6, <1>7, <1>8, <1>9 DEF Next, Step

\* Whatever is redelivered, crashes or fails, a task that the broker does not
\* show is with a worker, and one that it shows has a try left (lambda_handler,
\* celery_tasks with acks_late): the safety half of EveryMessageSettles.
THEOREM NoTaskForgotten == Spec => []NoneForgotten
<1>1. Init => NoneForgotten
  BY DEF Init, NoneForgotten
<1>2. IInv /\ IInv' /\ NoneForgotten /\ [Next]_vars => NoneForgotten'
  BY HandsStep
<1> QED BY <1>1, <1>2, Invariance, PTL DEF Spec

=============================================================================
