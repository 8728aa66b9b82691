----------------------------- MODULE ImportJobs -----------------------------
(***************************************************************************)
(* A CSV import on its way from POST /imports/execute through the broker   *)
(* to process_import, and the importjob row that tells the user about it.  *)
(*                                                                         *)
(* The broker delivers at least once.  On AWS an SQS message that was not  *)
(* deleted becomes visible again and, after MaxAttempts receives, goes to  *)
(* the dead-letter queue; self-hosted, Celery re-sends a task that failed  *)
(* with a transient error up to MaxAttempts - 1 times and drops it on any  *)
(* other error.  The worker claims the row, inserts and flips the row to   *)
(* DONE in one database transaction; the row lock of the claim serializes  *)
(* two deliveries.  What it does to the balance is in module Ledger.       *)
(***************************************************************************)
EXTENDS Integers

CONSTANTS
  Jobs, Workers,
  MaxAttempts,  \* SQS maxReceiveCount; Celery's max_retries + 1
  MaxCrashes,   \* bound: worker processes lost in a behaviour
  Faults        \* which of these can happen, see Redeliver, Fail, Commit

ASSUME NoneAssumption == "none" \notin Jobs
ASSUME BoundsAssumption == MaxAttempts \in Nat \ {0} /\ MaxCrashes \in Nat
ASSUME FaultsAssumption ==
  Faults \subseteq {"overlap", "database error", "lost answer"}

VARIABLES
  broker,    \* "sqs" or "redis": how this system is deployed
  poison,    \* jobs whose rows always raise (a malformed row)
  status,    \* importjob.status as committed: what a poll shows
  handler,   \* execute_import, one request per job
  message,   \* the task in the broker
  attempts,  \* its receives (SQS), its tries (Celery)
  worker,    \* [pc, job, transient] of each worker process
  inserted,  \* how often the rows of the job have been committed
  file,      \* is the uploaded CSV still in storage?
  crashes,
  overwritten, \* history: jobs whose DONE a FAILED has replaced
  unmarked     \* history: jobs of which an attempt ended and left no mark

deployment == <<broker, poison>>
importjob == <<status, overwritten, unmarked>>
effects == <<inserted, file>>
delivery == <<message, attempts>>
vars == <<deployment, importjob, handler, delivery, worker, effects, crashes>>

Statuses == {"none", "PENDING", "STARTED", "DONE", "FAILED", "gone"}
Idle == [pc |-> "idle", job |-> "none", transient |-> FALSE]

TypeOK ==
  /\ broker \in {"sqs", "redis"}
  /\ poison \subseteq Jobs
  /\ overwritten \subseteq Jobs /\ unmarked \subseteq Jobs
  /\ status \in [Jobs -> Statuses]
  /\ handler \in [Jobs -> {"idle", "committed", "sent", "unsent", "answered",
                           "refused", "died"}]
  /\ message \in [Jobs -> {"none", "queued", "taken", "settled", "dead"}]
  /\ attempts \in [Jobs -> 0..MaxAttempts]
  /\ worker \in [Workers ->
       [pc: {"idle", "claim", "work", "failing", "nack", "cleanup", "ack"},
        job: Jobs \cup {"none"}, transient: BOOLEAN]]
  /\ inserted \in [Jobs -> Nat]
  /\ file \in [Jobs -> BOOLEAN]
  /\ crashes \in 0..MaxCrashes

Init ==
  /\ broker \in {"sqs", "redis"}
  /\ poison \in SUBSET Jobs
  /\ overwritten = {} /\ unmarked = {}
  /\ status = [j \in Jobs |-> "none"]
  /\ handler = [j \in Jobs |-> "idle"]
  /\ message = [j \in Jobs |-> "none"]
  /\ attempts = [j \in Jobs |-> 0]
  /\ worker = [w \in Workers |-> Idle]
  /\ inserted = [j \in Jobs |-> 0]
  /\ file = [j \in Jobs |-> TRUE]
  /\ crashes = 0

\* Mutant: the claim is committed on its own, so nothing stays locked.
Unlocked(j) == FALSE /\ j \in Jobs

\* A worker's open transaction holds the lock of the job's row.
Locked(j) == \E w \in Workers : worker[w].pc = "work" /\ worker[w].job = j

\* UPDATE importjob SET status = 'FAILED' WHERE id = j, whatever it says by now.
SetFailed(j) ==
  /\ status' = [status EXCEPT ![j] = IF @ = "gone" THEN @ ELSE "FAILED"]
  /\ overwritten' = IF status[j] = "DONE" THEN overwritten \cup {j}
                    ELSE overwritten

-----------------------------------------------------------------------------
(* POST /imports/execute *)

\* The history row is committed before anything is sent.
CommitPending(j) ==
  /\ handler[j] = "idle"
  /\ status' = [status EXCEPT ![j] = "PENDING"]
  /\ handler' = [handler EXCEPT ![j] = "committed"]
  /\ UNCHANGED <<deployment, delivery, worker, effects, crashes, overwritten,
                 unmarked>>

SendTask(j) ==
  /\ handler[j] = "committed"
  /\ handler' = [handler EXCEPT ![j] = "sent"]
  /\ message' = [message EXCEPT ![j] = "queued"]
  /\ UNCHANGED <<deployment, importjob, attempts, worker, effects, crashes>>

\* send_task raises; with a lost answer the broker has the task nevertheless.
SendTaskRaises(j) ==
  /\ handler[j] = "committed"
  /\ handler' = [handler EXCEPT ![j] = "unsent"]
  /\ message' \in {message} \cup IF "lost answer" \in Faults
                                 THEN {[message EXCEPT ![j] = "queued"]} ELSE {}
  /\ UNCHANGED <<deployment, importjob, attempts, worker, effects, crashes>>

\* mark_import_job_failed; without a row the request ends in an error.
MarkUnsent(j) ==
  /\ handler[j] = "unsent"
  /\ ~ Locked(j)
  /\ SetFailed(j)
  /\ handler' = [handler EXCEPT ![j] =
                   IF status[j] = "gone" THEN "died" ELSE "refused"]
  /\ UNCHANGED <<deployment, delivery, worker, effects, crashes, unmarked>>

\* Mutant: the request writes back every column as it read them.
RecordWholeRow(j) ==
  /\ handler[j] = "sent"
  /\ ~ Locked(j)
  /\ handler' = [handler EXCEPT ![j] = "answered"]
  /\ status' = [status EXCEPT ![j] = IF @ = "gone" THEN @ ELSE "PENDING"]
  /\ UNCHANGED <<deployment, delivery, worker, effects, crashes, overwritten,
                 unmarked>>

\* The celery_task_id by which the client polls is committed after the send.
RecordTaskId(j) ==
  /\ handler[j] = "sent"
  /\ ~ Locked(j)
  /\ handler' = [handler EXCEPT ![j] =
                   IF status[j] = "gone" THEN "died" ELSE "answered"]
  /\ UNCHANGED <<deployment, importjob, delivery, worker, effects, crashes>>

\* The API process is lost between two of its steps.
HandlerDies(j) ==
  /\ handler[j] \in {"committed", "sent", "unsent"}
  /\ handler' = [handler EXCEPT ![j] = "died"]
  /\ UNCHANGED <<deployment, importjob, delivery, worker, effects, crashes>>

\* Deleting the account cascades to the job's row.
DeleteAccount(j) ==
  /\ status[j] \in {"PENDING", "DONE", "FAILED"}
  /\ ~ Locked(j)
  /\ status' = [status EXCEPT ![j] = "gone"]
  /\ UNCHANGED <<deployment, handler, delivery, worker, effects, crashes,
                 overwritten, unmarked>>

-----------------------------------------------------------------------------
(* The broker *)

Receive(w, j) ==
  /\ worker[w].pc = "idle"
  /\ message[j] = "queued"
  /\ message' = [message EXCEPT ![j] = "taken"]
  /\ attempts' = [attempts EXCEPT ![j] = @ + 1]
  /\ worker' = [worker EXCEPT ![w] =
                  [pc |-> "claim", job |-> j, transient |-> FALSE]]
  /\ UNCHANGED <<deployment, importjob, handler, effects, crashes>>

\* The visibility timeout passes, or the broker delivers twice, while the
\* first delivery is still being worked on.
Redeliver(j) ==
  /\ "overlap" \in Faults
  /\ message[j] = "taken"
  /\ attempts[j] < MaxAttempts
  /\ message' = [message EXCEPT ![j] = "queued"]
  /\ UNCHANGED <<deployment, importjob, handler, attempts, worker, effects,
                 crashes>>

\* Mutant: no limit to the receives.
ReturnedAlways(j) == IF j \in Jobs THEN "queued" ELSE "dead"

\* Where a message goes that has not been acknowledged after its last try.
Returned(j) == IF attempts[j] < MaxAttempts THEN "queued" ELSE "dead"

\* process_import has returned: the invocation succeeds, the task is acked.
\* A second copy that is already visible again may stay.
Ack(w) ==
  /\ worker[w].pc = "ack"
  /\ message' \in {[message EXCEPT ![worker[w].job] =
                       IF @ = "dead" THEN @ ELSE "settled"]}
                  \cup IF message[worker[w].job] = "queued" THEN {message}
                       ELSE {}
  /\ worker' = [worker EXCEPT ![w] = Idle]
  /\ UNCHANGED <<deployment, importjob, handler, attempts, effects, crashes>>

\* Mutant: the Lambda handler swallows the exception.
NackSwallowed(w) ==
  /\ worker[w].pc = "nack"
  /\ message' = [message EXCEPT ![worker[w].job] =
                   IF @ = "taken" THEN "settled" ELSE @]
  /\ worker' = [worker EXCEPT ![w] = Idle]
  /\ UNCHANGED <<deployment, importjob, handler, attempts, effects, crashes>>

\* Mutant: after its last try a task is neither acked nor given back.
NackForgotten(w) ==
  LET j == worker[w].job IN
  /\ worker[w].pc = "nack"
  /\ message' = [message EXCEPT ![j] =
       IF @ = "taken" /\ attempts[j] < MaxAttempts THEN "queued" ELSE @]
  /\ worker' = [worker EXCEPT ![w] = Idle]
  /\ UNCHANGED <<deployment, importjob, handler, attempts, effects, crashes>>

\* process_import has raised.  SQS shows the message again whatever the error;
\* Celery acks it and re-sends it only for a transient error.
Nack(w) ==
  LET j == worker[w].job IN
  /\ worker[w].pc = "nack"
  /\ message' = [message EXCEPT ![j] =
       IF @ # "taken" THEN @
       ELSE IF broker = "sqs" THEN Returned(j)
       ELSE IF worker[w].transient /\ attempts[j] < MaxAttempts THEN "queued"
       ELSE "settled"]
  /\ worker' = [worker EXCEPT ![w] = Idle]
  /\ UNCHANGED <<deployment, importjob, handler, attempts, effects, crashes>>

\* The process is killed or times out: the database rolls back.  Acks are
\* late, so the message comes back; Celery does not count this as a try. Nothing
\* is written to the row.
Crash(w) ==
  LET j == worker[w].job IN
  /\ worker[w].pc # "idle"
  /\ crashes < MaxCrashes
  /\ crashes' = crashes + 1
  /\ attempts' = [attempts EXCEPT ![j] =
       IF broker = "redis" /\ message[j] = "taken" THEN @ - 1 ELSE @]
  /\ message' = [message EXCEPT ![j] =
       IF @ # "taken" THEN @
       ELSE IF broker = "sqs" THEN Returned(j) ELSE "queued"]
  /\ worker' = [worker EXCEPT ![w] = Idle]
  /\ unmarked' = IF worker[w].pc \in {"claim", "work", "failing"}
                 THEN unmarked \cup {j} ELSE unmarked
  /\ UNCHANGED <<deployment, status, overwritten, handler, effects>>

-----------------------------------------------------------------------------
(* process_import *)

\* Mutant: the claim without its status != 'DONE'.
ClaimAnyway(w) ==
  LET j == worker[w].job IN
  /\ worker[w].pc = "claim"
  /\ ~ Locked(j)
  /\ worker' = [worker EXCEPT ![w].pc =
                  IF status[j] = "gone" THEN "ack" ELSE "work"]
  /\ UNCHANGED <<deployment, importjob, handler, delivery, effects, crashes>>

\* UPDATE ... SET status = 'STARTED' WHERE status != 'DONE', not yet visible
\* to anyone else; no row matches a job that is done or gone.
Claim(w) ==
  LET j == worker[w].job IN
  /\ worker[w].pc = "claim"
  /\ ~ Locked(j)
  /\ worker' = [worker EXCEPT ![w].pc =
                  IF status[j] \in {"DONE", "gone"} THEN "ack" ELSE "work"]
  /\ UNCHANGED <<deployment, importjob, handler, delivery, effects, crashes>>

\* Rows, balance and DONE in one commit.  With a lost answer the commit has
\* happened and the worker sees an error.
Commit(w) ==
  LET j == worker[w].job IN
  /\ worker[w].pc = "work"
  /\ j \notin poison
  /\ inserted' = [inserted EXCEPT ![j] = @ + 1]
  /\ status' = [status EXCEPT ![j] = "DONE"]
  /\ \/ worker' = [worker EXCEPT ![w].pc = "cleanup"]
     \/ /\ "lost answer" \in Faults
        /\ worker' = [worker EXCEPT ![w] =
                        [pc |-> "failing", job |-> j, transient |-> TRUE]]
  /\ UNCHANGED <<deployment, handler, delivery, file, crashes, overwritten,
                 unmarked>>

\* Mutant: the claim stands before the try, so its error is not recorded.
FailOutsideTry(w) ==
  LET j == worker[w].job IN
  /\ worker[w].pc \in {"claim", "work"}
  /\ \E transient \in BOOLEAN :
       /\ IF transient THEN "database error" \in Faults
          ELSE j \in poison /\ worker[w].pc = "work"
       /\ worker' = [worker EXCEPT ![w] =
            [pc |-> IF worker[w].pc = "claim" THEN "nack" ELSE "failing",
             job |-> j, transient |-> transient]]
  /\ UNCHANGED <<deployment, importjob, handler, delivery, effects, crashes>>

\* The database fails, or a row is malformed; nothing of the attempt remains.
Fail(w) ==
  LET j == worker[w].job IN
  /\ worker[w].pc \in {"claim", "work"}
  /\ \E transient \in BOOLEAN :
       /\ IF transient THEN "database error" \in Faults
          ELSE j \in poison /\ worker[w].pc = "work"
       /\ worker' = [worker EXCEPT ![w] =
                       [pc |-> "failing", job |-> j, transient |-> transient]]
  /\ UNCHANGED <<deployment, importjob, handler, delivery, effects, crashes>>

\* Mutant: the upload is cleaned up after a failure as well.
MarkFailedAndClean(w) ==
  LET j == worker[w].job IN
  /\ worker[w].pc = "failing"
  /\ UNCHANGED importjob
  /\ file' = [file EXCEPT ![j] = FALSE]
  /\ worker' = [worker EXCEPT ![w].pc = "nack"]
  /\ UNCHANGED <<deployment, handler, delivery, inserted, crashes>>

\* _mark_import_job in a transaction of its own, by id; best effort: an error of
\* its own is logged, and the row stays as it was.
MarkFailed(w) ==
  LET j == worker[w].job IN
  /\ worker[w].pc = "failing"
  /\ \/ /\ ~ Locked(j)
        /\ SetFailed(j)
        /\ UNCHANGED unmarked
     \/ /\ UNCHANGED <<status, overwritten>>
        /\ unmarked' = unmarked \cup {j}
  /\ worker' = [worker EXCEPT ![w].pc = "nack"]
  /\ UNCHANGED <<deployment, handler, delivery, effects, crashes>>

\* The uploaded CSV is deleted after a success, best effort.
Cleanup(w) ==
  LET j == worker[w].job IN
  /\ worker[w].pc = "cleanup"
  /\ file' \in {file, [file EXCEPT ![j] = FALSE]}
  /\ worker' = [worker EXCEPT ![w].pc = "ack"]
  /\ UNCHANGED <<deployment, importjob, handler, delivery, inserted, crashes>>

-----------------------------------------------------------------------------

Request(j) == \/ CommitPending(j) \/ SendTask(j) \/ SendTaskRaises(j)
              \/ MarkUnsent(j) \/ RecordTaskId(j) \/ HandlerDies(j)

Step(w) == \/ Claim(w) \/ Commit(w) \/ Fail(w) \/ MarkFailed(w) \/ Cleanup(w)
           \/ Ack(w) \/ Nack(w)

Next ==
  \/ \E j \in Jobs : Request(j) \/ DeleteAccount(j) \/ Redeliver(j)
  \/ \E w \in Workers : Step(w) \/ Crash(w)
  \/ \E w \in Workers, j \in Jobs : Receive(w, j)

\* A worker that has a message goes on until it is idle, and a message that
\* stays visible is received.  No request is promised to go on.
Fairness ==
  /\ \A w \in Workers : WF_vars(Step(w))
  /\ \A j \in Jobs : SF_vars(\E w \in Workers : Receive(w, j))

Spec == Init /\ [][Next]_vars /\ Fairness

-----------------------------------------------------------------------------
(* Properties *)

\* "so a re-run never double-inserts" (tasks/celery_tasks.py:38): the rows of
\* a job are committed at most once.
AtMostOnce == \A j \in Jobs : inserted[j] <= 1

\* Unless a FAILED has replaced its DONE, a job's rows are in, once, exactly
\* when its status says so: DONE is committed with the rows, and PENDING or
\* FAILED mean that a retry counts nothing twice (process_import's docstring).
StatusTellsTruth ==
  \A j \in Jobs \ overwritten :
    IF status[j] = "gone" THEN inserted[j] <= 1
    ELSE inserted[j] = IF status[j] = "DONE" THEN 1 ELSE 0

\* No bookkeeping of a late or failed attempt takes a DONE back.
DoneIsFinal ==
  [][\A j \in Jobs : status[j] = "DONE" => status'[j] \in {"DONE", "gone"}]_vars

\* The frontend does not "poll a job that no worker will ever pick up" (services/
\* imports.py:290): the task of a job that says PENDING after its send is with the
\* broker or a worker, unless an attempt has ended and could leave no mark.
PendingHasTask ==
  \A j \in Jobs \ unmarked :
    handler[j] \in {"sent", "answered"} /\ status[j] = "PENDING"
      => message[j] \in {"queued", "taken"}

\* SQS forgets a message only when its rows are in or its job was deleted; a
\* failed attempt ends in a retry or in the dead-letter queue
\* (lambda_handler.py: exceptions are not caught so that SQS retries).
NothingDropped ==
  \A j \in Jobs : broker = "sqs" /\ message[j] = "settled"
                    => inserted[j] >= 1 \/ status[j] = "gone"

\* The CSV, of which the payload is a copy, is deleted after the rows are in.
FileOutlivesImport == \A j \in Jobs : ~ file[j] => inserted[j] >= 1

\* A task the broker has does not circulate forever.
EveryMessageSettles ==
  \A j \in Jobs :
    message[j] \in {"queued", "taken"} ~> message[j] \in {"settled", "dead"}

-----------------------------------------------------------------------------
(* The inductive invariant behind StatusTellsTruth and NothingDropped *)

\* Before the request there is nothing; before the send, no task; and a task
\* is visible only while it has a try left.
TasksOK ==
  \A j \in Jobs :
    /\ handler[j] = "idle" <=> status[j] = "none"
    /\ handler[j] = "idle" => inserted[j] = 0
    /\ handler[j] \in {"idle", "committed"} => message[j] = "none"
    /\ message[j] = "none" => attempts[j] = 0
    /\ message[j] = "queued" => attempts[j] < MaxAttempts
    /\ message[j] = "taken" => attempts[j] > 0

\* Rows, once in, stay in, whatever the status says later.
RowsOK ==
  \A j \in Jobs : status[j] = "DONE" \/ j \in overwritten => inserted[j] >= 1

\* What a worker at work knows: a task it received, a row it has locked that
\* nobody else has and that is neither done nor gone, rows it has seen in.
WorkerOK(w) ==
  LET j == worker[w].job IN
  /\ worker[w].pc # "idle" => j \in Jobs /\ message[j] # "none"
  /\ worker[w].pc = "work" =>
       /\ status[j] \notin {"none", "DONE", "gone"}
       /\ \A v \in Workers : worker[v].pc = "work" /\ worker[v].job = j => v = w
  /\ worker[w].pc = "cleanup" => inserted[j] >= 1
  /\ worker[w].pc = "ack" => inserted[j] >= 1 \/ status[j] = "gone"

IInv == /\ TypeOK /\ TasksOK /\ RowsOK /\ \A w \in Workers : WorkerOK(w)
        /\ StatusTellsTruth /\ NothingDropped /\ FileOutlivesImport

\* What PendingHasTask needs of them: a FAILED that has replaced a DONE may itself
\* be replaced, but not by PENDING; a worker that gives its task back has marked
\* the row, or could not.
MarksOK ==
  /\ \A j \in overwritten : status[j] \in {"DONE", "FAILED", "gone"}
  /\ \A w \in Workers :
       worker[w].pc = "nack" => \/ status[worker[w].job] \notin {"none", "PENDING"}
                               \/ worker[w].job \in unmarked

(* What holds besides, while some of the faults stay away *)

\* Unless an answer was lost, a send that raised has left no task behind, and a
\* row without a task is nobody's work.
RefusedOK ==
  \A j \in Jobs :
    /\ handler[j] \in {"unsent", "refused"} => message[j] = "none"
    /\ message[j] = "none" => inserted[j] = 0

\* Without errors of the database, the only attempts that fail are those on
\* malformed rows, so that no failure meets a job that is done.
OnceOK ==
  /\ overwritten = {}
  /\ \A j \in poison : inserted[j] = 0
  /\ \A w \in Workers : worker[w].pc = "failing" => worker[w].job \in poison

(* What EveryMessageSettles rests on *)

\* No task is lost between the broker and the workers: one that is not visible,
\* not acknowledged and not dead is in the hands of a worker, and one that is
\* visible has a try left.
NoneForgotten ==
  \A j \in Jobs :
    /\ message[j] = "taken" =>
         \E w \in Workers : worker[w].pc # "idle" /\ worker[w].job = j
    /\ message[j] = "queued" => attempts[j] < MaxAttempts

=============================================================================
