---------------------------- MODULE ImportWizard ----------------------------
(***************************************************************************)
(* The CSV import wizard of one user, from the upload to the answer of the *)
(* poll, with the endpoints it calls and the job it leaves with the worker.*)
(*                                                                         *)
(* The same statement is imported again and again, as users do: after a    *)
(* failure, for another account, or because they do not know whether the   *)
(* first time worked.  Its columns, texts and categories are left out; a   *)
(* line is a name, its value stands for its date and its amount.  How the  *)
(* worker and the broker get on with a job is in ImportJobs; here are the  *)
(* ways an attempt can end.                                                *)
(*                                                                         *)
(* The user may import under several families, and the accounts are open to*)
(* all of these.  Within a visit the family is that of the uploaded file:  *)
(* validate_file_key_ownership refuses its key under any other.            *)
(***************************************************************************)
EXTENDS Integers, Sequences, FiniteSets

CONSTANTS
  Families,   \* the families the user may import under
  Accounts,   \* the accounts the user may choose from
  Credit,     \* those of type "credit"
  Lines,      \* the lines of the statement
  Malformed,  \* those whose date or amount cannot be parsed
  Value,      \* the date and amount of each line
  MaxMounts,  \* bound: how often the Import button is pressed
  MaxTries,   \* bound: attempts of the worker at a job
  Faults,     \* whether handlers and workers die, requests are refused, answers
              \* lost and accounts deleted
  Null

Values == {Value[l] : l \in Lines}
Statuses == {"pending", "done", "failed", "gone"}
Booked == [Families \X Values -> Nat]
Forms == [accountId : Accounts \cup {Null}, positive : BOOLEAN, toggled : BOOLEAN]
Analyses == [flag : [Lines -> {"error", "duplicate", "new"}], family : Families,
             against : Accounts, settled : SUBSET Nat]
Importing == [mount : Nat, effects : 0..2, dispatched : BOOLEAN, jobId : Nat \cup {Null},
              error : BOOLEAN, seen : Statuses \cup {Null}]

ASSUME AccountsAssumption ==
  /\ Credit \subseteq Accounts
  /\ Null \notin Accounts /\ \A S \in SUBSET Accounts : S # Null
ASSUME NullAssumption == Null \notin Nat \cup Families \cup Forms \cup Analyses \cup Importing \cup Booked
ASSUME LinesAssumption ==
  IsFiniteSet(Lines) /\ Malformed \subseteq Lines /\ DOMAIN Value = Lines
ASSUME BoundsAssumption ==
  MaxMounts \in Nat /\ MaxTries \in Nat \ {0}
ASSUME FaultsAssumption == Faults \in BOOLEAN

VARIABLES
  booked,     \* server: how many transactions of each family and value an account
              \* has, or Null for one that has been deleted
  job,        \* server: the import jobs, in the order of their rows
  calls,      \* POST /imports/execute requests the server has not handled
  step,       \* the wizard's activeStep
  wizard,     \* its wizardState
  form,       \* the state of MapColumnsStep, while it is mounted
  known,      \* the accounts as the cache has them, or Null
  asked,      \* the analyze request under way, or Null
  importing,  \* the state of ImportStep, while it is mounted
  mounts,     \* how often ImportStep has been mounted
  choice      \* history: the classification last chosen in this visit, or Null

server == <<booked, job>>
page == <<step, wizard, form, asked, importing, choice>>
vars == <<server, calls, page, known, mounts>>

-----------------------------------------------------------------------------
(* What the wizard keeps *)

initialWizardState == [fileKey |-> Null, accountId |-> Null, rows |-> Null, rowEdits |-> Null]
Upload == 0
MapColumns == 1
Review == 2
Import == 3

\* The convention of the account, as far as the accounts are there: purchases
\* on a credit card are positive.
Convention(account) == known # Null /\ account \in known \cap Credit

\* A mounting step takes over the account; the classification starts from its
\* convention, and nobody has touched the checkbox yet.
MapColumnsStep(account) ==
  [accountId |-> account, positive |-> Convention(account), toggled |-> FALSE]

ImportStep == [mount |-> mounts + 1, effects |-> 0, dispatched |-> FALSE,
               jobId |-> Null, error |-> FALSE, seen |-> Null]

\* What is on screen when the wizard is opened, or opened again: nothing of it
\* outlives the page.
Afresh ==
  /\ step' = Upload
  /\ wizard' = initialWizardState
  /\ form' = Null
  /\ asked' = Null
  /\ importing' = Null
  /\ choice' = Null

-----------------------------------------------------------------------------
(* Upload and mapping *)

\* The key of a file begins with the family of the token it was uploaded with.
handleUploaded(f) ==
  /\ step = Upload
  /\ step' = MapColumns
  /\ wizard' = [wizard EXCEPT !.fileKey = f, !.rows = Null, !.rowEdits = Null]
  /\ form' = MapColumnsStep(wizard.accountId)
  /\ UNCHANGED <<server, calls, asked, importing, choice, known, mounts>>

\* Mutant: the default comes back whenever the account changes.
WithDefaultAlways(f, accounts) == [f EXCEPT !.positive = f.accountId \in accounts \cap Credit]

\* The effect on [accountId, accounts]: the convention applies until the user
\* has touched the checkbox.
WithDefault(f, accounts) ==
  IF f.toggled THEN f ELSE [f EXCEPT !.positive = f.accountId \in accounts \cap Credit]

Existing == {a \in Accounts : booked[a] # Null}

\* useAccounts: the list comes, or comes again; it falls out of the cache after
\* 5 minutes with no component that shows it.
AccountsArrive ==
  /\ known # Existing
  /\ known' = Existing
  /\ form' = IF form = Null THEN Null ELSE WithDefault(form, Existing)
  /\ UNCHANGED <<server, calls, step, wizard, asked, importing, choice, mounts>>

AccountsCollected ==
  /\ known # Null
  /\ step # MapColumns
  /\ known' = Null
  /\ UNCHANGED <<server, calls, page, mounts>>

\* The selector is disabled while the accounts are loading.
ChooseAccount(a) ==
  /\ step = MapColumns
  /\ known # Null
  /\ a \in known \ {form.accountId}
  /\ form' = WithDefault([form EXCEPT !.accountId = a], known)
  /\ UNCHANGED <<server, calls, step, wizard, asked, importing, choice, known, mounts>>

ToggleClassification ==
  /\ step = MapColumns
  /\ form' = [form EXCEPT !.positive = ~@, !.toggled = TRUE]
  /\ choice' = form'.positive
  /\ UNCHANGED <<server, calls, step, wizard, asked, importing, known, mounts>>

handleAnalyze ==
  /\ step = MapColumns
  /\ form.accountId # Null
  /\ asked = Null
  /\ asked' = form
  /\ UNCHANGED <<server, calls, step, wizard, form, importing, choice, known, mounts>>

\* A line is a duplicate if the account has a transaction of its date and amount
\* that was posted under this family.
flag_duplicate_rows(family, account) ==
  [l \in Lines |->
     IF l \in Malformed THEN "error"
     ELSE IF account \in Existing /\ booked[account][<<family, Value[l]>>] > 0
     THEN "duplicate" ELSE "new"]

\* Mutant: the callback reads the form when the answer comes.
AnalyzedForForm(request) == form.accountId

\* What onAnalyzed is given was fixed when the request was sent, whatever the
\* form says by now.
AnalyzedFor(request) == request.accountId

\* POST /imports/analyze as it answers now, be the account there or not.  What is
\* in by then is kept for the properties.
AnalyzeResponse ==
  [flag |-> flag_duplicate_rows(wizard.fileKey, asked.accountId),
   family |-> wizard.fileKey, against |-> asked.accountId,
   settled |-> {i \in DOMAIN job : job[i].landed /\ job[i].status # "gone"}]

\* handleAnalyzed skips the duplicates.  An answer that comes after the step has
\* gone is dropped.
handleAnalyzed ==
  /\ asked # Null
  /\ asked' = Null
  /\ step' = Review
  /\ wizard' = [wizard EXCEPT !.accountId = AnalyzedFor(asked), !.rows = AnalyzeResponse,
                  !.rowEdits = [l \in Lines |-> AnalyzeResponse.flag[l] = "duplicate"]]
  /\ form' = Null
  /\ UNCHANGED <<server, calls, importing, choice, known, mounts>>

\* The request or its answer is lost, or refused: the file is gone, the membership
\* or the token is another by now.
AnalyzeFails ==
  /\ Faults
  /\ asked # Null
  /\ asked' = Null
  /\ UNCHANGED <<server, calls, step, wizard, form, importing, choice, known, mounts>>

-----------------------------------------------------------------------------
(* Review *)

isRowSkipped(l) == wizard.rowEdits[l]

\* The checkbox of a line that could not be parsed is disabled.
handleEditRow(l) ==
  /\ step = Review
  /\ wizard.rows.flag[l] # "error"
  /\ wizard' = [wizard EXCEPT !.rowEdits[l] = ~@]
  /\ UNCHANGED <<server, calls, step, form, asked, importing, choice, known, mounts>>

\* Mutant: the duplicates are shown as skipped and sent all the same.
includedWithDuplicates == {l \in Lines : wizard.rows.flag[l] # "error"}

includedRows == {l \in Lines : wizard.rows.flag[l] # "error" /\ ~isRowSkipped(l)}

\* Mutant: the step is left on Back without its form.
backWithoutForm ==
  /\ step = Review
  /\ step' = MapColumns
  /\ UNCHANGED <<server, calls, wizard, form, asked, importing, choice, known, mounts>>

handleBack ==
  /\ step = Review
  /\ step' = MapColumns
  /\ form' = MapColumnsStep(wizard.accountId)
  /\ UNCHANGED <<server, calls, wizard, asked, importing, choice, known, mounts>>

PressImport ==
  /\ step = Review
  /\ includedRows # {}
  /\ mounts < MaxMounts
  /\ step' = Import
  /\ mounts' = mounts + 1
  /\ importing' = ImportStep
  /\ UNCHANGED <<server, calls, wizard, form, asked, choice, known>>

-----------------------------------------------------------------------------
(* Import *)

executeRequest ==
  [mount |-> importing.mount, effect |-> importing.effects + 1,
   family |-> wizard.fileKey, account |-> wizard.accountId, rows |-> includedRows,
   analysis |-> wizard.rows, edits |-> wizard.rowEdits]

\* Mutant: no ref, so that each run of the effect sends.
neverDispatched == FALSE

\* hasDispatchedRef, which the two runs of the effect share.
hasDispatched == importing.dispatched

\* In development, StrictMode runs the effect of a mount twice.
DispatchEffect ==
  /\ step = Import
  /\ importing.effects < 2
  /\ importing' = [importing EXCEPT !.effects = @ + 1, !.dispatched = TRUE]
  /\ calls' = IF hasDispatched THEN calls ELSE calls \cup {executeRequest}
  /\ UNCHANGED <<server, step, wizard, form, asked, choice, known, mounts>>

\* The answer reaches the step that sent the request, if it is still there.
Told(c, jobId, error) ==
  importing' =
    IF importing # Null /\ importing.mount = c.mount
    THEN [importing EXCEPT !.jobId = jobId, !.error = error] ELSE importing

\* POST /imports/execute ends before it has committed anything: the account has
\* been deleted, its share or the user's role withdrawn, the database has failed.
RefuseImport(c) ==
  /\ c.account \notin Existing \/ Faults
  /\ calls' = calls \ {c}
  /\ Told(c, Null, TRUE)
  /\ UNCHANGED <<server, step, wizard, form, asked, choice, known, mounts>>

\* Otherwise the row is committed first.  The send may fail (the row says
\* failed, the client is told); or the answer is lost, or the handler dies
\* before the send, and the client is told of an error too.
ExecuteImport(c) ==
  /\ c.account \in Existing
  /\ calls' = calls \ {c}
  /\ \E outcome \in {"accepted", "refused"}
           \cup (IF Faults THEN {"answer lost", "died"} ELSE {}) :
       /\ job' = Append(job, [request |-> c, tries |-> 0, landed |-> FALSE,
            status |-> IF outcome = "refused" THEN "failed" ELSE "pending",
            queued |-> outcome \in {"accepted", "answer lost"}])
       /\ IF outcome = "accepted" THEN Told(c, Len(job'), FALSE)
          ELSE Told(c, Null, TRUE)
  /\ UNCHANGED <<booked, step, wizard, form, asked, choice, known, mounts>>

\* Mutant: a status once seen is not asked for again.
PollingOnce == importing # Null /\ importing.jobId # Null /\ importing.seen = Null

\* useJobStatus asks every 2 seconds until it has seen done or failed.
Polling == importing # Null /\ importing.jobId # Null
             /\ importing.seen \notin {"done", "failed"}

useJobStatus ==
  /\ Polling
  /\ job[importing.jobId].status # "gone"
  /\ importing' = [importing EXCEPT !.seen = job[importing.jobId].status]
  /\ UNCHANGED <<server, calls, step, wizard, form, asked, choice, known, mounts>>

isDone == importing # Null /\ importing.seen = "done"
isFailed == importing # Null /\ (importing.seen = "failed" \/ importing.error)

handleStartOver ==
  /\ isFailed
  /\ Afresh
  /\ UNCHANGED <<server, calls, known, mounts>>

\* The timer after done, or any link at any time; the wizard may be opened again.
Leave ==
  /\ step # Upload
  /\ Afresh
  /\ UNCHANGED <<server, calls, known, mounts>>

-----------------------------------------------------------------------------
(* The worker, and the owner of the account *)

Lands(request) ==
  [booked EXCEPT ![request.account] =
     [at \in Families \X Values |->
        @[at] + Cardinality({l \in request.rows : <<request.family, Value[l]>> = at})]]

\* How an attempt of process_import can end, as ImportJobs has it: all rows in and
\* done, or none and FAILED.  The FAILED is written at best effort, so a worker
\* that is killed, or cannot write it, leaves the status as it was; and a worker
\* whose commit went through may see an error and write FAILED over it.
Outcomes(status) ==
  {[landed |-> TRUE, status |-> "done"], [landed |-> FALSE, status |-> "failed"]}
  \cup (IF Faults THEN {[landed |-> FALSE, status |-> status],
                        [landed |-> TRUE, status |-> "failed"]} ELSE {})

\* A job that is not done may come back, until its attempts are used up.
Work(i) ==
  /\ job[i].queued
  /\ \E outcome \in Outcomes(job[i].status), again \in BOOLEAN :
       /\ again => outcome.status # "done" /\ job[i].tries + 1 < MaxTries
       /\ job' = [job EXCEPT ![i].status = outcome.status, ![i].tries = @ + 1,
                             ![i].queued = again, ![i].landed = @ \/ outcome.landed]
       /\ booked' = IF outcome.landed THEN Lands(job[i].request) ELSE booked
  /\ UNCHANGED <<calls, page, known, mounts>>

\* The account is deleted and its jobs with it: the poll is refused for good.
AccountDeleted(a) ==
  /\ Faults
  /\ a \in Existing
  /\ job' = [i \in DOMAIN job |->
               IF job[i].request.account = a
               THEN [job[i] EXCEPT !.status = "gone", !.queued = FALSE] ELSE job[i]]
  /\ booked' = [booked EXCEPT ![a] = Null]
  /\ UNCHANGED <<calls, page, known, mounts>>

-----------------------------------------------------------------------------
Init ==
  /\ booked = [a \in Accounts |-> [at \in Families \X Values |-> 0]]
  /\ job = <<>>
  /\ calls = {}
  /\ step = Upload
  /\ wizard = initialWizardState
  /\ form = Null
  /\ known \in {Null, Accounts}
  /\ asked = Null
  /\ importing = Null
  /\ mounts = 0
  /\ choice = Null

Next ==
  \/ \E f \in Families : handleUploaded(f)
  \/ AccountsArrive \/ AccountsCollected
  \/ \E a \in Accounts : ChooseAccount(a) \/ AccountDeleted(a)
  \/ ToggleClassification \/ handleAnalyze \/ handleAnalyzed \/ AnalyzeFails
  \/ \E l \in Lines : handleEditRow(l)
  \/ handleBack \/ PressImport \/ DispatchEffect
  \/ \E c \in calls : ExecuteImport(c) \/ RefuseImport(c)
  \/ useJobStatus \/ handleStartOver \/ Leave
  \/ \E i \in DOMAIN job : Work(i)

\* The poll's timer, the effects, the server and the worker go on by themselves.
Fairness ==
  /\ WF_vars(DispatchEffect)
  /\ WF_vars(useJobStatus)
  /\ WF_vars(\E c \in calls : ExecuteImport(c) \/ RefuseImport(c))
  /\ \A i \in 1..MaxMounts : WF_vars(i \in DOMAIN job /\ Work(i))

Spec == Init /\ [][Next]_vars /\ Fairness

-----------------------------------------------------------------------------
(* Properties *)

TypeOK ==
  /\ booked \in [Accounts -> Booked \cup {Null}]
  /\ known \in (SUBSET Accounts) \cup {Null}
  /\ \A i \in DOMAIN job :
       /\ job[i].status \in Statuses
       /\ job[i].status = "gone" <=> job[i].request.account \notin Existing
       /\ job[i].tries \in 0..MaxTries
       /\ job[i].queued => job[i].status \in {"pending", "failed"}
       /\ job[i].status = "done" => job[i].landed
  /\ \A c \in calls : c.account \in Accounts /\ c.rows \in (SUBSET (Lines \ Malformed)) \ {{}}
  /\ step \in Upload..Import
  /\ step # Upload => wizard.fileKey \in Families
  /\ step \in {Review, Import} => wizard.rows # Null /\ wizard.accountId \in Accounts
  /\ (step = MapColumns) = (form # Null)
  /\ form # Null => form \in Forms
  /\ asked # Null => asked \in Forms /\ step = MapColumns
  /\ (step = Import) = (importing # Null)
  /\ importing # Null =>
       importing.jobId \in DOMAIN job \cup {Null} /\ importing.mount \in 1..mounts

\* The Import button starts one import, however often React runs the effect.
OneJobPerPress ==
  /\ \A i, j \in DOMAIN job : job[i].request.mount = job[j].request.mount => i = j
  /\ \A c \in calls, i \in DOMAIN job : job[i].request.mount # c.mount
  /\ \A c, d \in calls : c.mount = d.mount => c = d

\* The rows go to the account, and are posted under the family, that their
\* duplicates were looked for in, even if the user changed the selection while the
\* analysis was under way.
AnalysedForItsAccount ==
  \A i \in DOMAIN job :
    LET c == job[i].request
    IN  c.account = c.analysis.against /\ c.family = c.analysis.family

\* Two jobs of one family have brought this line to the same account, and the first
\* was in when the second was analysed.  (Those of two families do not see each
\* other's transactions, although the account and its balance are one.)
BroughtTwice(i, j, l) ==
  /\ job[i].landed /\ job[j].landed
  /\ i \in job[j].request.analysis.settled
  /\ job[i].request.account = job[j].request.account
  /\ job[i].request.family = job[j].request.family
  /\ l \in job[i].request.rows \cap job[j].request.rows

\* The user saw that the line was a duplicate and put it back in.
PutBackIn(l, request) == request.analysis.flag[l] = "duplicate" /\ ~request.edits[l]

\* Two imports under one family bring the same line to the same account only if
\* the first was not in when the second was analysed, or the user put the duplicate
\* back in.
NoBlindDouble ==
  \A i, j \in DOMAIN job, l \in Lines :
    BroughtTwice(i, j, l) => PutBackIn(l, job[j].request)

\* While the step is open the checkbox shows the user's choice, and before there
\* is one the convention of the account, in whatever order the accounts arrive,
\* the account is chosen and the box is ticked.
ConventionAsShown ==
  step = MapColumns =>
    form.positive = IF form.toggled THEN choice ELSE Convention(form.accountId)

\* The last step waits for an end.
Waiting == step = Import /\ ~isDone /\ ~isFailed

\* The task of a job was sent and tried, no attempt could leave a mark, and none is
\* to come: the row says PENDING for good.
Stranded(i) == job[i].status = "pending" /\ ~job[i].queued /\ job[i].tries > 0

\* The poll cannot end: its job is stranded, or has gone with its account and the
\* poll is refused.
PollsInVain ==
  /\ importing # Null /\ importing.jobId # Null
  /\ Stranded(importing.jobId) \/ job[importing.jobId].status = "gone"

\* The last step does not wait for ever, unless it polls in vain: whatever else is
\* refused, lost or retried, it comes to show an end.
ImportComesToRest == Waiting ~> (~Waiting \/ PollsInVain)

-----------------------------------------------------------------------------
(* What ImportComesToRest rests on *)

\* While the last step shows neither an end nor an error there is something that
\* will bring one: its effect is still to run, its request is on the way, or the
\* job it polls has ended or is with the worker; or else the worker has had the
\* job and it polls in vain.
WaitingHasReason ==
  Waiting =>
    \/ importing.effects = 0
    \/ \E c \in calls : c.mount = importing.mount
    \/ /\ importing.jobId # Null
       /\ \/ job[importing.jobId].queued
          \/ job[importing.jobId].status \in {"done", "failed"}
          \/ PollsInVain

=============================================================================
