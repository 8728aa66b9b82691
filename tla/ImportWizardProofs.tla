------------------------- MODULE ImportWizardProofs -------------------------
(* Proofs about ImportWizard, for every value of its constants. *)
EXTENDS ImportWizard, FiniteSetTheorems, SequenceTheorems, TLAPS

-----------------------------------------------------------------------------
(* What the wizard and the server keep has the right form. *)

Edits == [Lines -> BOOLEAN]
Calls == [mount : Nat, effect : Nat, family : Families, account : Accounts,
          rows : (SUBSET (Lines \ Malformed)) \ {{}}, analysis : Analyses, edits : Edits]
Jobs == [request : Calls, tries : 0..MaxTries, status : Statuses, queued : BOOLEAN,
         landed : BOOLEAN]

Kept == [fileKey : Families \cup {Null}, accountId : Accounts \cup {Null},
         rows : Analyses \cup {Null}, rowEdits : Edits \cup {Null}]

\* The wizard's steps: what each of them finds.
StepOK ==
  /\ step \in Upload..Import
  /\ step # Upload => wizard.fileKey \in Families
  /\ step \in {Review, Import} =>
       /\ wizard.rows \in Analyses /\ wizard.accountId \in Accounts /\ wizard.rowEdits \in Edits
       /\ \A l \in Malformed : wizard.rows.flag[l] = "error"
  /\ step = Import => includedRows # {}
  /\ (step = MapColumns) = (form # Null)
  /\ (step = Import) = (importing # Null)
  /\ asked # Null => step = MapColumns /\ asked.accountId \in Accounts

PageOK ==
  /\ wizard \in Kept
  /\ form \in Forms \cup {Null}
  /\ asked \in Forms \cup {Null}
  /\ importing \in Importing \cup {Null}
  /\ known \in (SUBSET Accounts) \cup {Null}
  /\ mounts \in Nat
  /\ importing # Null => importing.mount = mounts /\ mounts # 0

JobOK(i) ==
  /\ job[i].status = "gone" <=> job[i].request.account \notin Existing
  /\ job[i].queued => job[i].status \in {"pending", "failed"} /\ job[i].tries < MaxTries
  /\ job[i].status = "done" => job[i].landed

ServerOK ==
  /\ booked \in [Accounts -> Booked \cup {Null}]
  /\ job \in Seq(Jobs)
  /\ calls \subseteq Calls
  /\ \A i \in DOMAIN job : JobOK(i)
  /\ importing # Null => importing.jobId \in DOMAIN job \cup {Null}

Typed == PageOK /\ StepOK /\ ServerOK

LEMMA JobEntries ==
  ASSUME ServerOK
  PROVE  /\ Len(job) \in Nat /\ DOMAIN job = 1..Len(job)
         /\ \A i \in DOMAIN job : job[i] \in Jobs
         /\ job = [i \in DOMAIN job |-> job[i]]
<1>1. job \in Seq(Jobs)
  BY DEF ServerOK
<1>2. Len(job) \in Nat /\ DOMAIN job = 1..Len(job) /\ job \in [1..Len(job) -> Jobs]
  BY <1>1, LenProperties
<1> QED BY <1>2

\* A sequence again, if it is a function on the same places.
LEMMA StillJobs ==
  ASSUME ServerOK, NEW s, s = [i \in DOMAIN job |-> s[i]], \A i \in DOMAIN job : s[i] \in Jobs
  PROVE  s \in Seq(Jobs)
<1>1. Len(job) \in Nat /\ DOMAIN job = 1..Len(job)
  BY JobEntries
<1>2. s \in [1..Len(job) -> Jobs]
  BY <1>1
<1> QED BY <1>1, <1>2, SeqDef

LEMMA TypedInit == Init => Typed
<1> SUFFICES ASSUME Init PROVE Typed
  OBVIOUS
<1>1. PageOK
  <2>1. wizard \in Kept
    BY DEF Init, Kept, initialWizardState
  <2>2. known \in (SUBSET Accounts) \cup {Null}
    <3>1. known = Null \/ known \subseteq Accounts
      BY DEF Init
    <3> QED BY <3>1
  <2> QED BY <2>1, <2>2 DEF Init, PageOK
<1>2. StepOK
  BY NullAssumption DEF Init, StepOK, Upload, MapColumns, Review, Import
<1>3. ServerOK
  <2>1. job = <<>> /\ calls = {} /\ importing = Null
    BY DEF Init
  <2>2. job \in Seq(Jobs) /\ DOMAIN job = {}
    BY <2>1, EmptySeq
  <2>3. booked \in [Accounts -> Booked \cup {Null}]
    BY DEF Init, Booked
  <2> QED BY <2>1, <2>2, <2>3 DEF ServerOK
<1> QED BY <1>1, <1>2, <1>3 DEF Typed

-----------------------------------------------------------------------------
(* The steps of the page. *)

\* The steps that leave the server and the requests to it alone.
LEMMA ServerUntouched ==
  ASSUME ServerOK, UNCHANGED <<booked, job, calls>>,
         importing' = Null \/ importing'.jobId = Null \/
           (importing # Null /\ importing'.jobId = importing.jobId)
  PROVE  ServerOK'
<1>1. \A i \in DOMAIN job : JobOK(i)'
  BY DEF ServerOK, JobOK, Existing
<1> QED BY <1>1 DEF ServerOK

LEMMA Fresh ==
  /\ \A account \in Accounts \cup {Null} : MapColumnsStep(account) \in Forms
  /\ \A account \in Accounts \cup {Null} : MapColumnsStep(account) # Null
  /\ mounts \in Nat => ImportStep \in Importing /\ ImportStep # Null
  /\ \A f \in Forms : \A accounts : WithDefault(f, accounts) \in Forms
  /\ \A f \in Forms : f # Null
<1>1. \A account \in Accounts \cup {Null} : MapColumnsStep(account) \in Forms
  BY DEF MapColumnsStep, Forms, Convention
<1>2. mounts \in Nat => ImportStep \in Importing
  BY DEF ImportStep, Importing
<1>3. \A f \in Forms : \A accounts : WithDefault(f, accounts) \in Forms
  <2>1. \A f \in Forms, positive \in BOOLEAN : [f EXCEPT !.positive = positive] \in Forms
    BY DEF Forms
  <2>2. \A a, accounts : (a \in accounts) \in BOOLEAN
    OBVIOUS
  <2>3. ASSUME NEW f \in Forms, NEW accounts
        PROVE  WithDefault(f, accounts) \in Forms
    <3> DEFINE positive == f.accountId \in accounts \cap Credit
    <3>1. positive \in BOOLEAN
      BY <2>2
    <3>2. WithDefault(f, accounts) = f \/ WithDefault(f, accounts) = [f EXCEPT !.positive = positive]
      BY DEF WithDefault
    <3> QED BY <2>1, <3>1, <3>2, Zenon
  <2> QED BY <2>3
<1> QED BY <1>1, <1>2, <1>3, NullAssumption

Numbers == Upload = 0 /\ MapColumns = 1 /\ Review = 2 /\ Import = 3
LEMMA Numbered == Numbers
  BY DEF Numbers, Upload, MapColumns, Review, Import

LEMMA AfreshTyped ==
  ASSUME Typed, Afresh, UNCHANGED <<server, calls, known, mounts>>
  PROVE  Typed'
<1>1. PageOK'
  BY DEF Afresh, PageOK, Kept, initialWizardState, Typed
<1>2. StepOK'
  BY Numbered, NullAssumption DEF Afresh, StepOK, Numbers
<1>3. ServerOK'
  BY ServerUntouched DEF Afresh, Typed, server
<1> QED BY <1>1, <1>2, <1>3 DEF Typed

LEMMA FormTyped ==
  ASSUME Typed,
         \/ \E f \in Families : handleUploaded(f)
         \/ AccountsArrive \/ AccountsCollected
         \/ \E a \in Accounts : ChooseAccount(a)
         \/ ToggleClassification \/ handleAnalyze
  PROVE  Typed'
<1>0. PageOK /\ StepOK /\ ServerOK
  BY DEF Typed
<1>1. UNCHANGED <<booked, job, calls, importing, mounts>>
  BY DEF handleUploaded, AccountsArrive, AccountsCollected, ChooseAccount,
     ToggleClassification, handleAnalyze, server, page
<1>2. ServerOK'
  BY <1>0, <1>1, ServerUntouched DEF PageOK
<1>3. ASSUME NEW f \in Families, handleUploaded(f) PROVE Typed'
  <2>1. wizard' \in Kept /\ wizard'.fileKey \in Families
    BY <1>0, <1>3 DEF handleUploaded, PageOK, Kept
  <2>2. form' \in Forms /\ form' # Null
    BY <1>0, <1>3, Fresh DEF handleUploaded, PageOK, Kept
  <2>3. PageOK'
    BY <1>0, <1>1, <1>3, <2>1, <2>2 DEF handleUploaded, PageOK
  <2>4. step' = MapColumns /\ step = Upload /\ UNCHANGED <<asked, importing>>
    BY <1>3 DEF handleUploaded
  <2>5. asked = Null /\ importing = Null
    BY <1>0, <2>4, Numbered DEF StepOK, Numbers
  <2>6. StepOK'
    BY <2>1, <2>2, <2>4, <2>5, Numbered DEF StepOK, Numbers
  <2> QED BY <1>2, <2>3, <2>6 DEF Typed
<1>4. ASSUME UNCHANGED <<step, wizard>>,
             form' \in Forms \cup {Null}, (form' = Null) = (form = Null),
             asked' \in {asked, form}, known' \in (SUBSET Accounts) \cup {Null},
             asked' # Null => step = MapColumns /\ asked'.accountId \in Accounts
      PROVE  Typed'
  <2>1. PageOK'
    BY <1>0, <1>1, <1>4 DEF PageOK
  <2>2. includedRows' = includedRows
    BY <1>4 DEF includedRows, isRowSkipped
  <2>3. StepOK'
    BY <1>0, <1>1, <1>4, <2>2 DEF StepOK
  <2> QED BY <1>2, <2>1, <2>3 DEF Typed
<1>5. asked # Null => step = MapColumns /\ asked.accountId \in Accounts
  BY <1>0 DEF StepOK
<1>6. CASE AccountsArrive
  <2>1. Existing \in SUBSET Accounts
    BY DEF Existing
  <2>2. form # Null => form \in Forms /\ WithDefault(form, Existing) \in Forms /\ WithDefault(form, Existing) # Null
    BY <1>0, Fresh DEF PageOK
  <2> QED BY <1>4, <1>5, <1>6, <2>1, <2>2 DEF AccountsArrive
<1>7. CASE AccountsCollected
  <2>1. UNCHANGED <<step, wizard, form, asked>> /\ known' = Null
    BY <1>7 DEF AccountsCollected, page
  <2>2. known' \in (SUBSET Accounts) \cup {Null}
    BY <2>1
  <2> QED BY <1>0, <1>4, <1>5, <2>1, <2>2 DEF PageOK
<1>8. ASSUME NEW a \in Accounts, ChooseAccount(a) PROVE Typed'
  <2>1. form \in Forms
    BY <1>0, <1>8 DEF ChooseAccount, PageOK, StepOK
  <2>2. [form EXCEPT !.accountId = a] \in Forms
    BY <2>1 DEF Forms
  <2>3. form' \in Forms /\ form' # Null
    BY <1>8, <2>2, Fresh DEF ChooseAccount
  <2> QED BY <1>0, <1>4, <1>5, <1>8, <2>1, <2>3, Fresh DEF ChooseAccount, PageOK
<1>9. CASE ToggleClassification
  <2>1. form \in Forms
    BY <1>0, <1>9 DEF ToggleClassification, PageOK, StepOK
  <2>2. form' \in Forms
    BY <1>9, <2>1 DEF ToggleClassification, Forms
  <2> QED BY <1>0, <1>4, <1>5, <1>9, <2>1, <2>2, Fresh DEF ToggleClassification, PageOK
<1>10. CASE handleAnalyze
  <2>1. form \in Forms /\ form.accountId \in Accounts
    BY <1>0, <1>10 DEF handleAnalyze, PageOK, StepOK, Forms
  <2> QED BY <1>0, <1>4, <1>10, <2>1 DEF handleAnalyze, PageOK
<1> QED BY <1>3, <1>6, <1>7, <1>8, <1>9, <1>10

LEMMA ReviewTyped ==
  ASSUME Typed,
         \/ handleAnalyzed \/ AnalyzeFails \/ handleBack \/ PressImport
         \/ \E l \in Lines : handleEditRow(l)
  PROVE  Typed'
<1>0. PageOK /\ StepOK /\ ServerOK
  BY DEF Typed
<1>1. CASE handleAnalyzed
  <2> DEFINE account == asked.accountId
             family == wizard.fileKey
             flags == flag_duplicate_rows(family, account)
             analysis == [flag |-> flags, family |-> family, against |-> account,
                          settled |-> {i \in DOMAIN job : job[i].landed /\ job[i].status # "gone"}]
             edits == [l \in Lines |-> flags[l] = "duplicate"]
  <2>1. account \in Accounts /\ family \in Families /\ step = MapColumns /\ importing = Null
    BY <1>0, <1>1, Numbered DEF handleAnalyzed, StepOK, Numbers
  <2>2. flags \in [Lines -> {"error", "duplicate", "new"}] /\ \A l \in Malformed : flags[l] = "error"
    BY LinesAssumption DEF flag_duplicate_rows
  <2>3. analysis \in Analyses
    <3>1. {i \in DOMAIN job : job[i].landed /\ job[i].status # "gone"} \in SUBSET Nat
      BY <1>0, JobEntries
    <3> QED BY <2>1, <2>2, <3>1 DEF Analyses
  <2>4. edits \in Edits
    <3> HIDE DEF flags
    <3>1. \A l \in Lines : (flags[l] = "duplicate") \in BOOLEAN
      OBVIOUS
    <3> QED BY <3>1, Zenon DEF Edits
  <2>5. wizard' = [wizard EXCEPT !.accountId = account, !.rows = analysis, !.rowEdits = edits]
    BY <1>1 DEF handleAnalyzed, AnalyzedFor, AnalyzeResponse
  <2>6. /\ step' = Review /\ form' = Null /\ asked' = Null
        /\ UNCHANGED <<booked, job, calls, importing, known, mounts>>
    BY <1>1 DEF handleAnalyzed, server
  <2>7. /\ wizard' \in Kept /\ wizard'.fileKey \in Families
        /\ wizard'.rows = analysis /\ wizard'.accountId = account /\ wizard'.rowEdits = edits
    <3> HIDE DEF analysis, edits, account, family
    <3>1. wizard \in Kept /\ wizard.fileKey \in Families
      BY <1>0, <2>1, Numbered DEF PageOK, StepOK, Numbers
    <3> QED BY <2>1, <2>3, <2>4, <2>5, <3>1 DEF Kept
  <2>8. PageOK'
    BY <1>0, <2>6, <2>7 DEF PageOK
  <2>9. StepOK'
    <3>1. \A l \in Malformed : wizard'.rows.flag[l] = "error"
      BY <2>2, <2>7
    <3> HIDE DEF analysis, edits, account, family
    <3> QED BY <2>1, <2>3, <2>4, <2>6, <2>7, <3>1, Numbered DEF StepOK, Numbers
  <2>10. ServerOK'
    BY <1>0, <2>1, <2>6, ServerUntouched
  <2> QED BY <2>8, <2>9, <2>10 DEF Typed
<1>2. CASE AnalyzeFails
  <2>1. UNCHANGED <<booked, job, calls, step, wizard, form, importing, known, mounts>> /\ asked' = Null
    BY <1>2 DEF AnalyzeFails, server
  <2>2. PageOK' /\ ServerOK'
    BY <1>0, <2>1, ServerUntouched DEF PageOK
  <2>3. StepOK'
    BY <1>0, <2>1 DEF StepOK, includedRows, isRowSkipped
  <2> QED BY <2>2, <2>3 DEF Typed
<1>3. CASE handleBack
  <2>1. /\ step = Review /\ step' = MapColumns /\ form' = MapColumnsStep(wizard.accountId)
        /\ UNCHANGED <<booked, job, calls, wizard, asked, importing, known, mounts>>
    BY <1>3 DEF handleBack, server
  <2>2. form' \in Forms /\ form' # Null
    BY <1>0, <2>1, Fresh DEF PageOK, Kept
  <2>3. PageOK' /\ ServerOK'
    BY <1>0, <2>1, <2>2, ServerUntouched DEF PageOK
  <2>4. StepOK'
    BY <1>0, <2>1, <2>2, Numbered DEF StepOK, Numbers
  <2> QED BY <2>3, <2>4 DEF Typed
<1>4. CASE PressImport
  <2>1. /\ step = Review /\ step' = Import /\ importing' = ImportStep
        /\ includedRows # {} /\ mounts' = mounts + 1
        /\ UNCHANGED <<booked, job, calls, wizard, form, asked, known>>
    BY <1>4 DEF PressImport, server
  <2>2. importing' \in Importing /\ importing' # Null /\ importing'.mount = mounts + 1 /\ importing'.jobId = Null
    BY <1>0, <2>1, Fresh DEF PageOK, ImportStep
  <2>3. includedRows' = includedRows
    BY <2>1 DEF includedRows, isRowSkipped
  <2>4. PageOK' /\ ServerOK'
    BY <1>0, <2>1, <2>2, ServerUntouched DEF PageOK
  <2>5. StepOK'
    BY <1>0, <2>1, <2>2, <2>3, Numbered DEF StepOK, Numbers
  <2> QED BY <2>4, <2>5 DEF Typed
<1>5. ASSUME NEW l \in Lines, handleEditRow(l) PROVE Typed'
  <2>1. /\ step = Review /\ wizard' = [wizard EXCEPT !.rowEdits[l] = ~@]
        /\ UNCHANGED <<booked, job, calls, step, form, asked, importing, known, mounts>>
    BY <1>5 DEF handleEditRow, server
  <2>2. wizard \in Kept /\ wizard.rowEdits \in Edits /\ wizard.rows \in Analyses
    BY <1>0, <2>1, Numbered DEF PageOK, StepOK, Numbers
  <2>3. [wizard.rowEdits EXCEPT ![l] = ~@] \in Edits
    BY <2>2 DEF Edits
  <2>4. /\ wizard' \in Kept /\ wizard'.rowEdits \in Edits
        /\ wizard'.rows = wizard.rows /\ wizard'.accountId = wizard.accountId
        /\ wizard'.fileKey = wizard.fileKey
    BY <2>1, <2>2, <2>3 DEF Kept
  <2>5. PageOK' /\ ServerOK'
    BY <1>0, <2>1, <2>4, ServerUntouched DEF PageOK
  <2>6. StepOK'
    BY <1>0, <2>1, <2>4, Numbered DEF StepOK, Numbers
  <2> QED BY <2>5, <2>6 DEF Typed
<1> QED BY <1>1, <1>2, <1>3, <1>4, <1>5

\* Steps that change no more of the page than what ImportStep knows.
LEMMA TypedButImporting ==
  ASSUME Typed, UNCHANGED <<step, wizard, form, asked, known, mounts>>, ServerOK',
         (importing' = Null) = (importing = Null),
         importing # Null => importing' \in Importing /\ importing'.mount = importing.mount
  PROVE  Typed'
<1>1. PageOK'
  BY DEF Typed, PageOK
<1>2. includedRows' = includedRows
  BY DEF includedRows, isRowSkipped
<1>3. StepOK'
  BY <1>2 DEF Typed, StepOK
<1> QED BY <1>1, <1>3 DEF Typed

LEMMA PollTyped == ASSUME Typed, useJobStatus PROVE Typed'
<1>0. PageOK /\ StepOK /\ ServerOK
  BY DEF Typed
<1>1. importing \in Importing /\ importing # Null /\ importing.jobId # Null
  BY <1>0 DEF useJobStatus, Polling, PageOK
<1>2. /\ importing' = [importing EXCEPT !.seen = job[importing.jobId].status]
      /\ UNCHANGED <<booked, job, calls, step, wizard, form, asked, known, mounts>>
  BY DEF useJobStatus, server
<1>3. job[importing.jobId].status \in Statuses
  <2>1. importing.jobId \in DOMAIN job
    BY <1>0, <1>1 DEF ServerOK
  <2> QED BY <1>0, <2>1, JobEntries DEF Jobs
<1>4. importing' \in Importing /\ importing'.jobId = importing.jobId /\ importing'.mount = importing.mount
  BY <1>1, <1>2, <1>3 DEF Importing
<1>5. importing' # Null
  BY <1>4, NullAssumption
<1> QED BY <1>0, <1>1, <1>2, <1>4, <1>5, ServerUntouched, TypedButImporting

-----------------------------------------------------------------------------
(* The steps of the server. *)

\* What a step may do to the jobs there are: it never changes what was asked
\* for, nor takes back the rows that are in.
JobsKept ==
  /\ DOMAIN job \subseteq DOMAIN job'
  /\ \A i \in DOMAIN job :
       /\ job'[i].request = job[i].request
       /\ job[i].landed => job'[i].landed

\* Every request sent, handled or not.
Sent == calls \cup {job[i].request : i \in DOMAIN job}

LEMMA RequestTyped ==
  ASSUME Typed, step = Import
  PROVE  executeRequest \in Calls /\ importing \in Importing /\ importing # Null
<1>1. importing \in Importing /\ importing # Null
  BY DEF Typed, PageOK, StepOK
<1>2. /\ wizard.rows \in Analyses /\ wizard.accountId \in Accounts /\ wizard.rowEdits \in Edits
      /\ wizard.fileKey \in Families
      /\ includedRows # {} /\ \A l \in Malformed : wizard.rows.flag[l] = "error"
  BY Numbered DEF Typed, StepOK, Numbers
<1>3. includedRows \in (SUBSET (Lines \ Malformed)) \ {{}}
  BY <1>2 DEF includedRows
<1>4. importing.mount \in Nat /\ importing.effects + 1 \in Nat
  BY <1>1 DEF Importing
<1> QED BY <1>1, <1>2, <1>3, <1>4 DEF executeRequest, Calls

LEMMA DispatchTyped == ASSUME Typed, DispatchEffect PROVE Typed'
<1>0. ServerOK
  BY DEF Typed
<1>1. importing \in Importing /\ importing # Null /\ executeRequest \in Calls
  BY RequestTyped DEF DispatchEffect
<1>2. /\ importing.effects < 2
      /\ importing' = [importing EXCEPT !.effects = @ + 1, !.dispatched = TRUE]
      /\ UNCHANGED <<booked, job, step, wizard, form, asked, known, mounts>>
      /\ calls' \subseteq calls \cup {executeRequest}
  BY DEF DispatchEffect, server
<1>3. importing' \in Importing /\ importing'.jobId = importing.jobId /\ importing'.mount = importing.mount
  <2>1. importing.effects + 1 \in 0..2
    BY <1>1, <1>2 DEF Importing
  <2>2. importing' = [importing EXCEPT !.effects = importing.effects + 1, !.dispatched = TRUE]
    BY <1>2
  <2> DEFINE next == importing.effects + 1
  <2> HIDE DEF next
  <2> QED BY <1>1, <2>1, <2>2 DEF Importing, next
<1>4. importing' # Null
  BY <1>3, NullAssumption
<1>5. ServerOK'
  <2>1. \A i \in DOMAIN job : JobOK(i)'
    BY <1>0, <1>2 DEF ServerOK, JobOK, Existing
  <2> QED BY <1>0, <1>1, <1>2, <1>3, <2>1 DEF ServerOK
<1> QED BY <1>1, <1>2, <1>3, <1>4, <1>5, TypedButImporting

LEMMA ToldTyped ==
  ASSUME Typed, NEW c, NEW jobId \in Nat \cup {Null}, NEW error \in BOOLEAN, Told(c, jobId, error)
  PROVE  /\ (importing' = Null) = (importing = Null)
         /\ importing # Null =>
              /\ importing' \in Importing /\ importing'.mount = importing.mount
              /\ importing'.jobId \in {importing.jobId, jobId}
<1>1. importing = Null => importing' = Null
  BY DEF Told
<1>2. ASSUME importing # Null
      PROVE  /\ importing' \in Importing /\ importing'.mount = importing.mount
             /\ importing'.jobId \in {importing.jobId, jobId}
  <2>1. importing \in Importing
    BY <1>2 DEF Typed, PageOK
  <2>2. \/ importing' = importing
        \/ importing' = [importing EXCEPT !.jobId = jobId, !.error = error]
    BY DEF Told
  <2> QED BY <2>1, <2>2 DEF Importing
<1>3. importing # Null => importing' # Null
  BY <1>2, NullAssumption
<1> QED BY <1>1, <1>2, <1>3

LEMMA RefuseTyped == ASSUME Typed, NEW c \in calls, RefuseImport(c) PROVE Typed'
<1>0. ServerOK
  BY DEF Typed
<1>1. /\ UNCHANGED <<booked, job, step, wizard, form, asked, known, mounts>>
      /\ calls' \subseteq calls /\ Told(c, Null, TRUE)
  BY DEF RefuseImport, server
<1>2. /\ (importing' = Null) = (importing = Null)
      /\ importing # Null =>
           /\ importing' \in Importing /\ importing'.mount = importing.mount
           /\ importing'.jobId \in {importing.jobId, Null}
  BY <1>1, ToldTyped
<1>3. ServerOK'
  <2>1. \A i \in DOMAIN job : JobOK(i)'
    BY <1>0, <1>1 DEF ServerOK, JobOK, Existing
  <2> QED BY <1>0, <1>1, <1>2, <2>1 DEF ServerOK
<1> QED BY <1>1, <1>2, <1>3, TypedButImporting

LEMMA Appended ==
  ASSUME ServerOK, NEW new \in Jobs, job' = Append(job, new)
  PROVE  /\ job' \in Seq(Jobs)
         /\ Len(job') = Len(job) + 1 /\ Len(job') \notin DOMAIN job
         /\ DOMAIN job' = DOMAIN job \cup {Len(job')}
         /\ \A i \in DOMAIN job : job'[i] = job[i]
         /\ job'[Len(job')] = new
<1>1. job \in Seq(Jobs) /\ Len(job) \in Nat /\ DOMAIN job = 1..Len(job)
  BY JobEntries DEF ServerOK
<1>2. /\ job' \in Seq(Jobs) /\ Len(job') = Len(job) + 1
      /\ \A i \in 1..Len(job) : job'[i] = job[i]
      /\ job'[Len(job) + 1] = new
  BY <1>1, AppendProperties
<1>3. DOMAIN job' = 1..Len(job')
  BY <1>2, LenProperties
<1> QED BY <1>1, <1>2, <1>3

LEMMA NewJob ==
  ASSUME NEW c \in Calls, NEW outcome
  PROVE  LET new == [request |-> c, tries |-> 0, landed |-> FALSE,
                     status |-> IF outcome = "refused" THEN "failed" ELSE "pending",
                     queued |-> outcome \in {"accepted", "answer lost"}]
         IN /\ new \in Jobs /\ new.request = c /\ new.status \in {"pending", "failed"}
            /\ new.tries = 0 /\ ~new.landed
<1>1. (outcome \in {"accepted", "answer lost"}) \in BOOLEAN
  OBVIOUS
<1>2. (IF outcome = "refused" THEN "failed" ELSE "pending") \in {"pending", "failed"}
  OBVIOUS
<1>3. 0 \in 0..MaxTries
  BY BoundsAssumption
<1> DEFINE status == IF outcome = "refused" THEN "failed" ELSE "pending"
           queued == outcome \in {"accepted", "answer lost"}
<1>4. status \in {"pending", "failed"} /\ queued \in BOOLEAN
  BY <1>1, <1>2, Zenon
<1> HIDE DEF status, queued
<1>5. LET new == [request |-> c, tries |-> 0, landed |-> FALSE, status |-> status, queued |-> queued]
      IN /\ new \in Jobs /\ new.request = c /\ new.status \in {"pending", "failed"}
         /\ new.tries = 0 /\ ~new.landed
  BY <1>3, <1>4 DEF Jobs, Statuses
<1> QED BY <1>5 DEF status, queued

\* A request is accepted, refused, or its answer lost: one more job.
LEMMA Executed ==
  ASSUME Typed, NEW c \in calls, ExecuteImport(c)
  PROVE  /\ c \in Calls /\ c.account \in Existing
         /\ \E new \in Jobs :
              /\ new.request = c /\ new.status \in {"pending", "failed"}
              /\ new.tries = 0 /\ ~new.landed
              /\ job' = Append(job, new)
         /\ \/ Told(c, Len(job'), FALSE)
            \/ Told(c, Null, TRUE)
         /\ calls' = calls \ {c}
         /\ UNCHANGED <<booked, step, wizard, form, asked, choice, known, mounts>>
<1>1. c \in Calls
  BY DEF Typed, ServerOK
<1>2. PICK outcome \in {"accepted", "refused", "answer lost", "died"} :
        /\ job' = Append(job, [request |-> c, tries |-> 0, landed |-> FALSE,
             status |-> IF outcome = "refused" THEN "failed" ELSE "pending",
             queued |-> outcome \in {"accepted", "answer lost"}])
        /\ Told(c, Len(job'), FALSE) \/ Told(c, Null, TRUE)
  BY DEF ExecuteImport
<1>3. \E new \in Jobs :
        /\ new.request = c /\ new.status \in {"pending", "failed"}
        /\ new.tries = 0 /\ ~new.landed
        /\ job' = Append(job, new)
  <2> DEFINE new == [request |-> c, tries |-> 0, landed |-> FALSE,
                     status |-> IF outcome = "refused" THEN "failed" ELSE "pending",
                     queued |-> outcome \in {"accepted", "answer lost"}]
  <2>1. /\ new \in Jobs /\ new.request = c /\ new.status \in {"pending", "failed"}
        /\ new.tries = 0 /\ ~new.landed
    BY <1>1, NewJob, Zenon
  <2>2. job' = Append(job, new)
    BY <1>2, Zenon
  <2> HIDE DEF new
  <2> QED BY <2>1, <2>2, Zenon
<1> QED BY <1>1, <1>2, <1>3 DEF ExecuteImport

LEMMA ExecuteTyped == ASSUME Typed, NEW c \in calls, ExecuteImport(c) PROVE Typed' /\ JobsKept
<1>0. ServerOK
  BY DEF Typed
<1>1. PICK new \in Jobs :
        /\ new.request = c /\ new.status \in {"pending", "failed"} /\ new.tries = 0
        /\ job' = Append(job, new)
  BY Executed
<1>2. /\ c \in Calls /\ c.account \in Existing
      /\ Told(c, Len(job'), FALSE) \/ Told(c, Null, TRUE)
      /\ calls' \subseteq calls
      /\ UNCHANGED <<booked, step, wizard, form, asked, known, mounts>>
  BY Executed
<1>3. /\ job' \in Seq(Jobs)
      /\ Len(job') = Len(job) + 1 /\ Len(job') \notin DOMAIN job
      /\ DOMAIN job' = DOMAIN job \cup {Len(job')}
      /\ \A i \in DOMAIN job : job'[i] = job[i]
      /\ job'[Len(job')] = new
  BY <1>0, <1>1, Appended
<1>4. Len(job') \in Nat
  BY <1>0, <1>3, JobEntries
<1>5. /\ (importing' = Null) = (importing = Null)
      /\ importing # Null =>
           /\ importing' \in Importing /\ importing'.mount = importing.mount
           /\ importing'.jobId \in {importing.jobId, Len(job'), Null}
  <2>1. CASE Told(c, Len(job'), FALSE)
    BY <1>4, <2>1, ToldTyped
  <2>2. CASE Told(c, Null, TRUE)
    BY <2>2, ToldTyped
  <2> QED BY <1>2, <2>1, <2>2
<1>6. \A i \in DOMAIN job' : JobOK(i)'
  <2>1. Existing' = Existing
    BY <1>2 DEF Existing
  <2>2. \A i \in DOMAIN job : JobOK(i)'
    BY <1>0, <1>3, <2>1 DEF ServerOK, JobOK
  <2>3. ASSUME NEW i \in DOMAIN job', i \notin DOMAIN job PROVE JobOK(i)'
    <3>1. job'[i] = new
      BY <1>3, <2>3
    <3> QED BY <1>1, <1>2, <2>1, <3>1, BoundsAssumption DEF JobOK
  <2> QED BY <1>3, <2>2, <2>3
<1>7. ServerOK'
  BY <1>0, <1>2, <1>3, <1>5, <1>6 DEF ServerOK
<1>8. JobsKept
  BY <1>3 DEF JobsKept
<1> QED BY <1>2, <1>5, <1>7, <1>8, TypedButImporting

\* One job gets on, or all of them are looked at: the places stay.
LEMMA Worked ==
  ASSUME Typed, NEW i \in DOMAIN job, Work(i)
  PROVE  /\ DOMAIN job' = DOMAIN job /\ job' = [k \in DOMAIN job |-> job'[k]]
         /\ \A k \in DOMAIN job \ {i} : job'[k] = job[k]
         /\ job[i].queued /\ job'[i] \in Jobs /\ job'[i].request = job[i].request
         /\ job'[i].tries > 0 /\ job'[i].status # "gone"
         /\ job'[i].status = "done" => ~job'[i].queued /\ job'[i].landed
         /\ job'[i].queued =>
              job'[i].tries < MaxTries /\ job'[i].status \in {"pending", "failed"}
         /\ job[i].landed => job'[i].landed
         /\ \/ booked' = Lands(job[i].request)
            \/ UNCHANGED booked /\ job'[i].landed = job[i].landed
<1>0. job[i] \in Jobs /\ job = [k \in DOMAIN job |-> job[k]] /\ job[i].queued
  BY JobEntries DEF Typed, Work
<1>1. /\ job[i].tries \in 0..MaxTries /\ job[i].tries < MaxTries
      /\ job[i].status \in {"pending", "failed"} /\ job[i].landed \in BOOLEAN
  BY <1>0 DEF Typed, ServerOK, JobOK, Jobs
<1>2. PICK outcome \in Outcomes(job[i].status), again \in BOOLEAN :
        /\ again => outcome.status # "done" /\ job[i].tries + 1 < MaxTries
        /\ job' = [job EXCEPT ![i].status = outcome.status, ![i].tries = @ + 1,
                              ![i].queued = again, ![i].landed = @ \/ outcome.landed]
        /\ booked' = IF outcome.landed THEN Lands(job[i].request) ELSE booked
  BY DEF Work
<1>3. /\ outcome.status \in {"pending", "done", "failed"} /\ outcome.landed \in BOOLEAN
      /\ outcome.status = "done" => outcome.landed
  <2> DEFINE status == job[i].status
  <2>1. \/ outcome = [landed |-> TRUE, status |-> "done"]
        \/ outcome = [landed |-> FALSE, status |-> "failed"]
        \/ outcome = [landed |-> FALSE, status |-> status]
        \/ outcome = [landed |-> TRUE, status |-> "failed"]
    BY Zenon DEF Outcomes
  <2>2. status \in {"pending", "failed"}
    BY <1>1
  <2> HIDE DEF status
  <2>3. \/ outcome.landed = TRUE /\ outcome.status = "done"
        \/ outcome.landed = FALSE /\ outcome.status = "failed"
        \/ outcome.landed = FALSE /\ outcome.status = status
        \/ outcome.landed = TRUE /\ outcome.status = "failed"
    BY <2>1
  <2> QED BY <2>2, <2>3, Zenon
<1> DEFINE tries == job[i].tries + 1
           landed == job[i].landed \/ outcome.landed
           next == [job[i] EXCEPT !.status = outcome.status, !.tries = tries, !.queued = again,
                                  !.landed = landed]
<1>4. /\ tries \in 0..MaxTries /\ tries > 0 /\ landed \in BOOLEAN
      /\ again => tries < MaxTries
      /\ job[i].landed => landed
      /\ outcome.status = "done" => landed
      /\ ~outcome.landed => landed = job[i].landed
  BY <1>1, <1>2, <1>3, BoundsAssumption
<1>5. job' = [job EXCEPT ![i].status = outcome.status, ![i].tries = tries,
                         ![i].queued = again, ![i].landed = landed]
  BY <1>2
<1>6. \/ booked' = Lands(job[i].request)
      \/ UNCHANGED booked /\ ~outcome.landed
  BY <1>2
<1> HIDE DEF tries, landed
<1>7. /\ DOMAIN job' = DOMAIN job /\ job' = [k \in DOMAIN job |-> job'[k]]
      /\ \A k \in DOMAIN job \ {i} : job'[k] = job[k]
      /\ job'[i] = next
  BY <1>0, <1>5
<1>8. /\ next \in Jobs /\ next.request = job[i].request /\ next.status = outcome.status
      /\ next.tries = tries /\ next.queued = again /\ next.landed = landed
  BY <1>0, <1>3, <1>4 DEF Jobs, Statuses
<1> HIDE DEF next
<1>9. /\ job'[i] \in Jobs /\ job'[i].request = job[i].request /\ job'[i].status = outcome.status
      /\ job'[i].tries = tries /\ job'[i].queued = again /\ job'[i].landed = landed
  BY <1>7, <1>8, Zenon
<1>10. /\ job'[i].tries > 0 /\ job'[i].status # "gone"
       /\ job'[i].status = "done" => ~job'[i].queued /\ job'[i].landed
       /\ job'[i].queued => job'[i].tries < MaxTries /\ job'[i].status \in {"pending", "failed"}
       /\ job[i].landed => job'[i].landed
  BY <1>2, <1>3, <1>4, <1>9
<1>11. \/ booked' = Lands(job[i].request)
       \/ UNCHANGED booked /\ job'[i].landed = job[i].landed
  BY <1>4, <1>6, <1>9
<1> QED BY <1>0, <1>7, <1>9, <1>10, <1>11

Places == Families \X Values

LEMMA Landed ==
  ASSUME Typed, NEW c \in Calls, c.account \in Existing, booked' = Lands(c)
  PROVE  /\ booked' \in [Accounts -> Booked \cup {Null}] /\ Existing' = Existing
         /\ \A a \in Existing, at \in Places : booked'[a][at] >= booked[a][at]
         /\ \A l \in c.rows : booked'[c.account][<<c.family, Value[l]>>] > 0
<1> DEFINE account == c.account
           rows == c.rows
           family == c.family
<1>0. account \in Existing /\ rows \in SUBSET Lines /\ family \in Families
  BY DEF Calls
<1> HIDE DEF account, rows, family
<1>1. booked \in [Accounts -> Booked \cup {Null}] /\ account \in Accounts /\ booked[account] \in Booked
  BY <1>0 DEF Typed, ServerOK, Existing
<1> DEFINE hits(at) == {l \in rows : <<family, Value[l]>> = at}
           landed == [at \in Families \X Values |-> booked[account][at] + Cardinality(hits(at))]
<1>2. \A at \in Places : IsFiniteSet(hits(at)) /\ Cardinality(hits(at)) \in Nat
  BY <1>0, LinesAssumption, FS_Subset, FS_CardinalityType
<1>3. \A at \in Places : hits(at) # {} => Cardinality(hits(at)) > 0
  BY <1>2, FS_EmptySet
<1>4. booked' = [booked EXCEPT ![account] = landed]
  BY DEF Lands, account, rows, family
<1>5. \A l \in rows : l \in hits(<<family, Value[l]>>) /\ <<family, Value[l]>> \in Places
  BY <1>0 DEF Values, Places
<1> HIDE DEF hits
<1>6. landed \in Booked /\ landed # Null
  <2>1. landed \in Booked
    BY <1>1, <1>2 DEF Booked, Places
  <2> QED BY <2>1, NullAssumption
<1>7. \A at \in Places : landed[at] >= booked[account][at] /\ (hits(at) # {} => landed[at] > 0)
  BY <1>1, <1>2, <1>3 DEF Booked, Places
<1> HIDE DEF landed
<1>8. \A a \in Existing, at \in Places : booked[a][at] \in Nat
  BY <1>1 DEF Existing, Booked, Places
<1>9. Existing' = Existing
  BY <1>1, <1>4, <1>6, <1>0 DEF Existing
<1>10. \A a \in Existing, at \in Places : booked'[a][at] >= booked[a][at]
  BY <1>1, <1>4, <1>7, <1>8 DEF Existing
<1>11. \A l \in rows : booked'[account][<<family, Value[l]>>] > 0
  BY <1>1, <1>4, <1>5, <1>7
<1> QED BY <1>1, <1>4, <1>6, <1>9, <1>10, <1>11 DEF account, rows, family

LEMMA WorkTyped == ASSUME Typed, NEW i \in DOMAIN job, Work(i) PROVE Typed' /\ JobsKept
<1>0. ServerOK /\ job[i] \in Jobs /\ job[i].request \in Calls
  BY JobEntries DEF Typed, Jobs
<1>1. UNCHANGED <<calls, step, wizard, form, asked, importing, known, mounts>>
  BY DEF Work, page
<1>2. /\ DOMAIN job' = DOMAIN job /\ job' = [k \in DOMAIN job |-> job'[k]]
      /\ \A k \in DOMAIN job \ {i} : job'[k] = job[k]
      /\ job[i].queued /\ job'[i] \in Jobs /\ job'[i].request = job[i].request
  BY Worked
<1>3. job[i].status # "gone" /\ job[i].request.account \in Existing
  BY <1>0, <1>2 DEF ServerOK, JobOK
<1>4. booked' \in [Accounts -> Booked \cup {Null}] /\ Existing' = Existing
  <2>1. CASE booked' = Lands(job[i].request)
    BY <1>0, <1>3, <2>1, Landed
  <2>2. CASE UNCHANGED booked
    BY <1>0, <2>2 DEF ServerOK, Existing
  <2> QED BY <2>1, <2>2, Worked
<1>5. \A k \in DOMAIN job' : JobOK(k)'
  <2>1. \A k \in DOMAIN job \ {i} : JobOK(k)'
    BY <1>0, <1>2, <1>4 DEF ServerOK, JobOK
  <2>2. /\ job'[i].status # "gone"
        /\ job'[i].status = "done" => job'[i].landed
        /\ job'[i].queued => job'[i].tries < MaxTries /\ job'[i].status \in {"pending", "failed"}
    BY Worked
  <2>3. JobOK(i)'
    BY <1>2, <1>3, <1>4, <2>2 DEF JobOK
  <2> QED BY <1>2, <2>1, <2>3
<1>6. job' \in Seq(Jobs)
  <2>1. \A k \in DOMAIN job : job'[k] \in Jobs
    BY <1>0, <1>2, JobEntries
  <2> QED BY <1>0, <1>2, <2>1, StillJobs
<1>7. ServerOK'
  BY <1>0, <1>1, <1>2, <1>4, <1>5, <1>6 DEF ServerOK
<1>8. JobsKept
  BY <1>2, Worked DEF JobsKept
<1>9. PageOK /\ PageOK'
  BY <1>1 DEF Typed, PageOK
<1> QED BY <1>1, <1>7, <1>8, <1>9, TypedButImporting DEF PageOK

LEMMA DeletedTyped ==
  ASSUME Typed, NEW a \in Accounts, AccountDeleted(a)
  PROVE  Typed' /\ JobsKept
<1>0. ServerOK
  BY DEF Typed
<1>1. /\ UNCHANGED <<calls, step, wizard, form, asked, importing, known, mounts>>
      /\ job' = [i \in DOMAIN job |->
           IF job[i].request.account = a
           THEN [job[i] EXCEPT !.status = "gone", !.queued = FALSE] ELSE job[i]]
      /\ booked' = [booked EXCEPT ![a] = Null]
  BY DEF AccountDeleted, page
<1>2. booked' \in [Accounts -> Booked \cup {Null}] /\ Existing' = Existing \ {a}
  BY <1>0, <1>1 DEF ServerOK, Existing
<1>3. \A i \in DOMAIN job : job[i] \in Jobs
  BY <1>0, JobEntries
<1>4. \A i \in DOMAIN job :
        /\ job'[i] \in Jobs /\ job'[i].request = job[i].request /\ job'[i].landed = job[i].landed
        /\ IF job[i].request.account = a THEN job'[i].status = "gone" /\ ~job'[i].queued
           ELSE job'[i] = job[i]
  BY <1>1, <1>3 DEF Jobs, Statuses
<1>5. DOMAIN job' = DOMAIN job /\ job' = [i \in DOMAIN job |-> job'[i]]
  BY <1>1
<1>6. \A i \in DOMAIN job' : JobOK(i)'
  BY <1>0, <1>2, <1>4, <1>5 DEF ServerOK, JobOK
<1>7. job' \in Seq(Jobs)
  BY <1>0, <1>4, <1>5, StillJobs
<1>8. ServerOK'
  BY <1>0, <1>1, <1>2, <1>5, <1>6, <1>7 DEF ServerOK
<1>9. JobsKept
  BY <1>4, <1>5 DEF JobsKept
<1> QED BY <1>1, <1>8, <1>9, TypedButImporting DEF Typed, PageOK

LEMMA StutterTyped == ASSUME Typed, UNCHANGED vars PROVE Typed'
<1>1. UNCHANGED <<booked, job, calls, step, wizard, form, asked, importing, known, mounts>>
  BY DEF vars, server, page
<1>2. PageOK' /\ ServerOK'
  BY <1>1, ServerUntouched DEF Typed, PageOK
<1>3. StepOK'
  BY <1>1 DEF Typed, StepOK, includedRows, isRowSkipped
<1> QED BY <1>2, <1>3 DEF Typed

\* The steps by what they do to the jobs and the requests.
FormSteps ==
  \/ \E f \in Families : handleUploaded(f)
  \/ AccountsArrive \/ AccountsCollected
  \/ \E a \in Accounts : ChooseAccount(a)
  \/ ToggleClassification \/ handleAnalyze
ReviewSteps ==
  \/ handleAnalyzed \/ AnalyzeFails \/ handleBack \/ PressImport
  \/ \E l \in Lines : handleEditRow(l)
LeavingSteps == handleStartOver \/ Leave

LEMMA Steps ==
  ASSUME [Next]_vars
  PROVE  \/ UNCHANGED vars \/ FormSteps \/ ReviewSteps \/ LeavingSteps
         \/ DispatchEffect \/ useJobStatus
         \/ \E c \in calls : ExecuteImport(c)
         \/ \E c \in calls : RefuseImport(c)
         \/ \E i \in DOMAIN job : Work(i)
         \/ \E a \in Accounts : AccountDeleted(a)
  BY DEF Next, FormSteps, ReviewSteps, LeavingSteps

\* Those that only concern the page.
LEMMA PageSteps ==
  ASSUME UNCHANGED vars \/ FormSteps \/ ReviewSteps \/ LeavingSteps \/ useJobStatus
  PROVE  UNCHANGED <<booked, job, calls>>
  BY DEF vars, server, FormSteps, ReviewSteps, LeavingSteps, handleUploaded, AccountsArrive,
     AccountsCollected, ChooseAccount, ToggleClassification, handleAnalyze, handleAnalyzed,
     AnalyzeFails, handleBack, PressImport, handleEditRow, handleStartOver, Leave, useJobStatus

LEMMA JobsStay == ASSUME UNCHANGED job PROVE JobsKept
  BY DEF JobsKept

LEMMA TypedStep == Typed /\ [Next]_vars => Typed' /\ JobsKept
<1> SUFFICES ASSUME Typed, [Next]_vars PROVE Typed' /\ JobsKept
  OBVIOUS
<1>1. CASE UNCHANGED vars
  BY <1>1, StutterTyped, PageSteps, JobsStay
<1>2. CASE FormSteps
  <2>1. Typed'
    BY <1>2, FormTyped DEF FormSteps
  <2> QED BY <1>2, <2>1, PageSteps, JobsStay
<1>3. CASE ReviewSteps
  <2>1. Typed'
    BY <1>3, ReviewTyped DEF ReviewSteps
  <2> QED BY <1>3, <2>1, PageSteps, JobsStay
<1>4. CASE LeavingSteps
  <2>1. Afresh /\ UNCHANGED <<server, calls, known, mounts>>
    BY <1>4 DEF LeavingSteps, handleStartOver, Leave
  <2> QED BY <1>4, <2>1, AfreshTyped, PageSteps, JobsStay
<1>5. CASE DispatchEffect
  <2>1. UNCHANGED job
    BY <1>5 DEF DispatchEffect, server
  <2> QED BY <1>5, <2>1, DispatchTyped, JobsStay
<1>6. CASE useJobStatus
  BY <1>6, PollTyped, PageSteps, JobsStay
<1>7. ASSUME NEW c \in calls, ExecuteImport(c) PROVE Typed' /\ JobsKept
  BY <1>7, ExecuteTyped
<1>8. ASSUME NEW c \in calls, RefuseImport(c) PROVE Typed' /\ JobsKept
  <2>1. UNCHANGED job
    BY <1>8 DEF RefuseImport, server
  <2> QED BY <1>8, <2>1, RefuseTyped, JobsStay
<1>9. ASSUME NEW i \in DOMAIN job, Work(i) PROVE Typed' /\ JobsKept
  BY <1>9, WorkTyped
<1>10. ASSUME NEW a \in Accounts, AccountDeleted(a) PROVE Typed' /\ JobsKept
  BY <1>10, DeletedTyped
<1> QED BY <1>1, <1>2, <1>3, <1>4, <1>5, <1>6, <1>7, <1>8, <1>9, <1>10, Steps

LEMMA AlwaysTyped == Spec => []Typed
<1>1. Typed /\ [Next]_vars => Typed'
  BY TypedStep
<1> QED BY TypedInit, <1>1, PTL DEF Spec

\* What the wizard and the server keep has the right form: a step of the wizard
\* finds what it needs, a job is gone exactly when its account is, and only
\* lines that could be parsed are sent (ImportWizard.tsx, services/imports.py).
THEOREM TypeCorrect == Spec => []TypeOK
<1>1. Typed => TypeOK
  <2> SUFFICES ASSUME Typed PROVE TypeOK
    OBVIOUS
  <2>1. \A i \in DOMAIN job :
          /\ job[i].status \in Statuses
          /\ job[i].status = "gone" <=> job[i].request.account \notin Existing
          /\ job[i].tries \in 0..MaxTries
          /\ job[i].queued => job[i].status \in {"pending", "failed"}
          /\ job[i].status = "done" => job[i].landed
    BY JobEntries DEF Typed, ServerOK, JobOK, Jobs
  <2>2. \A c \in calls : c.account \in Accounts /\ c.rows \in (SUBSET (Lines \ Malformed)) \ {{}}
    BY DEF Typed, ServerOK, Calls
  <2>3. booked \in [Accounts -> Booked \cup {Null}]
    BY DEF Typed, ServerOK
  <2>4. /\ known \in (SUBSET Accounts) \cup {Null}
        /\ form # Null => form \in Forms
        /\ asked # Null => asked \in Forms
        /\ importing # Null => importing.mount \in 1..mounts
    BY DEF Typed, PageOK
  <2>5. /\ step \in Upload..Import
        /\ step # Upload => wizard.fileKey \in Families
        /\ step \in {Review, Import} => wizard.rows # Null /\ wizard.accountId \in Accounts
        /\ (step = MapColumns) = (form # Null)
        /\ asked # Null => step = MapColumns
        /\ (step = Import) = (importing # Null)
    BY NullAssumption DEF Typed, StepOK
  <2>6. importing # Null => importing.jobId \in DOMAIN job \cup {Null}
    BY DEF Typed, ServerOK
  <2> QED BY <2>1, <2>2, <2>3, <2>4, <2>5, <2>6 DEF TypeOK
<1> QED BY <1>1, AlwaysTyped, PTL

-----------------------------------------------------------------------------
(* From the button to the job. *)

\* Requests come from the effect, and become jobs one by one.
LEMMA Requests ==
  ASSUME Typed, [Next]_vars
  PROVE  \/ /\ calls' \subseteq calls /\ DOMAIN job' = DOMAIN job
            /\ \A i \in DOMAIN job : job'[i].request = job[i].request
         \/ DispatchEffect
         \/ \E c \in calls : ExecuteImport(c)
<1>1. CASE UNCHANGED <<job, calls>>
  BY <1>1
<1>2. ASSUME NEW c \in calls, RefuseImport(c) PROVE UNCHANGED job /\ calls' \subseteq calls
  BY <1>2 DEF RefuseImport, server
<1>3. ASSUME NEW i \in DOMAIN job, Work(i)
      PROVE  /\ DOMAIN job' = DOMAIN job /\ UNCHANGED calls
             /\ \A k \in DOMAIN job : job'[k].request = job[k].request
  <2>1. UNCHANGED calls
    BY <1>3 DEF Work
  <2> QED BY <1>3, <2>1, Worked
<1>4. ASSUME NEW a \in Accounts, AccountDeleted(a)
      PROVE  /\ DOMAIN job' = DOMAIN job /\ UNCHANGED calls
             /\ \A k \in DOMAIN job : job'[k].request = job[k].request
  <2>1. \A k \in DOMAIN job : job[k] \in Jobs
    BY JobEntries DEF Typed
  <2>2. /\ job' = [k \in DOMAIN job |->
             IF job[k].request.account = a
             THEN [job[k] EXCEPT !.status = "gone", !.queued = FALSE] ELSE job[k]]
        /\ UNCHANGED calls
    BY <1>4 DEF AccountDeleted
  <2> QED BY <2>1, <2>2 DEF Jobs
<1> QED BY <1>1, <1>2, <1>3, <1>4, Steps, PageSteps

LEMMA SentBy ==
  ASSUME Typed, [Next]_vars, NEW c \in Sent', c \notin Sent
  PROVE  DispatchEffect /\ ~importing.dispatched /\ c = executeRequest
<1>1. CASE /\ calls' \subseteq calls /\ DOMAIN job' = DOMAIN job
           /\ \A i \in DOMAIN job : job'[i].request = job[i].request
  BY <1>1 DEF Sent
<1>2. CASE DispatchEffect
  <2>1. UNCHANGED job
    BY <1>2 DEF DispatchEffect, server
  <2>2. calls' = IF importing.dispatched THEN calls ELSE calls \cup {executeRequest}
    BY <1>2 DEF DispatchEffect, hasDispatched
  <2> QED BY <1>2, <2>1, <2>2 DEF Sent
<1>3. ASSUME NEW d \in calls, ExecuteImport(d) PROVE c \in Sent
  <2>1. calls' \subseteq calls
    BY <1>3, Executed
  <2>2. PICK new \in Jobs : new.request = d /\ job' = Append(job, new)
    BY <1>3, Executed
  <2>3. /\ \A i \in DOMAIN job : job'[i] = job[i]
        /\ DOMAIN job' = DOMAIN job \cup {Len(job')}
        /\ job'[Len(job')] = new
    BY <2>2, Appended DEF Typed
  <2> QED BY <2>1, <2>2, <2>3 DEF Sent
<1> QED BY <1>1, <1>2, <1>3, Requests

\* The ref is cleared by a new mount only.
LEMMA Mounts ==
  ASSUME Typed, [Next]_vars
  PROVE  \/ DispatchEffect
         \/ /\ mounts' = mounts
            /\ importing' # Null =>
                 importing # Null /\ importing'.dispatched = importing.dispatched
         \/ PressImport /\ mounts' = mounts + 1 /\ UNCHANGED <<calls, job>>
<1>0. importing # Null => importing \in Importing
  BY DEF Typed, PageOK
<1>1. CASE UNCHANGED <<mounts, importing>>
  BY <1>1
<1>2. CASE mounts' = mounts /\ importing' = Null
  BY <1>2
<1>3. CASE PressImport
  BY <1>3 DEF PressImport, server
<1>4. ASSUME NEW c, NEW jobId \in Nat \cup {Null}, NEW error \in BOOLEAN, Told(c, jobId, error)
      PROVE  importing' # Null => importing # Null /\ importing'.dispatched = importing.dispatched
  <2>1. \/ importing' = importing
        \/ importing # Null /\ importing' = [importing EXCEPT !.jobId = jobId, !.error = error]
    BY <1>4 DEF Told
  <2>2. CASE importing # Null /\ importing' = [importing EXCEPT !.jobId = jobId, !.error = error]
    <3>1. importing \in Importing
      BY <1>0, <2>2
    <3>2. importing'.dispatched = importing.dispatched
      BY <2>2, <3>1, Zenon DEF Importing
    <3> QED BY <2>2, <3>2
  <2> QED BY <2>1, <2>2
<1>5. CASE useJobStatus
  <2>1. /\ mounts' = mounts /\ importing # Null
        /\ importing' = [importing EXCEPT !.seen = job[importing.jobId].status]
    BY <1>5 DEF useJobStatus, Polling
  <2> QED BY <1>0, <2>1 DEF Importing
<1>6. ASSUME NEW c \in calls, ExecuteImport(c) \/ RefuseImport(c)
      PROVE  /\ mounts' = mounts
             /\ importing' # Null =>
                  importing # Null /\ importing'.dispatched = importing.dispatched
  <2>1. /\ mounts' = mounts
        /\ Told(c, Len(job'), FALSE) \/ Told(c, Null, TRUE)
    BY <1>6 DEF ExecuteImport, RefuseImport
  <2>2. ExecuteImport(c) => Len(job') \in Nat
    BY <1>6, Executed, Appended, JobEntries DEF Typed
  <2>3. RefuseImport(c) => Told(c, Null, TRUE)
    BY DEF RefuseImport
  <2> QED BY <1>4, <1>6, <2>1, <2>2, <2>3
<1>7. CASE UNCHANGED vars \/ FormSteps
  <2>1. UNCHANGED <<mounts, importing>>
    BY <1>7 DEF vars, page, FormSteps, handleUploaded, AccountsArrive, AccountsCollected,
       ChooseAccount, ToggleClassification, handleAnalyze
  <2> QED BY <1>1, <2>1
<1>8. CASE ReviewSteps
  BY <1>1, <1>3, <1>8 DEF ReviewSteps, handleAnalyzed, AnalyzeFails, handleBack, handleEditRow
<1>9. CASE LeavingSteps
  BY <1>2, <1>9 DEF LeavingSteps, handleStartOver, Leave, Afresh
<1>10. ASSUME \/ \E i \in DOMAIN job : Work(i)
              \/ \E a \in Accounts : AccountDeleted(a)
       PROVE  UNCHANGED <<mounts, importing>>
  BY <1>10, Zenon DEF Work, AccountDeleted, page
<1> QED BY <1>1, <1>5, <1>6, <1>7, <1>8, <1>9, <1>10, Steps

\* A request carries the number of a mount there has been; as long as the ref is
\* not set, there is none of this mount.
MountsOK ==
  \A c \in Sent :
    /\ c.mount \in 1..mounts
    /\ importing # Null /\ ~importing.dispatched => c.mount # mounts

LEMMA MountsStep == Typed /\ MountsOK /\ [Next]_vars => MountsOK'
<1> SUFFICES ASSUME Typed, MountsOK, [Next]_vars, NEW c \in Sent'
             PROVE  /\ c.mount \in 1..mounts'
                    /\ importing' # Null /\ ~importing'.dispatched => c.mount # mounts'
  BY DEF MountsOK
<1>0. mounts \in Nat /\ \A d \in Sent : d.mount \in 1..mounts
  BY DEF Typed, PageOK, MountsOK
<1>1. CASE DispatchEffect
  <2>1. importing \in Importing /\ importing # Null /\ importing.mount = mounts /\ mounts # 0
    BY <1>1, RequestTyped DEF DispatchEffect, Typed, PageOK
  <2>2. mounts' = mounts /\ importing'.dispatched
    BY <1>1, <2>1 DEF DispatchEffect, Importing
  <2>3. executeRequest.mount = mounts
    BY <2>1 DEF executeRequest
  <2> QED BY <1>0, <2>1, <2>2, <2>3, SentBy
<1>2. CASE PressImport /\ mounts' = mounts + 1 /\ UNCHANGED <<calls, job>>
  <2>1. c \in Sent
    BY <1>2 DEF Sent
  <2> QED BY <1>0, <1>2, <2>1
<1>3. CASE ~DispatchEffect /\ mounts' = mounts /\
           (importing' # Null =>
              importing # Null /\ importing'.dispatched = importing.dispatched)
  <2>1. c \in Sent
    BY <1>3, SentBy
  <2> QED BY <1>3, <2>1 DEF MountsOK
<1> QED BY <1>1, <1>2, <1>3, Mounts

LEMMA OneStep == Typed /\ MountsOK /\ OneJobPerPress /\ [Next]_vars => OneJobPerPress'
<1> SUFFICES ASSUME Typed, MountsOK, OneJobPerPress, [Next]_vars PROVE OneJobPerPress'
  OBVIOUS
<1>1. CASE /\ calls' \subseteq calls /\ DOMAIN job' = DOMAIN job
           /\ \A i \in DOMAIN job : job'[i].request = job[i].request
  BY <1>1 DEF OneJobPerPress
<1>2. CASE DispatchEffect
  <2>1. UNCHANGED job
    BY <1>2 DEF DispatchEffect, server
  <2>2. calls' = IF importing.dispatched THEN calls ELSE calls \cup {executeRequest}
    BY <1>2 DEF DispatchEffect, hasDispatched
  <2>3. executeRequest.mount = mounts /\ importing # Null
    BY <1>2, RequestTyped DEF DispatchEffect, executeRequest, Typed, PageOK
  <2>4. ~importing.dispatched => \A c \in Sent : c.mount # mounts
    BY <2>3 DEF MountsOK
  <2> QED BY <2>1, <2>2, <2>3, <2>4 DEF OneJobPerPress, Sent
<1>3. ASSUME NEW c \in calls, ExecuteImport(c) PROVE OneJobPerPress'
  <2>1. calls' = calls \ {c}
    BY <1>3, Executed
  <2>2. PICK new \in Jobs : new.request = c /\ job' = Append(job, new)
    BY <1>3, Executed
  <2>3. /\ \A i \in DOMAIN job : job'[i].request = job[i].request
        /\ DOMAIN job' = DOMAIN job \cup {Len(job')}
        /\ job'[Len(job')].request = c
    BY <2>2, Appended DEF Typed
  <2> DEFINE mount(i) == job[i].request.mount
             next(i) == job'[i].request.mount
             n == Len(job')
  <2>4. /\ \A i \in DOMAIN job : next(i) = mount(i)
        /\ DOMAIN job' = DOMAIN job \cup {n} /\ next(n) = c.mount
    BY <2>3
  <2>5. /\ \A i, j \in DOMAIN job : mount(i) = mount(j) => i = j
        /\ \A d \in calls, i \in DOMAIN job : mount(i) # d.mount
        /\ \A d, e \in calls : d.mount = e.mount => d = e
    BY DEF OneJobPerPress
  <2> HIDE DEF mount, next, n
  <2>6. /\ \A i, j \in DOMAIN job' : next(i) = next(j) => i = j
        /\ \A d \in calls', i \in DOMAIN job' : next(i) # d.mount
        /\ \A d, e \in calls' : d.mount = e.mount => d = e
    BY <2>1, <2>4, <2>5
  <2> QED BY <2>6 DEF OneJobPerPress, next
<1> QED BY <1>1, <1>2, <1>3, Requests

\* However often React runs the effect, and whatever becomes of the request or of
\* its answer: one press of the button is one import (ImportStep.tsx, its ref).
THEOREM OnePerPress == Spec => []OneJobPerPress
<1>1. Init => MountsOK /\ OneJobPerPress
  BY DEF Init, MountsOK, OneJobPerPress, Sent
<1>2. Typed /\ MountsOK /\ OneJobPerPress /\ [Next]_vars => (MountsOK /\ OneJobPerPress)'
  BY MountsStep, OneStep
<1> QED BY <1>1, <1>2, AlwaysTyped, PTL DEF Spec

-----------------------------------------------------------------------------
(* The classification. *)

LEMMA DefaultShown ==
  ASSUME NEW f \in Forms, NEW accounts
  PROVE  /\ WithDefault(f, accounts).accountId = f.accountId
         /\ WithDefault(f, accounts).toggled = f.toggled
         /\ f.toggled => WithDefault(f, accounts) = f
         /\ ~f.toggled =>
              WithDefault(f, accounts).positive = (f.accountId \in accounts \cap Credit)
<1> DEFINE positive == f.accountId \in accounts \cap Credit
<1> HIDE DEF positive
<1>1. WithDefault(f, accounts) = IF f.toggled THEN f ELSE [f EXCEPT !.positive = positive]
  BY DEF WithDefault, positive
<1>2. /\ [f EXCEPT !.positive = positive].accountId = f.accountId
      /\ [f EXCEPT !.positive = positive].toggled = f.toggled
      /\ [f EXCEPT !.positive = positive].positive = positive
  BY Zenon DEF Forms
<1>3. positive = (f.accountId \in accounts \cap Credit)
  BY DEF positive
<1> QED BY <1>1, <1>2, <1>3, Zenon

\* What the box shows: the choice, or the convention of the account.
Shown(f, accounts, chosen) ==
  /\ f.toggled => f.positive = chosen
  /\ ~f.toggled => f.positive = (accounts # Null /\ f.accountId \in accounts \cap Credit)

LEMMA ShownIsConvention ==
  ASSUME Typed
  PROVE  ConventionAsShown <=> (step = MapColumns => Shown(form, known, choice))
<1>1. form.toggled \in BOOLEAN \/ step # MapColumns
  <2>1. step = MapColumns => form \in Forms
    BY DEF Typed, PageOK, StepOK
  <2> QED BY <2>1 DEF Forms
<1> QED BY <1>1, Zenon DEF ConventionAsShown, Shown, Convention

LEMMA ConventionStep ==
  ASSUME Typed, step = MapColumns => Shown(form, known, choice), [Next]_vars, step' = MapColumns
  PROVE  Shown(form, known, choice)'
<1>0. Existing # Null /\ (form # Null => form \in Forms) /\ (form # Null <=> step = MapColumns)
  <2>1. Existing \in SUBSET Accounts
    BY DEF Existing
  <2> QED BY <2>1, AccountsAssumption DEF Typed, PageOK, StepOK
<1>1. ASSUME UNCHANGED <<form, known, choice, step>> PROVE Shown(form, known, choice)'
  BY <1>1 DEF Shown
<1>2. ASSUME NEW account, form' = MapColumnsStep(account), UNCHANGED known
      PROVE  Shown(form, known, choice)'
  <2>1. /\ form'.accountId = account /\ form'.toggled = FALSE
        /\ form'.positive = Convention(account)
    BY <1>2, Zenon DEF MapColumnsStep
  <2> QED BY <1>2, <2>1, Zenon DEF Shown, Convention
<1>3. ASSUME NEW f \in Forms, NEW accounts, accounts # Null,
             form' = WithDefault(f, accounts), known' = accounts, choice' = choice,
             f.toggled => f.positive = choice
      PROVE  Shown(form, known, choice)'
  <2> DEFINE g == WithDefault(f, accounts)
             credit == f.accountId \in accounts \cap Credit
  <2>1. /\ g.accountId = f.accountId /\ g.toggled = f.toggled
        /\ f.toggled => g = f
        /\ ~f.toggled => g.positive = credit
    BY DefaultShown, Zenon
  <2>2. credit = (accounts # Null /\ g.accountId \in accounts \cap Credit)
    <3>1. g.accountId = f.accountId
      BY <2>1
    <3> HIDE DEF g
    <3> QED BY <1>3, <3>1
  <2> HIDE DEF g, credit
  <2>3. g.toggled => g.positive = choice
    BY <1>3, <2>1, Zenon
  <2>4. ~g.toggled => g.positive = (accounts # Null /\ g.accountId \in accounts \cap Credit)
    BY <2>1, <2>2, Zenon
  <2>5. Shown(g, accounts, choice)
    BY <2>3, <2>4, Zenon DEF Shown
  <2>6. form' = g /\ known' = accounts /\ choice' = choice
    BY <1>3 DEF g
  <2> QED BY <2>5, <2>6 DEF Shown
<1>4. CASE AccountsArrive
  <2>1. step = MapColumns /\ form \in Forms /\ form # Null
    BY <1>0, <1>4 DEF AccountsArrive
  <2>2. form' = WithDefault(form, Existing) /\ known' = Existing /\ choice' = choice
    BY <1>4, <2>1 DEF AccountsArrive
  <2>3. form.toggled => form.positive = choice
    BY <2>1 DEF Shown
  <2> QED BY <1>0, <1>3, <2>1, <2>2, <2>3
<1>5. ASSUME NEW a \in Accounts, ChooseAccount(a) PROVE Shown(form, known, choice)'
  <2>1. step = MapColumns /\ form \in Forms /\ known # Null
    BY <1>0, <1>5 DEF ChooseAccount
  <2> DEFINE f == [form EXCEPT !.accountId = a]
  <2>2. f \in Forms /\ f.toggled = form.toggled /\ f.positive = form.positive
    BY <2>1, Zenon DEF Forms
  <2>3. form' = WithDefault(f, known) /\ UNCHANGED <<known, choice>>
    BY <1>5 DEF ChooseAccount
  <2>4. f.toggled => f.positive = choice
    BY <2>1, <2>2 DEF Shown
  <2> HIDE DEF f
  <2> QED BY <1>3, <2>1, <2>2, <2>3, <2>4
<1>6. CASE ToggleClassification
  <2>1. form \in Forms
    BY <1>0, <1>6 DEF ToggleClassification
  <2>2. form'.toggled = TRUE /\ choice' = form'.positive
    BY <1>6, <2>1, Zenon DEF ToggleClassification, Forms
  <2> QED BY <2>2, Zenon DEF Shown
<1>7. CASE \/ UNCHANGED vars \/ AccountsCollected \/ handleAnalyze
           \/ \E f \in Families : handleUploaded(f)
  BY <1>1, <1>2, <1>7 DEF vars, page, handleUploaded, AccountsCollected, handleAnalyze
<1>8. CASE ReviewSteps
  BY <1>1, <1>2, <1>8, Numbered DEF ReviewSteps, handleAnalyzed, AnalyzeFails, handleBack,
     PressImport, handleEditRow, Numbers
<1>9. CASE LeavingSteps
  BY <1>9, Numbered DEF LeavingSteps, handleStartOver, Leave, Afresh, Numbers
<1>10. CASE DispatchEffect \/ useJobStatus
  BY <1>1, <1>10 DEF DispatchEffect, useJobStatus
<1>11. ASSUME NEW c \in calls, ExecuteImport(c) \/ RefuseImport(c)
       PROVE  Shown(form, known, choice)'
  BY <1>1, <1>11 DEF ExecuteImport, RefuseImport
<1>12. ASSUME \/ \E i \in DOMAIN job : Work(i)
              \/ \E a \in Accounts : AccountDeleted(a)
       PROVE  Shown(form, known, choice)'
  BY <1>1, <1>12, Zenon DEF Work, AccountDeleted, page
<1> QED BY <1>4, <1>5, <1>6, <1>7, <1>8, <1>9, <1>10, <1>11, <1>12, Steps DEF FormSteps

\* In whatever order the accounts arrive, the account is chosen and the box is
\* ticked, it shows the user's choice, and before there is one the convention
\* of the account (MapColumnsStep.tsx, its effect and its two handlers).
THEOREM ConventionShown == Spec => []ConventionAsShown
<1> DEFINE Inv == step = MapColumns => Shown(form, known, choice)
<1>1. Init => Inv
  BY Numbered DEF Init, Numbers
<1>2. Typed /\ Inv /\ [Next]_vars => Inv'
  BY ConventionStep
<1>3. Typed /\ Inv => ConventionAsShown
  BY ShownIsConvention
<1> HIDE DEF Inv
<1> QED BY <1>1, <1>2, <1>3, AlwaysTyped, PTL DEF Spec

-----------------------------------------------------------------------------
(* What a request was analysed for, and what it may bring. *)

\* The wizard's analysis only comes from the answer; what is sent is what was
\* analysed, without the rows the user sees as skipped.
LEMMA AnalysisKept ==
  ASSUME Typed, [Next]_vars, step' \in {Review, Import}
  PROVE  \/ handleAnalyzed
         \/ /\ step \in {Review, Import}
            /\ wizard'.rows = wizard.rows /\ wizard'.accountId = wizard.accountId
            /\ wizard'.fileKey = wizard.fileKey
<1>1. CASE UNCHANGED <<step, wizard>>
  BY <1>1
<1>2. CASE UNCHANGED vars \/ FormSteps
  <2>1. \A f \in Families : ~handleUploaded(f)
    BY Numbered DEF handleUploaded, Numbers
  <2>2. (\A f \in Families : ~handleUploaded(f)) => UNCHANGED <<step, wizard>>
    BY <1>2 DEF vars, page, FormSteps, AccountsArrive, AccountsCollected, ChooseAccount,
       ToggleClassification, handleAnalyze
  <2> QED BY <1>1, <2>1, <2>2
<1>3. CASE ReviewSteps
  <2>1. CASE PressImport
    BY <2>1 DEF PressImport
  <2>2. ASSUME NEW l \in Lines, handleEditRow(l)
        PROVE  /\ step = Review /\ wizard'.rows = wizard.rows
               /\ wizard'.accountId = wizard.accountId /\ wizard'.fileKey = wizard.fileKey
    <3>1. wizard \in Kept /\ step = Review /\ wizard' = [wizard EXCEPT !.rowEdits[l] = ~@]
      BY <2>2 DEF handleEditRow, Typed, PageOK
    <3> QED BY <3>1 DEF Kept
  <2> QED BY <1>1, <1>3, <2>1, <2>2, Numbered DEF ReviewSteps, AnalyzeFails, handleBack, Numbers
<1>4. CASE LeavingSteps
  BY <1>4, Numbered DEF LeavingSteps, handleStartOver, Leave, Afresh, Numbers
<1>5. CASE DispatchEffect \/ useJobStatus
  BY <1>1, <1>5 DEF DispatchEffect, useJobStatus
<1>6. ASSUME NEW c \in calls, ExecuteImport(c) \/ RefuseImport(c) PROVE UNCHANGED <<step, wizard>>
  BY <1>6 DEF ExecuteImport, RefuseImport
<1>7. ASSUME \/ \E i \in DOMAIN job : Work(i)
             \/ \E a \in Accounts : AccountDeleted(a)
      PROVE  UNCHANGED <<step, wizard>>
  BY <1>7, Zenon DEF Work, AccountDeleted, page
<1> QED BY <1>1, <1>2, <1>3, <1>4, <1>5, <1>6, <1>7, Steps

LEMMA AnalysisOf ==
  ASSUME Typed, handleAnalyzed
  PROVE  /\ wizard'.rows = AnalyzeResponse /\ wizard'.accountId = AnalyzeResponse.against
         /\ wizard'.fileKey = AnalyzeResponse.family
<1>1. wizard \in Kept
  BY DEF Typed, PageOK
<1>2. AnalyzeResponse.against = asked.accountId /\ AnalyzeResponse.family = wizard.fileKey
  BY DEF AnalyzeResponse
<1> QED BY <1>1, <1>2 DEF handleAnalyzed, AnalyzedFor, Kept

LEMMA RequestOf ==
  ASSUME Typed, step = Import
  PROVE  /\ executeRequest.account = wizard.accountId /\ executeRequest.analysis = wizard.rows
         /\ executeRequest.family = wizard.fileKey
         /\ \A l \in executeRequest.rows : ~executeRequest.edits[l]
  BY DEF executeRequest, includedRows, isRowSkipped

ForOne ==
  /\ step \in {Review, Import} =>
       wizard.accountId = wizard.rows.against /\ wizard.fileKey = wizard.rows.family
  /\ \A c \in Sent : c.account = c.analysis.against /\ c.family = c.analysis.family

LEMMA ForOneStep == Typed /\ ForOne /\ [Next]_vars => ForOne'
<1> SUFFICES ASSUME Typed, ForOne, [Next]_vars PROVE ForOne'
  OBVIOUS
<1>1. ASSUME step' \in {Review, Import}
      PROVE  wizard'.accountId = wizard'.rows.against /\ wizard'.fileKey = wizard'.rows.family
  BY <1>1, AnalysisKept, AnalysisOf DEF ForOne
<1>2. ASSUME NEW c \in Sent', c \notin Sent
      PROVE  c.account = c.analysis.against /\ c.family = c.analysis.family
  BY <1>2, SentBy, RequestOf DEF DispatchEffect, ForOne
<1> QED BY <1>1, <1>2 DEF ForOne

LEMMA AlwaysForOne == Spec => []ForOne
<1>1. Init => ForOne
  BY Numbered DEF Init, ForOne, Sent, Numbers
<1> QED BY <1>1, ForOneStep, AlwaysTyped, PTL DEF Spec

\* The rows go to the account and the family their duplicates were looked for in: a
\* choice made while the analysis is under way has no part in it (MapColumnsStep.tsx,
\* handleAnalyzed in ImportWizard.tsx).
THEOREM RowsToTheirAccount == Spec => []AnalysedForItsAccount
<1>1. ForOne => AnalysedForItsAccount
  BY DEF ForOne, AnalysedForItsAccount, Sent
<1> QED BY <1>1, AlwaysForOne, PTL

\* A job that has landed has its rows in the account, as long as there is one.
InAccount(request) ==
  \A l \in request.rows : booked[request.account][<<request.family, Value[l]>>] > 0

LandedBooked ==
  \A i \in DOMAIN job : job[i].landed /\ job[i].status # "gone" => InAccount(job[i].request)

LEMMA LandedBookedStep == Typed /\ LandedBooked /\ [Next]_vars => LandedBooked'
<1> SUFFICES ASSUME Typed, LandedBooked, [Next]_vars PROVE LandedBooked'
  OBVIOUS
<1>0. /\ DOMAIN job = 1..Len(job)
      /\ \A i \in DOMAIN job : job[i] \in Jobs /\ job[i].request \in Calls /\ JobOK(i)
  BY JobEntries DEF Typed, ServerOK, Jobs
<1>1. CASE UNCHANGED <<booked, job>>
  BY <1>1 DEF LandedBooked, InAccount
<1>2. ASSUME NEW c \in calls, ExecuteImport(c) PROVE LandedBooked'
  <2>1. PICK new \in Jobs : ~new.landed /\ job' = Append(job, new)
    BY <1>2, Executed
  <2>2. /\ \A i \in DOMAIN job : job'[i] = job[i]
        /\ DOMAIN job' = DOMAIN job \cup {Len(job')}
        /\ ~job'[Len(job')].landed
    BY <2>1, Appended DEF Typed
  <2>3. UNCHANGED booked
    BY <1>2, Executed
  <2> QED BY <2>2, <2>3, Zenon DEF LandedBooked, InAccount
<1>3. ASSUME NEW i \in DOMAIN job, Work(i) PROVE LandedBooked'
  <2>1. /\ DOMAIN job' = DOMAIN job
        /\ \A k \in DOMAIN job \ {i} : job'[k] = job[k]
        /\ job[i].queued /\ job'[i].request = job[i].request
    BY <1>3, Worked
  <2>2. job[i].status # "gone"
    BY <1>0, <2>1 DEF JobOK
  <2>3. CASE booked' = Lands(job[i].request)
    <3>1. job[i].request \in Calls /\ job[i].request.account \in Existing
      BY <1>0, <2>2 DEF JobOK
    <3>2. /\ \A a \in Existing, at \in Places : booked'[a][at] >= booked[a][at]
          /\ \A l \in job[i].request.rows :
               booked'[job[i].request.account][<<job[i].request.family, Value[l]>>] > 0
      BY <2>3, <3>1, Landed
    <3>3. booked' \in [Accounts -> Booked \cup {Null}] /\ Existing' = Existing
      BY <2>3, <3>1, Landed
    <3>4. \A a \in Existing, at \in Places : booked[a][at] \in Nat /\ booked'[a][at] \in Nat
      BY <3>3 DEF Typed, ServerOK, Existing, Booked, Places
    <3>5. ASSUME NEW k \in DOMAIN job \ {i}, job[k].landed, job[k].status # "gone",
                 NEW l \in job[k].request.rows
          PROVE  booked'[job[k].request.account][<<job[k].request.family, Value[l]>>] > 0
      <4> DEFINE a == job[k].request.account
                 at == <<job[k].request.family, Value[l]>>
      <4>1. a \in Existing /\ at \in Places
        BY <1>0, <3>5 DEF JobOK, Calls, Values, Places
      <4>2. booked[a][at] > 0
        BY <3>5 DEF LandedBooked, InAccount
      <4> HIDE DEF a, at
      <4>3. booked'[a][at] > 0
        BY <3>2, <3>4, <4>1, <4>2
      <4> QED BY <4>3 DEF a, at
    <3> QED BY <2>1, <3>2, <3>5 DEF LandedBooked, InAccount
  <2>4. CASE UNCHANGED booked /\ job'[i].landed = job[i].landed
    BY <2>1, <2>2, <2>4 DEF LandedBooked, InAccount
  <2> QED BY <1>3, <2>3, <2>4, Worked
<1>4. ASSUME NEW a \in Accounts, AccountDeleted(a) PROVE LandedBooked'
  <2>1. /\ job' = [i \in DOMAIN job |->
             IF job[i].request.account = a
             THEN [job[i] EXCEPT !.status = "gone", !.queued = FALSE] ELSE job[i]]
        /\ booked' = [booked EXCEPT ![a] = Null]
    BY <1>4 DEF AccountDeleted
  <2>2. \A b \in Accounts \ {a} : booked'[b] = booked[b]
    BY <2>1 DEF Typed, ServerOK
  <2>3. \A i \in DOMAIN job :
          IF job[i].request.account = a THEN job'[i].status = "gone" ELSE job'[i] = job[i]
    BY <1>0, <2>1 DEF Jobs
  <2>4. DOMAIN job' = DOMAIN job /\ \A i \in DOMAIN job : job[i].request.account \in Accounts
    BY <1>0, <2>1 DEF Calls
  <2> QED BY <2>2, <2>3, <2>4 DEF LandedBooked, InAccount
<1>5. CASE DispatchEffect
  BY <1>1, <1>5 DEF DispatchEffect, server
<1>6. ASSUME NEW c \in calls, RefuseImport(c) PROVE LandedBooked'
  BY <1>1, <1>6 DEF RefuseImport, server
<1> QED BY <1>1, <1>2, <1>3, <1>4, <1>5, <1>6, Steps, PageSteps

\* The duplicates of an analysis are those of the jobs whose rows were in by then:
\* what such a job brought to the same account under the same family is marked.
SettledOK(A) ==
  /\ A.settled \subseteq DOMAIN job
  /\ \A i \in A.settled :
       job[i].request.account = A.against /\ job[i].request.family = A.family
         => \A l \in job[i].request.rows : A.flag[l] = "duplicate"

Settled ==
  /\ step \in {Review, Import} => SettledOK(wizard.rows)
  /\ \A c \in Sent : SettledOK(c.analysis) /\ \A l \in c.rows : ~c.edits[l]

LEMMA SettledStays ==
  ASSUME Typed, [Next]_vars, NEW A, SettledOK(A)
  PROVE  SettledOK(A)'
<1>1. JobsKept
  BY TypedStep
<1> QED BY <1>1 DEF JobsKept, SettledOK

LEMMA SettledAtFirst ==
  ASSUME Typed, LandedBooked, [Next]_vars, handleAnalyzed
  PROVE  SettledOK(wizard.rows)'
<1> DEFINE account == asked.accountId
           family == wizard.fileKey
           A == AnalyzeResponse
<1>1. wizard'.rows = A /\ UNCHANGED job
  BY AnalysisOf DEF handleAnalyzed, server
<1>2. ASSUME NEW i \in DOMAIN job, job[i].landed, job[i].status # "gone",
             job[i].request.account = account, job[i].request.family = family,
             NEW l \in job[i].request.rows
      PROVE  flag_duplicate_rows(family, account)[l] = "duplicate"
  <2>1. job[i].request \in Calls /\ JobOK(i)
    BY JobEntries DEF Typed, ServerOK, Jobs
  <2>2. l \in Lines \ Malformed /\ account \in Existing
    BY <1>2, <2>1 DEF Calls, JobOK
  <2>3. booked[account][<<family, Value[l]>>] > 0
    BY <1>2 DEF LandedBooked, InAccount
  <2> QED BY <2>2, <2>3 DEF flag_duplicate_rows
<1>3. /\ A.settled = {i \in DOMAIN job : job[i].landed /\ job[i].status # "gone"}
      /\ A.against = account /\ A.family = family
      /\ A.flag = flag_duplicate_rows(family, account)
  BY DEF AnalyzeResponse
<1> HIDE DEF A, account, family
<1>4. SettledOK(A)
  BY <1>2, <1>3 DEF SettledOK
<1> QED BY <1>1, <1>4 DEF SettledOK

LEMMA SettledStep == Typed /\ LandedBooked /\ Settled /\ [Next]_vars => Settled'
<1> SUFFICES ASSUME Typed, LandedBooked, Settled, [Next]_vars PROVE Settled'
  OBVIOUS
<1>1. ASSUME step' \in {Review, Import} PROVE SettledOK(wizard.rows)'
  <2>1. CASE handleAnalyzed
    BY <2>1, SettledAtFirst
  <2>2. CASE step \in {Review, Import} /\ wizard'.rows = wizard.rows
    <3>1. PICK A : A = wizard.rows
      OBVIOUS
    <3>2. SettledOK(A)
      BY <2>2, <3>1 DEF Settled
    <3>3. SettledOK(A)'
      BY <3>2, SettledStays
    <3> QED BY <2>2, <3>1, <3>3 DEF SettledOK
  <2> QED BY <1>1, <2>1, <2>2, AnalysisKept
<1>2. ASSUME NEW c \in Sent' PROVE SettledOK(c.analysis)' /\ \A l \in c.rows : ~c.edits[l]
  <2>1. SettledOK(c.analysis) /\ \A l \in c.rows : ~c.edits[l]
    <3>1. CASE c \in Sent
      BY <3>1 DEF Settled
    <3>2. CASE c \notin Sent
      <4>1. step = Import /\ c = executeRequest
        BY <3>2, SentBy DEF DispatchEffect
      <4> QED BY <4>1, RequestOf DEF Settled
    <3> QED BY <3>1, <3>2
  <2> QED BY <2>1, SettledStays
<1> QED BY <1>1, <1>2 DEF Settled

LEMMA AlwaysSettled == Spec => []Settled
<1>1. Init => LandedBooked /\ Settled
  BY Numbered DEF Init, LandedBooked, Settled, Sent, Numbers
<1>2. Typed /\ LandedBooked /\ Settled /\ [Next]_vars => (LandedBooked /\ Settled)'
  BY LandedBookedStep, SettledStep
<1> QED BY <1>1, <1>2, AlwaysTyped, PTL DEF Spec

\* A statement that is imported again under the same family brings a line to an
\* account twice only if the first import was not in when the second was analysed,
\* or the user put the line back in, whatever the job's status says
\* (flag_duplicate_rows in services/imports.py, which compares within a family,
\* handleAnalyzed and ReviewStep.tsx).
THEOREM NoDoubleUnseen == Spec => []NoBlindDouble
<1>1. Settled /\ ForOne => NoBlindDouble
  <2> SUFFICES ASSUME Settled, ForOne, NEW i \in DOMAIN job, NEW j \in DOMAIN job, NEW l \in Lines,
                      BroughtTwice(i, j, l)
               PROVE  PutBackIn(l, job[j].request)
    BY DEF NoBlindDouble
  <2>0. /\ i \in job[j].request.analysis.settled
        /\ job[i].request.account = job[j].request.account
        /\ job[i].request.family = job[j].request.family
        /\ l \in job[i].request.rows \cap job[j].request.rows
    BY DEF BroughtTwice
  <2>1. job[j].request \in Sent
    BY DEF Sent
  <2>2. /\ job[i].request.account = job[j].request.analysis.against
        /\ job[i].request.family = job[j].request.analysis.family
    BY <2>0, <2>1 DEF ForOne
  <2>3. SettledOK(job[j].request.analysis) /\ ~job[j].request.edits[l]
    BY <2>0, <2>1 DEF Settled
  <2> QED BY <2>0, <2>2, <2>3 DEF SettledOK, PutBackIn
<1> QED BY <1>1, AlwaysSettled, AlwaysForOne, PTL

-----------------------------------------------------------------------------
(* What the last step waits for, whatever fails. *)

\* The job is with the worker, has ended or has been tried: it does not wait for a
\* send that never came.
Moving(i) == \/ job[i].queued \/ job[i].status \in {"done", "failed", "gone"}
             \/ job[i].tries > 0

\* A mounted ImportStep that has not been told of an error: its effect has not
\* run, its request is on the way, or it knows its job.
Reasons ==
  importing # Null =>
    /\ importing.effects = 0 => ~importing.dispatched
    /\ ~importing.error =>
         \/ importing.effects = 0
         \/ \E c \in calls : c.mount = importing.mount
         \/ importing.jobId # Null /\ Moving(importing.jobId)

LEMMA MovingStays ==
  ASSUME Typed, [Next]_vars, NEW i \in DOMAIN job, Moving(i) PROVE Moving(i)'
<1>0. job[i] \in Jobs
  BY JobEntries DEF Typed
<1>1. CASE UNCHANGED job
  BY <1>1 DEF Moving
<1>2. ASSUME NEW c \in calls, ExecuteImport(c) PROVE Moving(i)'
  <2>1. PICK new \in Jobs : job' = Append(job, new)
    BY <1>2, Executed
  <2>2. job'[i] = job[i]
    BY <2>1, Appended DEF Typed
  <2> QED BY <2>2 DEF Moving
<1>3. ASSUME NEW k \in DOMAIN job, Work(k) PROVE Moving(i)'
  <2>1. job'[i] = job[i] \/ job'[i].tries > 0
    BY <1>3, Worked
  <2> QED BY <2>1 DEF Moving
<1>4. ASSUME NEW a \in Accounts, AccountDeleted(a) PROVE Moving(i)'
  <2>1. job'[i] = IF job[i].request.account = a
                  THEN [job[i] EXCEPT !.status = "gone", !.queued = FALSE] ELSE job[i]
    BY <1>4 DEF AccountDeleted
  <2>2. job'[i] = job[i] \/ job'[i].status = "gone"
    BY <1>0, <2>1 DEF Jobs
  <2> QED BY <2>2 DEF Moving
<1>5. CASE DispatchEffect
  BY <1>1, <1>5 DEF DispatchEffect, server
<1>6. ASSUME NEW c \in calls, RefuseImport(c) PROVE Moving(i)'
  BY <1>1, <1>6 DEF RefuseImport, server
<1> QED BY <1>1, <1>2, <1>3, <1>4, <1>5, <1>6, Steps, PageSteps

\* What the answer to a request tells the step that sent it.
LEMMA AnswerReasons ==
  ASSUME Typed, Reasons, [Next]_vars, NEW c \in calls, calls' = calls \ {c},
         NEW jobId \in Nat \cup {Null}, NEW error \in BOOLEAN, Told(c, jobId, error),
         ~error => jobId # Null /\ Moving(jobId)'
  PROVE  Reasons'
<1>1. importing # Null => importing \in Importing /\ importing.jobId \in DOMAIN job \cup {Null}
  BY DEF Typed, PageOK, ServerOK
<1>2. CASE importing = Null
  BY <1>2 DEF Told, Reasons
<1>3. CASE importing # Null /\ importing.mount # c.mount
  <2>1. importing' = importing
    BY <1>3 DEF Told
  <2>2. \A d \in calls : d.mount = importing.mount => d \in calls'
    BY <1>3
  <2>3. importing.jobId # Null /\ Moving(importing.jobId) => Moving(importing.jobId)'
    BY <1>1, <1>3, <2>1, MovingStays
  <2> QED BY <1>3, <2>1, <2>2, <2>3 DEF Reasons, Moving
<1>4. CASE importing # Null /\ importing.mount = c.mount
  <2>1. importing' = [importing EXCEPT !.jobId = jobId, !.error = error]
    BY <1>4 DEF Told
  <2>2. /\ importing'.effects = importing.effects /\ importing'.jobId = jobId
        /\ importing'.dispatched = importing.dispatched /\ importing'.error = error
    BY <1>1, <1>4, <2>1 DEF Importing
  <2> QED BY <1>4, <2>2 DEF Reasons, Moving
<1> QED BY <1>2, <1>3, <1>4

LEMMA ReasonsStep == Typed /\ Reasons /\ [Next]_vars => Reasons'
<1> SUFFICES ASSUME Typed, Reasons, [Next]_vars PROVE Reasons'
  OBVIOUS
<1>0. importing # Null => importing \in Importing /\ importing.jobId \in DOMAIN job \cup {Null}
  BY DEF Typed, PageOK, ServerOK
<1>1. ASSUME importing # Null, importing' # Null,
             importing'.effects = importing.effects, importing'.mount = importing.mount,
             importing'.dispatched = importing.dispatched,
             importing'.error = importing.error, importing'.jobId = importing.jobId,
             calls' = calls
      PROVE  Reasons'
  <2>1. importing.jobId # Null /\ Moving(importing.jobId) => Moving(importing.jobId)'
    BY <1>0, <1>1, MovingStays
  <2> QED BY <1>1, <2>1 DEF Reasons, Moving
<1>2. CASE UNCHANGED <<importing, calls>>
  BY <1>1, <1>2 DEF Reasons
<1>3. CASE importing' = Null
  BY <1>3 DEF Reasons
<1>4. CASE PressImport
  <2>1. importing' = ImportStep
    BY <1>4 DEF PressImport
  <2> QED BY <2>1 DEF Reasons, ImportStep
\* The first run of the effect sends, the second changes nothing else.
<1>5. CASE DispatchEffect
  <2>1. importing \in Importing /\ importing # Null /\ executeRequest.mount = importing.mount
    BY <1>5, RequestTyped DEF DispatchEffect, executeRequest
  <2>2. /\ importing' = [importing EXCEPT !.effects = importing.effects + 1, !.dispatched = TRUE]
        /\ calls' = IF importing.dispatched THEN calls ELSE calls \cup {executeRequest}
        /\ job' = job
    BY <1>5 DEF DispatchEffect, hasDispatched, server
  <2>3. /\ importing'.effects # 0 /\ importing'.mount = importing.mount
        /\ importing'.error = importing.error /\ importing'.jobId = importing.jobId
    BY <2>1, <2>2 DEF Importing
  <2>4. CASE ~importing.dispatched
    BY <2>1, <2>2, <2>3, <2>4 DEF Reasons
  <2>5. CASE importing.dispatched
    <3>1. importing.effects # 0 /\ calls' = calls
      BY <2>1, <2>2, <2>5 DEF Reasons
    <3> QED BY <2>1, <2>2, <2>3, <3>1 DEF Reasons, Moving
  <2> QED BY <2>4, <2>5
<1>6. CASE useJobStatus
  <2>1. /\ importing # Null /\ calls' = calls
        /\ importing' = [importing EXCEPT !.seen = job[importing.jobId].status]
    BY <1>6 DEF useJobStatus, Polling
  <2>2. /\ importing'.effects = importing.effects /\ importing'.mount = importing.mount
        /\ importing'.dispatched = importing.dispatched
        /\ importing'.error = importing.error /\ importing'.jobId = importing.jobId
    BY <1>0, <2>1 DEF Importing
  <2> QED BY <1>1, <1>3, <2>1, <2>2
<1>7. ASSUME NEW c \in calls, RefuseImport(c) PROVE Reasons'
  <2>1. calls' = calls \ {c} /\ Told(c, Null, TRUE)
    BY <1>7 DEF RefuseImport
  <2> QED BY <2>1, AnswerReasons
\* The step is told of a job only if its task was sent.
<1>8. ASSUME NEW c \in calls, ExecuteImport(c) PROVE Reasons'
  <2>0. Len(job') \in Nat
    BY <1>8, Executed, Appended, JobEntries DEF Typed
  <2>1. PICK outcome \in {"accepted", "refused", "answer lost", "died"} :
          /\ calls' = calls \ {c}
          /\ job' = Append(job, [request |-> c, tries |-> 0, landed |-> FALSE,
               status |-> IF outcome = "refused" THEN "failed" ELSE "pending",
               queued |-> outcome \in {"accepted", "answer lost"}])
          /\ IF outcome = "accepted" THEN Told(c, Len(job'), FALSE) ELSE Told(c, Null, TRUE)
    BY <1>8 DEF ExecuteImport
  <2>2. CASE outcome # "accepted"
    BY <2>1, <2>2, AnswerReasons
  <2>3. CASE outcome = "accepted"
    <3> DEFINE new == [request |-> c, tries |-> 0, landed |-> FALSE,
                       status |-> IF outcome = "refused" THEN "failed" ELSE "pending",
                       queued |-> outcome \in {"accepted", "answer lost"}]
    <3>1. c \in Calls
      BY <1>8, Executed
    <3>2. new \in Jobs
      BY <3>1, NewJob, Zenon
    <3>3. new.queued
      BY <2>3
    <3>4. job' = Append(job, new)
      BY <2>1
    <3> HIDE DEF new
    <3>5. job'[Len(job')] = new
      BY <3>2, <3>4, Appended DEF Typed
    <3>6. Len(job') \in Nat /\ Len(job') # Null
      <4>1. Null \notin Nat
        BY NullAssumption, Zenon
      <4> QED BY <2>0, <4>1, Zenon
    <3>7. job'[Len(job')].queued
      BY <3>3, <3>5
    <3> QED BY <2>1, <2>3, <3>6, <3>7, AnswerReasons DEF Moving
  <2> QED BY <2>2, <2>3
<1>9. CASE ReviewSteps
  BY <1>2, <1>4, <1>9 DEF ReviewSteps, handleAnalyzed, AnalyzeFails, handleBack, handleEditRow
<1>10. CASE LeavingSteps
  BY <1>3, <1>10 DEF LeavingSteps, handleStartOver, Leave, Afresh
<1>11. CASE UNCHANGED vars \/ FormSteps
  BY <1>2, <1>11 DEF vars, page, FormSteps, handleUploaded, AccountsArrive, AccountsCollected,
     ChooseAccount, ToggleClassification, handleAnalyze
<1>12. ASSUME \/ \E i \in DOMAIN job : Work(i)
              \/ \E a \in Accounts : AccountDeleted(a)
       PROVE  UNCHANGED <<importing, calls>>
  BY <1>12, Zenon DEF Work, AccountDeleted, page
<1> QED BY <1>2, <1>5, <1>6, <1>7, <1>8, <1>9, <1>10, <1>11, <1>12, Steps

\* Whatever is lost or dies, what the last step waits for was sent: its effect has
\* yet to run, its request is on the way, or the job it polls is with the worker, has
\* ended, or has been tried and left without a mark or deleted, so that the poll is
\* in vain (ImportStep, useJobStatus, execute_import): the safety half of
\* ImportComesToRest.
THEOREM WaitingIsFor == Spec => []WaitingHasReason
<1>1. Init => Reasons
  BY DEF Init, Reasons
<1>2. Typed /\ Reasons => WaitingHasReason
  <2> SUFFICES ASSUME Typed, Reasons, Waiting PROVE WaitingHasReason
    BY DEF WaitingHasReason
  <2>1. importing # Null /\ ~importing.error
    BY DEF Typed, StepOK, Waiting, isFailed
  <2>2. CASE importing.jobId # Null /\ Moving(importing.jobId)
    <3>1. importing.jobId \in DOMAIN job
      BY <2>1, <2>2 DEF Typed, ServerOK
    <3>2. job[importing.jobId].status \in Statuses
      BY <3>1, JobEntries DEF Typed, Jobs
    <3> QED BY <2>1, <2>2, <3>2 DEF Moving, WaitingHasReason, PollsInVain, Stranded, Statuses
  <2> QED BY <2>1, <2>2 DEF Reasons, WaitingHasReason
<1> QED BY <1>1, <1>2, ReasonsStep, AlwaysTyped, PTL DEF Spec

=============================================================================
