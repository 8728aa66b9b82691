# Pocket Family in TLA+

Pocket Family is a family-finance application: a React front end, a FastAPI
back end on PostgreSQL, and a worker (Celery on Redis when self-hosted, Lambda
behind SQS on AWS) that imports CSV files. This directory holds a formal model
of the parts in which steps of several actors meet, model-checked with TLC; the
safety properties, and that the ledger implements its abstract specification,
are proved with TLAPS. Paths below are relative to the
repository.

Contents: [inventory](#inventory) · [modules and code](#modules-and-the-code-they-model) ·
[runs](#runs) · [what the runs refute](#what-the-runs-refute) · [proofs](#proofs) ·
[not modelled](#what-is-not-modelled) · [plan](#plan) · [how to run](#how-to-run)

## Inventory

For each part: its state, its operations, whom it meets, what makes it hard and
what makes it correct.

| Part | State | Operations | Meets | Hard behaviour | Correct when |
|---|---|---|---|---|---|
| **Transactions** `services/transactions.py`, `routers/transactions.py` | `transaction` rows, `account.balance` | create, update (retype, change the amount, move), delete | accounts, memberships, the worker | a balance is read, computed in Python and flushed as a number; two accounts in one request | the balance of an account is its opening balance plus its rows, after every commit |
| **Accounts and shares** `services/accounts.py`, `routers/accounts.py` | `account`, `accountshare` | create, share, unshare, edit (balance included), delete | transactions, imports, tenants | check-then-act on the number of shares; cascades under requests in flight; an edit form that carries an old balance | nothing refers to a deleted account; an account does not vanish from a family that did not ask |
| **Import API** `routers/imports.py`, `services/imports.py` | `importjob`, the uploaded file | upload, analyze, execute, poll | broker, worker | a row committed before a send that may fail, and a task id committed after it | what the client was told agrees with what happens later |
| **Import worker** `import-service/app/tasks`, `lambda_handler.py`, `celery_app.py` | the task, one database transaction, the file | claim, insert, adjust the balance, finish, mark failed, clean up | broker, database, storage, concurrent requests | at-least-once delivery, overlap, crashes, lost answers | rows are in at most once, DONE means in, no task is lost, every task comes to rest |
| **Sessions** `services/auth.py`, `routers/auth.py` | `refreshtoken` families | login, refresh with rotation, replay detection, logout | browser tabs | two refreshes with one cookie; revocation against rotation | one live token per family; a replay ends the family |
| **API client** `lib/apiClient.ts`, `features/auth` | access token in `localStorage`, the refresh promise of the tab | fetch, retry once, refresh, logout | sessions, other tabs | single flight per tab only; answers after logout | an honest user is not logged out, a logged-out one stays out |
| **Tenants** `services/tenants.py`, `deps.py` | `tenant`, `membership` | create, invite, accept, change role, remove, leave, delete, switch | accounts, access tokens | two owners who leave at once; duplicate invitations; shares that outlive a member | a family has an owner; what a member shared goes with them |
| **Categories** `services/categories.py`, `CategoryTree.tsx`, `CategorySelect.tsx` | the category tree; the list each browser has of it | create, move, change the kind, delete with reassignment | transactions, budgets | the server takes any parent, and the dialogs work from lists that may be outdated; a transaction posted during the reassignment | the table is a forest and every category is drawn; nothing refers to a deleted one |
| **Budgets** `services/budgets.py` | `budget` and its category links | create, save (links replaced), delete, compute what is spent | categories, transactions | overlapping replacements; two computations of one number | the links are those of the last save; list and single budget agree |
| **Import wizard** `features/imports` | step, file, mapping form, analysed rows and edits, job id | four steps, back, poll, start over | import API, accounts | answers that come after the form has changed; effects that run twice; a poll that stops at a FAILED that a retry may undo | one job per press, into the account it was analysed for; it comes to rest |
| **Query cache, routes and shell** `lib/`, `app/`, `features/*/hooks` | cached answers by key, the URL, the access token | mount, fetch, retry, expire, mutate, invalidate, switch family | every endpoint | three things speak of a family and none waits for the others; lists that a mutation forgets; answers that arrive after an invalidation | one's own writes are shown; a family's pages are not left open under another family's token |
| **Pages** `features/*/pages`, `components/` | forms and dialogs | what each mounts and offers | query cache | a form filled from an outdated list | what they offer keeps the data sound |
| **CSV analysis** `services/imports.py` | none | parse amounts and dates, flag duplicates | the wizard | sign conventions; two equal lines | a parsed amount is the amount written |
| Users, seeding, API shell, storage back ends, display pages, infrastructure | single rows, configuration | | | little interaction | |

How the parts interact: the browser calls the API with an access token; each
API handler runs in one database session (`db.py:get_db`) and commits once or
twice; `POST /imports/execute` commits an `importjob` row and hands the task to
the broker; the worker shares only the database, the broker and the storage
with the API. In the browser the pages share the query cache, the URL and the
token in `localStorage`; the token, not the URL, decides whose rows most
endpoints answer with. All concurrency is between database sessions, deliveries
of messages, browser tabs, and the requests and callbacks of one page.

`PROJECT.json` lists every part with its status, and under `hazards` each
behaviour above at the line where it bites, with the property that covers it or
the reason why none does yet.

## Modules and the code they model

### Ledger

Accounts, shares, transactions and the balance of an import. The API's
PostgreSQL sessions are READ COMMITTED without `SELECT ... FOR UPDATE` or a version
column, and the ORM flushes *values*. What other sessions can see or block
happens at three kinds of points only, and these are the steps of a request:

1. **the first SELECT** (`StartCreate`, `StartUpdate`, `StartDelete`, `OpenForm`,
   `StartRemove`): the guards are the handler's checks on what it reads then;
2. **a SELECT in the middle** (`AuthorizeTarget`, `LoadAccount`): the account is
   read *now*, and the autoflush in front of it sends the UPDATEs made so far, so
   that their rows stay locked (`held`) until the request ends;
3. **the commit** (`CommitCreate`, `CommitUpdate`, `CommitDelete`, `CommitEdit`,
   `CommitRemove`), or `Abort`: a refusal, a database error (foreign key, an
   UPDATE that matches no row, a deadlock victim) or the death of the process
   leaves nothing behind.

| Variable | Code |
|---|---|
| `accountState`, `balance` | `account` rows (`models.py:Account`); unborn before the INSERT |
| `row` | the `transaction` table: account, tenant, creator, type, amount |
| `share` | `accountshare` |
| `job` | an `importjob` with the rows and the delta `process_import` has accumulated |
| `req` | the session of a request: what it read (`old`, `seen`), what the ORM objects say now (`new`), what it still loads (`want`), what it has loaded (`got`), what it has locked (`held`) |
| `opening`, `posted`, `drifted` | history: the stated balance, the effects committed, and the accounts written from a stale read |

`UpdateLoads` is the branch structure of `apply_transaction_update` (same account
and same effect: nothing to load; same account: load it; other account: load the
old one, then the new one; a row whose account was deleted: only the new one).
`Rebalance` is what it then adds. `Columns` says that a flush writes only the
attributes that changed, so a concurrent PATCH of another column survives.
`CommitRemove` contains the foreign keys: transactions SET NULL, shares and
import jobs CASCADE. `CommitImport` is different on purpose: the worker writes
`balance = balance + delta` in SQL, so it never works from a stale read.

History variables never guard an action. `posted` is moved by each commit by
what that commit does to the rows; that it equals the sum over the rows is
itself a property (`PostedIsSum`) rather than its definition. `drifted` collects
the accounts whose balance a commit overwrote although it had moved since it was
read, or whose row had changed in between; typing a balance into the account
form states it afresh and takes the account out.

### AtomicLedger

What the ledger promises, without sessions: books, entries, and one step that
moves both; a book may be *suspect* and then nothing is promised about it.
`Ledger!Atomic` maps rows to entries, balances to books, `drifted` to `suspect`;
a step that changes none of these is a stutter. An import records all its lines
at once (`RecordAll`).

### ImportJobs

The life of an import task, for both deployments (`broker`, chosen in `Init`).

| Variable | Code |
|---|---|
| `status` | `importjob.status` as committed, hence as a poll sees it |
| `handler` | how far `execute_import` (`routers/imports.py`) got: row committed, sent, send failed, answered, refused with 503, died |
| `message`, `attempts` | the task in SQS (visible, in flight, deleted, dead-lettered; `maxReceiveCount`) or in Redis (`max_retries`) |
| `worker` | how far `process_import` got in each worker process, and the kind of error it met |
| `inserted`, `file` | how often the rows were committed; whether the upload is still there |
| `poison`, `crashes` | which jobs have a malformed row; processes lost so far |
| `overwritten`, `unmarked` | history: jobs whose DONE was replaced by FAILED; jobs of which an attempt has ended and left no mark |

`Claim` is the `UPDATE ... WHERE status != 'DONE'` that locks the row until the
commit (`Locked`); it changes no variable another session reads, because it is
committed only together with DONE. `Commit` inserts, adjusts and finishes.
`Fail`, `MarkFailed` and `Nack` are the `except` branch: roll back, mark FAILED in
a transaction of its own (best effort: it may do nothing), raise. `Nack` differs
by broker: SQS shows the message again until its receives are used up; Celery
re-sends only transient errors, at most `max_retries` times, and drops the task
otherwise. `Crash` returns the message in both (late acks, and
`task_reject_on_worker_lost` on Celery, which despite the comment at
`celery_app.py:36` makes the task circulate). `Faults` selects which faults occur:
`"overlap"` (a delivery while another is worked on), `"database error"` (transient,
at any statement), `"lost answer"` (a commit or a send succeeds, its caller sees
an error).

### RefreshTokens

The refresh tokens of one user and the tabs of the browser that holds them. The
tabs share the cookie and `localStorage`; the promise that makes a refresh single
(`apiClient.ts:22`) is each tab's own.

| Variable | Code |
|---|---|
| `token`, `expired` | `refreshtoken` rows: live or revoked, and their `family_id`; those past `expires_at` |
| `cookie`, `access` | the `refresh_token` cookie; whether `localStorage` has an access token |
| `tab` | what `AuthContext` shows: loading, a user, or nobody |
| `req` | each call of login, refresh (`restore` when it comes from a page load) and logout, seen from both ends: the cookie it was sent with, how far its handler is, and whether a promise still waits for it |
| `origin`, `stray`, `ended`, `left`, `outrun` | history: the login a token descends from, tokens that descend from a rotation of a token no longer live, logins that a replay has ended, logins the user has left, logins whose logout came after a refresh had replaced the token it was sent with |

A token has the name of the request that commits it. A refresh is two steps on
the server, because the row is read in one statement and written by the commit:
`Lookup` decides (`Verdict`: no cookie, unknown or expired is refused; live is
rotated; revoked is a replay), then `Rotate` or `RevokeFamily` acts on the rows as
they are *by then*. The UPDATE of a rotation names only the row's key, so a second
rotation of the same token also commits; its successor is a stray, and so are the
successors of a stray. The UPDATE of a replay sees the rows committed when it
starts: a successor committed while it runs is the order `RevokeFamily`, `Rotate`.
`CommitLogout` looks up and revokes in one step: in between only the flag could
change, to the value that is written. Signup issues its token as login does. A
handler that dies or raises is one that never goes on, and its caller gives up.

In the browser `Accept`, `Refuse`, `AcceptLogout` and `GiveUp` are the arrival of
the answer, or of an error in its place: the new cookie, `localStorage` and the
continuation in the tab. They are one step, although the browser stores the
cookie a moment before the page's code runs. A page load (`Mount`) forgets the
promises of the page before it. `Faults` selects what may happen besides:
`"reload"` (a page is loaded again while it waits for answers), `"lost answer"`,
`"overlap"` (the user logs out while the tab refreshes), `"expiry"`. The browser is
honest: it presents only its cookie. `access` is only whether the token is there:
a tab refreshes when it likes (an access token lives 15 minutes, and any call may
meet a 401), so the retry of the failed call does not appear.

### QueryCache

What the pages show. Every query hook is an operator that returns its key
(`useTransactions(f, "page")`, `useCategories(f)`), every mutation hook a record of
what it writes, which family the server writes it to, and the keys its `onSuccess`
invalidates; every page and dialog is a record of the queries it mounts, those it
*may* mount, and the mutations it offers; `AppRouter` maps a URL to a page. The
actions are those of React and of TanStack Query 5, which is external and
modelled from the options and calls in `src/`: a mounting observer fetches what is
missing or stale, a failed fetch is tried once more (`retry: 1`), an invalidated
key that is observed is fetched again at once (`Invalidated`).

| Variable | Code |
|---|---|
| `token` | `tenant_id` of the access token in `localStorage`, which each request carries as it is then (`Ask`) |
| `url` | the route, with the family of `/app/:familyId` |
| `joined`, `writes` | the server: the families the user is in, and how many writes it has committed |
| `focus`, `entry`, `observed` | the key a behaviour follows; the cache entries of that key and of the guard's; which of them a mounted component observes |
| `pending` | the mutation under way: sent, or applied with its answer to come |
| `due` | history: the last write whose answer reached the page and that `focus` has to show |

Keys do not interact, so a behaviour follows one of them together with the key of
`FamilyGuard`, and a run follows every kind of key in turn (`OneOfEach`). An answer is
known by how many writes it has seen, which is all the properties ask. `Answers` is
the family whose rows the server answers with, given the key's family and the
token's: lists go by the token even where the URL names a family. `Unlisted` names the
gaps: the pairs of mutation and key where the code writes what the key shows and
does not ask for it again ([below](#what-the-runs-refute)); `OwnWritesShown` is about
all other pairs. `late` marks an answer that was on its way when the hook asked for
it again: a first load, and one nobody observes, is not recalled, and counts as
fresh when it comes.

### ImportWizard

The wizard of one user from the upload to the answer of the poll, with the
endpoints it calls and the job it leaves with the worker. The same statement is
imported again and again, as users do, under several families, to all of which the
accounts are open. Within a visit the family is that of the uploaded file
(`validate_file_key_ownership` refuses its key under any other).

| Variable | Code |
|---|---|
| `step`, `wizard` | `ImportWizard`'s `activeStep` and `wizardState` (`fileKey`, `accountId`, the analysed rows, `rowEdits`) |
| `form` | the state of `MapColumnsStep` while it is mounted: account, classification, whether the box was touched |
| `asked` | the analyze request under way, with the form as it was when it was sent |
| `importing` | the state of `ImportStep` while it is mounted: `hasDispatchedRef`, `jobId`, the error, the status seen by `useJobStatus` |
| `known` | the accounts in the query cache, which come, come again and are collected |
| `calls`, `job`, `booked` | requests on their way to `POST /imports/execute`; the jobs, with their task and whether their rows have ever been committed (`landed`); how many transactions of each family and value every account has |
| `mounts`, `choice` | how often the Import button was pressed; history: the classification last chosen |

`DispatchEffect` runs twice per mount, as StrictMode does in development.
`ExecuteImport` is the endpoint with its four outcomes, `RefuseImport` what ends it
before its first commit (the account deleted, its share or the user's role
withdrawn, a database error). `Work` is an attempt of the worker as `ImportJobs` has
it (`Outcomes`): the rows in and DONE, or none and FAILED; and with faults, no mark at
all, since FAILED is written at best effort, or a FAILED over rows that are in. An
attempt that does not end in DONE may be repeated or be the last. `AccountDeleted` takes the jobs
along. `flag_duplicate_rows` compares with what is posted to the account at that moment
*under the family of the visit*, whether the account is still there or not: `POST /imports/analyze`
does not look it up. The column mapping, the currency, and the texts,
types and categories of lines are left out; a line stands for its date and amount.

### Members and Household

One family on the server. `Members` has memberships and shares; `Household` extends
it with the category tree, transactions as far as they refer to it, and budgets,
and has the specification. A request is three steps, each of which other requests
may come between: `get_active_context` loads the caller's membership and lets it in,
the handler reads what it decides on (`..._checks`, `apply_...`), the commit writes
(`..._for_tenant`, `update_...`). The row a session has loaded stays as it was
(`Loaded`); a commit writes only what differs from the row that was read; and the
foreign keys and the unique key decide at the commit, not at the check.

| Variable | Code |
|---|---|
| `members`, `shares` | `membership` rows (nothing makes them unique per user); accounts shared with the family |
| `categories`, `transactions` | the `category` table; of each transaction its category and kind |
| `budgets`, `links` | `budget` rows; `budgetcategory` rows, with the request that inserted each |
| `requests` | what each request asked, who asked, what it loaded and read |
| `listed` | the lists of categories each user's browser has had; `useCategories` adds the table as it is |
| `orphaning`, `strays`, `current`, `strayed`, `intended` | history: what may have left no owner; accounts shared while their owner was leaving; requests whose parent was chosen from the list as it still is; whether a parent was set from an outdated list; the categories each budget was last saved with |

What a user asks comes from the dialogs: `CategorySelect` (two levels of one kind),
`EditCategoryModal` (not itself, not its children), `DeleteCategoryConfirm`, `AddCategoryModal`,
`TransactionForm`, `BudgetForm`, each given a *listed* list. A dialog stays open while its list is fetched
again: the row it was opened on and the choices made in it are kept (`selectedCategory` at `SettingsPage.tsx:97`,
`selectedParentId` at `EditCategoryModal.tsx:66`), so the row may be of one list, the parent of another, the reassignment or
the categories of a budget of several. The model lets them be of any that the browser has had, in any order, which is more than a page can do.
`CategoryTree` is what the
tree component draws, `resolveCategory` the root under which the report counts a
category. `RowLocked` is the lock that an update of a budget holds from the autoflush
of `updated_at` to its commit.

### The MC and the Proofs modules

The `MC` modules name owners, writers, families, trees and symmetry sets for TLC; the `Proofs`
modules hold the theorems, with `LedgerRefinement` (sums, refinement and the serial schedules, on top
of `LedgerProofs`) and `FiniteSums` (lemmas on `SumFunctionOnSet`, for any function and finite set). Definitions marked *Mutant* in the models are
plausible bugs of the definition that follows them (a sign forgotten, an old
account not reversed, a guard dropped); `PROJECT.json` names, for each checked
property, the mutant that violates it.

## Runs

| Run | Question | Instance | Distinct states |
|---|---|---|---|
| `ledger_races` | Do balances, rows and references agree under every interleaving, and is each commit one step of the abstract ledger? | 1 user, 1 family, 2 accounts, 3 rows, 2 requests, 1 import of up to 2 lines, amounts 1 and 2 | 630 629 |
| `ledger_serial` | With requests one at a time (what the API tests exercise), is *every* balance right? | 2 owners, 2 accounts shared into 1 family, 2 rows, 3 requests, 1 import | 661 728 |
| `imports_once` | Without database errors, is each import single and DONE final? | 2 jobs, 2 workers, 3 attempts, 1 crash, overlap | 1 904 124 |
| `imports_faults` | What still holds under all faults, does every task come to rest, and can a job say PENDING with no task? | 1 job, 2 workers, 3 attempts, 2 crashes, all faults | 104 268 |
| `sessions_faults` | Does a login keep to one live token, and do a replay and a logout end it for good, whatever overlaps or gets lost? | 2 tabs, 4 calls, all faults | 611 074 |
| `sessions_alone` | In one tab without failures, do cookie and token table keep step, does every page load end? | 1 tab, 5 calls, expiry | 710 417 |
| `cache` | Does every kind of list that counts as fresh show the user's own writes, and does a fresh family check speak of the token in use? | 14 keys in turn, 2 families, 1 of them joined, 2 or 3 pages for each, 1 write | 443 287 |
| `cache_live` | Does a list on screen catch up, and do a family's pages not stay open under another token? | 2 keys, 1 write for the list, both families joined for the guard, answers may be lost | 79 411 |
| `wizard` | Is there one job per press, under the account and family it was analysed for, no line twice unawares, and an end on screen? | 2 families, bank account and credit card, a purchase and a malformed line, 2 presses, 2 tries, all faults | 320 710 |
| `household` | Do owners, shares, the tree and budgets survive any two overlapping requests, made from any list a browser has had? | 2 owners, 3 membership rows, a tree of 3 levels (5 ids), 2 transactions, 2 budgets (1 at the start), 1 account | 145 339 |
| `ledger_overlap`, `imports_crash` | the two statements refuted below | the smallest that show them | |

Why the bounds are enough. Two requests give every pair of overlapping
sessions, and with the import a third writer; a race between more sessions on
one row is a sequence of such pairs because each commit overwrites with one
value. Two accounts are what a move needs. Three rows let a pre-existing row be
updated while others are created and imported; two amounts tell a reversed
effect from the added one (and 2 − 1 from 1). Three requests in the serial run
give create, then update, then delete of the same row. Three attempts are
`maxReceiveCount` of `sqs.tf`; Celery's `max_retries = 3` makes four tries, and the
model's three (a first try, a retry that may be the last but one, and the last)
tell the same cases apart; two workers give overlap, two crashes a crash of the
redelivery too. `Requests` run once each, so their number bounds a behaviour;
`MaxLines`, `MaxCrashes` and the finite `Txns` are the only other bounds, and none
of them is used in a proof's argument. Four calls of two tabs are a login, two
refreshes with its cookie, and a third that replays or logs out; five in one tab
are two sessions of login, refresh and logout. Both tabs start signed out, since
no other state is reachable before a login.

In `cache` one write and the answers it meets are what a missed list needs; the pages
opened (the table `Pages`) show the key, change what it shows, or mostly do
neither (where an answer goes unobserved); for other pages, more writes and more families the
properties are proved. In `cache_live` the guard is followed between two
families, where a switch changes the token, and a list within one. In `wizard` two presses give
each pair of imports of one statement into one account, under one family or two. The wizard is opened again after an import only by a
user who has one account (`MCImportWizard!Again`): what relates two imports is about one account, and what is asked of two accounts is
about one visit. One good line is enough, because a line's
value is all duplicates are told by, and a line without a date is there to be
excluded. In `household` any two requests overlap in every order: its properties relate at
most two requests (two owners who leave, two saves of a budget, a deletion and a
post), and for more requests they are proved. A tree of three levels is the
first in which `CategorySelect` does not offer all.

Deadlock checking is off where requests run once or writes are bounded, so that
the system really stops when all are used; in `wizard` it is on.

Symmetry (requests, rows, workers, jobs, tabs) is used only in runs without
liveness properties.

Fairness (`ImportJobs!Fairness`, needed by `EveryMessageSettles` alone): a worker
that holds a message goes on (`WF` of its next step: it waits only for statements and
locks of transactions that end, and Lambda ends an invocation after 300 s,
`lambda.tf:51`, which is a crash), and a message that is visible again and
again is eventually received (`SF`: long polling by an event source mapping, or a
Celery worker's consumer; a redelivery can interrupt visibility, which is why `WF`
would not do). No request handler is assumed to continue. Crashes are finite by
`MaxCrashes`, so on Redis, where a crash does not use up a try, the property says
that the task settles once the crashes stop.

Fairness in `RefreshTokens`, needed by `LoadingEnds` alone: a request that was sent is
served, and its answer handled or given up by the browser (`WF` of each: a handler waits only for its own database statements, and
`fetch` rejects when the connection closes). Nothing
is assumed of the user: no tab has to log in, refresh or reload. `sessions_alone`
checks it without lost answers, so each of the verdicts has to end the loading itself.

Fairness in `QueryCache` (for `OwnWriteAppears` and `GuardCatchesUp`): React renders, the server
serves a request it has got, and an answer, if only an error, arrives (`WF` of `Render`, `Serve` and
`Arrive`). That the answer is a good one is not assumed: it may be lost each time, and
then `OwnWriteAppears` allows the error that the page shows. Nobody has to navigate or to mutate.

Fairness in `ImportWizard` (for `ImportComesToRest`): effects run, the poll's timer fires, the
server handles a request it has got and the worker its task (`WF` of each). For the last,
`EveryMessageSettles` of `ImportJobs` says that the message of a task settles: the attempts come to an end. It does not say that the
*job* ends in DONE or FAILED, and it need not: an attempt may leave no mark, and after the last of these
the job says PENDING with no task. That this is the only way there is `PendingHasTask`, and
`ImportComesToRest` names it as an exception (`PollsInVain`). No user action is assumed.

### Properties

- `BooksBalance`: balance = opening + posted on every account not written from a
  stale read. `BooksAlwaysBalance`: the same with no exception (holds serially).
- `PostedIsSum`: `posted`, moved commit by commit, is the sum over the rows: no
  commit counts a row twice, forgets the version it replaces, or keeps counting
  for an account that was deleted and whose rows were detached.
- `ReferentialIntegrity`: no row, share or queued import refers to an account
  that does not exist, whatever a session read before the deletion.
- `SessionsOK`: every session in flight has loaded, or will load, each account on
  which its row will count differently; this is what makes the rest inductive.
- `ImplementsAtomicLedger`: refinement of `AtomicLedger`.
- `StatusTellsTruth`: rows in exactly once if DONE, not at all otherwise, unless
  FAILED has replaced DONE. `DoneIsFinal`, `AtMostOnce`: the unconditional forms.
- `PendingHasTask`: the task of a job that was sent and says PENDING is with the broker or a
  worker, unless an attempt has left no mark.
- `NothingDropped`: SQS forgets a task only with its rows in or its job gone.
- `FileOutlivesImport`: the file goes after the rows are in.
- `EveryMessageSettles`: liveness, above.
- `OneLiveToken`: of the tokens that descend from one login at most one is live, the
  strays apart: the successor is inserted by the commit that revokes its parent.
- `EndedStaysEnded`: once a replay has ended a login none of its tokens is live or
  becomes so, the strays apart: `family_id` follows the descent from the login.
- `NoFalseReplay`: the user's own browser never ends the session as a replay;
  `SignedInCanRefresh`: a tab that shows the user, with nothing under way, has a
  cookie that `/auth/refresh` would rotate, or one that has expired. Both hold in one tab that does one thing at a time and whose answers arrive; the second tab
  refutes the first, a lost answer both.
- `LeftStaysLeft`: what a logout leaves under all faults, the overlap with a refresh included: nothing of
  that login is or becomes live, except the successor that had replaced its token before the logout came, and strays.
- `LoadingEnds`: liveness, above.
- `OwnWritesShown`: an answer that counts as fresh has seen every write of this user
  that it shows and whose answer the page had, gaps and late answers apart.
  `OwnWriteAppears`: a list on screen that is behind catches up, or shows an error.
- `GuardTellsToken`: a fresh answer of the family check means that the token is of that
  family. `GuardCatchesUp`: the pages of a family do not stay open under another token.
- `OneJobPerPress`, `AnalysedForItsAccount`, `NoBlindDouble`, `ConventionAsShown`: one job however often
  React runs the effect; rows go to the account, and under the family, their duplicates were looked for in;
  two imports under one family bring a line to an account twice only if the user put it back or the first was not in at
  the analysis; the classification follows the account until the user touches it.
  `ImportComesToRest`: the last step comes to an end, unless it polls in vain: the job is stranded at PENDING, or gone with its account.
- `OwnerRemains`: a family keeps an owner, unless an update changed an owner's row or
  two removals overlapped. `SharesFollowMembers`: accounts shared with a family belong to its
  members, but for those shared while their owner was leaving.
- `CategoriesFormTree`: a parent chosen from the list as it is never closes a loop, whatever row the dialog was opened on.
  `TreeIsWhole`: every category of a list a browser has had is drawn, and counted under a root.
- `LinksAsIntended`: a budget has the categories of its last save, less those deleted.
  `SpentAgrees`: the list of budgets and a single budget show the same amount spent.

## What the runs refute

1. **Overlapping requests lose an effect** (`ledger_overlap`). `create_transaction`,
   `apply_transaction_update` and `delete_transaction` add in Python to a balance
   read earlier and flush the number; of two overlapping requests on an account the
   later commit discards the effect of the earlier. The release note says the
   balance is "always correct after any mutation". The same cause shows as a doubled
   DELETE that reverses twice, and as an account form that writes back the balance
   it was opened with. `ledger_races` shows the damage is confined to accounts
   written from a stale read.
2. **A late FAILED re-opens an import** (`imports_crash`). `_mark_import_job` updates by
   id alone. After a crash between commit and acknowledgement, a redelivery that
   meets a transient error before its claim is decided marks the finished job
   FAILED, and the next delivery inserts all rows again. A
   `WHERE status != 'DONE'` on that update, as the claim has it, would make
   `overwritten` stay empty, and then `StatusTellsTruth` gives at-most-once.

The models also reach the following, which no property of the code can rule out;
each property names its exception, so that it says what holds besides.

*Ledger and imports.* A share created between the count of shares and the
deletion of the account is cascaded away, and with it an account of another
family (`accounts.py:455`, `CommitRemove`). STARTED is written in the transaction that
ends with DONE, so no poll ever sees it (`import_csv.py`). `services/imports.py:292` calls the FAILED that
follows a send that raised "an honest "this import didn't start" state", but a send may raise although the broker has
the task (its answer is lost, `SendTaskRaises`): the client is told 503 (`routers/imports.py:320`), and the worker, which claims any
row that does not say DONE, imports it; a user who then imports again has both. `import_csv.py:243` says that the last
attempt's FAILED is "exactly the state we want surfaced once the message reaches the DLQ", but
`_mark_import_job` is best effort (`import_csv.py:71`): with a database that is down for the whole attempt it
logs and moves on, and a worker that is killed on each receive marks nothing either; a dead-lettered import may then say PENDING.

*Sessions.* Two tabs meet a 401 together and refresh with one cookie: the request
looked up second is taken for a replay and the family is revoked, so the user has
to log in again (`apiClient.ts:50`); if both are looked up before either commits, both
rotate, and a stray lives on. A refresh under way at logout leaves a live token, and may store
cookie and access token again (`apiClient.ts:81`).

*Members.* Two owners who leave at once each count the other, and the family has
none (`tenants.py:345` says "Prevent removing the last owner to avoid orphaned
tenants"); an owner may also step down by an update, which has no guard.
Nothing makes memberships unique (`tenants.py:237`): a user invited twice and removed once is
still in, although `MembersList.tsx:267` says "They will lose access to all family data".

*Categories.* The server takes any parent. `EditCategoryModal.tsx:179` says it "Excludes
current category and its descendants" but excludes the direct children only; what protects
the tree is that `CategorySelect` offers the top two levels. Two edits made from
outdated lists do close a loop, whose members no page draws and none can
delete; a list is outdated in this sense also when it has been fetched again while the choice
stood in an open dialog (`EditCategoryModal.tsx:66`). For the same reason categories below the second level cannot be chosen
anywhere. `TransactionForm` keeps a category of the other kind when the type
is changed after it, and a category whose kind is changed leaves its transactions
and children with the old one. A reassignment overwrites a concurrent recategorisation.

*Budgets.* `BudgetForm` (line 112) takes the categories of the budget from the
cached list: opened before the list is there, or with an outdated one, it saves
fewer or none, and a budget without categories counts every expense; so does
one whose last category is deleted. Two saves do not mix only because the
autoflushed write of `updated_at` (`budgets.py:587`) locks the row early; a save that overlaps
the deletion of one of its categories may be the victim of a database deadlock.

*Import wizard.* `routers/imports.py:130` says the analysis "compares each row against existing transactions in the
same account and date range", and so does `docs/csv-import-plan.md:73`; `flag_duplicate_rows` also filters by the family of the
token (`services/imports.py:189`). For an account shared into two families of one user, a statement imported under one is all
new under the other, and the balance, which is one for both, counts it twice: `NoBlindDouble` is about imports under one family. After FAILED the poll stops although a retry may be pending: the user
starts over and both imports succeed (`useJobStatus.ts:18`; `NoBlindDouble` excludes only
doubles the analysis could have seen). A job stranded at PENDING is polled for ever, and nothing on the page says so. Back mounts `MapColumnsStep` anew and
forgets the chosen classification (`MapColumnsStep.tsx:86`); Analyze pressed before the accounts
are there sends the convention of a bank account for a credit card; if the
account is deleted meanwhile, the poll is refused for ever.

*Query cache.* The gaps of `Unlisted`: creating, changing and deleting transactions does not refresh
accounts, budgets or the count of a category; `executeImport` refreshes nothing; the
deletion of an account from the global list leaves the families' lists of accounts; changes of shares leave
the lists of accounts; and the rest listed there. Each shows until `staleTime` (30 s) runs out and
something mounts. Lists go by the token, not by the key's family, so an answer fetched
under another family's token may be cached under this one's key. The fetch of the
current user that is under way may overwrite the language just chosen (`Seeded`).

*Answers lost.* With lost answers
a rotation is committed whose cookie never arrives, and the next refresh of the
honest browser is a replay (`SignedInCanRefresh` and `NoFalseReplay` are checked
without that fault); a rotation that overlaps a family revocation leaves a live
stray in an ended family. The API may
die between committing PENDING and sending the task, and no code takes such a row
up again (`HandlerDies`).

## Proofs

The proofs hold for every value of the constants that satisfies the named
assumptions. With them every invariant and action property that a run checks is a
theorem; what stays with TLC is at the end of this section.

| Theorem | Statement |
|---|---|
| `LedgerProofs!Invariance` | `Spec => []IInv` |
| `LedgerProofs!TypeCorrect`, `BooksBalanced`, `ReferencesHold`, `SessionsKnow` | `TypeOK`, `BooksBalance`, `ReferentialIntegrity`, `SessionsOK` |
| `LedgerRefinement!SumInvariance`, `PostedAddsUp` | `Spec => []SumInv`; `PostedIsSum` |
| `LedgerRefinement!Refinement` | `Spec => ImplementsAtomicLedger` |
| `LedgerRefinement!SerialBooks` | `SerialSpec => []BooksAlwaysBalance` |
| `ImportJobsProofs!Invariance` | `Spec => []IInv` |
| `ImportJobsProofs!TypeCorrect`, `StatusTrue`, `NoneDropped`, `FilesOutlive` | `TypeOK`, `StatusTellsTruth`, `NothingDropped`, `FileOutlivesImport` |
| `ImportJobsProofs!PendingIsWorkedOn` | `PendingHasTask`, under all faults |
| `ImportJobsProofs!Once`, `DoneStays` | `AtMostOnce`, `DoneIsFinal`, if the database reports no errors and no answer is lost |
| `RefreshTokensProofs!Invariance` | `Spec => []IInv` |
| `RefreshTokensProofs!TypeCorrect`, `OneLive`, `EndedForGood` | `TypeOK`, `OneLiveToken`, `EndedStaysEnded` |
| `RefreshTokensProofs!NeverFalse`, `CanRefresh` | `NoFalseReplay`, `SignedInCanRefresh`, for one tab that does one thing at a time and whose answers arrive, its tokens may expire (`Alone`) |
| `RefreshTokensProofs!LeftForGood` | `LeftStaysLeft`, for any number of tabs and all faults |
| `QueryCacheProofs!Invariance` | `Spec => []CacheInv` |
| `QueryCacheProofs!TypeCorrect`, `OwnWrites`, `GuardTells` | `TypeOK`, `OwnWritesShown`, `GuardTellsToken` |
| `QueryCacheProofs!ExactGaps` | `GapsExact`, if there is a family at all |
| `HouseholdProofs!TypeCorrect` | `TypeOK`, with the foreign keys in it |
| `HouseholdProofs!FamilyKeepsOwner`, `SharesAreMembers` | `OwnerRemains`, `SharesFollowMembers` |
| `HouseholdProofs!CategoriesStayTree`, `TreeShownAndCounted` | `CategoriesFormTree`, `TreeIsWhole` |
| `HouseholdProofs!BudgetsAsSaved`, `SpentAlwaysAgrees` | `LinksAsIntended`, `SpentAgrees` |
| `ImportWizardProofs!TypeCorrect`, `OnePerPress`, `ConventionShown` | `TypeOK`, `OneJobPerPress`, `ConventionAsShown` |
| `ImportWizardProofs!RowsToTheirAccount`, `NoDoubleUnseen` | `AnalysedForItsAccount`, `NoBlindDouble` |
| `ImportJobsProofs!NoTaskForgotten`, `RefreshTokensProofs!LoadingHasRequest`, `QueryCacheProofs!BehindAsked`, `QueryCacheProofs!AstrayAsked`, `ImportWizardProofs!WaitingIsFor` | `NoneForgotten`, `LoadingWaits`, `BehindIsAsked`, `AstrayIsAsked`, `WaitingHasReason`: what the five liveness properties rest on |

Assumptions. Ledger: `Null` is none of the other values, amounts and balances are
integers, `Owner` is a function into `Users`, `Writers` a relation, `MaxLines` a
natural number, accounts and rows have distinct identities. ImportJobs: `"none"` is
not a job, `MaxAttempts` is positive, `MaxCrashes` natural, `Faults` a subset of the
three. RefreshTokens: `Null` is not a request, `Faults` a subset of the four. QueryCache: a family is
none of the words that keys are made of and `Null` none of the values it stands in for, the user
starts in some family, and the keys followed and the pages opened are keys and pages of the
application (`WatchedAssumption`, `VisitedAssumption`). Household: rows,
categories and transactions are finitely many, `Null` and `Gone` stand for no row, every
account has an owner, and the family starts sound (`SeededAssumption`: an active
owner, a forest, references to rows that are there). ImportWizard: the statement has finitely many
lines, `Null` is none of the records, functions, sets, families and job ids it stands in for, and `MaxTries` is positive.
All are evaluated by TLC in the runs, and so is a fact about the
pages of `QueryCache` on its instance: that they mount keys and offer hooks (`FramedAssumption`). Some theorems have a hypothesis besides, and it is
needed: `imports_crash` violates `AtMostOnce` with a database error, a lost answer lets a
FAILED replace a DONE, and a second tab or a lost answer makes an honest refresh a replay. What is left of them without the hypothesis is a theorem too: `StatusTrue`, `OneLive` and
`EndedForGood`.

The argument for the ledger. `BooksBalance` alone is not inductive: at a commit the
balance moves by `Rebalance` on the accounts the session has *loaded*, while `posted`
moves by the difference of the row's two versions on the accounts they *mention*.
The invariant therefore says of every session (`SessionOK`) that the accounts on
which the two versions count differently are among those loaded or still to be
loaded, unless deleted, that a deletion's new version is the deleted row, and that
what it mentions has been born; `ReferentialIntegrity` gives that a committed row
mentions only live accounts, and `UnbornUnposted` starts a new account from zero.
If the account has not moved since it was loaded and the row is the one that was read,
both sides move by the same amount; otherwise the commit adds the account to
`drifted`. The proof has one lemma per group of actions and one step per action.

The argument for sums. `PostedIsSum` compares what the commits added, one by one,
with a fold over the table. `FiniteSums` has what a fold gives: the sum is the same in
whatever order the set is taken, and taking a member out or putting one in changes it by that
member's value. (Each is an induction over finite sets; it is done on a smallest counterexample,
which exists because strict inclusion is well-founded on the subsets of a finite set.) A commit of
a request then changes one term of one or two sums. An import changes many at once: `IdsOK` says that the ids of
its lines are free and belong to no other request or job, so that the lines' sum is added to
the rows' sum, and `LinesSummed` that this is the delta the worker has kept. `FiniteRows` is proved along with it,
since `Txns` may be infinite.

The argument for the refinement. `Spec` starts in an initial state of `AtomicLedger`, and each action
is a step of it or a stutter: reads, checks and locks change nothing that is mapped; a commit of a
request records one entry and moves the books of the accounts it leaves and enters by the two
effects, or makes suspect those it wrote from a stale read; an import records its lines and
moves one book by their sum (`SumInv` says it is); creating, editing and deleting an account opens, restates and
closes a book. In the serial schedules nothing ever drifts: `UpToDate` says that what the one request under way has read is still
what the tables hold, so `drifted` stays empty and `BooksBalance` has no exception left.

The argument for imports. `WorkerOK` says that a worker inside its transaction
excludes every other one on that job and has seen a status that is neither DONE nor
gone; nobody else can change that status, since every other writer waits for the
lock. With `StatusTellsTruth` before the commit the rows are then not in, so
`Commit` makes it exactly once. `TasksOK` keeps the broker's counters in range and
`RowsOK` carries "the rows are in" from DONE through an overwriting FAILED, which
`NothingDropped` and `FileOutlivesImport` need. For `PendingHasTask`, `MarksOK` follows an attempt from its end to the
broker: a worker that gives its task back has left a status other than PENDING or is noted in `unmarked`, and what has replaced
a DONE never turns into PENDING. For `AtMostOnce`
and `DoneIsFinal`, `RefusedOK` says that without a lost answer a job
that was not sent, or was refused, has no message, and that without one nothing is in, and `OnceOK` that the only attempts that fail are those on malformed rows, of which
nothing is ever in, so that no FAILED meets a DONE (`overwritten` stays empty) and
`StatusTellsTruth` has no exception left.

The argument for sessions. `OneLiveToken` needs to know where a new token comes from:
`CommittedOnce` says that a request has a token exactly when its handler has committed
one, so a login's name is fresh, and `FamilyIsOrigin` that the family of a token is its
login and that no token descends from a login without one. A rotation of a live
token that is no stray kills the login's one live token and puts `r` in its place;
any other rotation makes `r` a stray. Revoking by family is revoking by origin, so
after `RevokeFamily` nothing of the login is live, and a later rotation would need a
live token to start from. `LogoutOK` says the same of a logout from its commit on, before the tab has heard of it: by `OneLiveToken` the token it revokes was
the login's one live token, unless it had been replaced by then, which puts the login into `outrun`. With one tab (`AloneOK`) at most one request is on the way, and it carries the cookie
that the browser still has (`PendingOK`): a cookie is used up only by the commit whose answer
is about to replace it, so the next request presents a live one.

The argument for the cache. `ShownOK` says of the key that is followed that an answer on its way
has seen what is due, unless it is late, and that the one in the cache has, unless it is to be
fetched again or a late one has come; `GuardOK` says the same of the guard and the token it was asked with. What can
raise `due` is an answer to a mutation, and `HooksRefresh` shows, hook by hook and key by key, that each mutation that shows in the key
invalidates it, those of `Unlisted` apart: this is the table of `onSuccess` handlers against
the table of query keys, by matching prefixes. A mutation under way comes from what the page offered
(`OnScreenOffers`, page by page) and keeps what it wrote until it settles, wherever the user has gone by then.
`ExactGaps` reads the same two tables in the other direction: a pair that is not in `Unlisted` is
refreshed, and each pair that is has a hook and a key that it forgets, so that `OwnWritesShown` leaves
out no more than the code does. The exception is deleting a category and the count of a category: what is not
refreshed is the count of the category that the rows go to (`reassignTo`), another one than the key's,
and keys of one id do not tell the two apart.

The argument for a household. `RequestsOK` says what a request carries at each of
its steps: what it asks is what a dialog may offer (`Offered`: all of it is in a list), and what
it read was there. That no row comes back from `Gone` or changes hands lets a commit use
what was read. For `OwnerRemains`, a removal that read `owners` of at least two and commits
with as many left takes away one of two; otherwise it is noted in `orphaning`. For the
tree, `EditsSafe` says of every edit whose parent was chosen from the list as it still is that this
parent is at the top or just below it and not under the category itself
(`DialogOffersSafe`: this is what two levels of `CategorySelect` give); moving a category below such
a parent closes no loop, and any other change of the table takes the request out of `current`.
For `TreeIsWhole`, a list without loops leaves nothing undrawn, since what is left out would contain the parents of all
its members; and the walk of `resolveCategory` ends at a root, since with each turn it has passed one category more
(`WalkOK`, by induction on the turns), and there are no more turns than categories.
For the budgets, `LockHeld` says that at most one update of a budget is between its
DELETE and its commit and that the links it read are all that are there, so that
its INSERTs leave the new set; `OneLinkEach`, the unique key, makes the join count
each expense once, which is `SpentAgrees`.

The argument for the wizard. `Typed` says what each step finds (`PageOK`, `StepOK`) and
how the jobs stand (`ServerOK`: a queued job has attempts left and is not done). Everything
else is about the requests that were ever sent, waiting or turned into jobs (`Sent`), and
`SentBy` says that only the effect of a mount whose ref is not set adds one. For `OneJobPerPress`,
`MountsOK` adds that no request has the number of a mount whose ref is not set. For
`AnalysedForItsAccount`, `ForOne` ties the wizard's account to its analysis from the answer
until the request. For `NoBlindDouble`, `LandedBooked` says that a job that has landed has its lines in
its account under its family, so an analysis under that family marks them (`SettledAtFirst`), and `SettledStays` that a request and what was
marked do not change later.

The argument behind liveness. Each liveness property says that something which is waited for comes, and has a
safety half: that it is on its way at all. That half is proved for all constants, and it is where
a bug would be, since the other half is fairness. A task that the broker does not show is with a
worker, and one that it shows has a try left (`NoneForgotten`). A page at "Loading..." has its silent
refresh with the server or answered (`LoadingWaits`): the request that a reload makes belongs to
that tab until it ends. The last step of the wizard waits for its effect, its request or a job that is
queued or has ended, or polls in vain (`WaitingHasReason`); `Reasons` adds that a step whose effect has
not run has sent nothing, and `MovingStays` that a job which is queued, has ended or was tried does not go back
to waiting for a send. For the cache, `AskedOK` says of every mounted
entry that if nothing is on its way, it has not failed and is not late, then it has seen what is due and the
guard's is of the token's family: mounting fetches what is stale, an invalidation fetches what is
mounted, what expires was fresh (`ShownOK`, `GuardTellsToken`), and an answer that is not late was asked for after
what is due was written. So a list that is behind is being fetched (`BehindIsAsked`), and a family's
page, which always mounts the guard, has the guard asked again (`AstrayIsAsked`).

Only model-checked: the liveness properties `EveryMessageSettles`, `LoadingEnds`, `OwnWriteAppears`,
`GuardCatchesUp` and `ImportComesToRest` (liveness under fairness is out of the reach of the
provers used here).
Under faults that a theorem's hypothesis excludes nothing is claimed; what then breaks is told [above](#what-the-runs-refute).

## What is not modelled

- In the ledger: `Writers` is a constant, so memberships do not change there (they do in `Members`);
  share visibility, date and description, listing and reports; decimal amounts are integers (NUMERIC in the database, exact); the database's choice
  of a deadlock victim is `Abort`. The CSV's rows are chosen when the worker reads
  them: nothing reads them earlier.
- In imports: decoding the SQS envelope, the contents of error messages, the
  account's balance (it is in Ledger). A local run without an `importjob` row has no
  claim and is used by tests only. Redis' visibility timeout redelivers without a
  count; the model bounds all redeliveries by `MaxAttempts`.
- In sessions: passwords, rate limits and JWT contents; a user deleted with live
  tokens (no route does that); which family the access token speaks of (it is `token` in `QueryCache`);
  two browsers of one user (their logins are distinct families and share nothing);
  presentation of a token by anyone but the browser.
- In `Members`: acceptance of an invitation by signing up (a pending row has no user
  until then), renaming a family, the cascades of its deletion (every table, at
  once), and the reads of viewers. `AcceptInvitePage` and the preferred family in `localStorage`.
- In `Household`: names, icons, amounts, months and currencies, which no property tells apart; deletion of
  transactions, which is in `Ledger`.
- In `QueryCache`: parts of a list (pages, filters), refetching on reconnection, requests paused while the browser is offline, other users' writes, which no client
  could know of, and other tabs. Not routed, hence not modelled: `AddAccountPage`, `GlobalAddAccountPage`, `AddTransactionPage`,
  the older `components/TransactionForm`, `TransactionDetailModal`, `TransactionsGrid`, `TransactionsList`,
  `TransactionsFilterBar`, `useCategory`. Defects local to a page have no state to model:
  `GlobalAccountDetailPage.tsx:98` navigates to an edit route that does not exist, and the last submitted values that
  `AddTransactionModal` keeps in `sessionStorage` has one key for all families.
- In `ImportWizard`: what a CSV's lines parse to (`CsvRows` in the plan), column mapping and validation. A token of another family,
  a withdrawn role or share within a visit is one of the refusals of `AnalyzeFails` and `RefuseImport`; a poll that is refused for such a reason and
  accepted again later is left out.
- What charts and totals compute and form validation: pure, or local to a page.
- Parts without interaction (users, seeding, API shell, storage back ends, display
  pages, infrastructure): their status and reason are in `PROJECT.json`.

## Plan

In this order; each module gets its MC module, configurations and, where marked, its
proofs module.

1. `Ledger` + `AtomicLedger`, `LedgerProofs` (done).
2. `ImportJobs`, `ImportJobsProofs` (done).
3. `RefreshTokens`, `RefreshTokensProofs` (done).
4. `Members` and `Household`, `HouseholdProofs` (done).
5. `QueryCache`, `QueryCacheProofs` (done).
6. `ImportWizard`, `ImportWizardProofs` (done).
7. `FiniteSums` and `LedgerRefinement`: the sums, the refinement and the serial schedules (done).
8. `CsvRows`: amount and date parsing and duplicate flagging as operators checked
   against a reference definition.
9. Further proofs: the gaps of `Unlisted` are exact and the safety halves of the liveness properties (done);
   a family that lost its owner did so by one of the two ways `orphaning` names, for an
   invitation accepted by signing up too, once `Members` has it.

## How to run

In this directory: `tlc -workers 2 -config LedgerRaces.cfg MCLedger` checks a run
(`PROJECT.json` pairs configurations with modules), and `tlapm LedgerProofs.tla` checks
the proofs of a module; the others with proofs are `FiniteSums`, `LedgerRefinement`, `ImportJobsProofs`,
`RefreshTokensProofs`, `QueryCacheProofs`, `HouseholdProofs` and `ImportWizardProofs`.
