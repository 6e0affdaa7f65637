# TLA+ verification of the job board backend

The program is a FastAPI application over PostgreSQL (SQLAlchemy) with a Celery
worker: recruiters post jobs, moderators approve them, candidates apply,
recruiters decide on applications, anybody reports jobs. All paths below are
relative to `src/`.

## How to run it

    tlc -workers 2 -config MCReports.cfg MCReports.tla      # any MC module and cfg
    tlapm ApplicationsProofs.tla                            # any *Proofs module

`PROJECT.json` lists the runs, for each definition the source lines it models
(`map`), for each checked property a slip in the code that breaks it
(`mutants`), the hazards, the findings and the theorems. Operators whose comment
calls them a slip or a mutant are used only there.

## 1. The system

### What runs concurrently

The endpoints are plain `def` functions, which FastAPI runs in a thread pool.
Each request has a session of its own (`app/db/session.py:10-24`): no autoflush,
objects do not expire on commit, and the session is closed, which rolls an open
transaction back, when the handler ends however it ends. PostgreSQL runs at READ
COMMITTED. So a handler is a process, one database statement or commit is one
atomic step, and between two of them anything else may happen. Nothing is shared
between requests but the database and the Celery broker. A crash is possible
between any two steps.

### Components

| component | state | operations that change it | hard behaviour | what makes it correct |
|---|---|---|---|---|
| Applications (`domains/applications`) | tables `applications`, `application_events` | apply, change the status | check, then insert; status read without a lock; three separate effects (status, notification, event) | uniqueness, reviewed before decided, a truthful and complete history, notifications after commits |
| Jobs (`domains/jobs`) | table `jobs`, its tags | create, PUT, PATCH, delete | UPDATE of the dirty columns of a row loaded without a lock; tags in a second transaction | edits go back to review, status and moderator belong together |
| Job moderation (`domains/admin`) | `jobs`, `admin_audit_logs` | approve, reject | races with edits and deletion; `SELECT ... FOR UPDATE` | decides on what it read, decision and audit entry together |
| Reports (`domains/admin`) | `reports`, `admin_audit_logs` | submit, resolve, dismiss | two admins; the job, and so the report, is deleted meanwhile | handled once, audited |
| Notification delivery (`domains/notifications`, `worker.py`) | broker, workers, result backend | enqueue, execute, retry | failed and half-failed sends, worker deaths, a dead broker | bounded retries, no task vanishes unexplained, success means a mail |
| Tag registry (`domains/jobs/tags.py`) | table `job_tags` | get or create | savepoints, lost races for a slug, deadlocks between transactions, overlapping edits of one job | a tag is there for a request that succeeded, a job's tags are one list, failures are races |
| Companies (`domains/companies`) | `companies`, `company_recruiters` | create, add a member | check, then insert; rows it refers to are deleted meanwhile | failures are races |
| Registration and tokens (`domains/auth`, `core/security.py`, `api/deps.py`) | `users`, expiring tokens | register, login, refresh | check, then insert; refresh against expiry | one account for an email, a token speaks for its account |
| User deletion (`services/user_service.py`) | every table | delete (no endpoint calls it) | what the ORM loads, and the database's cascade after it | takes nothing with it that it did not have to |
| CV storage (`storage`, `cv_presign.py`) | none in the program | presign | none | keys belong to their candidate |
| Search and listings (`domains/jobs`) | none; a client's position | none | pages cut by offset while rows change; a join that multiplies rows | what changes explains every job skipped or repeated |
| Configuration, start, migrations | none at run time | | | |

Interactions: applications read `jobs.moderation_status` and company membership,
and vanish with their job (`ON DELETE CASCADE`), as do reports and the tag
associations; audit entries outlive the jobs and reports they are about, and go with
their admin's account only. The status handlers of
applications call the enqueueing functions of the notifications, which swallow
every exception of the broker. Moderators' and recruiters' handlers meet in the
row lock of a job; two edits meet in the tags a job has, and all of them in the
registry of tags. A token outlives its account, and everything hangs on accounts
by foreign keys.

## 2. The modules

| module | models | role |
|---|---|---|
| `Applications` | `apply_to_job`, `change_application_status` and what they call | detailed |
| `JobModeration` | create, PUT/PATCH, delete, approve, reject of jobs | detailed |
| `Reports` | submit, resolve, dismiss of reports; the cascade from jobs | detailed |
| `NotificationDelivery` | the two Celery tasks, worker and transport | detailed |
| `TagRegistry` | `replace_job_tags`, `get_or_create_tags`, and `delete_job` among them | detailed, inside `JobModeration`'s `Retag` |
| `Accounts` | register, login, refresh, the authentication of a request, companies and their recruiters, `delete_user` | detailed |
| `Listing` | the pages of `GET /jobs` and `GET /jobs/me` | detailed, over `JobLifecycle` |
| `AuditedDecision` | "a decision is taken on an open item only, and audited in the same instant" | abstract; implemented by `JobModeration` and `Reports` |
| `JobLifecycle` | how the moderation status of a job moves, seen from outside | abstract; implemented by `JobModeration`; the jobs of `Listing`; what `Applications` assumes of its environment |
| `StatusRecord` | what the applications domain promises of a status, its notification and its history without a lock | abstract; implemented by `Applications` |
| `TagMerge` | "a job's tags are loaded, later merged in one step, or nothing happens" | abstract; implemented by `TagRegistry` |
| `RetriedDelivery` | what may be expected of a mail: bounded copies, honest success, lost without a word at worst | abstract; implemented by `NotificationDelivery` |
| `MC*` | the small instances for TLC | |
| `ApplicationsProofs`, `JobModerationProofs`, `ReportsProofs`, `NotificationProofs`, `TagRegistryProofs`, `AccountsProofs`, `ListingProofs` | theorems | proofs |

### Conventions

* A request is a process with a program counter `pc[r]` and its Python variables
  `req[r]`; a terminal `pc` is the answer. An action is one statement of the
  handler together with the computation that follows it, up to the next
  statement; its disjuncts are the early returns and errors in the order the
  code tests them. `"lost"` means that an exception or a crash struck after the
  state-changing commit.
* Primary keys come from sequences and are never reused, so a row is named by
  the request that inserted it, and a table is a function from requests to rows
  or `NoRow`/`None`. Because a request inserts at most one row in each table, this
  loses nothing.
* Unique constraints and foreign keys are guards of the inserting step whose
  failure is the IntegrityError branch; cascades belong to the deleting step.
* In `Applications`, `JobModeration` and `Reports` users are three disjoint sets, by
  role; `require_roles` is the choice of the set a request's user is drawn from, and
  authentication happens before the first step. `Accounts` has accounts, roles and
  authentication as state.
* Each abstract specification is a module of its own with variables of its own, and the
  detailed one instantiates it with expressions over its state. The specifications of
  `StatusRecord`, `TagMerge` and `RetriedDelivery` spell stuttering out as a first
  disjunct: it says nothing, but saves TLC the search through their inputs on the many
  steps that map to nothing.
* History variables (`reached`, `published`, `born`, `dropped`, `before`, `last`,
  `early`, `steady`, `topLeft`, `topCame`) are named as such where they are declared and guard
  no action. `before` is who had committed when a handler read what it relies on, so
  "overtook" is: committed now, and not then.

### Applications

`apply_to_job` is `ApplyGetJob` (SELECT of the job, the approved test, the test of
the CV key), `ApplyCheckExisting`, `ApplyInsert` (INSERT and commit; the unique
constraint and the foreign key decide) and then the tail both handlers share:
`Refresh`, `Enqueue`, `AppendEvent`, `RefreshEvent`. `change_application_status` is
`ChangeGetApplication` (which also tests the role), `ChangeCheckAccess` (owner or
member of the job's company, then the transition table), `ChangeUpdate` and the
tail. The UPDATE names the primary key only, so it overwrites whatever status is
there; if the row is gone SQLAlchemy's row count test raises. `Refresh` fails if
the row was deleted meanwhile, `AppendEvent` if its foreign key fails, `Enqueue`
never: a failure of the broker is logged and swallowed. `RefreshEvent` is last: the
response is built from objects in memory. Environment actions `CreateJob`,
`ModerateJob`, `EditJob`, `DeleteJob` move the jobs (their handlers are modelled in
`JobModeration`), `AddMember` extends a company.

`StatusRecord` is what is left when the handlers are forgotten. Its `Submit` is the
INSERT and its `Move` the UPDATE, whose only guard is that the transition is legal from
some status the application has *had*; `Tell` is the task handed to the broker,
`Record` the event, each at most once for a write, in this order, and both say what was
written, which is not always what the row says by then. `written` is read off the
handler's variables once it is past its commit (`Written`), `told` off its task and
`recorded` off its event.

`SerialSpec`, here and in `JobModeration`, has the same steps, but a request is received,
and (here) the jobs and companies move, only while no handler is at work (`Quiet`). This is what the
documents have in mind, and what a sequential test sees; the theorems about it say that
the findings of section 4 are races and nothing else.

### JobModeration

A recruiter's edit is `EditGetJob` (loads the row), `EditCommit` (flushes the columns
whose value differs from the loaded ones, commits; waits for a row lock), `Retag`
(the second transaction, if the payload names tags) and `Reload`. `Column` and
`Flush` are SQLAlchemy's unit of work, external to `src/`: they are the reason why an
edit can leave columns of a concurrent decision alone. A moderator's handler is
`ModerateLock` (SELECT FOR UPDATE, test, assignments) and `DecideCommit` (the audit
entry and the commit of both), then `Refresh`. Content is one column standing for
title, location, type and description; tags are one value, and `Retag` is one step
(`TagRegistry` is what happens inside; a replacement that fails there, or is picked as
the victim of a deadlock, ends here as `Crash` ends it). The job that request `r`
creates is `r`, so a step of `r` itself is never an edit of that job. `DeleteCommit` fails if the tags that were
loaded are not the job's any more.

### Reports

`SubmitGetJob`, `SubmitInsert` (foreign key), `SubmitReload` are `submit_report`;
`HandleLock`, `HandleCommit`, `HandleRefresh` are `_handle_report`; `DeleteJob` is the
cascade, which waits for the locks of the reports it removes.

### NotificationDelivery

`Enqueue` is `.delay`; `Receive` and `Start` are the worker's (early) acknowledgement;
`Load` is the SELECT of the application, whose absence ends the task successfully;
`Send` is `deliver_plain_email` with the three outcomes sent, failed, sent and yet
failed (the reply or the QUIT of the `with` block is lost); `Fail` is any exception
other than `EmailDeliveryError`, such as that of a job title that contains a line
break and is no header. `Retry` is `self.retry`: it publishes the retry and raises
`Retry`, or, with the broker down, the task is rejected and forgotten. What became of
the function is stored only after it has ended (`Store`), and the pool hears of it
later still (`Report`).

`Crash` is a death between any two of these steps. Before the acknowledgement the message
goes back to the broker. After it either a process of the pool died, and the pool
reports `WorkerLostError` (`ReportLoss`): FAILURE replaces whatever is stored, except
SUCCESS; or the worker died with its pool, and nobody reports it (`LoseUnseen`). So a
process that dies after `Retry` and before the pool has heard of it leaves a task that
is reported as failed while its retry is in the broker, and which may still send its
mail and succeed. `early` has these tasks, and `NothingLost` and `RetriedDelivery` say
that this is the only way in which a final result is not the last word.

The worker's configuration (`app/worker.py:11-17`) sets none of Celery's delivery
options, so the defaults are modelled. Three things are assumed: that no message stays
in a worker for Redis' visibility timeout of an hour, after which Redis would hand it out
again (the countdowns of a minute and the sends of half a minute stay far below); that
a retry, which is due after a minute, does not start while the execution that asked for
it is still storing its result (the guard of `Start`); and that Redis has published no
message whose publication it reported as failed, and stores results.

`RetriedDelivery` sees only the result backend, the mailbox, the applications, who is
`lost` and who is `premature`, reported as failed and going on: it does not know
messages, workers or stages. `MailGoesOut` is the send, `Succeed` the storing of SUCCESS
after a mail or for a missing application, `RetryOrFail` that of the other two results,
`FailTooEarly` the report of a death whose retry is published, `Lose` a death nobody
reports, or a retry the broker did not take.

### TagRegistry

`Start` is the entry of `replace_job_tags` with the tags the session has loaded
(`Begin`), `DeleteGetJob` that of a deletion. `Select` and `Insert` are the statements of
the loop. The flush of `job.tags = tags` goes row by row: `DeleteRow`, and `InsertRow`
with the check of its foreign key, `CheckJob`; then `Commit`, and `Reload` is the refresh
after it. A deletion flushes its rows by `DeleteRow` too; `DeleteJob` is the DELETE of
the job, `CascadeRow` its cascade, `CommitDelete` the commit. `fresh[s]` is the
uncommitted row of a slug, `tags[s]` the committed one; `held` has the rows of
`job_tag_map` a handler has written and not committed. The rows of a flush come in any
order (`AtRows`, `NextRow`), since the unit of work and a SELECT without ORDER BY give
none, and the order of a payload is the client's. What the libraries do decides here:

* a statement that meets what another transaction has written and not committed waits
  for that transaction (`Blocks`, `WaitsFor`): an INSERT of a slug for the same slug, a
  DELETE or an INSERT of a row of `job_tag_map` for the same row, the check of a row's
  job for the job's deletion, and that deletion for whoever has such a row
  (`KeepsJob`). PostgreSQL aborts one transaction of a cycle of waits (`Deadlock`), and
  nothing catches the OperationalError. Two edits that give one job the tags `[a, b]`
  and `[b, a]` are such a cycle, although both tags are in the registry;
* when the slug is there the rolled back savepoint takes the new tag out of
  SQLAlchemy's session, and `db.expunge(tag)` then raises InvalidRequestError: the
  `except` branch never reaches its SELECT of the winner's row, and the request is
  answered 500 (the second disjunct of `Insert`);
* `job.tags = tags` is flushed as the difference from the loaded collection
  (`ToDelete`, `ToInsert`); a row to delete that is gone raises StaleDataError after
  the last DELETE, one to insert that is there violates the primary key of
  `job_tag_map`, one for a job that is gone its foreign key;
* `db.delete(job)` is flushed as DELETEs of the loaded rows of `job_tag_map` and of
  the job: the former raise StaleDataError if an edit has changed the tags since, and
  the job stays.

`TagMerge` has the load (`Start`, `DeleteGetJob`) and one step for the merge (`Commit`)
or the deletion (`CommitDelete`); everything between them, however many statements on
however many rows, is a stutter. A failure, a deadlock or a crash before the commit is
its `GiveUp`, which leaves no trace.

### Accounts

`Register`/`CreateUser`/`Reload` are registration, `Login` and `RefreshTokens` one
SELECT each (`IssueTokens` is the part they share), `Authenticate` is
`get_current_user` with `require_recruiter`. A token is the email in `sub`, its kind
and whether it has expired when it is presented (`Presented`, `Bearer`); a signature
is right. Then `CreateCompany`; `GetCompany`, `GetRecruiter`, `IsMember`,
`AddRecruiter` for a new member; and `GetUser`, `LoadRelations`, `DeleteRow` for
`delete_user`. The relationships `User.companies` and `User.company_memberships` have
no cascade, so the session loads them and sets their foreign keys to NULL. The
columns are NOT NULL, so that raises IntegrityError: an account with a company or a
membership cannot be deleted. The `ON DELETE CASCADE` of the tables takes only what
is committed between that load and the DELETE. Registration always makes a candidate;
recruiters, and accounts that are deactivated, are there at the start.

### Listing

`Read` is one request for a page, `Offset` and `Page` are `OFFSET`/`LIMIT` over the
rows in the order of `jobs.id DESC`, `Result` is the SELECT: approved jobs for the
public listing; for a recruiter's, the jobs joined from the outside with the
memberships of their company and then made distinct (`Distinct`). A client counts
pages up and stops at one that is not full, as the answer holds no total. `Create`, `Moderate`,
`Edit`, `Delete` are the steps of `JobLifecycle`, an edit may also change what the
filters match, and `AddRecruiter` adds a row to the join. A row is ranked by the
number of rows above it.

## 3. What is checked

| run | instance | shows |
|---|---|---|
| `app_race` | one job, one candidate, one recruiter, 4 requests | a submission and three status changes in every interleaving, with crashes: decisions follow reviews, every status has its event or a handler that failed, notifications follow commits, only a stale handler leaves the documented table; `StatusRecord` is implemented |
| `app_access` | 2 jobs of 2 companies, a candidate, 2 recruiters of whom one may join a company, an admin, 2 requests, fairness | one application for each job and candidate; only published jobs have any; events are truthful and their authors entitled; the cascade takes an application with its own job only; every request is answered |
| `app_transitions`, `app_duplicate`, `acc_duplicate` | as small as shows it | findings, see below |
| `mod_main` | 2 recruiters, one of them without access, a moderator, a note, 3 requests, fairness | the row lock protects what the moderator read; status, moderator and audit entry agree; an edit escapes review only through a stale read; `AuditedDecision` and `JobLifecycle` are implemented; nobody waits for a row lock for ever, a moderator at its SELECT included, although the holder may crash |
| `mod_edit` | 3 requests | finding |
| `reports` | 2 jobs, 2 admins, 4 requests | each report is handled at most once, with its audit entry, on the row that was read; `AuditedDecision` without reopening is implemented |
| `delivery` | 2 tasks about one application, 2 workers, `max_retries` 3, 2 deaths, fairness | at most four copies of a mail, repeated by retries only; success means sent or moot; no task vanishes unexplained, and a result is final but for a failure reported of a process that had published its retry; every task settles; `RetriedDelivery` is implemented |
| `tags` | 2 jobs, 2 slugs of which one has two spellings, lists of up to 2, 3 requests that edit or delete, crashes, fairness | no failed request leaves a tag behind, and a deleted job has none; a job's tags mix two lists only if their writers overlapped; a request fails only by a rival or as a deadlock's victim, of two new tags or of the rows of one job; somebody can always go on, and every request is answered; `TagMerge` is implemented |
| `accounts` | 2 accounts (the second a recruiter, a candidate or deactivated), a free email in two spellings, 3 requests, symmetry | one account for an address; a token speaks for its account until that is deleted; database errors and cascades are races |
| `listing` | 3 jobs, page sizes 1 and 2, 2 memberships, the three views | a job listed throughout is skipped only if a newer one left, and repeated only if a newer one came; with neither, the pages are the listing, each job once |

**Bounds.** A behaviour is bounded by the number of requests (tasks, worker
deaths, jobs); nothing else is. Requests are interchangeable, and each handles one
row, so a race needs as many requests as it has actors, plus those that set the
scene. A submission, the move to `reviewing` and two decisions make four, the bound
of `app_race`; an edit that races a decision or a deletion needs a job that was
created, three, the bound of `mod_main`, which also has the stale edit escape and a
waiter for each lock. Liveness cannot use symmetry, so a fourth request there does not
finish in a time one would wait; what a fourth could do (one more edit or decision
of a job that came back to review) is left to the theorems. In `delivery` each task
has its own messages and retries, so two tasks and two workers have everything that
can meet, and the two deaths can strike one task twice or both once. In `tags` two requests
race, wait in a cycle for slugs or for rows of a job, or overlap, and a third sets the scene, is the one that waits
behind both, deletes the job, or asks for a tag that failed. Two of three requests
at least are about one job, so `MCJobsOf` says which two and which job: a symmetry
that is sound with liveness too, since it only leaves out renamed behaviours. In `accounts` two requests race and a third
uses what they leave: an account deleted, its email registered anew, and the old token
presented; a member added while its company's owner is deleted. In `listing` three jobs
make, with pages of one, two shifts between pages, and with pages of two a full page,
a partial one and an empty one. The theorems have no bounds.
Symmetry is used where the cfg says so, never in a run with liveness. Deadlock is
not checked because the finitely many requests all end; that none of them gets
stuck before is what the liveness properties say.

**Fairness.** Weak fairness of each handler's own steps: a thread that entered a
handler is scheduled, and a statement that waits for a row lock gets it, since
PostgreSQL queues lock requests and the requests of a behaviour are finitely many.
In `TagRegistry` also of the deadlock detector, which PostgreSQL runs whenever a wait
exceeds `deadlock_timeout`: without it two requests that insert the same two tags, or
write the same two rows of a job, in opposite orders wait for ever.
`Accounts` and `Listing` state no fairness.
No fairness of clients, moderators, deletions or crashes. In
`NotificationDelivery`, of each worker: it runs, the database answers, and
`smtp_timeout_seconds` bounds a send.

## 4. What disagrees with the documents

| run | documented | what the code does |
|---|---|---|
| `app_transitions` | api-contracts.md:188-195, the table of allowed transitions, "server-enforced" | two handlers that read `reviewing` both write: `accepted` becomes `rejected`. `IllegalOnlyIfStale` and `DecidedAfterReview` say how far this can go |
| `app_duplicate` | api-contracts.md:208, a duplicate is answered 409 | the loser of two simultaneous INSERTs gets an unhandled IntegrityError, 500. `OneApplicationPerJob` still holds |
| `acc_duplicate` | auth-and-roles.md:38 and error-handling.md:86, a duplicate email is answered 409; api-contracts.md:76, so is a duplicate membership | the loser of two simultaneous registrations of one email, or additions of one recruiter, gets an unhandled IntegrityError, 500. `OneAccountPerEmail` still holds, and `Accounts!FailsOnlyIfRaced` says that it takes such a rival |
| `mod_edit` | api-contracts.md:143, PUT/PATCH reset moderation to pending | an approval between the load and the commit of an edit of a pending job survives, since the UPDATE does not name an unchanged `moderation_status`. `EscapesReviewOnlyIfStale` says it takes such an approval |

Two more, not run. An approval between the two transactions of an edit with tags
survives as well. And architecture.md:53 says that applying only succeeds for approved
jobs, but the job may go back to moderation between the test and the INSERT:
`Applications!AppliedOnlyToPublished`, which is checked, is what remains, and
`AppliesOnlyToApproved` is a theorem of `SerialSpec`.

Seen while modelling, and no document says otherwise: the event of
a status change can precede that of the submission, and the latter is missing if
the handler dies in between; the `moderation_note` can be torn from its decision
(the columns of a stale edit are written one by one); of two requests that create
the same new tag at once the later is answered 500, although `get_or_create_tags` is
written to go on with the winner's row; two overlapping edits of one job can
leave it with tags of both lists, or be answered 500 for a deadlock; a task can be
reported as failed while its retry is still to come; a job whose tags an edit changes between the two
statements of its deletion is not deleted, which is answered 500; a token that has not expired speaks for whoever
registers the email of a deleted account.

## 5. What is proved

For every value of the constants, by TLAPS from the `ASSUME`s of the modules only
(the roles are disjoint, the null value is no row); the one further hypothesis, of
`TagRegistryProofs!NobodyIsStuck`, is that the requests are finitely many:

* **`ApplicationsProofs`**: type correctness and all the safety properties of
  `Applications`, state and action: `TypeCorrect`, `OneApplication`, `Reviewed`,
  `OnlyToPublished`, `TruthfulHistory`, `AccountedFor`, `NotifiedAfterCommit`,
  `Resubmission`, `Staleness`, `Cascade`. None of them is inductive. What is missing
  is the link between a row and the variables of the handler that works on it: that
  a handler past its INSERT or UPDATE has reached the status it holds, that the
  `from` of a handler about to update was a status the application really had, that
  a recruiter past the access test has access (members are never removed), that rows
  appear only for requests past their INSERT. `IInv` adds these; its preservation is
  one lemma for each action, most by showing that the action touches one row.
  `Refinement` (`Spec => ImplementsStatusRecord`) maps each action to one step of
  `StatusRecord` or to a stutter; it needs of the invariant that a handler at its tail
  holds what it wrote, and that its task and event, if there, repeat it.
  `SerialDuplicates`, `SerialTransitions` and `SerialApproval` are the three documented
  properties that `Spec` violates, as theorems of `SerialSpec`. Its invariant adds to
  `IInv` that at most one handler is at work (`SerialInvariance`), and therefore that what
  the working one has read is still so: the status it read, the candidate who had not
  applied, the job that was approved.
* **`JobModerationProofs`**: `TypeCorrect`, `LockProtects`, `StatusAgrees`, `Audited`,
  `OnlyStaleEditsEscape`, and the two refinements: `Refinement`
  (`Spec => ImplementsAuditedDecision`) and `LifecycleRefinement`
  (`Spec => ImplementsJobLifecycle`). The invariant says what a handler knows of the
  row it loaded: a moderator's is still in the table, since the row is locked; a
  recruiter's may be stale, but its status and moderator agreed, and it wants both
  reset. `FlushForReview` is the heart: writing only the columns that differ from a
  consistent stale row either makes the row pending or leaves a whole decision, and
  the latter only if the stale row was pending. `StepEffect` sums the steps up as
  creations, edits, removals and decisions of one row, and both refinements start
  there. `NobodyIsStuck` says that a locked row is held by a handler that is at its
  commit and does not wait: so does whoever waits, be it a moderator at its
  `SELECT ... FOR UPDATE`, wait for one about to end. `SerialEdits` is the documented property of
  `mod_edit` as a theorem of `SerialSpec`: one request at a time, reads are fresh
  (`ReadsAreFresh`), so an edit writes every column it means to reset, and nobody decides
  between its two transactions.
* **`ReportsProofs`**: `TypeCorrect`, `LockHolds` (a handler that holds a lock
  decides on the open report it read), `ReportsHandledOnce`, and `Refinement`:
  `Spec => ImplementsAuditedDecision`, each step mapping to a step of
  `AuditedDecision` or to a stutter. The invariant says that a row is locked exactly
  while a handler is at `decide` with it, that an open report has neither a decider
  nor an audit entry, and that a report is born once.
* **`NotificationProofs`**: `TypeCorrect`, `AtMostOneMailPerTry`, `HonestSuccess`,
  `NoLoss` and `Repeats`. The invariant says that a task has at most one message, in
  the broker or in a worker that has not published its retry (`OneMessage`); that the
  execution which published it is still to be reported, so the retry does not start
  before (`RetryWaits`), and hence that the outcome stored last is that of the latest
  try; and that the retries it counts bound the mails that went out: before a send as
  many as there were retries, one more after it (`MailCount`). An outcome of SUCCESS has
  its mail before it is stored (`HonestReports`). `Refinement`
  (`Spec => ImplementsRetriedDelivery`) rests on the same invariant: a task in a worker
  is open, not lost, and may send once more; one reported as failed is open exactly if
  its retry is under way.
* **`TagRegistryProofs`**: `TypeCorrect`, `RegistryIsConsistent`, `LastListStands`,
  `FailuresAreRaces`. The invariant says that what a handler has found is committed or
  its own uncommitted row, and that what it loaded of its job is still so, and the job
  still there, unless somebody overtook it who wrote or deleted the same job; likewise that a slug which was not in
  the registry when a handler looked is in it only by a rival's commit. Between the first
  row and the commit it adds what row locks do: the rows a handler holds are its
  own (`ExclusiveInv`), those it has deleted are in the table and those it has inserted
  are not (`StoredInv`), whatever others commit meanwhile, and a job somebody refers to is
  not deleted (`JobInv`). `WithinKeeps` shows once that a step of one handler within its
  transaction leaves all of this to the others, `OvertakeStep` that a commit may only
  break it by overtaking. `FailuresAreRaces` has a second half, on deadlocks: a
  flush waits only for flushes of its job, so on a cycle of waits each is also waited for
  by one (`FlushingCycle`), and whoever is waited for holds a new tag, or rows of the job.
  `NobodyIsStuck` is freedom from deadlock as a property of states. A row that others wait
  for belongs to a handler at work (`WaitedForHas`), so if every handler at work waited they would be a
  set that no wait leads out of. The handlers that such a set waits for are
  another one inside it, so a smallest one, which exists because the requests are finitely
  many, is exactly what it waits for (`SmallestIsCycle`): the cycle that `InCycle` asks for.
  `Refinement` (`Spec => ImplementsTagMerge`) maps `Commit` to `Replace`, `CommitDelete`
  to `Delete` and every failure to `GiveUp`: what
  a handler has found and has still to find are together what its payload wants, so what
  it adds to the registry at its commit is that and no more, as all else it found was there.
* **`AccountsProofs`**: `TypeCorrect`, `EmailsAreUnique`, `TokensKeepTheirAccount`,
  `FailuresAreRaces`, `DeletionsAreRaces`. Again each `pc` stands for what its handler
  has read (nobody has the email, the owner exists, the pair is no member, the user
  has no relations), each "or somebody overtook it" and by which operation; stored
  emails are normalised, and a token names the email of its account.
* **`ListingProofs`**: `TypeCorrect`, `NothingIsSkipped`, `NothingIsRepeated`, for any
  number of jobs and any page size. The place of a job is the number of rows above it;
  a steady job with no newer one gone has at least the rank it had, and a job with no
  newer one come at most, so a job not yet shown is past the last offset, and one
  already shown is before it. The last page is short, so nothing is past it. Counting
  is by `FiniteSetTheorems`, in lemmas of their own (`FullPage`, `AtMost`, `AtLeast`).
  `PagesAreTheListing` follows with one more conjunct: while nothing came or left, all
  that is listed is steady, and nothing else was seen.

Types are proved for every module; a run checks them where nothing deeper takes longer
(`mod_main`). `NeverResubmitted` and the serial theorems are proved, not run.

Each theorem that states a checked property names it in `PROJECT.json`.

**Only model-checked**: the liveness properties, which are out of the prover's reach.
The safety halves of two of them are proved for any number of requests: nobody waits for
somebody who cannot go on (the theorems `NobodyIsStuck`).
The properties of the findings are violated by `Spec`; the serial theorems say when they hold.

## 6. What is not modelled

* The other read-only endpoints (single rows, and the listings of companies,
  applications, the moderation queue, reports and the audit log): they change nothing,
  and the paged ones cut pages as `Listing` does.
* `delete_user` on candidates' profiles and applications: the session deletes an
  account's applications one by one and treats its profile as it treats a company. No
  endpoint calls it.
* The result of the presigned CV URL: the object store is never read.
* The locks that foreign keys take on `companies`, `users` and `job_tags`, none of whose
  rows is deleted by an endpoint. The one on `jobs` is modelled where it matters:
  `TagRegistry!CheckJob`, and the waits of `Retag` in `JobModeration`; the other INSERTs
  that refer to a job are followed by their COMMIT at once, and the two are one step.
* The alphabet of a tag: `normalize_tag_slug` is a function from spellings to slugs, and
  what it rejects never reaches a handler.
* Signatures of tokens and hashes of passwords: right or wrong.
* Configuration, application start and migrations: nothing happens concurrently there.
* Failures of the database itself beyond the loss of a connection (`Crash`).

## 7. Plan

Done: the modules above with their runs and proofs, the refinements among them: every
detailed module but `Accounts` and `Listing` implements an abstract one.

1. An abstract specification of `Accounts`: what a token may speak for, and what an
   account takes with it, without the statements.
2. `JobModeration`'s `Retag` shown to be `TagRegistry`, so that a job may also be
   decided between two statements of `replace_job_tags`.
3. `delete_user` on profiles and applications, in `Accounts`.
4. The paged listings of applications and reports, as instances of `Listing`.
