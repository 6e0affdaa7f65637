---------------------------- MODULE Applications ----------------------------
(***************************************************************************)
(* The life of a job application: the two endpoints of                     *)
(* app/domains/applications that write, POST /applications (apply_to_job)  *)
(* and PATCH /applications/{id}/status (change_application_status).        *)
(*                                                                         *)
(* FastAPI runs the synchronous endpoints in a thread pool, each request   *)
(* with a database session of its own, so a handler is a process and each  *)
(* of its database statements is one step: between two statements any      *)
(* other request may run.  A session is closed, and its open transaction   *)
(* rolled back, when the handler ends.  The jobs the applications point to *)
(* change under the handlers' feet; those changes are environment actions  *)
(* here, JobModeration.tla models the handlers that make them.             *)
(***************************************************************************)
EXTENDS Integers, FiniteSets

CONSTANTS
    Jobs,          \* primary keys of jobs
    Companies,     \* primary keys of companies
    CompanyOf,     \* jobs.company_id
    Candidates,    \* users, by role
    Recruiters,
    Admins,
    Requests,      \* the requests ever received; bounds a behaviour
    NoRow          \* "no such row", None

ASSUME AppAssumption ==
    /\ CompanyOf \in [Jobs -> Companies]
    /\ Candidates \cap Recruiters = {}
    /\ Candidates \cap Admins = {}
    /\ Recruiters \cap Admins = {}

Users == Candidates \cup Recruiters \cup Admins

Statuses == {"submitted", "reviewing", "accepted", "rejected"}

JobStates == {"none", "pending", "approved", "rejected", "deleted"}

\* A slip in the table of transitions, for the mutation runs: a decision without a
\* review.
AllowedTargetsNoReview(s) ==
    CASE s = "submitted" -> {"reviewing", "rejected"}
      [] s = "reviewing" -> {"accepted", "rejected"}
      [] OTHER -> {}

\* ALLOWED_STATUS_TRANSITIONS
AllowedTargets(s) ==
    CASE s = "submitted" -> {"reviewing"}
      [] s = "reviewing" -> {"accepted", "rejected"}
      [] OTHER -> {}

(***************************************************************************)
(* A primary key is drawn from a sequence and never used twice, so a row   *)
(* that request r inserts is named r: apps[r] is the application, events[r]*)
(* the history event and mail[r] the notification task that r created.     *)
(***************************************************************************)
Rows == [job : Jobs, candidate : Candidates, status : Statuses]

EventRows == [app : Requests, actor : Users, from : Statuses, to : Statuses]

\* The arguments of a notification task; "submitted" is the from and the to
\* of the task that announces a new application.
Tasks == [app : Requests, job : Jobs, candidate : Candidates,
          actor : Users, from : Statuses, to : Statuses]

\* What the handler of a request holds in its Python variables: who calls,
\* the job, the candidate and the id of the application, the status it read
\* and the status it is asked to write.
Locals == [user : Users, job : Jobs, candidate : Candidates, app : Requests,
           from : Statuses, to : Statuses]

\* What any of the three says of a change: whose, from what, to what.
Changes == [app : Requests, from : Statuses, to : Statuses]

Change(x) == [app |-> x.app, from |-> x.from, to |-> x.to]

ASSUME NoRowAssumption ==
    /\ NoRow \notin Rows /\ NoRow \notin EventRows /\ NoRow \notin Tasks
    /\ NoRow \notin Locals /\ NoRow \notin Changes

Working == {"check_existing", "insert", "check_access", "update",
            "refresh", "enqueue", "append", "refresh_event"}

\* "unique_violation" and "server_error" are unhandled exceptions, answered
\* 500; "lost" is one, or a crash, that struck after the status was committed.
Replies == {"ok", "bad_request", "forbidden", "not_found", "conflict",
            "unique_violation", "server_error", "lost"}

VARIABLES
    jobs,        \* moderation_status of each job, "none" and "deleted" for no row
    members,     \* owner and company_recruiters of each company
    apps,        \* table applications
    events,      \* table application_events
    mail,        \* tasks accepted by the Celery broker
    pc,          \* where each request is
    req,         \* Locals of each request
    reached,     \* history variable: the statuses each application ever had
    published    \* history variable: the jobs ever approved

db == <<apps, events, reached>>
env == <<jobs, members, published>>
vars == <<jobs, members, apps, events, mail, pc, req, reached, published>>

Init ==
    /\ jobs = [j \in Jobs |-> "none"]
    /\ members \in [Companies -> {{u} : u \in Recruiters}]
    /\ apps = [r \in Requests |-> NoRow]
    /\ events = [r \in Requests |-> NoRow]
    /\ mail = [r \in Requests |-> NoRow]
    /\ pc = [r \in Requests |-> "idle"]
    /\ req = [r \in Requests |-> NoRow]
    /\ reached = [r \in Requests |-> {}]
    /\ published = {}

Rowless == {"none", "deleted"}

JobExists(j) == jobs[j] \notin Rowless

\* get_application_by_job_and_candidate, and the unique constraint.
Applied(c, j) ==
    \E a \in Requests : apps[a] # NoRow /\ apps[a].job = j /\ apps[a].candidate = c

\* create_application fills job_id and candidate_user_id; the status is the
\* column's default.
NewRow(q) == [job |-> q.job, candidate |-> q.candidate, status |-> "submitted"]

\* UniqueConstraint("job_id", "candidate_user_id"); the mutant is a schema
\* without it.
NoUniqueConstraint(q) == FALSE

ViolatesUnique(q) == Applied(q.candidate, q.job)

\* The test of apply_to_job that the job can be applied to; the mutant looks
\* only for the row.
AnyJob(j) == JobExists(j)

Published(j) == jobs[j] = "approved"

\* _assert_recruiter_can_access_job: owner or member of the job's company.  The
\* mutant takes any recruiter for one.
AnyRecruiter(u, j) == u \in Recruiters

HasAccess(u, j) == u \in members[CompanyOf[j]]

Goto(r, label) == pc' = [pc EXCEPT ![r] = label]

\* The handler ends before it has written anything: its variables are gone.
Answer(r, reply) ==
    /\ Goto(r, reply)
    /\ req' = [req EXCEPT ![r] = NoRow]

-----------------------------------------------------------------------------
(* POST /applications *)

\* apply_to_job reads the job: a missing or unpublished one is a 404, a CV key
\* that does not carry the candidate's prefix a 400.
ApplyGetJob(r, c, j, keyIsOwn) ==
    /\ pc[r] = "idle"
    /\ \/ /\ ~Published(j)
          /\ Answer(r, "not_found")
       \/ /\ Published(j) /\ ~keyIsOwn
          /\ Answer(r, "bad_request")
       \/ /\ Published(j) /\ keyIsOwn
          /\ Goto(r, "check_existing")
          /\ req' = [req EXCEPT ![r] =
                       [user |-> c, job |-> j, candidate |-> c, app |-> r,
                        from |-> "submitted", to |-> "submitted"]]
    /\ UNCHANGED <<env, db, mail>>

ApplyCheckExisting(r) ==
    /\ pc[r] = "check_existing"
    /\ \/ /\ Applied(req[r].candidate, req[r].job)
          /\ Answer(r, "conflict")
       \/ /\ ~Applied(req[r].candidate, req[r].job)
          /\ Goto(r, "insert")
          /\ UNCHANGED req
    /\ UNCHANGED <<env, db, mail>>

\* create_application: INSERT and COMMIT.  PostgreSQL checks the foreign key to
\* jobs and the unique constraint on (job_id, candidate_user_id); neither
\* IntegrityError is caught.
ApplyInsert(r) ==
    /\ pc[r] = "insert"
    /\ \/ /\ ~JobExists(req[r].job)
          /\ Answer(r, "server_error")
          /\ UNCHANGED db
       \/ /\ JobExists(req[r].job)
          /\ ViolatesUnique(req[r])
          /\ Answer(r, "unique_violation")
          /\ UNCHANGED db
       \/ /\ JobExists(req[r].job)
          /\ ~ViolatesUnique(req[r])
          /\ apps' = [apps EXCEPT ![r] = NewRow(req[r])]
          /\ reached' = [reached EXCEPT ![r] = {"submitted"}]
          /\ Goto(r, "refresh")
          /\ UNCHANGED <<events, req>>
    /\ UNCHANGED <<env, mail>>

-----------------------------------------------------------------------------
(* PATCH /applications/{id}/status *)

\* change_application_status reads the application, without a lock.  The role
\* decides what comes next: an admin needs no access to the job.
ChangeGetApplication(r, u, a, s) ==
    /\ pc[r] = "idle"
    /\ \/ /\ apps[a] = NoRow
          /\ Answer(r, "not_found")
       \/ /\ apps[a] # NoRow
          /\ Goto(r, IF u \in Recruiters THEN "check_access" ELSE "update")
          /\ req' = [req EXCEPT ![r] =
                       [user |-> u, job |-> apps[a].job,
                        candidate |-> apps[a].candidate, app |-> a,
                        from |-> apps[a].status, to |-> s]]
    /\ UNCHANGED <<env, db, mail>>

\* A slip for the mutation runs: the candidate is told before the commit.
NotifyThenUpdate(r) ==
    LET q == req[r] IN
    /\ pc[r] = "check_access"
    /\ HasAccess(q.user, q.job)
    /\ mail' = [mail EXCEPT ![r] =
                   [app |-> q.app, job |-> q.job, candidate |-> q.candidate,
                    actor |-> q.user, from |-> q.from, to |-> q.to]]
    /\ Goto(r, "update")
    /\ UNCHANGED <<env, db, req>>

ChangeCheckAccess(r) ==
    /\ pc[r] = "check_access"
    /\ \/ /\ ~JobExists(req[r].job)
          /\ Answer(r, "not_found")
       \/ /\ JobExists(req[r].job) /\ ~HasAccess(req[r].user, req[r].job)
          /\ Answer(r, "forbidden")
       \/ /\ JobExists(req[r].job) /\ HasAccess(req[r].user, req[r].job)
          /\ Goto(r, "update")
          /\ UNCHANGED req
    /\ UNCHANGED <<env, db, mail>>

\* The transition is checked against the status read in the first step; then
\* UPDATE applications SET status = ... WHERE id = ... and COMMIT.  The UPDATE
\* does not look at the status in the row; no row at all is a StaleDataError.
ChangeUpdate(r) ==
    LET q == req[r] IN
    /\ pc[r] = "update"
    /\ \/ /\ q.to \notin AllowedTargets(q.from)
          /\ Answer(r, "conflict")
          /\ UNCHANGED db
       \/ /\ q.to \in AllowedTargets(q.from)
          /\ apps[q.app] = NoRow
          /\ Answer(r, "server_error")
          /\ UNCHANGED db
       \/ /\ q.to \in AllowedTargets(q.from)
          /\ apps[q.app] # NoRow
          /\ apps' = [apps EXCEPT ![q.app].status = q.to]
          /\ reached' = [reached EXCEPT ![q.app] = @ \cup {q.to}]
          /\ Goto(r, "refresh")
          /\ UNCHANGED <<events, req>>
    /\ UNCHANGED <<env, mail>>

-----------------------------------------------------------------------------
(* What both do after their commit: refresh, notify, append to the history. *)

\* A slip for the mutation runs: the refresh is retried until it finds the row.
RefreshUntilFound(r) ==
    /\ pc[r] = "refresh"
    /\ apps[req[r].app] # NoRow
    /\ Goto(r, "enqueue")
    /\ UNCHANGED <<env, db, mail, req>>

\* db.refresh(application) fails when the row is gone.
Refresh(r) ==
    /\ pc[r] = "refresh"
    /\ Goto(r, IF apps[req[r].app] = NoRow THEN "lost" ELSE "enqueue")
    /\ UNCHANGED <<env, db, mail, req>>

\* A slip for the mutation runs: a broker that is down ends the handler.
EnqueueOrReturn(r) ==
    LET q == req[r] IN
    /\ pc[r] = "enqueue"
    /\ \/ /\ mail' = [mail EXCEPT ![r] =
                        [app |-> q.app, job |-> q.job, candidate |-> q.candidate,
                         actor |-> q.user, from |-> q.from, to |-> q.to]]
          /\ Goto(r, "append")
       \/ /\ Goto(r, "ok")
          /\ UNCHANGED mail
    /\ UNCHANGED <<env, db, req>>

\* enqueue_application_..._notification: an exception of the broker is logged
\* and swallowed, and notifications may be switched off.
Enqueue(r) ==
    LET q == req[r] IN
    /\ pc[r] = "enqueue"
    /\ \/ mail' = [mail EXCEPT ![r] =
                     [app |-> q.app, job |-> q.job, candidate |-> q.candidate,
                      actor |-> q.user, from |-> q.from, to |-> q.to]]
       \/ UNCHANGED mail
    /\ Goto(r, "append")
    /\ UNCHANGED <<env, db, req>>

\* A slip for the mutation runs: the event takes its "from" from the row, which
\* has the new status by now.
AppendWhatIsThere(r) ==
    LET q == req[r] IN
    /\ pc[r] = "append"
    /\ \/ /\ apps[q.app] = NoRow
          /\ Goto(r, "lost")
          /\ UNCHANGED events
       \/ /\ apps[q.app] # NoRow
          /\ events' = [events EXCEPT ![r] = [app |-> q.app, actor |-> q.user,
                                            from |-> apps[q.app].status, to |-> q.to]]
          /\ Goto(r, "refresh_event")
    /\ UNCHANGED <<env, apps, reached, mail, req>>

\* create_application_event: INSERT and COMMIT, in a transaction of its own; the
\* foreign key fails when the application is gone.
AppendEvent(r) ==
    LET q == req[r] IN
    /\ pc[r] = "append"
    /\ \/ /\ apps[q.app] = NoRow
          /\ Goto(r, "lost")
          /\ UNCHANGED events
       \/ /\ apps[q.app] # NoRow
          /\ events' = [events EXCEPT ![r] =
                          [app |-> q.app, actor |-> q.user, from |-> q.from, to |-> q.to]]
          /\ Goto(r, "refresh_event")
    /\ UNCHANGED <<env, apps, reached, mail, req>>

\* db.refresh(event), then the handler returns the application.
RefreshEvent(r) ==
    /\ pc[r] = "refresh_event"
    /\ Goto(r, IF events[r] = NoRow THEN "lost" ELSE "ok")
    /\ UNCHANGED <<env, db, mail, req>>

-----------------------------------------------------------------------------
(* Failures and the rest of the application *)

\* The process is killed or loses its database connection between two
\* statements.  What it committed stays; the rest is rolled back.
Crash(r) ==
    \/ /\ pc[r] \in {"check_existing", "insert", "check_access", "update"}
       /\ Answer(r, "server_error")
       /\ UNCHANGED <<env, db, mail>>
    \/ /\ pc[r] \in {"refresh", "enqueue", "append", "refresh_event"}
       /\ Goto(r, "lost")
       /\ UNCHANGED <<env, db, mail, req>>

\* POST /companies/{id}/members: a recruiter is added.  No endpoint removes one.
AddMember(c, u) ==
    /\ u \notin members[c]
    /\ members' = [members EXCEPT ![c] = @ \cup {u}]
    /\ UNCHANGED <<jobs, published, db, mail, pc, req>>

\* The jobs move as JobLifecycle says, which JobModeration implements.
Lifecycle == INSTANCE JobLifecycle

CreateJob(j) ==
    /\ Lifecycle!Create(j)
    /\ UNCHANGED <<members, published, db, mail, pc, req>>

ModerateJob(j) ==
    /\ Lifecycle!Moderate(j)
    /\ published' = IF jobs'[j] = "approved" THEN published \cup {j} ELSE published
    /\ UNCHANGED <<members, db, mail, pc, req>>

\* PUT and PATCH /jobs/{id} send the job back to the moderation queue.
EditJob(j) ==
    /\ Lifecycle!Edit(j)
    /\ UNCHANGED <<members, published, db, mail, pc, req>>

\* The rows a DELETE of job j takes along.  The mutant loses the WHERE clause.
AllApplications(j) == {a \in Requests : apps[a] # NoRow}

ApplicationsOf(j) == {a \in Requests : apps[a] # NoRow /\ apps[a].job = j}

\* DELETE /jobs/{id}: the ORM cascade and the ON DELETE CASCADE keys take the
\* applications and their events with the job, in one transaction.
DeleteJob(j) ==
    LET gone == ApplicationsOf(j) IN
    /\ Lifecycle!Delete(j)
    /\ apps' = [a \in Requests |-> IF a \in gone THEN NoRow ELSE apps[a]]
    /\ events' = [r \in Requests |->
                    IF events[r] # NoRow /\ events[r].app \in gone
                    THEN NoRow ELSE events[r]]
    /\ UNCHANGED <<members, published, mail, pc, req, reached>>

-----------------------------------------------------------------------------
\* The steps of a handler that was entered.
Handle(r) ==
    \/ ApplyCheckExisting(r) \/ ApplyInsert(r)
    \/ ChangeCheckAccess(r) \/ ChangeUpdate(r)
    \/ Refresh(r) \/ Enqueue(r) \/ AppendEvent(r) \/ RefreshEvent(r)

Receive(r) ==
    \/ \E c \in Candidates, j \in Jobs, keyIsOwn \in BOOLEAN : ApplyGetJob(r, c, j, keyIsOwn)
    \/ \E u \in Recruiters \cup Admins, a \in Requests, s \in Statuses :
          ChangeGetApplication(r, u, a, s)

Environment ==
    \/ \E c \in Companies, u \in Recruiters : AddMember(c, u)
    \/ \E j \in Jobs : CreateJob(j) \/ ModerateJob(j) \/ EditJob(j) \/ DeleteJob(j)

Next ==
    \/ \E r \in Requests : Receive(r) \/ Handle(r) \/ Crash(r)
    \/ Environment

Spec == Init /\ [][Next]_vars

\* A thread that entered a handler is eventually scheduled again; nothing
\* obliges clients, moderators or crashes to act.
FairSpec == Spec /\ \A r \in Requests : WF_vars(Handle(r))

\* One request at a time, while nothing else moves: all that a sequential test sees,
\* and what the documents describe.
Quiet == \A r \in Requests : pc[r] \notin Working

OneAtATime ==
    \/ \E r \in Requests : Handle(r) \/ Crash(r)
    \/ Quiet /\ ((\E r \in Requests : Receive(r)) \/ Environment)

SerialSpec == Init /\ [][OneAtATime]_vars

-----------------------------------------------------------------------------
(* Properties *)

\* Every variable keeps its type, and a handler at work has its variables.
TypeOK ==
    /\ jobs \in [Jobs -> JobStates]
    /\ members \in [Companies -> SUBSET Recruiters]
    /\ apps \in [Requests -> Rows \cup {NoRow}]
    /\ events \in [Requests -> EventRows \cup {NoRow}]
    /\ mail \in [Requests -> Tasks \cup {NoRow}]
    /\ pc \in [Requests -> {"idle"} \cup Working \cup Replies]
    /\ req \in [Requests -> Locals \cup {NoRow}]
    /\ reached \in [Requests -> SUBSET Statuses]
    /\ published \in SUBSET Jobs
    /\ \A r \in Requests : pc[r] \in Working \cup {"ok", "lost"} => req[r] # NoRow

\* A candidate has at most one application for a job, although apply_to_job
\* looks for an earlier one in a statement of its own, before the INSERT.
OneApplicationPerJob ==
    \A a, b \in Requests :
        /\ apps[a] # NoRow /\ apps[b] # NoRow
        /\ apps[a].job = apps[b].job /\ apps[a].candidate = apps[b].candidate
        => a = b

\* Whatever the interleaving, an application that carries a decision was in
\* review at some time: stale handlers may overwrite one another, but no two of
\* them together skip the review.
DecidedAfterReview ==
    \A a \in Requests :
        apps[a] # NoRow /\ apps[a].status \in {"accepted", "rejected"}
        => "reviewing" \in reached[a]

\* Every application is for a job that a moderator approved at some time, even
\* if the job was edited or rejected between apply_to_job's steps.
AppliedOnlyToPublished ==
    \A a \in Requests : apps[a] # NoRow => apps[a].job \in published

\* The statuses an event claims were really held by the application it is filed
\* under, which still exists; and its author was entitled: the applicant for the
\* submission, an admin or a recruiter with access for a change.
EntitledTo(u, r, a) ==
    \/ r = a /\ u = apps[a].candidate
    \/ r # a /\ u \in Admins
    \/ r # a /\ u \in members[CompanyOf[apps[a].job]]

HistoryIsTruthful ==
    \A r \in Requests : events[r] # NoRow =>
        LET e == events[r] IN
        /\ apps[e.app] # NoRow
        /\ {e.from, e.to} \subseteq reached[e.app]
        /\ EntitledTo(e.actor, r, e.app)

\* No status of an existing application goes unexplained: for each one there is
\* an event, or the handler that committed it is still on its way to the event,
\* or failed after its commit.  A handler that answered "ok" left its event.
EveryStatusIsAccountedFor ==
    \A a \in Requests : apps[a] # NoRow =>
        \A s \in reached[a] : \E r \in Requests :
            /\ req[r] # NoRow /\ req[r].app = a /\ req[r].to = s
            /\ \/ events[r] # NoRow
               \/ pc[r] \in {"refresh", "enqueue", "append", "lost"}

\* The candidate is never told of a status the application did not have: a task
\* is queued only after the commit it announces, and is addressed to the
\* applicant.
NotifiedOnlyIfCommitted ==
    \A r \in Requests : mail[r] # NoRow =>
        LET m == mail[r] IN
        /\ {m.from, m.to} \subseteq reached[m.app]
        /\ apps[m.app] # NoRow =>
              m.candidate = apps[m.app].candidate /\ m.job = apps[m.app].job

\* An application never outlives its job, even when the job is deleted while
\* apply_to_job is between its test and its INSERT; and it disappears with
\* its own job only.
GoesWithItsJob ==
    [][\A a \in Requests :
          /\ apps'[a] # NoRow => jobs'[apps'[a].job] \notin Rowless
          /\ apps[a] # NoRow /\ apps'[a] = NoRow => jobs'[apps[a].job] \in Rowless]_vars

\* The table "Allowed transitions (server-enforced)" of api-contracts.md.
DocumentedTransitions ==
    { <<"submitted", "reviewing">>, <<"reviewing", "accepted">>, <<"reviewing", "rejected">> }

StatusMoves(a) ==
    /\ apps[a] # NoRow /\ apps'[a] # NoRow
    /\ apps[a].status # apps'[a].status

\* No step takes an application back to "submitted", not even a stale handler's.
NeverResubmitted ==
    [][\A a \in Requests : StatusMoves(a) => apps'[a].status # "submitted"]_vars

\* A step outside the documented table is only ever taken by a handler whose
\* status was overwritten between its read and its UPDATE: the missing lock is
\* the only way to an illegal transition.
IllegalOnlyIfStale ==
    [][\A a \in Requests : StatusMoves(a) =>
          \/ <<apps[a].status, apps'[a].status>> \in DocumentedTransitions
          \/ \E r \in Requests : /\ pc[r] = "update" /\ pc'[r] = "refresh"
                                 /\ req[r].app = a
                                 /\ req[r].from # apps[a].status]_vars

\* The change that request r has committed.
Written(r) ==
    IF pc[r] \in {"refresh", "enqueue", "append", "refresh_event", "ok", "lost"}
      THEN Change(req[r]) ELSE NoRow

Record == INSTANCE StatusRecord
    WITH Writes <- Requests, Allowed <- DocumentedTransitions, First <- "submitted",
         None <- NoRow, rows <- apps, had <- reached,
         written <- [r \in Requests |-> Written(r)],
         told <- [r \in Requests |-> IF mail[r] = NoRow THEN NoRow ELSE Change(mail[r])],
         recorded <- [r \in Requests |-> IF events[r] = NoRow THEN NoRow ELSE Change(events[r])]

\* Every behaviour of the handlers is one of StatusRecord: a status is written by a
\* transition of the documented table from one the application has had; the task
\* and the event of a write come after it, at most once each, and say what it
\* wrote, not what the row has by then.
ImplementsStatusRecord == Record!Spec

\* Every request that entered a handler is answered, whatever the others do.
EveryRequestIsAnswered ==
    \A r \in Requests : (pc[r] \in Working) ~> (pc[r] \in Replies)

-----------------------------------------------------------------------------
(* What the documents say and the code does not keep. *)

\* api-contracts.md, "Allowed transitions (server-enforced)".  Violated: two
\* handlers read the same status and both write.
TransitionsAreLegal ==
    [][\A a \in Requests : StatusMoves(a) =>
          <<apps[a].status, apps'[a].status>> \in DocumentedTransitions]_vars

\* api-contracts.md: a duplicate application is answered 409.  Violated: two
\* handlers find no application, and the second INSERT raises.
DuplicateIsConflict == \A r \in Requests : pc[r] # "unique_violation"

\* architecture.md: applying only succeeds for approved jobs.  Violated (not run, a
\* theorem of SerialSpec, and AppliedOnlyToPublished is what is left): the job
\* goes back to moderation between the test and the INSERT.
AppliesOnlyToApproved ==
    [][\A a \in Requests :
          apps[a] = NoRow /\ apps'[a] # NoRow => jobs[apps'[a].job] = "approved"]_vars

=============================================================================
