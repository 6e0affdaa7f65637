---------------------------- MODULE JobModeration ---------------------------
(***************************************************************************)
(* A job posting between its recruiters and the moderators: the handlers   *)
(* of app/domains/jobs that write (POST, PUT, PATCH and DELETE /jobs) and  *)
(* the two of app/domains/admin that decide on a job (approve, reject).    *)
(*                                                                         *)
(* The two sides protect themselves differently.  A moderator's handler is *)
(* one transaction around SELECT ... FOR UPDATE.  A recruiter's handler    *)
(* reads the row without a lock, and its UPDATE names only the columns     *)
(* whose value differs from the one it loaded: that is how SQLAlchemy's    *)
(* session flushes an object.  The tags follow in a second transaction.    *)
(***************************************************************************)
EXTENDS Integers, Sequences

CONSTANTS
    Recruiters,    \* users with the role recruiter
    Members,       \* those of them with access to the company of the jobs
    Admins,        \* users with the role admin
    Notes,         \* moderation notes
    Requests,      \* the requests ever received; bounds a behaviour
    None           \* None, NULL, "no such row"

ASSUME ModAssumption ==
    /\ Members \subseteq Recruiters
    /\ None \notin Admins \cup Notes \cup Requests

JobStatuses == {"pending", "approved", "rejected"}

(***************************************************************************)
(* A primary key is never reused: the job that request r creates is r.     *)
(* The title, location, employment type and description are one column,    *)
(* content; its value is the request that wrote it, and so is that of the  *)
(* tag set (None: no tags).  moderated_by_admin_user_id and moderated_at   *)
(* are always written together and are one column, by.                     *)
(***************************************************************************)
Rows == [content : Requests, tags : Requests \cup {None}, status : JobStatuses,
         by : Admins \cup {None}, note : Notes \cup {None}]

\* What a handler holds: the job's id, the row as it loaded it, the row as it
\* wants it, and what the payload says of the tags.
Locals == [job : Requests, snap : Rows, new : Rows, tags : {"keep", "clear", "set"}]

ASSUME NoneAssumption == None \notin Rows /\ None \notin Locals

Entries == [by : Admins, verdict : {"approved", "rejected"}]

Working == {"edit", "retag", "reload", "delete", "decide", "refresh"}

\* "lost" is an exception or a crash after a commit.
Replies == {"ok", "not_found", "forbidden", "conflict", "server_error", "lost"}

VARIABLES
    rows,      \* table jobs
    lock,      \* the request that holds a row FOR UPDATE
    audit,     \* admin_audit_logs of each job, by id
    pc,        \* where each request is
    req,       \* Locals of each request
    born       \* history variable: the jobs ever created

vars == <<rows, lock, audit, pc, req, born>>

Init ==
    /\ rows = [j \in Requests |-> None]
    /\ lock = [j \in Requests |-> None]
    /\ audit = [j \in Requests |-> <<>>]
    /\ pc = [r \in Requests |-> "idle"]
    /\ req = [r \in Requests |-> None]
    /\ born = {}

\* The lock of SELECT ... FOR UPDATE; the mutant is a plain SELECT.
PlainSelect(j) == TRUE

Unlocked(j) == lock[j] = None

Goto(r, label) == pc' = [pc EXCEPT ![r] = label]

\* The handler ends, and its variables are gone.
Answer(r, reply) ==
    /\ Goto(r, reply)
    /\ req' = [req EXCEPT ![r] = None]

\* The unit of work: a column is written if its new value differs from the
\* loaded one, otherwise the row keeps what it has.
Column(was, wanted, stored) == IF wanted # was THEN wanted ELSE stored

Flush(row, snap, new) ==
    [row EXCEPT !.content = Column(snap.content, new.content, @),
                !.status = Column(snap.status, new.status, @),
                !.by = Column(snap.by, new.by, @),
                !.note = Column(snap.note, new.note, @)]

-----------------------------------------------------------------------------
(* The recruiters' handlers *)

\* create_recruiter_job: the access test, create_job (INSERT and COMMIT), then
\* replace_job_tags.
CreateJob(r, u, tags) ==
    /\ pc[r] = "idle"
    /\ \/ /\ u \notin Members
          /\ Answer(r, "forbidden")
          /\ UNCHANGED <<rows, born>>
       \/ LET row == [content |-> r, tags |-> None, status |-> "pending",
                      by |-> None, note |-> None] IN
          /\ u \in Members
          /\ rows' = [rows EXCEPT ![r] = row]
          /\ born' = born \cup {r}
          /\ req' = [req EXCEPT ![r] = [job |-> r, snap |-> row, new |-> row, tags |-> tags]]
          /\ Goto(r, "retag")
    /\ UNCHANGED <<lock, audit>>

\* Three slips for the mutation runs: an empty string for NULL, the columns of
\* the moderator forgotten, and no new review at all.
MarkWithEmptyNote(row) == [row EXCEPT !.status = "pending", !.by = None, !.note = ""]

MarkStatusOnly(row) == [row EXCEPT !.status = "pending"]

MarkNothing(row) == row

\* _mark_job_pending_review
MarkPendingReview(row) == [row EXCEPT !.status = "pending", !.by = None, !.note = None]

\* replace_recruiter_job and patch_recruiter_job read the job and test access.
\* "changed": the payload differs from the content read.  PUT always says what
\* the tags are to be, PATCH may leave them alone.
EditGetJob(r, u, j, changed, tags) ==
    /\ pc[r] = "idle"
    /\ \/ /\ rows[j] = None
          /\ Answer(r, "not_found")
       \/ /\ rows[j] # None /\ u \notin Members
          /\ Answer(r, "forbidden")
       \/ /\ rows[j] # None /\ u \in Members
          /\ req' = [req EXCEPT ![r] =
                       [job |-> j, snap |-> rows[j], tags |-> tags,
                        new |-> [MarkPendingReview(rows[j]) EXCEPT
                                   !.content = IF changed THEN r ELSE @]]]
          /\ Goto(r, "edit")
    /\ UNCHANGED <<rows, lock, audit, born>>

\* COMMIT: an UPDATE of the changed columns, which waits for the row's lock and
\* raises StaleDataError when the row is gone.  With nothing to change there is
\* no UPDATE, and the refresh raises instead.
EditCommit(r) ==
    LET q == req[r] IN
    /\ pc[r] = "edit"
    /\ q.new = q.snap \/ Unlocked(q.job)
    /\ \/ /\ rows[q.job] = None
          /\ Answer(r, "server_error")
          /\ UNCHANGED rows
       \/ /\ rows[q.job] # None
          /\ rows' = [rows EXCEPT ![q.job] = Flush(@, q.snap, q.new)]
          /\ Goto(r, "retag")
          /\ UNCHANGED req
    /\ UNCHANGED <<lock, audit, born>>

\* replace_job_tags: DELETE and INSERT in job_tag_map, and COMMIT.  An INSERT
\* checks its foreign key and so waits for the job's lock.  TagRegistry has its
\* statements, and how those of two requests mix; here the replacements of the tags
\* of one job are one after the other.  One that fails for a rival or is picked as
\* the victim of a deadlock changes nothing and ends as Crash ends it: "lost".
Retag(r) ==
    LET q == req[r] IN
    /\ pc[r] = "retag"
    /\ q.tags = "set" => Unlocked(q.job)
    /\ \/ /\ rows[q.job] = None
          /\ Answer(r, "lost")
          /\ UNCHANGED rows
       \/ /\ rows[q.job] # None
          /\ rows' = [rows EXCEPT ![q.job].tags =
                        CASE q.tags = "keep" -> @
                          [] q.tags = "clear" -> None
                          [] q.tags = "set" -> r]
          /\ Goto(r, "reload")
          /\ UNCHANGED req
    /\ UNCHANGED <<lock, audit, born>>

\* The last read: db.refresh(job), and "assert refreshed is not None".
Reload(r) ==
    /\ pc[r] = "reload"
    /\ Answer(r, IF rows[req[r].job] = None THEN "lost" ELSE "ok")
    /\ UNCHANGED <<rows, lock, audit, born>>

DeleteGetJob(r, u, j) ==
    /\ pc[r] = "idle"
    /\ \/ /\ rows[j] = None
          /\ Answer(r, "not_found")
       \/ /\ rows[j] # None /\ u \notin Members
          /\ Answer(r, "forbidden")
       \/ /\ rows[j] # None /\ u \in Members
          /\ req' = [req EXCEPT ![r] = [job |-> j, snap |-> rows[j], new |-> rows[j],
                                        tags |-> "keep"]]
          /\ Goto(r, "delete")
    /\ UNCHANGED <<rows, lock, audit, born>>

\* delete_job: the session deletes the rows of job_tag_map it has loaded, then
\* the job, whose row lock it waits for.  A row of job_tag_map that is gone raises
\* StaleDataError: all are if the job or its tags are, and some may be if another
\* request has set its tags since.  A job without tags that is gone is a warning.
DeleteCommit(r) ==
    LET q == req[r] IN
    /\ pc[r] = "delete"
    /\ \/ /\ q.snap.tags # None
          /\ ~(rows[q.job] # None /\ rows[q.job].tags = q.snap.tags)
          /\ Answer(r, "server_error")
          /\ UNCHANGED rows
       \/ /\ q.snap.tags # None => rows[q.job] # None /\ rows[q.job].tags # None
          /\ Unlocked(q.job)
          /\ Answer(r, "ok")
          /\ rows' = [rows EXCEPT ![q.job] = None]
    /\ UNCHANGED <<lock, audit, born>>

-----------------------------------------------------------------------------
(* The moderators' handlers *)

\* The test of _moderate_job; the mutant does not make it.
AnyJob(j) == TRUE

StillPending(j) == rows[j].status = "pending"

\* get_job_for_moderation: SELECT ... FOR UPDATE waits for the lock and reads
\* the row's latest version.  The exceptions for a missing or decided job end
\* the handler, and the session's close releases the lock.
ModerateLock(r, a, j, verdict, note) ==
    /\ pc[r] = "idle"
    /\ Unlocked(j)
    /\ \/ /\ rows[j] = None
          /\ Answer(r, "not_found")
          /\ UNCHANGED lock
       \/ /\ rows[j] # None /\ ~StillPending(j)
          /\ Answer(r, "conflict")
          /\ UNCHANGED lock
       \/ /\ rows[j] # None /\ StillPending(j)
          /\ lock' = [lock EXCEPT ![j] = r]
          /\ req' = [req EXCEPT ![r] =
                       [job |-> j, snap |-> rows[j], tags |-> "keep",
                        new |-> [rows[j] EXCEPT !.status = verdict, !.by = a, !.note = note]]]
          /\ Goto(r, "decide")
    /\ UNCHANGED <<rows, audit, born>>

\* A slip for the mutation runs: set_job_moderation_result commits, and the audit
\* entry follows in a transaction of its own.
DecideThenAudit(r) ==
    LET q == req[r] IN
    /\ pc[r] = "decide"
    /\ lock' = [lock EXCEPT ![q.job] = None]
    /\ \/ /\ lock[q.job] = r
          /\ rows' = [rows EXCEPT ![q.job] = Flush(@, q.snap, q.new)]
          /\ UNCHANGED <<audit, pc>>
       \/ /\ lock[q.job] # r
          /\ audit' = [audit EXCEPT ![q.job] =
                         Append(@, [by |-> q.new.by, verdict |-> q.new.status])]
          /\ Goto(r, "refresh")
          /\ UNCHANGED rows
    /\ UNCHANGED <<req, born>>

\* set_job_moderation_result and create_admin_audit_log flush inside the
\* transaction; COMMIT makes both visible and releases the lock.
DecideCommit(r) ==
    LET q == req[r] IN
    /\ pc[r] = "decide"
    /\ rows' = [rows EXCEPT ![q.job] = Flush(@, q.snap, q.new)]
    /\ audit' = [audit EXCEPT ![q.job] = Append(@, [by |-> q.new.by, verdict |-> q.new.status])]
    /\ lock' = [lock EXCEPT ![q.job] = None]
    /\ Goto(r, "refresh")
    /\ UNCHANGED <<req, born>>

\* db.refresh(job) after the lock is gone.
Refresh(r) ==
    /\ pc[r] = "refresh"
    /\ Answer(r, IF rows[req[r].job] = None THEN "lost" ELSE "ok")
    /\ UNCHANGED <<rows, lock, audit, born>>

-----------------------------------------------------------------------------
\* A slip for the mutation runs: the lock outlives the session.
CrashKeepsLock(r) ==
    /\ pc[r] \in Working
    /\ Answer(r, IF pc[r] \in {"edit", "delete", "decide"} THEN "server_error" ELSE "lost")
    /\ UNCHANGED <<rows, lock, audit, born>>

\* The process is killed or its connection drops: PostgreSQL rolls the open
\* transaction back and frees its lock.
Crash(r) ==
    /\ pc[r] \in Working
    /\ Answer(r, IF pc[r] \in {"edit", "delete", "decide"} THEN "server_error" ELSE "lost")
    /\ lock' = [j \in Requests |-> IF lock[j] = r THEN None ELSE lock[j]]
    /\ UNCHANGED <<rows, audit, born>>

Receive(r) ==
    \/ \E u \in Recruiters, tags \in {"clear", "set"} : CreateJob(r, u, tags)
    \/ \E u \in Recruiters, j \in Requests, changed \in BOOLEAN, tags \in {"keep", "clear", "set"} :
          EditGetJob(r, u, j, changed, tags)
    \/ \E u \in Recruiters, j \in Requests : DeleteGetJob(r, u, j)
    \/ \E a \in Admins, j \in Requests, verdict \in {"approved", "rejected"},
          note \in Notes \cup {None} : ModerateLock(r, a, j, verdict, note)

Handle(r) ==
    \/ EditCommit(r) \/ Retag(r) \/ Reload(r) \/ DeleteCommit(r)
    \/ DecideCommit(r) \/ Refresh(r)

Next == \E r \in Requests : Receive(r) \/ Handle(r) \/ Crash(r)

Spec == Init /\ [][Next]_vars

\* A handler's thread is scheduled again, and a waiting statement gets the lock:
\* PostgreSQL grants row locks in order of arrival.
FairSpec == Spec /\ \A r \in Requests : WF_vars(Handle(r))

\* One request at a time: all that a sequential test sees, and what the documents
\* describe.
Quiet == \A r \in Requests : pc[r] \notin Working

OneAtATime ==
    \E r \in Requests : Handle(r) \/ Crash(r) \/ (Quiet /\ Receive(r))

SerialSpec == Init /\ [][OneAtATime]_vars

-----------------------------------------------------------------------------
(* Properties *)

\* Every variable keeps its type, and a handler at work has its variables.
TypeOK ==
    /\ rows \in [Requests -> Rows \cup {None}]
    /\ lock \in [Requests -> Requests \cup {None}]
    /\ audit \in [Requests -> Seq(Entries)]
    /\ pc \in [Requests -> {"idle"} \cup Working \cup Replies]
    /\ req \in [Requests -> Locals \cup {None}]
    /\ born \in SUBSET Requests
    /\ \A r \in Requests : pc[r] \in Working => req[r] # None

\* A pending job names no moderator and a decided one does, although a
\* recruiter's UPDATE writes the two columns separately and only if it saw them
\* changed.
PendingIffUndecided ==
    \A j \in Requests : rows[j] # None => (rows[j].status = "pending" <=> rows[j].by = None)

\* The row lock does its work: a row is held by the handler about to decide, and
\* nothing but the tags of the row it decides on has changed since it read it.
DecidesOnWhatItRead ==
    \A r \in Requests : pc[r] = "decide" =>
        LET q == req[r] IN
        /\ lock[q.job] = r
        /\ rows[q.job] # None
        /\ [rows[q.job] EXCEPT !.tags = q.snap.tags] = q.snap
        /\ q.snap.status = "pending"

\* The job's status and moderator are those of its last audit entry, so no
\* decision is without one, and none was overwritten by another decision.
DecisionIsAudited ==
    \A j \in Requests : rows[j] # None /\ rows[j].status # "pending" =>
        /\ audit[j] # <<>>
        /\ audit[j][Len(audit[j])] = [by |-> rows[j].by, verdict |-> rows[j].status]

\* An edit that leaves a job decided was made by a handler that had loaded the
\* job while it was pending: the decision came between its read and its commit.
EscapesReviewOnlyIfStale ==
    [][\A j \in Requests :
          /\ rows[j] # None /\ rows'[j] # None
          /\ rows'[j].content # rows[j].content
          /\ rows'[j].status # "pending"
          => \E r \in Requests : /\ pc[r] = "edit" /\ pc'[r] = "retag"
                                 /\ req[r].job = j /\ req[r].snap.status = "pending"]_vars

\* Every request is answered, and every row is unlocked again and again, so nobody
\* waits for a row lock for ever: neither a handler at work nor a moderator whose
\* SELECT ... FOR UPDATE is still to be granted, which is "idle" until then.
EveryRequestIsAnswered ==
    /\ \A r \in Requests : (pc[r] \in Working) ~> (pc[r] \in Replies)
    /\ \A j \in Requests : []<>Unlocked(j)

\* The job as an item of AuditedDecision.
DecisionState(j) ==
    IF rows[j] = None THEN (IF j \in born THEN "gone" ELSE "absent")
    ELSE IF rows[j].status = "pending" THEN "open" ELSE rows[j].status

Decision == INSTANCE AuditedDecision
    WITH Items <- Requests, Deciders <- Admins, Verdicts <- {"approved", "rejected"},
         Nobody <- None, Reopenable <- TRUE,
         state <- [j \in Requests |-> DecisionState(j)],
         decider <- [j \in Requests |-> IF rows[j] = None THEN None ELSE rows[j].by],
         trail <- audit

\* Every behaviour of the handlers is one of AuditedDecision: decisions are
\* taken one at a time, on open jobs, and audited in the same step.
ImplementsAuditedDecision == Decision!Spec

Lifecycle == INSTANCE JobLifecycle
    WITH Jobs <- Requests,
         jobs <- [j \in Requests |-> IF rows[j] # None THEN rows[j].status
                                     ELSE IF j \in born THEN "deleted" ELSE "none"]

\* The rest of the application sees the jobs move as JobLifecycle says.
ImplementsJobLifecycle == Lifecycle!Spec

-----------------------------------------------------------------------------
(* What the documents say and the code does not keep. *)

\* api-contracts.md: after PUT or PATCH, moderation resets to pending.  (A job is
\* created by the request of its name, whose own steps, the tags' among them, are
\* no edit.)  Violated: the UPDATE does not name moderation_status if it was pending
\* when the handler loaded the row, and an approval came in between; and the tags
\* follow in a second transaction, with an approval between the two.
EditResetsModeration ==
    [][\A j \in Requests :
          /\ rows[j] # None /\ rows'[j] # None
          /\ rows'[j].content # rows[j].content \/ rows'[j].tags # rows[j].tags
          /\ pc'[j] = pc[j]
          => rows'[j].status = "pending"]_vars
=============================================================================
