------------------------------- MODULE Reports ------------------------------
(***************************************************************************)
(* User reports of a job, app/domains/admin: any user reports a job        *)
(* (submit_report), an admin resolves or dismisses the report              *)
(* (_handle_report, one transaction around SELECT ... FOR UPDATE).  A      *)
(* deleted job takes its reports along; the audit log stays.               *)
(***************************************************************************)
EXTENDS Integers, Sequences

CONSTANTS
    Jobs,        \* primary keys of jobs
    Admins,      \* users with the role admin
    Requests,    \* the requests ever received; bounds a behaviour
    None         \* None, NULL, "no such row"

ASSUME RepAssumption == None \notin Admins \cup Requests

Verdicts == {"resolved", "dismissed"}

\* The report that request r creates is r.  by stands for the columns
\* resolved_by_admin_user_id and resolved_at, which are written together; the
\* resolution note goes with them and is left out.
Rows == [job : Jobs, status : {"open"} \cup Verdicts, by : Admins \cup {None}]

Entries == [by : Admins, verdict : Verdicts]

\* What a handler holds: the job it reports; or the report, the admin and the
\* verdict.
Submissions == [job : Jobs]
Resolutions == [report : Requests, by : Admins, verdict : Verdicts]

ASSUME NoneAssumption == None \notin Rows

Working == {"insert", "reload", "decide", "refresh"}

Replies == {"ok", "not_found", "conflict", "server_error", "lost"}

VARIABLES
    live,      \* the rows of table jobs
    rows,      \* table reports
    lock,      \* the request that holds a report FOR UPDATE
    audit,     \* admin_audit_logs of each report, by id
    pc,        \* where each request is
    req,       \* what its handler holds
    born       \* history variable: the reports ever created

vars == <<live, rows, lock, audit, pc, req, born>>

Init ==
    /\ live \in SUBSET Jobs
    /\ rows = [p \in Requests |-> None]
    /\ lock = [p \in Requests |-> None]
    /\ audit = [p \in Requests |-> <<>>]
    /\ pc = [r \in Requests |-> "idle"]
    /\ req = [r \in Requests |-> None]
    /\ born = {}

Goto(r, label) == pc' = [pc EXCEPT ![r] = label]

\* The handler ends, and its variables are gone.
Answer(r, reply) ==
    /\ Goto(r, reply)
    /\ req' = [req EXCEPT ![r] = None]

\* The row create_report inserts; the status is the column's default.
NewRow(j) == [job |-> j, status |-> "open", by |-> None]

\* The lock of SELECT ... FOR UPDATE.
Unlocked(p) == lock[p] = None

\* The test of _handle_report; the mutant does not look at the status.
AnyReport(p) == TRUE

StillOpen(p) == rows[p].status = "open"

\* submit_report: the job must exist, whatever its moderation status.
SubmitGetJob(r, j) ==
    /\ pc[r] = "idle"
    /\ \/ j \notin live /\ Answer(r, "not_found")
       \/ j \in live /\ Goto(r, "insert") /\ req' = [req EXCEPT ![r] = [job |-> j]]
    /\ UNCHANGED <<live, rows, lock, audit, born>>

\* create_report: INSERT and COMMIT; a job deleted meanwhile is an IntegrityError
\* that nobody catches.
SubmitInsert(r) ==
    LET j == req[r].job IN
    /\ pc[r] = "insert"
    /\ \/ /\ j \notin live
          /\ Answer(r, "server_error")
          /\ UNCHANGED <<rows, born>>
       \/ /\ j \in live
          /\ rows' = [rows EXCEPT ![r] = NewRow(j)]
          /\ born' = born \cup {r}
          /\ Goto(r, "reload")
          /\ UNCHANGED req
    /\ UNCHANGED <<live, lock, audit>>

\* db.refresh(report)
SubmitReload(r) ==
    /\ pc[r] = "reload"
    /\ Answer(r, IF rows[r] = None THEN "lost" ELSE "ok")
    /\ UNCHANGED <<live, rows, lock, audit, born>>

\* get_report_for_update; the exceptions for a missing or handled report end the
\* handler and so release the lock.
HandleLock(r, a, p, verdict) ==
    /\ pc[r] = "idle"
    /\ Unlocked(p)
    /\ \/ /\ rows[p] = None
          /\ Answer(r, "not_found")
          /\ UNCHANGED lock
       \/ /\ rows[p] # None /\ ~StillOpen(p)
          /\ Answer(r, "conflict")
          /\ UNCHANGED lock
       \/ /\ rows[p] # None /\ StillOpen(p)
          /\ lock' = [lock EXCEPT ![p] = r]
          /\ req' = [req EXCEPT ![r] = [report |-> p, by |-> a, verdict |-> verdict]]
          /\ Goto(r, "decide")
    /\ UNCHANGED <<live, rows, audit, born>>

\* set_report_resolution, create_admin_audit_log and COMMIT.
HandleCommit(r) ==
    LET q == req[r] IN
    /\ pc[r] = "decide"
    /\ rows' = [rows EXCEPT ![q.report].status = q.verdict, ![q.report].by = q.by]
    /\ audit' = [audit EXCEPT ![q.report] = Append(@, [by |-> q.by, verdict |-> q.verdict])]
    /\ lock' = [lock EXCEPT ![q.report] = None]
    /\ Goto(r, "refresh")
    /\ UNCHANGED <<live, req, born>>

\* db.refresh(report) after the lock is gone.
HandleRefresh(r) ==
    /\ pc[r] = "refresh"
    /\ Answer(r, IF rows[req[r].report] = None THEN "lost" ELSE "ok")
    /\ UNCHANGED <<live, rows, lock, audit, born>>

\* A slip for the mutation runs: the cascade does not wait for a locked report.
DeleteJobAtOnce(j) ==
    LET gone == {p \in Requests : rows[p] # None /\ rows[p].job = j} IN
    /\ j \in live
    /\ live' = live \ {j}
    /\ rows' = [p \in Requests |-> IF p \in gone THEN None ELSE rows[p]]
    /\ UNCHANGED <<lock, audit, pc, req, born>>

\* DELETE /jobs/{id}: the ON DELETE CASCADE key takes the reports along and
\* waits for the locked ones.
DeleteJob(j) ==
    LET gone == {p \in Requests : rows[p] # None /\ rows[p].job = j} IN
    /\ j \in live
    /\ \A p \in gone : Unlocked(p)
    /\ live' = live \ {j}
    /\ rows' = [p \in Requests |-> IF p \in gone THEN None ELSE rows[p]]
    /\ UNCHANGED <<lock, audit, pc, req, born>>

\* The process is killed or its connection drops: the open transaction is
\* rolled back and its lock released.
Crash(r) ==
    /\ pc[r] \in Working
    /\ Answer(r, IF pc[r] \in {"insert", "decide"} THEN "server_error" ELSE "lost")
    /\ lock' = [p \in Requests |-> IF lock[p] = r THEN None ELSE lock[p]]
    /\ UNCHANGED <<live, rows, audit, born>>

Handle(r) == SubmitInsert(r) \/ SubmitReload(r) \/ HandleCommit(r) \/ HandleRefresh(r)

Next ==
    \/ \E r \in Requests :
          \/ \E j \in Jobs : SubmitGetJob(r, j)
          \/ \E a \in Admins, p \in Requests, v \in Verdicts : HandleLock(r, a, p, v)
          \/ Handle(r)
          \/ Crash(r)
    \/ \E j \in Jobs : DeleteJob(j)

Spec == Init /\ [][Next]_vars

-----------------------------------------------------------------------------
(* Properties *)

\* Every variable keeps its type, and a handler at work has its variables.
TypeOK ==
    /\ live \in SUBSET Jobs
    /\ rows \in [Requests -> Rows \cup {None}]
    /\ lock \in [Requests -> Requests \cup {None}]
    /\ audit \in [Requests -> Seq(Entries)]
    /\ pc \in [Requests -> {"idle"} \cup Working \cup Replies]
    /\ req \in [Requests -> Submissions \cup Resolutions \cup {None}]
    /\ born \in SUBSET Requests
    /\ \A r \in Requests :
          /\ pc[r] \in {"insert", "reload"} => req[r] \in Submissions
          /\ pc[r] \in {"decide", "refresh"} => req[r] \in Resolutions

\* The report about to be handled is there, open and held by this handler alone,
\* although its job may be deleted at any time.
HandlesWhatItRead ==
    \A r \in Requests : pc[r] = "decide" =>
        /\ lock[req[r].report] = r
        /\ rows[req[r].report] # None
        /\ rows[req[r].report].status = "open"

\* A report is handled at most once, with exactly one audit entry, which names
\* the verdict and the admin the report itself names.
HandledOnce ==
    \A p \in Requests :
        /\ Len(audit[p]) <= 1
        /\ rows[p] # None /\ rows[p].status # "open" =>
              audit[p] = <<[by |-> rows[p].by, verdict |-> rows[p].status]>>

Decision == INSTANCE AuditedDecision
    WITH Items <- Requests, Deciders <- Admins, Nobody <- None, Reopenable <- FALSE,
         state <- [p \in Requests |->
                     IF rows[p] # None THEN rows[p].status
                     ELSE IF p \in born THEN "gone" ELSE "absent"],
         decider <- [p \in Requests |-> IF rows[p] = None THEN None ELSE rows[p].by],
         trail <- audit

\* The handlers implement AuditedDecision without its Reopen action: a handled
\* report is never open again.
ImplementsAuditedDecision == Decision!Spec
=============================================================================
