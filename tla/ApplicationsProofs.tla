------------------------- MODULE ApplicationsProofs -------------------------
(***************************************************************************)
(* Proofs about Applications, for any sets of jobs, users and requests.    *)
(* The inductive invariant ties each row to the handler that wrote it: the *)
(* handler's variables outlive its steps, so what a row says is what its   *)
(* handler read and checked, and the history variable reached only grows.  *)
(***************************************************************************)
EXTENDS Applications, TLAPS

After == {"refresh", "enqueue", "append", "refresh_event", "ok", "lost"}

\* A row of applications is live, approved once, and its status is recorded.
RowsInv ==
    \A a \in Requests : apps[a] # NoRow =>
        /\ apps[a].status \in reached[a]
        /\ jobs[apps[a].job] \notin Rowless
        /\ apps[a].job \in published

PublishedInv == \A j \in Jobs : jobs[j] = "approved" => j \in published

\* A request that has not come to its INSERT has no application yet.
FreshInv ==
    \A r \in Requests : pc[r] \in {"idle", "check_existing", "insert"} =>
        apps[r] = NoRow /\ reached[r] = {}

\* The row of the application a handler works on is the one it read, if it is
\* still there.
SameRow(r) ==
    apps[req[r].app] # NoRow =>
        /\ apps[req[r].app].job = req[r].job
        /\ apps[req[r].app].candidate = req[r].candidate

ApplyInv ==
    \A r \in Requests : pc[r] \in {"check_existing", "insert"} =>
        /\ req[r].app = r /\ req[r].from = "submitted" /\ req[r].to = "submitted"
        /\ req[r].user = req[r].candidate
        /\ req[r].job \in published

ChangeInv ==
    \A r \in Requests : pc[r] \in {"check_access", "update"} =>
        /\ req[r].app # r
        /\ req[r].from \in reached[req[r].app]
        /\ SameRow(r)
        /\ \/ req[r].user \in Admins
           \/ pc[r] = "check_access"
           \/ req[r].user \in members[CompanyOf[req[r].job]]

AfterInv ==
    \A r \in Requests : pc[r] \in After =>
        /\ req[r].from \in reached[req[r].app]
        /\ req[r].to \in reached[req[r].app]
        /\ SameRow(r)
        /\ IF req[r].app = r THEN req[r].user = req[r].candidate
           ELSE \/ req[r].user \in Admins
                \/ req[r].user \in members[CompanyOf[req[r].job]]

\* An event and a notification say what their handler holds.
EventInv ==
    \A r \in Requests : events[r] # NoRow =>
        /\ pc[r] \in {"refresh_event", "ok", "lost"}
        /\ events[r].app = req[r].app /\ events[r].actor = req[r].user
        /\ events[r].from = req[r].from /\ events[r].to = req[r].to
        /\ apps[req[r].app] # NoRow

RecordedInv ==
    \A r \in Requests : pc[r] \in {"refresh_event", "ok"} =>
        events[r] # NoRow \/ apps[req[r].app] = NoRow

MailInv ==
    \A r \in Requests : mail[r] # NoRow =>
        /\ pc[r] \in {"append", "refresh_event", "ok", "lost"}
        /\ mail[r].app = req[r].app
        /\ mail[r].job = req[r].job /\ mail[r].candidate = req[r].candidate
        /\ mail[r].from = req[r].from /\ mail[r].to = req[r].to

\* No decision without a review, in the whole past of an application.
ReviewInv ==
    \A a \in Requests :
        "accepted" \in reached[a] \/ "rejected" \in reached[a] => "reviewing" \in reached[a]

IInv ==
    /\ TypeOK
    /\ RowsInv
    /\ PublishedInv
    /\ FreshInv
    /\ ApplyInv
    /\ ChangeInv
    /\ AfterInv
    /\ EventInv
    /\ RecordedInv
    /\ MailInv
    /\ ReviewInv
    /\ OneApplicationPerJob
    /\ EveryStatusIsAccountedFor

-----------------------------------------------------------------------------
USE AppAssumption, NoRowAssumption

\* Initially no request has been received and every table is empty.
LEMMA InitIInv == Init => IInv
PROOF
  <1> SUFFICES ASSUME Init PROVE IInv
    OBVIOUS
  <1>1. TypeOK
    BY DEF Init, TypeOK, JobStates, Working, Replies
  <1>2. RowsInv /\ PublishedInv /\ FreshInv /\ ApplyInv /\ ChangeInv /\ AfterInv /\ ReviewInv
    BY DEF Init, RowsInv, PublishedInv, FreshInv, ApplyInv, ChangeInv, AfterInv, ReviewInv, After
  <1>3. EventInv /\ RecordedInv /\ MailInv /\ OneApplicationPerJob /\ EveryStatusIsAccountedFor
    BY DEF Init, EventInv, RecordedInv, MailInv, OneApplicationPerJob,
           EveryStatusIsAccountedFor
  <1> QED
    BY <1>1, <1>2, <1>3 DEF IInv

\* The type invariant is inductive, given that a handler's variables are there.
LEMMA TypeStep == TypeOK /\ [Next]_vars => TypeOK'
PROOF
  <1> SUFFICES ASSUME TypeOK, [Next]_vars PROVE TypeOK'
    OBVIOUS
  <1> USE DEF TypeOK, Goto, Answer, db, env
  <1>1. ASSUME NEW r \in Requests, Receive(r) PROVE TypeOK'
    <2>1. ASSUME NEW c \in Candidates, NEW j \in Jobs, NEW k \in BOOLEAN, ApplyGetJob(r, c, j, k)
          PROVE TypeOK'
      <3> DEFINE q == [user |-> c, job |-> j, candidate |-> c, app |-> r,
                       from |-> "submitted", to |-> "submitted"]
      <3>1. q \in Locals
        BY DEF Locals, Users, Statuses
      <3> HIDE DEF q
      <3>2. \/ pc'[r] \in {"not_found", "bad_request"} /\ req' = [req EXCEPT ![r] = NoRow]
            \/ pc'[r] = "check_existing" /\ req' = [req EXCEPT ![r] = q]
        BY <2>1 DEF ApplyGetJob, q
      <3>3. pc' = [pc EXCEPT ![r] = pc'[r]] /\ UNCHANGED <<jobs, members, published, apps, events, reached, mail>>
        BY <2>1 DEF ApplyGetJob
      <3> QED
        BY <3>1, <3>2, <3>3 DEF Working, Replies
    <2>2. ASSUME NEW u \in Recruiters \cup Admins, NEW a \in Requests, NEW s \in Statuses,
                 ChangeGetApplication(r, u, a, s)
          PROVE TypeOK'
      <3> DEFINE q == [user |-> u, job |-> apps[a].job, candidate |-> apps[a].candidate,
                       app |-> a, from |-> apps[a].status, to |-> s]
      <3>1. apps[a] # NoRow => q \in Locals
        BY DEF Locals, Users, Rows
      <3> HIDE DEF q
      <3>2. \/ pc'[r] = "not_found" /\ req' = [req EXCEPT ![r] = NoRow]
            \/ pc'[r] \in {"check_access", "update"} /\ apps[a] # NoRow /\ req' = [req EXCEPT ![r] = q]
        BY <2>2 DEF ChangeGetApplication, q
      <3>3. pc' = [pc EXCEPT ![r] = pc'[r]] /\ UNCHANGED <<jobs, members, published, apps, events, reached, mail>>
        BY <2>2 DEF ChangeGetApplication
      <3> QED
        BY <3>1, <3>2, <3>3 DEF Working, Replies
    <2> QED
      BY <1>1, <2>1, <2>2 DEF Receive
  <1>2. ASSUME NEW r \in Requests, Handle(r) PROVE TypeOK'
    <2>1. CASE ApplyCheckExisting(r)
      BY <2>1 DEF ApplyCheckExisting, Working, Replies
    <2>2. CASE ApplyInsert(r)
      <3>1. req[r] \in Locals /\ NewRow(req[r]) \in Rows
        BY <2>2 DEF ApplyInsert, Working, Locals, Rows, NewRow, Statuses
      <3>2. apps' \in [Requests -> Rows \cup {NoRow}] /\ reached' \in [Requests -> SUBSET Statuses]
        BY <2>2, <3>1 DEF ApplyInsert, Statuses
      <3> QED
        BY <2>2, <3>1, <3>2 DEF ApplyInsert, Working, Replies
    <2>3. CASE ChangeCheckAccess(r)
      BY <2>3 DEF ChangeCheckAccess, Working, Replies
    <2>4. CASE ChangeUpdate(r)
      <3>1. req[r] \in Locals
        BY <2>4 DEF ChangeUpdate, Working
      <3>2. apps' \in [Requests -> Rows \cup {NoRow}]
        BY <2>4, <3>1 DEF ChangeUpdate, Locals, Rows
      <3>3. reached' \in [Requests -> SUBSET Statuses]
        BY <2>4, <3>1 DEF ChangeUpdate, Locals
      <3> QED
        BY <2>4, <3>1, <3>2, <3>3 DEF ChangeUpdate, Working, Replies
    <2>5. CASE Refresh(r)
      BY <2>5 DEF Refresh, Working, Replies
    <2>6. CASE Enqueue(r)
      BY <2>6 DEF Enqueue, Working, Replies, Locals, Tasks
    <2>7. CASE AppendEvent(r)
      BY <2>7 DEF AppendEvent, Working, Replies, Locals, EventRows
    <2>8. CASE RefreshEvent(r)
      BY <2>8 DEF RefreshEvent, Working, Replies
    <2> QED
      BY <1>2, <2>1, <2>2, <2>3, <2>4, <2>5, <2>6, <2>7, <2>8 DEF Handle
  <1>3. ASSUME NEW r \in Requests, Crash(r) PROVE TypeOK'
    BY <1>3 DEF Crash, Working, Replies
  <1>4. ASSUME Environment PROVE TypeOK'
    <2>1. ASSUME NEW c \in Companies, NEW u \in Recruiters, AddMember(c, u) PROVE TypeOK'
      BY <2>1 DEF AddMember
    <2>2. ASSUME NEW j \in Jobs, CreateJob(j) PROVE TypeOK'
      BY <2>2 DEF CreateJob, Lifecycle!Create, Lifecycle!Become, JobStates
    <2>3. ASSUME NEW j \in Jobs, ModerateJob(j) PROVE TypeOK'
      BY <2>3 DEF ModerateJob, Lifecycle!Moderate, Lifecycle!Become, JobStates
    <2>4. ASSUME NEW j \in Jobs, EditJob(j) PROVE TypeOK'
      BY <2>4 DEF EditJob, Lifecycle!Edit, Lifecycle!Become, JobStates
    <2>5. ASSUME NEW j \in Jobs, DeleteJob(j) PROVE TypeOK'
      BY <2>5 DEF DeleteJob, Lifecycle!Delete, Lifecycle!Become, JobStates
    <2> QED
      BY <1>4, <2>1, <2>2, <2>3, <2>4, <2>5 DEF Environment
  <1>5. CASE UNCHANGED vars
    BY <1>5 DEF vars
  <1> QED
    BY <1>1, <1>2, <1>3, <1>4, <1>5 DEF Next

\* A handler that ends before its commit leaves nothing behind.
LEMMA RejectStep ==
    ASSUME IInv, TypeOK', NEW r \in Requests, UNCHANGED <<env, db, mail>>,
           pc[r] \in {"idle", "check_existing", "insert", "check_access", "update"},
           NEW reply \in Replies \ {"ok", "lost"}, Answer(r, reply)
    PROVE  IInv'
PROOF
  <1> USE DEF IInv, TypeOK, Replies, Goto, Answer, db, env
  <1>1. RowsInv' /\ PublishedInv' /\ FreshInv' /\ ReviewInv' /\ OneApplicationPerJob'
    BY DEF RowsInv, PublishedInv, FreshInv, ReviewInv, OneApplicationPerJob
  <1>2. ApplyInv'
    BY DEF ApplyInv
  <1>3. ChangeInv'
    BY DEF ChangeInv, SameRow
  <1>4. AfterInv'
    BY DEF AfterInv, After, SameRow
  <1>5. EventInv' /\ RecordedInv'
    BY DEF EventInv, RecordedInv
  <1>6. MailInv'
    BY DEF MailInv
  <1>7. EveryStatusIsAccountedFor'
    BY DEF EveryStatusIsAccountedFor, EventInv
  <1> QED
    BY <1>1, <1>2, <1>3, <1>4, <1>5, <1>6, <1>7 DEF IInv

\* The INSERT of an application: nobody refers to it yet.
LEMMA ApplyInsertStep ==
    ASSUME IInv, TypeOK', NEW r \in Requests, ApplyInsert(r)
    PROVE  IInv'
PROOF
  <1>1. /\ req[r] \in Locals
        /\ req[r].app = r /\ req[r].from = "submitted" /\ req[r].to = "submitted"
        /\ req[r].user = req[r].candidate /\ req[r].job \in published
        /\ apps[r] = NoRow /\ reached[r] = {} /\ events[r] = NoRow
    BY DEF ApplyInsert, IInv, TypeOK, Working, ApplyInv, FreshInv, EventInv
  <1>2. \A s \in Requests : pc[s] \in After \cup {"check_access", "update"} => req[s].app # r
    BY <1>1 DEF IInv, AfterInv, ChangeInv
  <1>3. \/ /\ UNCHANGED <<env, db, mail>>
           /\ \E reply \in Replies \ {"ok", "lost"} : Answer(r, reply)
        \/ /\ pc[r] = "insert"
           /\ jobs[req[r].job] \notin Rowless
           /\ ~ViolatesUnique(req[r])
           /\ apps' = [apps EXCEPT ![r] = NewRow(req[r])]
           /\ reached' = [reached EXCEPT ![r] = {"submitted"}]
           /\ pc' = [pc EXCEPT ![r] = "refresh"]
           /\ UNCHANGED <<events, req, mail, jobs, members, published>>
    BY DEF ApplyInsert, JobExists, Goto, Replies, db, env
  <1>4. CASE /\ UNCHANGED <<env, db, mail>>
             /\ \E reply \in Replies \ {"ok", "lost"} : Answer(r, reply)
    BY <1>4, RejectStep DEF ApplyInsert
  <1>5. CASE /\ pc[r] = "insert"
             /\ jobs[req[r].job] \notin Rowless
             /\ ~ViolatesUnique(req[r])
             /\ apps' = [apps EXCEPT ![r] = NewRow(req[r])]
             /\ reached' = [reached EXCEPT ![r] = {"submitted"}]
             /\ pc' = [pc EXCEPT ![r] = "refresh"]
             /\ UNCHANGED <<events, req, mail, jobs, members, published>>
    <2>2. NewRow(req[r]) \in Rows /\ NewRow(req[r]) # NoRow
      BY <1>1 DEF NewRow, Rows, Locals, Statuses
    <2> USE DEF IInv, TypeOK
    <2>3. RowsInv' /\ PublishedInv' /\ FreshInv' /\ ReviewInv'
      BY <1>1, <1>5, <2>2 DEF RowsInv, PublishedInv, FreshInv, ReviewInv, NewRow
    <2>4. ApplyInv'
      BY <1>5 DEF ApplyInv
    <2>5. ChangeInv'
      BY <1>2, <1>5 DEF ChangeInv, SameRow, Locals, Working
    <2>6. AfterInv'
      <3>1. ASSUME NEW s \in Requests, pc'[s] \in After, s # r
            PROVE  pc[s] \in After /\ req[s] \in Locals /\ req[s].app # r
        BY <1>2, <1>5, <3>1 DEF After, Working
      <3> QED
        BY <1>1, <1>5, <2>2, <3>1 DEF AfterInv, SameRow, Locals, NewRow, After
    <2>7. EventInv' /\ MailInv'
      BY <1>1, <1>5, <2>2 DEF EventInv, MailInv, Locals
    <2>8. RecordedInv'
      BY <1>2, <1>5 DEF RecordedInv, Locals, After
    <2>9. OneApplicationPerJob'
      BY <1>1, <1>5, <2>2 DEF OneApplicationPerJob, ViolatesUnique, Applied, NewRow
    <2>10. EveryStatusIsAccountedFor'
      <3>1. ASSUME NEW a \in Requests, a # r, apps'[a] # NoRow, NEW s \in reached'[a]
            PROVE  \E t \in Requests :
                     /\ req'[t] # NoRow /\ req'[t].app = a /\ req'[t].to = s
                     /\ events'[t] # NoRow \/ pc'[t] \in {"refresh", "enqueue", "append", "lost"}
        BY <1>5, <3>1 DEF EveryStatusIsAccountedFor
      <3>2. /\ req'[r] # NoRow /\ req'[r].app = r /\ req'[r].to = "submitted"
            /\ reached'[r] = {"submitted"} /\ pc'[r] = "refresh"
        BY <1>1, <1>5
      <3> QED
        BY <3>1, <3>2 DEF EveryStatusIsAccountedFor
    <2> QED
      BY <2>3, <2>4, <2>5, <2>6, <2>7, <2>8, <2>9, <2>10
  <1> QED
    BY <1>3, <1>4, <1>5

\* The UPDATE of a status: only the row's status and its past change.
LEMMA ChangeUpdateStep ==
    ASSUME IInv, TypeOK', NEW r \in Requests, ChangeUpdate(r)
    PROVE  IInv'
PROOF
  <1> DEFINE a == req[r].app
  <1> HIDE DEF a
  <1>1. /\ req[r] \in Locals /\ a \in Requests /\ a = req[r].app /\ a # r
        /\ req[r].from \in reached[a] /\ SameRow(r)
        /\ events[r] = NoRow /\ mail[r] = NoRow
        /\ req[r].user \in Admins \/ req[r].user \in members[CompanyOf[req[r].job]]
    BY DEF ChangeUpdate, IInv, TypeOK, Working, Locals, ChangeInv, EventInv, MailInv, a
  <1>2. \/ /\ UNCHANGED <<env, db, mail>>
           /\ \E reply \in Replies \ {"ok", "lost"} : Answer(r, reply)
        \/ /\ pc[r] = "update"
           /\ req[r].to \in AllowedTargets(req[r].from)
           /\ apps[a] # NoRow
           /\ apps' = [apps EXCEPT ![a] = [@ EXCEPT !.status = req[r].to]]
           /\ reached' = [reached EXCEPT ![a] = @ \cup {req[r].to}]
           /\ pc' = [pc EXCEPT ![r] = "refresh"]
           /\ UNCHANGED <<events, req, mail, jobs, members, published>>
    BY <1>1 DEF ChangeUpdate, Goto, Replies, db, env, a
  <1>3. CASE /\ UNCHANGED <<env, db, mail>>
             /\ \E reply \in Replies \ {"ok", "lost"} : Answer(r, reply)
    BY <1>3, RejectStep DEF ChangeUpdate
  <1>4. CASE /\ pc[r] = "update"
             /\ req[r].to \in AllowedTargets(req[r].from)
             /\ apps[a] # NoRow
             /\ apps' = [apps EXCEPT ![a] = [@ EXCEPT !.status = req[r].to]]
             /\ reached' = [reached EXCEPT ![a] = @ \cup {req[r].to}]
             /\ pc' = [pc EXCEPT ![r] = "refresh"]
             /\ UNCHANGED <<events, req, mail, jobs, members, published>>
    <2> USE DEF IInv, TypeOK
    <2>1. /\ apps'[a] \in Rows /\ apps'[a] # NoRow
          /\ apps'[a].job = apps[a].job /\ apps'[a].candidate = apps[a].candidate
          /\ apps'[a].status = req[r].to
          /\ \A b \in Requests : b # a => apps'[b] = apps[b]
          /\ \A b \in Requests : apps'[b] = NoRow <=> apps[b] = NoRow
          /\ \A b \in Requests : reached[b] \subseteq reached'[b]
          /\ req[r].to \in reached'[a]
      BY <1>1, <1>4 DEF Rows, Locals
    <2>2. RowsInv' /\ PublishedInv' /\ FreshInv'
      BY <1>1, <1>4, <2>1 DEF RowsInv, PublishedInv, FreshInv
    <2>3. ApplyInv'
      BY <1>4 DEF ApplyInv
    <2>4. \A s \in Requests : SameRow(s) /\ req[s] \in Locals => SameRow(s)'
      BY <1>1, <1>4, <2>1 DEF SameRow, Locals
    <2>5. ChangeInv'
      BY <1>4, <2>1, <2>4 DEF ChangeInv, Locals, Working
    <2>6. AfterInv'
      <3>1. ASSUME NEW s \in Requests, pc'[s] \in After, s # r
            PROVE  pc[s] \in After /\ req[s] \in Locals
        BY <1>4, <3>1 DEF After, Working
      <3> QED
        BY <1>1, <1>4, <2>1, <2>4, <3>1 DEF AfterInv, Locals, After
    <2>7. EventInv' /\ RecordedInv' /\ MailInv'
      BY <1>1, <1>4, <2>1 DEF EventInv, RecordedInv, MailInv, Locals, Working
    <2>8. ReviewInv'
      BY <1>1, <1>4, <2>1 DEF ReviewInv, AllowedTargets
    <2>9. OneApplicationPerJob'
      BY <1>1, <1>4, <2>1 DEF OneApplicationPerJob
    <2>10. EveryStatusIsAccountedFor'
      <3>1. ASSUME NEW b \in Requests, apps'[b] # NoRow, NEW s \in reached[b]
            PROVE  \E t \in Requests :
                     /\ req'[t] # NoRow /\ req'[t].app = b /\ req'[t].to = s
                     /\ events'[t] # NoRow \/ pc'[t] \in {"refresh", "enqueue", "append", "lost"}
        BY <1>4, <2>1, <3>1 DEF EveryStatusIsAccountedFor
      <3>2. /\ req'[r] # NoRow /\ req'[r].app = a /\ pc'[r] = "refresh"
            /\ \A b \in Requests : \A s \in reached'[b] :
                  s \in reached[b] \/ (b = a /\ s = req'[r].to)
        BY <1>1, <1>4
      <3> QED
        BY <3>1, <3>2 DEF EveryStatusIsAccountedFor
    <2> QED
      BY <2>2, <2>3, <2>5, <2>6, <2>7, <2>8, <2>9, <2>10
  <1> QED
    BY <1>2, <1>3, <1>4

\* A request for a published job enters with an application of its own.
LEMMA ApplyGetJobStep ==
    ASSUME IInv, TypeOK', NEW r \in Requests, NEW c \in Candidates, NEW j \in Jobs,
           NEW k \in BOOLEAN, ApplyGetJob(r, c, j, k)
    PROVE  IInv'
PROOF
  <1> USE DEF IInv, TypeOK, ApplyGetJob, Published, Goto, Answer, db, env
  <1>1. RowsInv' /\ PublishedInv' /\ FreshInv' /\ ReviewInv' /\ OneApplicationPerJob'
    BY DEF RowsInv, PublishedInv, FreshInv, ReviewInv, OneApplicationPerJob
  <1>2. ApplyInv'
    BY DEF ApplyInv, PublishedInv
  <1>3. ChangeInv'
    BY DEF ChangeInv, SameRow, Locals
  <1>4. AfterInv'
    BY DEF AfterInv, After, SameRow, Locals
  <1>5. EventInv' /\ RecordedInv' /\ MailInv'
    BY SMTT(20) DEF EventInv, RecordedInv, MailInv
  <1>6. EveryStatusIsAccountedFor'
    BY DEF EveryStatusIsAccountedFor, EventInv
  <1> QED
    BY <1>1, <1>2, <1>3, <1>4, <1>5, <1>6

\* The search for an earlier application only moves the request on.
LEMMA ApplyCheckExistingStep ==
    ASSUME IInv, TypeOK', NEW r \in Requests, ApplyCheckExisting(r)
    PROVE  IInv'
PROOF
  <1> USE DEF IInv, TypeOK, ApplyCheckExisting, Goto, Answer, db, env
  <1>1. RowsInv' /\ PublishedInv' /\ FreshInv' /\ ReviewInv' /\ OneApplicationPerJob'
    BY DEF RowsInv, PublishedInv, FreshInv, ReviewInv, OneApplicationPerJob
  <1>2. ApplyInv'
    BY DEF ApplyInv
  <1>3. ChangeInv'
    BY DEF ChangeInv, SameRow, Locals
  <1>4. AfterInv'
    BY DEF AfterInv, After, SameRow, Locals
  <1>5. EventInv' /\ RecordedInv' /\ MailInv'
    BY DEF EventInv, RecordedInv, MailInv
  <1>6. EveryStatusIsAccountedFor'
    BY DEF EveryStatusIsAccountedFor, EventInv
  <1> QED
    BY <1>1, <1>2, <1>3, <1>4, <1>5, <1>6

\* The status a handler reads is in the past of the application.
LEMMA ChangeGetApplicationStep ==
    ASSUME IInv, TypeOK', NEW r \in Requests, NEW u \in Recruiters \cup Admins,
           NEW a \in Requests, NEW s \in Statuses, ChangeGetApplication(r, u, a, s)
    PROVE  IInv'
PROOF
  <1> USE DEF IInv, TypeOK, ChangeGetApplication, Goto, Answer, db, env
  <1>1. RowsInv' /\ PublishedInv' /\ FreshInv' /\ ReviewInv' /\ OneApplicationPerJob'
    BY DEF RowsInv, PublishedInv, FreshInv, ReviewInv, OneApplicationPerJob
  <1>2. ApplyInv'
    BY DEF ApplyInv
  <1>3. ChangeInv'
    BY DEF ChangeInv, SameRow, Locals, RowsInv, FreshInv, Rows
  <1>4. AfterInv'
    BY DEF AfterInv, After, SameRow, Locals
  <1>5. EventInv' /\ RecordedInv' /\ MailInv'
    BY DEF EventInv, RecordedInv, MailInv
  <1>6. EveryStatusIsAccountedFor'
    BY DEF EveryStatusIsAccountedFor, EventInv
  <1> QED
    BY <1>1, <1>2, <1>3, <1>4, <1>5, <1>6

\* Past the access test the recruiter is a member of the company.
LEMMA ChangeCheckAccessStep ==
    ASSUME IInv, TypeOK', NEW r \in Requests, ChangeCheckAccess(r)
    PROVE  IInv'
PROOF
  <1> USE DEF IInv, TypeOK, ChangeCheckAccess, HasAccess, Goto, Answer, db, env
  <1>1. RowsInv' /\ PublishedInv' /\ FreshInv' /\ ReviewInv' /\ OneApplicationPerJob'
    BY DEF RowsInv, PublishedInv, FreshInv, ReviewInv, OneApplicationPerJob
  <1>2. ApplyInv'
    BY DEF ApplyInv
  <1>3. ChangeInv'
    BY DEF ChangeInv, SameRow, Locals
  <1>4. AfterInv'
    BY DEF AfterInv, After, SameRow, Locals
  <1>5. EventInv' /\ RecordedInv' /\ MailInv'
    BY DEF EventInv, RecordedInv, MailInv
  <1>6. EveryStatusIsAccountedFor'
    BY DEF EveryStatusIsAccountedFor, EventInv
  <1> QED
    BY <1>1, <1>2, <1>3, <1>4, <1>5, <1>6

\* The refresh finds the row or ends the handler.
LEMMA RefreshStep ==
    ASSUME IInv, TypeOK', NEW r \in Requests, Refresh(r)
    PROVE  IInv'
PROOF
  <1> USE DEF IInv, TypeOK, Refresh, Goto, Answer, db, env
  <1>1. RowsInv' /\ PublishedInv' /\ FreshInv' /\ ReviewInv' /\ OneApplicationPerJob'
    BY DEF RowsInv, PublishedInv, FreshInv, ReviewInv, OneApplicationPerJob
  <1>2. ApplyInv'
    BY DEF ApplyInv
  <1>3. ChangeInv'
    BY DEF ChangeInv, SameRow, Locals
  <1>4. AfterInv'
    BY DEF AfterInv, After, SameRow, Locals
  <1>5. EventInv' /\ RecordedInv' /\ MailInv'
    BY DEF EventInv, RecordedInv, MailInv
  <1>6. EveryStatusIsAccountedFor'
    BY DEF EveryStatusIsAccountedFor, EventInv
  <1> QED
    BY <1>1, <1>2, <1>3, <1>4, <1>5, <1>6

\* The task says what its handler holds.
LEMMA EnqueueStep ==
    ASSUME IInv, TypeOK', NEW r \in Requests, Enqueue(r)
    PROVE  IInv'
PROOF
  <1> USE DEF IInv, TypeOK, Enqueue, Goto, Answer, db, env
  <1>1. RowsInv' /\ PublishedInv' /\ FreshInv' /\ ReviewInv' /\ OneApplicationPerJob'
    BY DEF RowsInv, PublishedInv, FreshInv, ReviewInv, OneApplicationPerJob
  <1>2. ApplyInv'
    BY DEF ApplyInv
  <1>3. ChangeInv'
    BY DEF ChangeInv, SameRow, Locals
  <1>4. AfterInv'
    BY DEF AfterInv, After, SameRow, Locals
  <1>5. EventInv' /\ RecordedInv'
    BY DEF EventInv, RecordedInv
  <1>6. MailInv'
    BY DEF MailInv, After
  <1>7. EveryStatusIsAccountedFor'
    BY DEF EveryStatusIsAccountedFor, EventInv
  <1> QED
    BY <1>1, <1>2, <1>3, <1>4, <1>5, <1>6, <1>7

\* The last refresh finds the event or ends the handler.
LEMMA RefreshEventStep ==
    ASSUME IInv, TypeOK', NEW r \in Requests, RefreshEvent(r)
    PROVE  IInv'
PROOF
  <1> USE DEF IInv, TypeOK, RefreshEvent, Goto, Answer, db, env
  <1>1. RowsInv' /\ PublishedInv' /\ FreshInv' /\ ReviewInv' /\ OneApplicationPerJob'
    BY DEF RowsInv, PublishedInv, FreshInv, ReviewInv, OneApplicationPerJob
  <1>2. ApplyInv'
    BY DEF ApplyInv
  <1>3. ChangeInv'
    BY DEF ChangeInv, SameRow, Locals
  <1>4. AfterInv'
    BY DEF AfterInv, After, SameRow, Locals
  <1>5. EventInv' /\ RecordedInv' /\ MailInv'
    BY DEF EventInv, RecordedInv, MailInv
  <1>6. EveryStatusIsAccountedFor'
    BY DEF EveryStatusIsAccountedFor, EventInv
  <1> QED
    BY <1>1, <1>2, <1>3, <1>4, <1>5, <1>6

\* The event says what its handler holds, and its application is there.
LEMMA AppendEventStep ==
    ASSUME IInv, TypeOK', NEW r \in Requests, AppendEvent(r)
    PROVE  IInv'
PROOF
  <1> USE DEF IInv, TypeOK, AppendEvent, Goto, Answer, db, env
  <1>1. RowsInv' /\ PublishedInv' /\ FreshInv' /\ ReviewInv' /\ OneApplicationPerJob'
    BY DEF RowsInv, PublishedInv, FreshInv, ReviewInv, OneApplicationPerJob
  <1>2. ApplyInv'
    BY DEF ApplyInv
  <1>3. ChangeInv'
    BY DEF ChangeInv, SameRow, Locals
  <1>4. AfterInv'
    BY DEF AfterInv, After, SameRow, Locals
  <1>5. EventInv'
    BY DEF EventInv, Locals, EventRows
  <1>6. RecordedInv'
    <2>1. pc'[r] = "lost" \/ (pc'[r] = "refresh_event" /\ events'[r] # NoRow)
      <3> DEFINE e == [app |-> req[r].app, actor |-> req[r].user,
                       from |-> req[r].from, to |-> req[r].to]
      <3>1. e \in EventRows
        BY DEF Working, Locals, EventRows
      <3>2. e # NoRow
        BY <3>1
      <3> QED
        BY <3>2
    <2>2. /\ \A s \in Requests : s # r => pc'[s] = pc[s] /\ events'[s] = events[s]
          /\ UNCHANGED <<apps, req>>
      OBVIOUS
    <2> QED
      BY <2>1, <2>2 DEF RecordedInv
  <1>7. MailInv'
    BY DEF MailInv
  <1>8. EveryStatusIsAccountedFor'
    BY DEF EveryStatusIsAccountedFor, Locals, EventRows
  <1> QED
    BY <1>1, <1>2, <1>3, <1>4, <1>5, <1>6, <1>7, <1>8

\* A crash after the commit leaves the handler's variables as witnesses.
LEMMA CrashStep ==
    ASSUME IInv, TypeOK', NEW r \in Requests, Crash(r)
    PROVE  IInv'
PROOF
  <1> USE DEF IInv, TypeOK, Crash, Goto, Answer, db, env
  <1>1. RowsInv' /\ PublishedInv' /\ FreshInv' /\ ReviewInv' /\ OneApplicationPerJob'
    BY DEF RowsInv, PublishedInv, FreshInv, ReviewInv, OneApplicationPerJob
  <1>2. ApplyInv'
    BY DEF ApplyInv
  <1>3. ChangeInv'
    BY DEF ChangeInv, SameRow, Locals
  <1>4. AfterInv'
    BY DEF AfterInv, After, SameRow, Locals
  <1>5. EventInv' /\ RecordedInv' /\ MailInv'
    BY DEF EventInv, RecordedInv, MailInv
  <1>6. EveryStatusIsAccountedFor'
    BY DEF EveryStatusIsAccountedFor, EventInv
  <1> QED
    BY <1>1, <1>2, <1>3, <1>4, <1>5, <1>6

\* Members are only ever added, so whoever was entitled stays so.
LEMMA AddMemberStep ==
    ASSUME IInv, TypeOK', NEW c \in Companies, NEW u \in Recruiters, AddMember(c, u)
    PROVE  IInv'
PROOF
  <1> USE DEF IInv, TypeOK, AddMember, db
  <1>1. RowsInv' /\ PublishedInv' /\ FreshInv' /\ ReviewInv' /\ OneApplicationPerJob'
    BY DEF RowsInv, PublishedInv, FreshInv, ReviewInv, OneApplicationPerJob
  <1>2. ApplyInv'
    BY DEF ApplyInv
  <1>3. ChangeInv'
    BY DEF ChangeInv, SameRow, Locals
  <1>4. AfterInv'
    BY DEF AfterInv, After, SameRow, Locals
  <1>5. EventInv' /\ RecordedInv' /\ MailInv'
    BY DEF EventInv, RecordedInv, MailInv
  <1>6. EveryStatusIsAccountedFor'
    BY DEF EveryStatusIsAccountedFor, EventInv
  <1> QED
    BY <1>1, <1>2, <1>3, <1>4, <1>5, <1>6

\* A new job has no applications.
LEMMA CreateJobStep ==
    ASSUME IInv, TypeOK', NEW j \in Jobs, CreateJob(j)
    PROVE  IInv'
PROOF
  <1> USE DEF IInv, TypeOK, CreateJob, Lifecycle!Create, Lifecycle!Become, db
  <1>1. RowsInv' /\ PublishedInv' /\ FreshInv' /\ ReviewInv' /\ OneApplicationPerJob'
    BY DEF RowsInv, PublishedInv, FreshInv, ReviewInv, OneApplicationPerJob, Rowless
  <1>2. ApplyInv'
    BY DEF ApplyInv
  <1>3. ChangeInv'
    BY DEF ChangeInv, SameRow, Locals
  <1>4. AfterInv'
    BY DEF AfterInv, After, SameRow, Locals
  <1>5. EventInv' /\ RecordedInv' /\ MailInv'
    BY DEF EventInv, RecordedInv, MailInv
  <1>6. EveryStatusIsAccountedFor'
    BY DEF EveryStatusIsAccountedFor, EventInv
  <1> QED
    BY <1>1, <1>2, <1>3, <1>4, <1>5, <1>6

\* Approval publishes the job in the same step.
LEMMA ModerateJobStep ==
    ASSUME IInv, TypeOK', NEW j \in Jobs, ModerateJob(j)
    PROVE  IInv'
PROOF
  <1> USE DEF IInv, TypeOK, ModerateJob, Lifecycle!Moderate, Lifecycle!Become, db
  <1>1. RowsInv' /\ PublishedInv' /\ FreshInv' /\ ReviewInv' /\ OneApplicationPerJob'
    BY DEF RowsInv, PublishedInv, FreshInv, ReviewInv, OneApplicationPerJob, Rowless, JobStates
  <1>2. ApplyInv'
    BY DEF ApplyInv
  <1>3. ChangeInv'
    BY DEF ChangeInv, SameRow, Locals
  <1>4. AfterInv'
    BY DEF AfterInv, After, SameRow, Locals
  <1>5. EventInv' /\ RecordedInv' /\ MailInv'
    BY DEF EventInv, RecordedInv, MailInv
  <1>6. EveryStatusIsAccountedFor'
    BY DEF EveryStatusIsAccountedFor, EventInv
  <1> QED
    BY <1>1, <1>2, <1>3, <1>4, <1>5, <1>6

\* An edited job keeps its applications.
LEMMA EditJobStep ==
    ASSUME IInv, TypeOK', NEW j \in Jobs, EditJob(j)
    PROVE  IInv'
PROOF
  <1> USE DEF IInv, TypeOK, EditJob, Lifecycle!Edit, Lifecycle!Live, Lifecycle!Become, db
  <1>1. RowsInv' /\ PublishedInv' /\ FreshInv' /\ ReviewInv' /\ OneApplicationPerJob'
    BY DEF RowsInv, PublishedInv, FreshInv, ReviewInv, OneApplicationPerJob, Rowless
  <1>2. ApplyInv'
    BY DEF ApplyInv
  <1>3. ChangeInv'
    BY DEF ChangeInv, SameRow, Locals
  <1>4. AfterInv'
    BY DEF AfterInv, After, SameRow, Locals
  <1>5. EventInv' /\ RecordedInv' /\ MailInv'
    BY DEF EventInv, RecordedInv, MailInv
  <1>6. EveryStatusIsAccountedFor'
    BY DEF EveryStatusIsAccountedFor, EventInv
  <1> QED
    BY <1>1, <1>2, <1>3, <1>4, <1>5, <1>6

\* A deleted job takes its applications along, and these their events.
LEMMA DeleteJobStep ==
    ASSUME IInv, TypeOK', NEW j \in Jobs, DeleteJob(j)
    PROVE  IInv'
PROOF
  <1> USE DEF IInv, TypeOK
  <1>1. /\ \A a \in Requests : apps'[a] # NoRow =>
              apps'[a] = apps[a] /\ apps[a].job # j
        /\ \A a \in Requests : apps[a] # NoRow /\ apps'[a] = NoRow => apps[a].job = j
        /\ \A r \in Requests : events'[r] # NoRow =>
              events'[r] = events[r] /\ apps'[events[r].app] = apps[events[r].app]
        /\ \A r \in Requests : events[r] # NoRow /\ events'[r] = NoRow =>
              apps'[events[r].app] = NoRow
    BY DEF DeleteJob, ApplicationsOf, EventRows
  <1>2. jobs' = [jobs EXCEPT ![j] = "deleted"] /\ UNCHANGED <<members, published, mail, pc, req, reached>>
    BY DEF DeleteJob, Lifecycle!Delete, Lifecycle!Become
  <1>3. RowsInv'
    BY <1>1, <1>2 DEF RowsInv, Rows
  <1>4. PublishedInv' /\ FreshInv' /\ ReviewInv' /\ OneApplicationPerJob'
    BY <1>1, <1>2 DEF PublishedInv, FreshInv, ReviewInv, OneApplicationPerJob
  <1>5. ApplyInv'
    BY <1>2 DEF ApplyInv
  <1>6. \A r \in Requests : SameRow(r) /\ req[r] \in Locals => SameRow(r)'
    BY <1>1, <1>2 DEF SameRow, Locals
  <1>7. ChangeInv'
    BY <1>2, <1>6 DEF ChangeInv, Working
  <1>8. AfterInv'
    <2>1. ASSUME NEW r \in Requests, pc[r] \in After PROVE req[r] \in Locals
      BY <2>1 DEF After, Working
    <2> QED
      BY <1>2, <1>6, <2>1 DEF AfterInv
  <1>9. EventInv'
    BY <1>1, <1>2 DEF EventInv
  <1>10. RecordedInv'
    <2>1. ASSUME NEW r \in Requests, pc[r] \in {"refresh_event", "ok"}, events'[r] = NoRow
          PROVE  apps'[req[r].app] = NoRow
      <3>1. req[r].app \in Requests
        BY <2>1 DEF Working, Locals
      <3> QED
        BY <1>1, <2>1, <3>1 DEF RecordedInv, EventInv
    <2> QED
      BY <1>2, <2>1 DEF RecordedInv
  <1>11. MailInv'
    BY <1>2 DEF MailInv
  <1>12. EveryStatusIsAccountedFor'
    <2> SUFFICES ASSUME NEW a \in Requests, apps'[a] # NoRow, NEW s \in reached[a]
                 PROVE  \E r \in Requests :
                          /\ req[r] # NoRow /\ req[r].app = a /\ req[r].to = s
                          /\ events'[r] # NoRow \/ pc[r] \in {"refresh", "enqueue", "append", "lost"}
      BY <1>2 DEF EveryStatusIsAccountedFor
    <2>1. PICK r \in Requests :
            /\ req[r] # NoRow /\ req[r].app = a /\ req[r].to = s
            /\ events[r] # NoRow \/ pc[r] \in {"refresh", "enqueue", "append", "lost"}
      BY <1>1 DEF EveryStatusIsAccountedFor
    <2> QED
      BY <1>1, <2>1 DEF EventInv
  <1> QED
    BY <1>3, <1>4, <1>5, <1>7, <1>8, <1>9, <1>10, <1>11, <1>12

\* The invariant is inductive.
LEMMA NextIInv == IInv /\ [Next]_vars => IInv'
PROOF
  <1> SUFFICES ASSUME IInv, [Next]_vars PROVE IInv'
    OBVIOUS
  <1>1. TypeOK'
    BY TypeStep DEF IInv
  <1>2. ASSUME NEW r \in Requests, Receive(r) PROVE IInv'
    BY <1>1, <1>2, ApplyGetJobStep, ChangeGetApplicationStep DEF Receive
  <1>3. ASSUME NEW r \in Requests, Handle(r) PROVE IInv'
    BY <1>1, <1>3, ApplyCheckExistingStep, ApplyInsertStep, ChangeCheckAccessStep,
       ChangeUpdateStep, RefreshStep, EnqueueStep, AppendEventStep, RefreshEventStep DEF Handle
  <1>4. ASSUME NEW r \in Requests, Crash(r) PROVE IInv'
    BY <1>1, <1>4, CrashStep
  <1>5. ASSUME Environment PROVE IInv'
    BY <1>1, <1>5, AddMemberStep, CreateJobStep, ModerateJobStep, EditJobStep, DeleteJobStep
       DEF Environment
  <1>6. CASE UNCHANGED vars
    <2> USE <1>6 DEF IInv, vars
    <2>1. RowsInv' /\ PublishedInv' /\ FreshInv' /\ ApplyInv' /\ ReviewInv' /\ OneApplicationPerJob'
      BY DEF RowsInv, PublishedInv, FreshInv, ApplyInv, ReviewInv, OneApplicationPerJob
    <2>2. ChangeInv' /\ AfterInv'
      BY DEF ChangeInv, AfterInv, SameRow
    <2>3. EventInv' /\ RecordedInv' /\ MailInv' /\ EveryStatusIsAccountedFor'
      BY DEF EventInv, RecordedInv, MailInv, EveryStatusIsAccountedFor
    <2> QED
      BY <1>1, <2>1, <2>2, <2>3
  <1> QED
    BY <1>2, <1>3, <1>4, <1>5, <1>6 DEF Next

\* The invariant holds in every reachable state.
THEOREM Invariance == Spec => []IInv
PROOF
  BY InitIInv, NextIInv, PTL DEF Spec

-----------------------------------------------------------------------------
(* What follows from the invariant. *)

\* Every row, task and handler variable has its type, and a handler at work has
\* its variables.
THEOREM TypeCorrect == Spec => []TypeOK
PROOF
  <1>1. IInv => TypeOK
    BY DEF IInv
  <1> QED
    BY <1>1, Invariance, PTL

\* The unique constraint makes up for apply_to_job's check-then-insert: a
\* candidate never has two applications for a job.
THEOREM OneApplication == Spec => []OneApplicationPerJob
PROOF
  <1>1. IInv => OneApplicationPerJob
    BY DEF IInv
  <1> QED
    BY <1>1, Invariance, PTL

\* However many handlers overwrite one another's status, no application is
\* decided that never was in review.
THEOREM Reviewed == Spec => []DecidedAfterReview
PROOF
  <1>1. IInv => DecidedAfterReview
    BY DEF IInv, RowsInv, ReviewInv, DecidedAfterReview
  <1> QED
    BY <1>1, Invariance, PTL

\* Only a job that a moderator approved at some time has applications.
THEOREM OnlyToPublished == Spec => []AppliedOnlyToPublished
PROOF
  <1>1. IInv => AppliedOnlyToPublished
    BY DEF IInv, RowsInv, AppliedOnlyToPublished
  <1> QED
    BY <1>1, Invariance, PTL

\* The history never claims a status the application did not have, nor a change
\* by somebody who was not entitled to make it.
THEOREM TruthfulHistory == Spec => []HistoryIsTruthful
PROOF
  <1>1. IInv => HistoryIsTruthful
    <2> SUFFICES ASSUME IInv, NEW r \in Requests, events[r] # NoRow
                 PROVE  /\ apps[events[r].app] # NoRow
                        /\ {events[r].from, events[r].to} \subseteq reached[events[r].app]
                        /\ EntitledTo(events[r].actor, r, events[r].app)
      BY DEF HistoryIsTruthful
    <2>1. /\ pc[r] \in After
          /\ events[r].app = req[r].app /\ events[r].actor = req[r].user
          /\ events[r].from = req[r].from /\ events[r].to = req[r].to
          /\ apps[req[r].app] # NoRow
      BY DEF IInv, EventInv, After
    <2>2. /\ req[r].from \in reached[req[r].app] /\ req[r].to \in reached[req[r].app]
          /\ SameRow(r)
          /\ IF req[r].app = r THEN req[r].user = req[r].candidate
             ELSE req[r].user \in Admins \/ req[r].user \in members[CompanyOf[req[r].job]]
      BY <2>1 DEF IInv, AfterInv
    <2> QED
      BY <2>1, <2>2 DEF EntitledTo, SameRow
  <1> QED
    BY <1>1, Invariance, PTL

\* Every status has its event, or a handler that has yet to write it or failed
\* after its commit.
THEOREM AccountedFor == Spec => []EveryStatusIsAccountedFor
PROOF
  <1>1. IInv => EveryStatusIsAccountedFor
    BY DEF IInv
  <1> QED
    BY <1>1, Invariance, PTL

\* A notification task is queued after the commit it announces, and for the
\* applicant.
THEOREM NotifiedAfterCommit == Spec => []NotifiedOnlyIfCommitted
PROOF
  <1>1. IInv => NotifiedOnlyIfCommitted
    <2> SUFFICES ASSUME IInv, NEW r \in Requests, mail[r] # NoRow
                 PROVE  /\ {mail[r].from, mail[r].to} \subseteq reached[mail[r].app]
                        /\ apps[mail[r].app] # NoRow =>
                             /\ mail[r].candidate = apps[mail[r].app].candidate
                             /\ mail[r].job = apps[mail[r].app].job
      BY DEF NotifiedOnlyIfCommitted
    <2>1. pc[r] \in After /\ mail[r].app = req[r].app
          /\ mail[r].job = req[r].job /\ mail[r].candidate = req[r].candidate
          /\ mail[r].from = req[r].from /\ mail[r].to = req[r].to
      BY DEF IInv, MailInv, After
    <2>2. /\ req[r].from \in reached[req[r].app] /\ req[r].to \in reached[req[r].app]
          /\ SameRow(r)
      BY <2>1 DEF IInv, AfterInv
    <2> QED
      BY <2>1, <2>2 DEF SameRow
  <1> QED
    BY <1>1, Invariance, PTL

-----------------------------------------------------------------------------
(* What a step may do. *)

\* A status is changed by change_application_status alone, by a transition that
\* its table allows from the status it read.
LEMMA OnlyUpdateMoves ==
    ASSUME IInv, [Next]_vars, NEW a \in Requests, StatusMoves(a)
    PROVE  \E r \in Requests :
             /\ pc[r] = "update" /\ pc'[r] = "refresh" /\ req[r].app = a
             /\ req[r].to \in AllowedTargets(req[r].from)
             /\ apps'[a].status = req[r].to
PROOF
  <1>1. ASSUME apps' = apps PROVE FALSE
    BY <1>1 DEF StatusMoves
  <1>2. ASSUME NEW r \in Requests, Receive(r) PROVE FALSE
    BY <1>1, <1>2 DEF Receive, ApplyGetJob, ChangeGetApplication, db
  <1>3. ASSUME NEW r \in Requests, ApplyInsert(r) PROVE FALSE
    <2>1. pc[r] = "insert" /\ apps[r] = NoRow
      BY <1>3 DEF ApplyInsert, IInv, FreshInv
    <2> QED
      BY <1>3, <2>1 DEF ApplyInsert, StatusMoves, IInv, TypeOK, db
  <1>4. ASSUME NEW r \in Requests, ChangeUpdate(r)
        PROVE  /\ pc[r] = "update" /\ pc'[r] = "refresh" /\ req[r].app = a
               /\ req[r].to \in AllowedTargets(req[r].from)
               /\ apps'[a].status = req[r].to
    <2>1. /\ pc[r] = "update" /\ pc'[r] = "refresh"
          /\ req[r].to \in AllowedTargets(req[r].from)
          /\ apps' = [apps EXCEPT ![req[r].app].status = req[r].to]
      BY <1>1, <1>4 DEF ChangeUpdate, Goto, db, IInv, TypeOK
    <2>2. apps[a] \in Rows /\ apps \in [Requests -> Rows \cup {NoRow}]
      BY DEF StatusMoves, IInv, TypeOK
    <2>3. req[r].app = a
      BY <2>1, <2>2 DEF StatusMoves
    <2> QED
      BY <2>1, <2>2, <2>3 DEF Rows
  <1>5. ASSUME NEW r \in Requests, Handle(r), ~ApplyInsert(r), ~ChangeUpdate(r) PROVE FALSE
    BY <1>1, <1>5 DEF Handle, ApplyCheckExisting, ChangeCheckAccess, Refresh, Enqueue,
                      AppendEvent, RefreshEvent, db
  <1>6. ASSUME NEW r \in Requests, Crash(r) PROVE FALSE
    BY <1>1, <1>6 DEF Crash, db
  <1>7. ASSUME NEW j \in Jobs, DeleteJob(j) PROVE FALSE
    BY <1>7 DEF DeleteJob, StatusMoves
  <1>8. ASSUME Environment, \A j \in Jobs : ~DeleteJob(j) PROVE FALSE
    BY <1>1, <1>8 DEF Environment, AddMember, CreateJob, ModerateJob, EditJob, db
  <1>9. CASE UNCHANGED vars
    BY <1>1, <1>9 DEF vars
  <1> QED
    BY <1>2, <1>3, <1>4, <1>5, <1>6, <1>7, <1>8, <1>9 DEF Next

\* No step takes an application back to "submitted".
THEOREM Resubmission == Spec => NeverResubmitted
PROOF
  <1>1. IInv /\ [Next]_vars =>
          [\A a \in Requests : StatusMoves(a) => apps'[a].status # "submitted"]_vars
    <2> SUFFICES ASSUME IInv, [Next]_vars, NEW a \in Requests, StatusMoves(a)
                 PROVE  apps'[a].status # "submitted"
      OBVIOUS
    <2> QED
      BY OnlyUpdateMoves DEF AllowedTargets
  <1> QED
    BY <1>1, Invariance, PTL DEF Spec, NeverResubmitted

\* A transition outside the documented table is always the work of a handler
\* whose status was overwritten after it read it.
THEOREM Staleness == Spec => IllegalOnlyIfStale
PROOF
  <1>1. IInv /\ [Next]_vars =>
          [\A a \in Requests : StatusMoves(a) =>
              \/ <<apps[a].status, apps'[a].status>> \in DocumentedTransitions
              \/ \E r \in Requests : /\ pc[r] = "update" /\ pc'[r] = "refresh"
                                     /\ req[r].app = a
                                     /\ req[r].from # apps[a].status]_vars
    <2> SUFFICES ASSUME IInv, [Next]_vars, NEW a \in Requests, StatusMoves(a),
                        \A r \in Requests :
                           pc[r] = "update" /\ pc'[r] = "refresh" /\ req[r].app = a
                           => req[r].from = apps[a].status
                 PROVE  <<apps[a].status, apps'[a].status>> \in DocumentedTransitions
      OBVIOUS
    <2>1. apps'[a].status \in AllowedTargets(apps[a].status)
      BY OnlyUpdateMoves
    <2> QED
      BY <2>1 DEF AllowedTargets, DocumentedTransitions
  <1> QED
    BY <1>1, Invariance, PTL DEF Spec, IllegalOnlyIfStale

\* An application appears only for a job that is there and disappears only with
\* it.
THEOREM Cascade == Spec => GoesWithItsJob
PROOF
  <1>1. IInv /\ IInv' /\ [Next]_vars =>
          [\A a \in Requests :
             /\ apps'[a] # NoRow => jobs'[apps'[a].job] \notin Rowless
             /\ apps[a] # NoRow /\ apps'[a] = NoRow => jobs'[apps[a].job] \in Rowless]_vars
    <2> SUFFICES ASSUME IInv, IInv', [Next]_vars, NEW a \in Requests
                 PROVE  /\ apps'[a] # NoRow => jobs'[apps'[a].job] \notin Rowless
                        /\ apps[a] # NoRow /\ apps'[a] = NoRow => jobs'[apps[a].job] \in Rowless
      OBVIOUS
    <2>1. apps'[a] # NoRow => jobs'[apps'[a].job] \notin Rowless
      BY DEF IInv, RowsInv
    <2>2. ASSUME apps[a] # NoRow, apps'[a] = NoRow PROVE jobs'[apps[a].job] \in Rowless
      <3>1. PICK j \in Jobs : DeleteJob(j)
        <4>1. apps' # apps
          BY <2>2
        <4>2. ASSUME NEW r \in Requests, Receive(r) \/ Crash(r) PROVE FALSE
          BY <4>1, <4>2 DEF Receive, ApplyGetJob, ChangeGetApplication, Crash, db
        <4>3. ASSUME NEW r \in Requests, ApplyInsert(r) PROVE FALSE
          <5>1. pc[r] = "insert" /\ pc'[r] = "refresh" /\ apps'[r] = NewRow(req[r]) /\ r = a
            BY <2>2, <4>1, <4>3 DEF ApplyInsert, Goto, db, IInv, TypeOK
          <5>2. NewRow(req[r]) \in Rows
            BY <5>1 DEF IInv, TypeOK, Working, NewRow, Locals, Rows, Statuses
          <5> QED
            BY <2>2, <5>1, <5>2
        <4>4. ASSUME NEW r \in Requests, ChangeUpdate(r) PROVE FALSE
          <5>1. /\ apps' = [apps EXCEPT ![req[r].app].status = req[r].to]
                /\ apps[a] \in Rows /\ req[r] \in Locals
            BY <2>2, <4>1, <4>4 DEF ChangeUpdate, db, IInv, TypeOK, Working
          <5>2. apps'[a] \in Rows
            BY <5>1 DEF IInv, TypeOK, Rows, Locals
          <5> QED
            BY <2>2, <5>2
        <4>5. ASSUME NEW r \in Requests, Handle(r), ~ApplyInsert(r), ~ChangeUpdate(r) PROVE FALSE
          BY <4>1, <4>5 DEF Handle, ApplyCheckExisting, ChangeCheckAccess, Refresh, Enqueue,
                            AppendEvent, RefreshEvent, db
        <4>6. ASSUME Environment, \A j \in Jobs : ~DeleteJob(j) PROVE FALSE
          BY <4>1, <4>6 DEF Environment, AddMember, CreateJob, ModerateJob, EditJob, db
        <4> QED
          BY <4>1, <4>2, <4>3, <4>4, <4>5, <4>6 DEF Next, vars
      <3>2. apps[a].job = j /\ jobs' = [jobs EXCEPT ![j] = "deleted"]
        BY <2>2, <3>1 DEF DeleteJob, ApplicationsOf, Lifecycle!Delete, Lifecycle!Become
      <3> QED
        BY <3>2 DEF IInv, TypeOK, Rowless
    <2> QED
      BY <2>1, <2>2
  <1> QED
    BY <1>1, Invariance, PTL DEF Spec, GoesWithItsJob

-----------------------------------------------------------------------------
(* The handlers implement StatusRecord. *)

\* Nothing is written, told or recorded in the initial state.
LEMMA RecordInit == Init => Record!Init
PROOF
  BY DEF Init, Record!Init, Written

\* A handler that has not come to its commit, and does not come to it, is not seen.
LEMMA BeforeCommit ==
    ASSUME IInv, NEW r \in Requests, UNCHANGED <<db, mail>>,
           \A s \in Requests \ {r} : pc'[s] = pc[s] /\ req'[s] = req[s],
           pc[r] \notin After, pc'[r] \notin After
    PROVE  UNCHANGED Record!vars
PROOF
  <1>1. \A s \in Requests : Written(s)' = Written(s)
    BY DEF Written, After
  <1> QED
    BY <1>1 DEF Record!vars, db

\* A handler past its commit that touches no table and tells nothing is not seen.
LEMMA AfterCommit ==
    ASSUME IInv, NEW r \in Requests, UNCHANGED <<db, mail>>, UNCHANGED req,
           \A s \in Requests \ {r} : pc'[s] = pc[s],
           pc[r] \in After, pc'[r] \in After
    PROVE  UNCHANGED Record!vars
PROOF
  <1>1. \A s \in Requests : Written(s)' = Written(s)
    BY DEF Written, After, Change
  <1> QED
    BY <1>1 DEF Record!vars, db

\* The INSERT of an application is a submission, or nothing.
LEMMA InsertSubmits ==
    ASSUME IInv, NEW r \in Requests, ApplyInsert(r)
    PROVE  UNCHANGED Record!vars \/ Record!Next
PROOF
  <1> USE DEF IInv, TypeOK
  <1>1. /\ pc[r] = "insert" /\ req[r] \in Locals
        /\ req[r].app = r /\ req[r].from = "submitted" /\ req[r].to = "submitted"
        /\ apps[r] = NoRow /\ reached[r] = {}
    BY DEF ApplyInsert, Working, ApplyInv, FreshInv
  <1>2. CASE UNCHANGED db
    <2>1. /\ \A s \in Requests \ {r} : pc'[s] = pc[s] /\ req'[s] = req[s]
          /\ pc'[r] \notin After
      <3>1. ASSUME apps' = [apps EXCEPT ![r] = NewRow(req[r])] PROVE FALSE
        <4>1. NewRow(req[r]) \in Rows
          BY <1>1 DEF NewRow, Rows, Locals, Statuses
        <4> QED
          BY <1>1, <1>2, <3>1, <4>1 DEF db
      <3> QED
        BY <3>1 DEF ApplyInsert, Goto, Answer, After
    <2> QED
      BY <1>1, <1>2, <2>1, BeforeCommit DEF ApplyInsert, After
  <1>3. CASE ~UNCHANGED db
    <2>1. /\ ~ViolatesUnique(req[r])
          /\ apps' = [apps EXCEPT ![r] = NewRow(req[r])]
          /\ reached' = [reached EXCEPT ![r] = {"submitted"}]
          /\ pc' = [pc EXCEPT ![r] = "refresh"]
          /\ UNCHANGED <<events, req, mail>>
      BY <1>3 DEF ApplyInsert, Goto
    <2>2. /\ Written(r) = NoRow
          /\ Written(r)' = [app |-> r, from |-> "submitted", to |-> "submitted"]
          /\ \A s \in Requests \ {r} : Written(s)' = Written(s)
      BY <1>1, <2>1 DEF Written, Change
    <2>3. Record!Submit(r, req[r].job, req[r].candidate)
      <3>1. \A a \in Requests : apps[a] # NoRow =>
               apps[a].job # req[r].job \/ apps[a].candidate # req[r].candidate
        BY <2>1 DEF ViolatesUnique, Applied
      <3>2. reached' = [reached EXCEPT ![r] = @ \cup {"submitted"}]
        BY <1>1, <2>1
      <3>3. [s \in Requests |-> Written(s)]' =
              [[s \in Requests |-> Written(s)] EXCEPT
                 ![r] = [app |-> r, from |-> "submitted", to |-> "submitted"]]
        BY <2>2
      <3> QED
        BY <1>1, <2>1, <2>2, <3>1, <3>2, <3>3 DEF Record!Submit, Record!Write, NewRow
    <2> QED
      BY <1>1, <2>3 DEF Record!Next, Locals
  <1> QED
    BY <1>2, <1>3

\* The UPDATE of a status is a move from the status its handler read, or nothing.
LEMMA UpdateMoves ==
    ASSUME IInv, NEW r \in Requests, ChangeUpdate(r)
    PROVE  UNCHANGED Record!vars \/ Record!Next
PROOF
  <1> USE DEF IInv, TypeOK
  <1> DEFINE q == req[r]
  <1>1. /\ pc[r] = "update" /\ q \in Locals /\ q.app # r
        /\ q.from \in reached[q.app]
    BY DEF ChangeUpdate, Working, ChangeInv
  <1>2. CASE /\ UNCHANGED db
             /\ \E reply \in {"conflict", "server_error"} : Answer(r, reply)
    <2>1. /\ \A s \in Requests \ {r} : pc'[s] = pc[s] /\ req'[s] = req[s]
          /\ pc'[r] \notin After
      BY <1>2 DEF Goto, Answer, After
    <2> QED
      BY <1>1, <1>2, <2>1, BeforeCommit DEF ChangeUpdate, After
  <1>3. CASE /\ q.to \in AllowedTargets(q.from)
             /\ apps[q.app] # NoRow
             /\ apps' = [apps EXCEPT ![q.app].status = q.to]
             /\ reached' = [reached EXCEPT ![q.app] = @ \cup {q.to}]
             /\ pc' = [pc EXCEPT ![r] = "refresh"]
             /\ UNCHANGED <<events, req, mail>>
    <2>1. /\ Written(r) = NoRow
          /\ Written(r)' = [app |-> q.app, from |-> q.from, to |-> q.to]
          /\ \A s \in Requests \ {r} : Written(s)' = Written(s)
      BY <1>1, <1>3 DEF Written, Change
    <2>2. <<q.from, q.to>> \in DocumentedTransitions
      BY <1>3 DEF AllowedTargets, DocumentedTransitions
    <2>3. Record!Move(r, q.app, q.from, q.to)
      <3>1. [s \in Requests |-> Written(s)]' =
              [[s \in Requests |-> Written(s)] EXCEPT
                 ![r] = [app |-> q.app, from |-> q.from, to |-> q.to]]
        BY <2>1
      <3> QED
        BY <1>1, <1>3, <2>1, <3>1 DEF Record!Move, Record!Write
    <2> QED
      BY <1>1, <2>2, <2>3 DEF Record!Next, Locals
  <1> QED
    BY <1>2, <1>3 DEF ChangeUpdate, Goto

\* A notification tells what its handler wrote.
LEMMA EnqueueTells ==
    ASSUME IInv, NEW r \in Requests, Enqueue(r)
    PROVE  UNCHANGED Record!vars \/ Record!Next
PROOF
  <1> USE DEF IInv, TypeOK
  <1> DEFINE q == req[r]
             m == [app |-> q.app, job |-> q.job, candidate |-> q.candidate,
                   actor |-> q.user, from |-> q.from, to |-> q.to]
  <1>1. /\ pc[r] = "enqueue" /\ pc' = [pc EXCEPT ![r] = "append"] /\ q \in Locals
        /\ UNCHANGED <<apps, reached, events, req>>
        /\ mail[r] = NoRow /\ events[r] = NoRow
    BY DEF Enqueue, Goto, Working, MailInv, EventInv, db
  <1>2. \A s \in Requests : Written(s)' = Written(s)
    BY <1>1 DEF Written, Change
  <1>3. CASE UNCHANGED mail
    BY <1>1, <1>2, <1>3 DEF Record!vars
  <1>4. CASE mail' = [mail EXCEPT ![r] = m]
    <2>1. m \in Tasks /\ m # NoRow /\ Change(m) = Change(q)
      BY <1>1 DEF Tasks, Locals, Change
    <2>2. Written(r) = Change(q) /\ Written(r) # NoRow
      BY <1>1 DEF Written, Change, Changes, Locals
    <2>3. [s \in Requests |-> IF mail[s] = NoRow THEN NoRow ELSE Change(mail[s])]' =
            [[s \in Requests |-> IF mail[s] = NoRow THEN NoRow ELSE Change(mail[s])]
               EXCEPT ![r] = Change(q)]
      BY <1>4, <2>1
    <2>4. Record!Tell(r)
      BY <1>1, <1>2, <2>2, <2>3 DEF Record!Tell
    <2> QED
      BY <2>4 DEF Record!Next
  <1> QED
    BY <1>3, <1>4 DEF Enqueue

\* An event records what its handler wrote.
LEMMA AppendRecords ==
    ASSUME IInv, NEW r \in Requests, AppendEvent(r)
    PROVE  UNCHANGED Record!vars \/ Record!Next
PROOF
  <1> USE DEF IInv, TypeOK
  <1> DEFINE q == req[r]
             e == [app |-> q.app, actor |-> q.user, from |-> q.from, to |-> q.to]
  <1>1. /\ pc[r] = "append" /\ q \in Locals
        /\ UNCHANGED <<apps, reached, mail, req>>
        /\ events[r] = NoRow
        /\ pc'[r] \in After /\ \A s \in Requests \ {r} : pc'[s] = pc[s]
    BY DEF AppendEvent, Goto, Working, EventInv, After
  <1>2. \A s \in Requests : Written(s)' = Written(s)
    BY <1>1 DEF Written, Change, After
  <1>3. CASE UNCHANGED events
    BY <1>1, <1>2, <1>3 DEF Record!vars
  <1>4. CASE apps[q.app] # NoRow /\ events' = [events EXCEPT ![r] = e]
    <2>1. e \in EventRows /\ e # NoRow /\ Change(e) = Change(q) /\ Change(q).app = q.app
      BY <1>1 DEF EventRows, Locals, Change
    <2>2. Written(r) = Change(q) /\ Written(r) # NoRow
      BY <1>1 DEF Written, Change, Changes, Locals
    <2>3. [s \in Requests |-> IF events[s] = NoRow THEN NoRow ELSE Change(events[s])]' =
            [[s \in Requests |-> IF events[s] = NoRow THEN NoRow ELSE Change(events[s])]
               EXCEPT ![r] = Change(q)]
      BY <1>4, <2>1
    <2>4. Record!Record(r)
      BY <1>1, <1>2, <1>4, <2>1, <2>2, <2>3 DEF Record!Record
    <2> QED
      BY <2>4 DEF Record!Next
  <1> QED
    BY <1>3, <1>4 DEF AppendEvent

\* The deletion of a job withdraws its applications with their events.
LEMMA DeletionWithdraws ==
    ASSUME IInv, NEW j \in Jobs, DeleteJob(j)
    PROVE  Record!Next
PROOF
  <1> USE DEF IInv, TypeOK
  <1>1. UNCHANGED <<mail, pc, req, reached>>
    BY DEF DeleteJob
  <1>2. \A s \in Requests : Written(s)' = Written(s)
    BY <1>1 DEF Written, Change
  <1>3. \A s \in Requests : events[s] # NoRow =>
            Change(events[s]) # NoRow /\ Change(events[s]).app = events[s].app
    BY DEF Change, Changes, EventRows
  <1>4. \A s \in Requests : Change(events[s])' = Change(events'[s])
    BY DEF Change
  <1>5. Record!Withdraw(j)
    BY <1>1, <1>2, <1>3, <1>4 DEF DeleteJob, ApplicationsOf, Record!Withdraw
  <1> QED
    BY <1>5 DEF Record!Next

\* Every step of the system is a step of StatusRecord or is not seen there.
LEMMA RecordStep == IInv /\ [Next]_vars => UNCHANGED Record!vars \/ Record!Next
PROOF
  <1> SUFFICES ASSUME IInv, [Next]_vars PROVE UNCHANGED Record!vars \/ Record!Next
    OBVIOUS
  <1> USE DEF IInv, TypeOK
  <1>1. ASSUME NEW r \in Requests, Receive(r) PROVE UNCHANGED Record!vars
    <2>1. /\ pc[r] = "idle" /\ UNCHANGED <<db, mail>> /\ pc'[r] \notin After
          /\ \A s \in Requests \ {r} : pc'[s] = pc[s] /\ req'[s] = req[s]
      BY <1>1 DEF Receive, ApplyGetJob, ChangeGetApplication, Goto, Answer, After
    <2> QED
      BY <2>1, BeforeCommit DEF After
  <1>2. ASSUME NEW r \in Requests, ApplyCheckExisting(r) \/ ChangeCheckAccess(r)
        PROVE  UNCHANGED Record!vars
    <2>1. /\ pc[r] \in {"check_existing", "check_access"}
          /\ UNCHANGED <<db, mail>> /\ pc'[r] \notin After
          /\ \A s \in Requests \ {r} : pc'[s] = pc[s] /\ req'[s] = req[s]
      BY <1>2 DEF ApplyCheckExisting, ChangeCheckAccess, Goto, Answer, After
    <2> QED
      BY <2>1, BeforeCommit DEF After
  <1>3. ASSUME NEW r \in Requests, Refresh(r) \/ RefreshEvent(r)
        PROVE  UNCHANGED Record!vars
    <2>1. /\ pc[r] \in After /\ UNCHANGED <<db, mail>> /\ UNCHANGED req /\ pc'[r] \in After
          /\ \A s \in Requests \ {r} : pc'[s] = pc[s]
      BY <1>3 DEF Refresh, RefreshEvent, Goto, After
    <2> QED
      BY <2>1, AfterCommit
  <1>4. ASSUME NEW r \in Requests, Handle(r) PROVE UNCHANGED Record!vars \/ Record!Next
    BY <1>2, <1>3, <1>4, InsertSubmits, UpdateMoves, EnqueueTells, AppendRecords DEF Handle
  <1>5. ASSUME NEW r \in Requests, Crash(r) PROVE UNCHANGED Record!vars
    <2>1. CASE pc[r] \in {"check_existing", "insert", "check_access", "update"}
      <3>1. /\ UNCHANGED <<db, mail>> /\ pc'[r] \notin After
            /\ \A s \in Requests \ {r} : pc'[s] = pc[s] /\ req'[s] = req[s]
        BY <1>5, <2>1 DEF Crash, Goto, Answer, After
      <3> QED
        BY <2>1, <3>1, BeforeCommit DEF After
    <2>2. CASE pc[r] \in {"refresh", "enqueue", "append", "refresh_event"}
      <3>1. /\ UNCHANGED <<db, mail>> /\ UNCHANGED req /\ pc'[r] \in After
            /\ \A s \in Requests \ {r} : pc'[s] = pc[s]
        BY <1>5, <2>2 DEF Crash, Goto, Answer, After
      <3> QED
        BY <2>2, <3>1, AfterCommit DEF After
    <2> QED
      BY <1>5, <2>1, <2>2 DEF Crash
  <1>6. ASSUME Environment PROVE UNCHANGED Record!vars \/ Record!Next
    <2>1. CASE \E j \in Jobs : DeleteJob(j)
      BY <2>1, DeletionWithdraws
    <2>2. CASE ~\E j \in Jobs : DeleteJob(j)
      <3>1. UNCHANGED <<db, mail, pc, req>>
        BY <1>6, <2>2 DEF Environment, AddMember, CreateJob, ModerateJob, EditJob
      <3>2. \A s \in Requests : Written(s)' = Written(s)
        BY <3>1 DEF Written, Change
      <3> QED
        BY <3>1, <3>2 DEF Record!vars, db
    <2> QED
      BY <2>1, <2>2
  <1>7. CASE UNCHANGED vars
    <2>1. \A s \in Requests : Written(s)' = Written(s)
      BY <1>7 DEF Written, Change, vars
    <2> QED
      BY <1>7, <2>1 DEF Record!vars, vars
  <1> QED
    BY <1>1, <1>4, <1>5, <1>6, <1>7 DEF Next

\* The handlers, seven statements each, any of which may be the last, implement the
\* promise of StatusRecord, where a write, what is told of it and what is recorded
\* of it are one step each.
THEOREM Refinement == Spec => ImplementsStatusRecord
PROOF
  <1>1. IInv /\ [Next]_vars => [UNCHANGED Record!vars \/ Record!Next]_(Record!vars)
    BY RecordStep
  <1> QED
    BY <1>1, RecordInit, Invariance, PTL DEF Spec, ImplementsStatusRecord, Record!Spec

-----------------------------------------------------------------------------
(* One request at a time the documents are right. *)

\* A handler is alone, and what it has read is still so.
ReadsAreFresh ==
    \A r \in Requests :
        /\ pc[r] \in Working => \A q \in Requests \ {r} : pc[q] \notin Working
        /\ pc[r] \in {"check_existing", "insert"} => Published(req[r].job)
        /\ pc[r] = "insert" => ~ViolatesUnique(req[r])
        /\ pc[r] \in {"check_access", "update"} =>
              apps[req[r].app] # NoRow /\ apps[req[r].app].status = req[r].from

SerialInv == IInv /\ ReadsAreFresh /\ DuplicateIsConflict

\* Serial behaviours are behaviours.
LEMMA SerialIsNext == OneAtATime => Next
PROOF
  BY DEF OneAtATime, Next

\* Initially no handler is at work, so no two overlap.
LEMMA SerialInit == Init => SerialInv
PROOF
  <1>1. Init => ReadsAreFresh /\ DuplicateIsConflict
    BY DEF Init, ReadsAreFresh, DuplicateIsConflict, Working
  <1> QED
    BY <1>1, InitIInv DEF SerialInv

\* Nothing comes between the statements of a handler, so what it read stays true.
LEMMA SerialStep == SerialInv /\ [OneAtATime]_vars => SerialInv'
PROOF
  <1> SUFFICES ASSUME SerialInv, [OneAtATime]_vars PROVE ReadsAreFresh' /\ DuplicateIsConflict'
    BY SerialIsNext, NextIInv DEF SerialInv
  <1> USE DEF SerialInv, IInv, TypeOK
  <1>1. ASSUME NEW r \in Requests, Quiet, Receive(r) PROVE ReadsAreFresh' /\ DuplicateIsConflict'
    <2>1. /\ \A q \in Requests \ {r} : pc'[q] = pc[q] /\ pc[q] \notin Working
          /\ UNCHANGED <<jobs, apps>>
          /\ \/ pc'[r] \in {"not_found", "bad_request"}
             \/ pc'[r] = "check_existing" /\ Published(req'[r].job)
             \/ /\ pc'[r] \in {"check_access", "update"}
                /\ apps[req'[r].app] # NoRow /\ apps[req'[r].app].status = req'[r].from
      <3>1. ASSUME NEW c \in Candidates, NEW j \in Jobs, NEW k \in BOOLEAN, ApplyGetJob(r, c, j, k)
            PROVE  /\ \A q \in Requests \ {r} : pc'[q] = pc[q]
                   /\ UNCHANGED <<jobs, apps>>
                   /\ \/ pc'[r] \in {"not_found", "bad_request"}
                      \/ pc'[r] = "check_existing" /\ Published(req'[r].job)
        BY <3>1 DEF ApplyGetJob, Goto, Answer, env, db
      <3>2. ASSUME NEW u \in Recruiters \cup Admins, NEW a \in Requests, NEW s \in Statuses,
                   ChangeGetApplication(r, u, a, s)
            PROVE  /\ \A q \in Requests \ {r} : pc'[q] = pc[q]
                   /\ UNCHANGED <<jobs, apps>>
                   /\ \/ pc'[r] = "not_found"
                      \/ /\ pc'[r] \in {"check_access", "update"}
                         /\ apps[req'[r].app] # NoRow /\ apps[req'[r].app].status = req'[r].from
        BY <3>2 DEF ChangeGetApplication, Goto, Answer, env, db
      <3> QED
        BY <1>1, <3>1, <3>2 DEF Receive, Quiet
    <2>2. ReadsAreFresh'
      BY <2>1 DEF ReadsAreFresh, Published, Working
    <2> QED
      BY <2>1, <2>2 DEF DuplicateIsConflict
  <1>2. ASSUME NEW r \in Requests, Handle(r) \/ Crash(r)
        PROVE  ReadsAreFresh' /\ DuplicateIsConflict'
    <2>1. pc[r] \in Working /\ \A q \in Requests \ {r} : pc[q] \notin Working
      <3>1. pc[r] \in Working
        BY <1>2 DEF Handle, Crash, ApplyCheckExisting, ApplyInsert, ChangeCheckAccess,
                    ChangeUpdate, Refresh, Enqueue, AppendEvent, RefreshEvent, Working
      <3> QED
        BY <3>1 DEF ReadsAreFresh
    <2>2. /\ \A q \in Requests \ {r} : pc'[q] = pc[q]
          /\ \/ pc'[r] \in Replies \ {"unique_violation"}
             \/ pc'[r] \in {"refresh", "enqueue", "append", "refresh_event"}
             \/ /\ pc'[r] = "insert" /\ pc[r] = "check_existing"
                /\ ~ViolatesUnique(req[r]) /\ UNCHANGED <<req, jobs, apps>>
             \/ /\ pc'[r] = "update" /\ pc[r] = "check_access"
                /\ UNCHANGED <<req, jobs, apps>>
      <3>1. CASE ApplyCheckExisting(r)
        BY <3>1 DEF ApplyCheckExisting, Goto, Answer, Replies, ViolatesUnique, env, db
      <3>2. CASE ApplyInsert(r)
        BY <3>2 DEF ApplyInsert, Goto, Answer, Replies, ReadsAreFresh
      <3>3. CASE ChangeCheckAccess(r)
        BY <3>3 DEF ChangeCheckAccess, Goto, Answer, Replies, env, db
      <3>4. CASE ChangeUpdate(r)
        BY <3>4 DEF ChangeUpdate, Goto, Answer, Replies
      <3>5. CASE Refresh(r) \/ Enqueue(r) \/ AppendEvent(r) \/ RefreshEvent(r)
        BY <3>5 DEF Refresh, Enqueue, AppendEvent, RefreshEvent, Goto, Replies
      <3>6. CASE Crash(r)
        BY <3>6 DEF Crash, Goto, Answer, Replies
      <3> QED
        BY <1>2, <3>1, <3>2, <3>3, <3>4, <3>5, <3>6 DEF Handle
    <2>3. /\ UNCHANGED <<req, jobs, apps>> => (Published(req[r].job) <=> Published(req[r].job)')
          /\ UNCHANGED <<req, jobs, apps>> => (ViolatesUnique(req[r]) <=> ViolatesUnique(req[r])')
      BY DEF Published, ViolatesUnique, Applied
    <2>4. ReadsAreFresh'
      BY <2>1, <2>2, <2>3 DEF ReadsAreFresh, Working, Replies
    <2> QED
      BY <2>2, <2>4 DEF DuplicateIsConflict
  <1>3. ASSUME Quiet, Environment PROVE ReadsAreFresh' /\ DuplicateIsConflict'
    <2>1. UNCHANGED pc
      BY <1>3 DEF Environment, AddMember, CreateJob, ModerateJob, EditJob, DeleteJob
    <2> QED
      BY <1>3, <2>1 DEF Quiet, ReadsAreFresh, DuplicateIsConflict, Working
  <1>4. CASE UNCHANGED vars
    BY <1>4 DEF vars, ReadsAreFresh, DuplicateIsConflict, Published, ViolatesUnique, Applied
  <1> QED
    BY <1>1, <1>2, <1>3, <1>4 DEF OneAtATime

\* While handlers do not overlap, the serial invariant holds.
THEOREM SerialInvariance == SerialSpec => []SerialInv
PROOF
  BY SerialInit, SerialStep, PTL DEF SerialSpec

\* One request at a time, a duplicate application is always answered 409: the 500 of
\* the unique constraint takes two requests at once.
THEOREM SerialDuplicates == SerialSpec => []DuplicateIsConflict
PROOF
  <1>1. SerialInv => DuplicateIsConflict
    BY DEF SerialInv
  <1> QED
    BY <1>1, SerialInvariance, PTL

\* One request at a time, a status moves by the documented table only.
THEOREM SerialTransitions == SerialSpec => TransitionsAreLegal
PROOF
  <1>1. SerialInv /\ [OneAtATime]_vars =>
          [\A a \in Requests : StatusMoves(a) =>
              <<apps[a].status, apps'[a].status>> \in DocumentedTransitions]_vars
    <2> SUFFICES ASSUME SerialInv, [OneAtATime]_vars, NEW a \in Requests, StatusMoves(a)
                 PROVE  <<apps[a].status, apps'[a].status>> \in DocumentedTransitions
      OBVIOUS
    <2>1. PICK r \in Requests :
            /\ pc[r] = "update" /\ req[r].app = a
            /\ req[r].to \in AllowedTargets(req[r].from)
            /\ apps'[a].status = req[r].to
      BY SerialIsNext, OnlyUpdateMoves DEF SerialInv
    <2>2. req[r].from = apps[a].status
      BY <2>1 DEF SerialInv, ReadsAreFresh
    <2> QED
      BY <2>1, <2>2 DEF AllowedTargets, DocumentedTransitions
  <1> QED
    BY <1>1, SerialInvariance, PTL DEF SerialSpec, TransitionsAreLegal

\* One request at a time, and with no moderator between its statements, applying
\* succeeds for approved jobs only.
THEOREM SerialApproval == SerialSpec => AppliesOnlyToApproved
PROOF
  <1>1. SerialInv /\ [OneAtATime]_vars =>
          [\A a \in Requests :
             apps[a] = NoRow /\ apps'[a] # NoRow => jobs[apps'[a].job] = "approved"]_vars
    <2> SUFFICES ASSUME SerialInv, [OneAtATime]_vars, NEW a \in Requests,
                        apps[a] = NoRow, apps'[a] # NoRow
                 PROVE  jobs[apps'[a].job] = "approved"
      OBVIOUS
    <2>1. PICK r \in Requests : ApplyInsert(r)
      <3>1. ASSUME NEW r \in Requests, ChangeUpdate(r) PROVE FALSE
        <4>1. apps' = [apps EXCEPT ![req[r].app].status = req[r].to] /\ apps[req[r].app] # NoRow
          BY <3>1 DEF ChangeUpdate, db
        <4> QED
          BY <4>1 DEF SerialInv, IInv, TypeOK
      <3>2. ASSUME NEW r \in Requests, Receive(r) \/ Crash(r) PROVE FALSE
        BY <3>2 DEF Receive, ApplyGetJob, ChangeGetApplication, Crash, db
      <3>3. ASSUME NEW r \in Requests, Handle(r), ~ApplyInsert(r), ~ChangeUpdate(r) PROVE FALSE
        BY <3>3 DEF Handle, ApplyCheckExisting, ChangeCheckAccess, Refresh, Enqueue,
                    AppendEvent, RefreshEvent, db
      <3>4. ASSUME Environment PROVE FALSE
        <4>1. ASSUME NEW j \in Jobs, DeleteJob(j) PROVE FALSE
          BY <4>1 DEF DeleteJob
        <4> QED
          BY <3>4, <4>1 DEF Environment, AddMember, CreateJob, ModerateJob, EditJob, db
      <3> QED
        BY <3>1, <3>2, <3>3, <3>4, SerialIsNext DEF Next, vars
    <2>2. /\ pc[r] = "insert" /\ apps' = [apps EXCEPT ![r] = NewRow(req[r])]
          /\ jobs[req[r].job] = "approved"
      BY <2>1 DEF ApplyInsert, db, SerialInv, ReadsAreFresh, Published
    <2> QED
      BY <2>2 DEF NewRow, SerialInv, IInv, TypeOK
  <1> QED
    BY <1>1, SerialInvariance, PTL DEF SerialSpec, AppliesOnlyToApproved
=============================================================================
