---------------------------- MODULE ReportsProofs ---------------------------
(***************************************************************************)
(* Proofs about Reports, for any sets of jobs, admins and requests.  The   *)
(* invariant says that a report is locked exactly while a handler stands   *)
(* between its test and its commit, and that its audit trail is empty      *)
(* until it is handled.                                                    *)
(***************************************************************************)
EXTENDS Reports, TLAPS

\* A locked report is held by the handler that is about to decide on it.
LockInv ==
    \A p \in Requests : lock[p] # None =>
        lock[p] \in Requests /\ pc[lock[p]] = "decide" /\ req[lock[p]].report = p

\* A report appears when its request inserts it, once.
BornInv ==
    \A p \in Requests :
        /\ pc[p] \in {"idle", "insert"} => p \notin born
        /\ rows[p] # None => p \in born
        /\ p \notin born => audit[p] = <<>>

\* An open report has no decider and no audit entry.
OpenInv ==
    \A p \in Requests : rows[p] # None /\ rows[p].status = "open" =>
        rows[p].by = None /\ audit[p] = <<>>

\* TypeOK in two parts: sequences in a hypothesis slow the SMT solver down.
StateTypes ==
    /\ live \in SUBSET Jobs
    /\ rows \in [Requests -> Rows \cup {None}]
    /\ lock \in [Requests -> Requests \cup {None}]
    /\ pc \in [Requests -> {"idle"} \cup Working \cup Replies]
    /\ req \in [Requests -> Submissions \cup Resolutions \cup {None}]
    /\ born \in SUBSET Requests
    /\ \A r \in Requests :
          /\ pc[r] \in {"insert", "reload"} => req[r] \in Submissions
          /\ pc[r] \in {"decide", "refresh"} => req[r] \in Resolutions

TrailTypes == audit \in [Requests -> Seq(Entries)]

IInv ==
    /\ StateTypes
    /\ TrailTypes
    /\ LockInv
    /\ BornInv
    /\ OpenInv
    /\ HandlesWhatItRead
    /\ HandledOnce

USE RepAssumption, NoneAssumption

-----------------------------------------------------------------------------
\* Initially nothing is reported.
LEMMA InitIInv == Init => IInv
PROOF
  <1> SUFFICES ASSUME Init PROVE IInv
    OBVIOUS
  <1>1. StateTypes /\ TrailTypes
    BY DEF Init, StateTypes, TrailTypes, Working
  <1>2. LockInv /\ BornInv /\ OpenInv /\ HandlesWhatItRead
    BY DEF Init, LockInv, BornInv, OpenInv, HandlesWhatItRead
  <1>3. HandledOnce
    BY DEF Init, HandledOnce
  <1> QED
    BY <1>1, <1>2, <1>3 DEF IInv

\* A step that writes no audit entry and handles no report keeps the trail.
LEMMA TrailKept ==
    ASSUME HandledOnce, TrailTypes, UNCHANGED audit,
           \A p \in Requests : rows'[p] # None /\ rows'[p].status # "open" => rows'[p] = rows[p]
    PROVE  HandledOnce' /\ TrailTypes'
PROOF
  BY DEF HandledOnce, TrailTypes

\* Whoever reports a job that is there goes on to the INSERT.
LEMMA SubmitGetJobStep ==
    ASSUME IInv, NEW r \in Requests, NEW j \in Jobs, SubmitGetJob(r, j)
    PROVE  IInv'
PROOF
  <1> DEFINE q == [job |-> j]
  <1> USE DEF IInv, StateTypes
  <1>1. q \in Submissions
    BY DEF Submissions
  <1> HIDE DEF q
  <1>2. /\ pc[r] = "idle" /\ UNCHANGED <<live, rows, lock, audit, born>>
        /\ \/ pc' = [pc EXCEPT ![r] = "not_found"] /\ req' = [req EXCEPT ![r] = None]
           \/ pc' = [pc EXCEPT ![r] = "insert"] /\ req' = [req EXCEPT ![r] = q]
    BY DEF SubmitGetJob, Goto, Answer, q
  <1>3. StateTypes'
    BY <1>1, <1>2 DEF Working, Replies
  <1>4. LockInv' /\ BornInv' /\ OpenInv'
    BY <1>2 DEF LockInv, BornInv, OpenInv
  <1>5. HandlesWhatItRead'
    BY <1>2 DEF HandlesWhatItRead
  <1>6. HandledOnce' /\ TrailTypes'
    BY <1>2, TrailKept
  <1> QED
    BY <1>3, <1>4, <1>5, <1>6

\* The INSERT makes an open report under a fresh key.
LEMMA SubmitInsertStep ==
    ASSUME IInv, NEW r \in Requests, SubmitInsert(r)
    PROVE  IInv'
PROOF
  <1> USE DEF IInv, StateTypes
  <1>1. req[r].job \in Jobs /\ r \notin born /\ rows[r] = None /\ lock[r] = None /\ audit[r] = <<>>
    BY DEF SubmitInsert, BornInv, LockInv, HandlesWhatItRead, Submissions
  <1>2. NewRow(req[r].job) \in Rows /\ NewRow(req[r].job) # None
    BY <1>1 DEF NewRow, Rows
  <1>3. \/ /\ pc' = [pc EXCEPT ![r] = "server_error"] /\ req' = [req EXCEPT ![r] = None]
           /\ pc[r] = "insert" /\ UNCHANGED <<live, rows, lock, audit, born>>
        \/ /\ pc' = [pc EXCEPT ![r] = "reload"]
           /\ rows' = [rows EXCEPT ![r] = NewRow(req[r].job)] /\ born' = born \cup {r}
           /\ pc[r] = "insert" /\ UNCHANGED <<live, lock, audit, req>>
    BY DEF SubmitInsert, Goto, Answer
  <1>4. StateTypes'
    BY <1>2, <1>3 DEF Working, Replies
  <1>5. LockInv' /\ BornInv' /\ OpenInv'
    BY <1>1, <1>2, <1>3 DEF LockInv, BornInv, OpenInv, NewRow
  <1>6. HandlesWhatItRead'
    <2>1. ASSUME NEW s \in Requests, pc'[s] = "decide"
          PROVE  /\ s # r /\ pc[s] = "decide" /\ req'[s] = req[s] /\ req[s].report \in Requests
                 /\ s # None
      BY <1>3, <2>1 DEF Resolutions
    <2> QED
      BY <1>1, <1>3, <2>1 DEF HandlesWhatItRead
  <1>7. HandledOnce' /\ TrailTypes'
    <2>1. \A p \in Requests : rows'[p] # None /\ rows'[p].status # "open" => rows'[p] = rows[p]
      BY <1>3 DEF NewRow
    <2> QED
      BY <1>3, <2>1, TrailKept
  <1> QED
    BY <1>4, <1>5, <1>6, <1>7

\* The last statements of the handlers read only.
LEMMA ReloadStep ==
    ASSUME IInv, NEW r \in Requests, SubmitReload(r) \/ HandleRefresh(r)
    PROVE  IInv'
PROOF
  <1> USE DEF IInv, StateTypes, SubmitReload, HandleRefresh, Goto, Answer
  <1>1. StateTypes'
    BY DEF Working, Replies
  <1>2. LockInv' /\ BornInv' /\ OpenInv'
    BY DEF LockInv, BornInv, OpenInv
  <1>3. HandlesWhatItRead'
    BY DEF HandlesWhatItRead
  <1>4. HandledOnce' /\ TrailTypes'
    BY TrailKept
  <1> QED
    BY <1>1, <1>2, <1>3, <1>4

\* The lock is free when it is taken, and the report open.
LEMMA HandleLockStep ==
    ASSUME IInv, NEW r \in Requests, NEW a \in Admins, NEW p \in Requests, NEW v \in Verdicts,
           HandleLock(r, a, p, v)
    PROVE  IInv'
PROOF
  <1> DEFINE q == [report |-> p, by |-> a, verdict |-> v]
  <1> USE DEF IInv, StateTypes
  <1>1. q \in Resolutions /\ q.report = p
    BY DEF Resolutions
  <1> HIDE DEF q
  <1>2. /\ pc[r] = "idle" /\ lock[p] = None /\ UNCHANGED <<live, rows, audit, born>>
        /\ \/ /\ \E reply \in {"not_found", "conflict"} : pc' = [pc EXCEPT ![r] = reply]
              /\ req' = [req EXCEPT ![r] = None] /\ UNCHANGED lock
           \/ /\ rows[p] # None /\ rows[p].status = "open"
              /\ pc' = [pc EXCEPT ![r] = "decide"]
              /\ req' = [req EXCEPT ![r] = q] /\ lock' = [lock EXCEPT ![p] = r]
    BY DEF HandleLock, Unlocked, StillOpen, Goto, Answer, q
  <1>3. StateTypes'
    BY <1>1, <1>2 DEF Working, Replies
  <1>4. LockInv' /\ BornInv' /\ OpenInv'
    <2>1. LockInv'
      BY <1>1, <1>2 DEF LockInv
    <2>2. BornInv' /\ OpenInv'
      BY <1>2 DEF BornInv, OpenInv
    <2> QED
      BY <2>1, <2>2
  <1>5. HandlesWhatItRead'
    <2>1. ASSUME NEW s \in Requests, s # r, pc'[s] = "decide"
          PROVE  /\ pc[s] = "decide" /\ req'[s] = req[s] /\ req[s].report \in Requests
                 /\ lock[req[s].report] = s /\ req[s].report # p
      BY <1>2, <2>1 DEF Resolutions, HandlesWhatItRead
    <2> QED
      BY <1>1, <1>2, <2>1 DEF HandlesWhatItRead
  <1>6. HandledOnce' /\ TrailTypes'
    BY <1>2, TrailKept
  <1> QED
    BY <1>3, <1>4, <1>5, <1>6

\* The commit closes an open report and writes its first audit entry.
LEMMA HandleCommitStep ==
    ASSUME IInv, NEW r \in Requests, HandleCommit(r)
    PROVE  IInv'
PROOF
  <1> DEFINE p == req[r].report
             e == [by |-> req[r].by, verdict |-> req[r].verdict]
  <1> USE DEF IInv, StateTypes
  <1>1. /\ pc[r] = "decide" /\ p \in Requests /\ req[r] \in Resolutions
        /\ rows[p] \in Rows /\ rows[p].status = "open" /\ lock[p] = r
        /\ audit[p] = <<>> /\ p \in born
    BY DEF HandleCommit, HandlesWhatItRead, OpenInv, BornInv, Resolutions
  <1>2. e \in Entries /\ Append(<<>>, e) = <<e>>
    BY <1>1 DEF Entries, Resolutions
  <1>3. /\ rows' = [rows EXCEPT ![p] = rows'[p]]
        /\ rows'[p] = [rows[p] EXCEPT !.status = req[r].verdict, !.by = req[r].by]
        /\ audit' = [audit EXCEPT ![p] = <<e>>]
        /\ lock' = [lock EXCEPT ![p] = None]
        /\ pc' = [pc EXCEPT ![r] = "refresh"]
        /\ UNCHANGED <<live, req, born>>
    BY <1>1, <1>2 DEF HandleCommit, Goto
  <1>4. /\ rows'[p] \in Rows /\ rows'[p] # None
        /\ rows'[p].status = req[r].verdict /\ rows'[p].by = req[r].by
        /\ rows'[p].status # "open"
    BY <1>1, <1>3 DEF Rows, Resolutions, Verdicts
  <1>5. TrailTypes'
    <2>1. <<e>> \in Seq(Entries)
      BY <1>2
    <2> QED
      BY <1>1, <1>3, <2>1 DEF TrailTypes
  <1>6. StateTypes'
    BY <1>1, <1>3, <1>4 DEF Working
  <1>7. \A q \in Requests : q # p => rows'[q] = rows[q] /\ audit'[q] = audit[q]
    BY <1>3 DEF TrailTypes
  <1>8. /\ audit'[p] = <<e>> /\ e = [by |-> rows'[p].by, verdict |-> rows'[p].status]
         /\ rows'[p] # None /\ rows'[p].status # "open"
    BY <1>1, <1>3, <1>4 DEF TrailTypes
  <1>9. \A s \in Requests : pc[s] = "decide" /\ s # r => req[s].report # p
    BY <1>1 DEF HandlesWhatItRead
  <1>10. LockInv' /\ BornInv' /\ OpenInv'
    <2>1. LockInv'
      BY <1>1, <1>3 DEF LockInv
    <2>2. BornInv'
      BY <1>1, <1>3, <1>4 DEF BornInv
    <2>3. OpenInv'
      BY <1>7, <1>8 DEF OpenInv
    <2> QED
      BY <2>1, <2>2, <2>3
  <1>11. HandlesWhatItRead'
    <2>1. ASSUME NEW s \in Requests, pc'[s] = "decide" PROVE s # r /\ req[s].report \in Requests
      BY <1>3, <2>1 DEF Resolutions
    <2> QED
      BY <1>1, <1>3, <1>9, <2>1 DEF HandlesWhatItRead
  <1>12. HandledOnce'
    <2> HIDE DEF e, p
    <2>1. Len(<<e>>) <= 1
      OBVIOUS
    <2> SUFFICES ASSUME NEW q \in Requests
                 PROVE  /\ Len(audit'[q]) <= 1
                        /\ rows'[q] # None /\ rows'[q].status # "open" =>
                             audit'[q] = <<[by |-> rows'[q].by, verdict |-> rows'[q].status]>>
      BY DEF HandledOnce
    <2>2. CASE q = p
      BY <1>7, <1>8, <2>1, <2>2
    <2>3. CASE q # p
      BY <1>7, <2>3 DEF HandledOnce
    <2> QED
      BY <2>2, <2>3
  <1> QED
    BY <1>5, <1>6, <1>10, <1>11, <1>12

\* The cascade takes unlocked reports only, and leaves the audit entries.
LEMMA DeleteJobStep ==
    ASSUME IInv, NEW j \in Jobs, DeleteJob(j)
    PROVE  IInv'
PROOF
  <1> USE DEF IInv, StateTypes
  <1>1. /\ rows' \in [Requests -> Rows \cup {None}]
        /\ \A p \in Requests : rows'[p] # None => rows'[p] = rows[p]
        /\ \A p \in Requests : lock[p] # None => rows'[p] = rows[p]
        /\ UNCHANGED <<lock, audit, pc, req, born>>
        /\ live' \in SUBSET Jobs
    BY DEF DeleteJob, Unlocked
  <1>2. StateTypes'
    BY <1>1
  <1>3. LockInv' /\ BornInv' /\ OpenInv'
    BY <1>1 DEF LockInv, BornInv, OpenInv
  <1>4. HandlesWhatItRead'
    <2>1. ASSUME NEW s \in Requests, pc[s] = "decide" PROVE req[s].report \in Requests /\ s # None
      BY <2>1 DEF Resolutions
    <2> QED
      BY <1>1, <2>1 DEF HandlesWhatItRead
  <1>5. HandledOnce' /\ TrailTypes'
    BY <1>1, TrailKept
  <1> QED
    BY <1>2, <1>3, <1>4, <1>5

\* A crash releases the lock of the handler that dies.
LEMMA CrashStep ==
    ASSUME IInv, NEW r \in Requests, Crash(r)
    PROVE  IInv'
PROOF
  <1> USE DEF IInv, StateTypes
  <1>1. /\ pc' \in [Requests -> {"idle"} \cup Working \cup Replies]
        /\ pc'[r] \in {"server_error", "lost"} /\ pc[r] \in Working
        /\ \A s \in Requests : s # r => pc'[s] = pc[s] /\ req'[s] = req[s]
        /\ req' \in [Requests -> Submissions \cup Resolutions \cup {None}]
        /\ lock' \in [Requests -> Requests \cup {None}]
        /\ \A p \in Requests : lock'[p] = IF lock[p] = r THEN None ELSE lock[p]
        /\ UNCHANGED <<live, rows, audit, born>>
    BY DEF Crash, Goto, Answer, Replies
  <1>2. StateTypes'
    BY <1>1
  <1>3. LockInv' /\ BornInv' /\ OpenInv'
    BY <1>1 DEF LockInv, BornInv, OpenInv
  <1>4. HandlesWhatItRead'
    <2>1. ASSUME NEW s \in Requests, pc'[s] = "decide"
          PROVE  s # r /\ pc[s] = "decide" /\ req'[s] = req[s] /\ req[s].report \in Requests
      BY <1>1, <2>1 DEF Resolutions
    <2> QED
      BY <1>1, <2>1 DEF HandlesWhatItRead
  <1>5. HandledOnce' /\ TrailTypes'
    BY <1>1, TrailKept
  <1> QED
    BY <1>2, <1>3, <1>4, <1>5

\* The invariant is inductive.
LEMMA NextIInv == IInv /\ [Next]_vars => IInv'
PROOF
  <1> SUFFICES ASSUME IInv, [Next]_vars PROVE IInv'
    OBVIOUS
  <1>1. CASE UNCHANGED vars
    BY <1>1 DEF vars, IInv, StateTypes, TrailTypes, LockInv, BornInv, OpenInv, HandlesWhatItRead, HandledOnce
  <1> QED
    BY <1>1, SubmitGetJobStep, SubmitInsertStep, ReloadStep, HandleLockStep, HandleCommitStep,
       DeleteJobStep, CrashStep DEF Next, Handle

\* The invariant holds in every reachable state.
THEOREM Invariance == Spec => []IInv
PROOF
  BY InitIInv, NextIInv, PTL DEF Spec

\* Rows, locks and the variables of handlers keep their types.
THEOREM TypeCorrect == Spec => []TypeOK
PROOF
  <1>1. IInv => TypeOK
    BY DEF IInv, StateTypes, TrailTypes, TypeOK
  <1> QED
    BY <1>1, Invariance, PTL

\* However many admins answer a report, it is handled once, with one audit
\* entry that agrees with it.
THEOREM ReportsHandledOnce == Spec => []HandledOnce
PROOF
  <1>1. IInv => HandledOnce
    BY DEF IInv
  <1> QED
    BY <1>1, Invariance, PTL

\* Between its test and its commit a handler's report stays there, open and its
\* own.
THEOREM LockHolds == Spec => []HandlesWhatItRead
PROOF
  <1>1. IInv => HandlesWhatItRead
    BY DEF IInv
  <1> QED
    BY <1>1, Invariance, PTL

-----------------------------------------------------------------------------
(* Refinement of AuditedDecision *)

\* A report appears as an open item.
LEMMA InsertOpens ==
    ASSUME IInv, NEW r \in Requests, SubmitInsert(r), rows' # rows
    PROVE  Decision!Open(r)
PROOF
  <1>1. /\ r \notin born /\ rows[r] = None
        /\ rows' = [rows EXCEPT ![r] = NewRow(req[r].job)] /\ born' = born \cup {r}
        /\ UNCHANGED audit
    BY DEF SubmitInsert, IInv, BornInv
  <1>2. NewRow(req[r].job) # None
    BY DEF SubmitInsert, IInv, StateTypes, NewRow, Rows, Submissions
  <1> QED
    BY <1>1, <1>2 DEF Decision!Open, Decision!Become, IInv, StateTypes, NewRow

\* Handling a report decides on an open item and extends its trail.
LEMMA CommitDecides ==
    ASSUME IInv, NEW r \in Requests, HandleCommit(r)
    PROVE  Decision!Decide(req[r].report, req[r].by, req[r].verdict)
PROOF
  <1> DEFINE p == req[r].report
  <1>1. /\ p \in Requests /\ rows[p] \in Rows /\ rows[p] # None /\ rows[p].status = "open"
    BY DEF HandleCommit, IInv, StateTypes, HandlesWhatItRead, Resolutions
  <1>2. /\ rows' = [rows EXCEPT ![p] = rows'[p]]
        /\ rows'[p] = [rows[p] EXCEPT !.status = req[r].verdict, !.by = req[r].by]
        /\ audit' = [audit EXCEPT ![p] =
                       Append(@, [by |-> req[r].by, verdict |-> req[r].verdict])]
        /\ UNCHANGED born
    BY <1>1 DEF HandleCommit, IInv, StateTypes
  <1>3. /\ rows'[p] \in Rows /\ rows'[p] # None
        /\ rows'[p].status = req[r].verdict /\ rows'[p].by = req[r].by
    BY <1>1, <1>2 DEF HandleCommit, IInv, StateTypes, Rows, Resolutions
  <1> QED
    BY <1>1, <1>2, <1>3, ZenonT(40) DEF Decision!Decide, Decision!Become, IInv, StateTypes

\* The cascade removes the items of the job together.
LEMMA DeleteRemoves ==
    ASSUME IInv, NEW j \in Jobs, DeleteJob(j)
    PROVE  Decision!Remove({p \in Requests : rows[p] # None /\ rows[p].job = j})
PROOF
  BY DEF DeleteJob, Decision!Remove, IInv, StateTypes, BornInv, Rows, Verdicts

\* The handlers implement AuditedDecision: whatever they do to reports, locks
\* and audit log is, seen from outside, the opening of items, their decision,
\* once and with its entry, and their removal.
THEOREM Refinement == Spec => ImplementsAuditedDecision
PROOF
  <1>1. Init => Decision!Init
    BY DEF Init, Decision!Init
  <1>2. IInv /\ [Next]_vars => [Decision!Next]_(Decision!vars)
    <2> SUFFICES ASSUME IInv, [Next]_vars PROVE Decision!Next \/ UNCHANGED Decision!vars
      BY DEF Decision!vars
    <2>1. ASSUME UNCHANGED <<rows, audit, born>> PROVE UNCHANGED Decision!vars
      BY <2>1 DEF Decision!vars
    <2>2. ASSUME NEW r \in Requests, SubmitInsert(r) PROVE Decision!Next \/ UNCHANGED Decision!vars
      <3>1. CASE rows' # rows
        BY <2>2, <3>1, InsertOpens DEF Decision!Next
      <3>2. CASE rows' = rows
        BY <2>1, <2>2, <3>2 DEF SubmitInsert, NewRow, IInv, StateTypes, BornInv, Rows
      <3> QED
        BY <3>1, <3>2
    <2>3. ASSUME NEW r \in Requests, HandleCommit(r) PROVE Decision!Next
      <3>1. req[r].report \in Requests /\ req[r].by \in Admins /\ req[r].verdict \in Verdicts
        BY <2>3 DEF HandleCommit, IInv, StateTypes, Resolutions
      <3>2. Decision!Decide(req[r].report, req[r].by, req[r].verdict)
        BY <2>3, CommitDecides
      <3>3. \E p \in Requests : \E d \in Admins, v \in Verdicts : Decision!Decide(p, d, v)
        BY <3>1, <3>2, Zenon DEF Decision!Decide, Decision!Become
      <3> QED
        BY <3>3, Zenon DEF Decision!Next
    <2>4. ASSUME NEW j \in Jobs, DeleteJob(j) PROVE Decision!Next
      <3> DEFINE removed == {p \in Requests : rows[p] # None /\ rows[p].job = j}
      <3>1. removed \in SUBSET Requests
        OBVIOUS
      <3>2. Decision!Remove(removed)
        BY <2>4, DeleteRemoves
      <3> HIDE DEF removed
      <3>3. \E gone \in SUBSET Requests : Decision!Remove(gone)
        BY <3>1, <3>2, Zenon DEF Decision!Remove
      <3> QED
        BY <3>3, Zenon DEF Decision!Next
    <2>5. ASSUME NEW r \in Requests, NEW j \in Jobs, SubmitGetJob(r, j) PROVE UNCHANGED Decision!vars
      BY <2>1, <2>5 DEF SubmitGetJob
    <2>6. ASSUME NEW r \in Requests, NEW a \in Admins, NEW p \in Requests, NEW v \in Verdicts,
                 HandleLock(r, a, p, v)
          PROVE  UNCHANGED Decision!vars
      BY <2>1, <2>6 DEF HandleLock
    <2>7. ASSUME NEW r \in Requests, SubmitReload(r) \/ HandleRefresh(r) \/ Crash(r)
          PROVE  UNCHANGED Decision!vars
      BY <2>1, <2>7 DEF SubmitReload, HandleRefresh, Crash
    <2>8. CASE UNCHANGED vars
      BY <2>1, <2>8 DEF vars
    <2> QED
      BY <2>2, <2>3, <2>4, <2>5, <2>6, <2>7, <2>8 DEF Next, Handle
  <1> QED
    BY <1>1, <1>2, Invariance, PTL DEF Spec, ImplementsAuditedDecision, Decision!Spec
=============================================================================
