------------------------- MODULE JobModerationProofs ------------------------
(***************************************************************************)
(* Proofs about JobModeration, for any sets of recruiters, admins, notes   *)
(* and requests.  The invariant says what the two kinds of handlers know   *)
(* of the row they loaded: a moderator's is still in the table, because it *)
(* is locked; a recruiter's may be stale, but was consistent, and so are   *)
(* the columns that differ from it.                                        *)
(***************************************************************************)
EXTENDS JobModeration, TLAPS

Decided == {"approved", "rejected"}

\* A locked row is held by the handler that is about to decide on it.
LockInv ==
    \A j \in Requests : lock[j] # None =>
        lock[j] \in Requests /\ pc[lock[j]] = "decide" /\ req[lock[j]].job = j

\* A job is created by its request, once, and audited only afterwards.
BornInv ==
    \A j \in Requests :
        /\ pc[j] = "idle" => j \notin born
        /\ rows[j] # None => j \in born
        /\ j \notin born => audit[j] = <<>>

Consistent(row) == row.status = "pending" <=> row.by = None

\* An edit wants the job pending and undecided, whatever it loaded.
WantsReview(q) ==
    /\ q.new.status = "pending" /\ q.new.by = None
    /\ Consistent(q.snap)

EditInv == \A r \in Requests : pc[r] = "edit" => WantsReview(req[r])

\* A moderator wants a decision on the content it loaded.
DecideInv ==
    \A r \in Requests : pc[r] = "decide" =>
        /\ req[r].new.status \in Decided /\ req[r].new.by \in Admins
        /\ req[r].new.content = req[r].snap.content

\* TypeOK in two parts: sequences in a hypothesis slow the SMT solver down.
StateTypes ==
    /\ rows \in [Requests -> Rows \cup {None}]
    /\ lock \in [Requests -> Requests \cup {None}]
    /\ pc \in [Requests -> {"idle"} \cup Working \cup Replies]
    /\ req \in [Requests -> Locals \cup {None}]
    /\ born \in SUBSET Requests
    /\ \A r \in Requests : pc[r] \in Working => req[r] \in Locals

TrailTypes == audit \in [Requests -> Seq(Entries)]

\* DecidesOnWhatItRead for one handler, of the row it is to decide on.
Holds(row, q) ==
    /\ row # None
    /\ [row EXCEPT !.tags = q.snap.tags] = q.snap
    /\ q.snap.status = "pending"

IInv ==
    /\ StateTypes
    /\ TrailTypes
    /\ LockInv
    /\ BornInv
    /\ EditInv
    /\ DecideInv
    /\ PendingIffUndecided
    /\ DecidesOnWhatItRead
    /\ DecisionIsAudited

USE ModAssumption, NoneAssumption

-----------------------------------------------------------------------------
\* Initially there is no job.
LEMMA InitIInv == Init => IInv
PROOF
  <1> SUFFICES ASSUME Init PROVE IInv
    OBVIOUS
  <1>1. StateTypes /\ TrailTypes
    BY DEF Init, StateTypes, TrailTypes, Working
  <1>2. LockInv /\ BornInv /\ EditInv /\ DecideInv
    BY DEF Init, LockInv, BornInv, EditInv, DecideInv
  <1>3. PendingIffUndecided /\ DecidesOnWhatItRead /\ DecisionIsAudited
    BY DEF Init, PendingIffUndecided, DecidesOnWhatItRead, DecisionIsAudited
  <1> QED
    BY <1>1, <1>2, <1>3 DEF IInv

\* Handler r goes to label, with q in its variables.
Moves(r, label, q) ==
    /\ pc' = [pc EXCEPT ![r] = label]
    /\ req' = [req EXCEPT ![r] = q]

\* A recruiter's step, or one that ends a moderator's handler, that leaves row j
\* pending, gone or as decided as it was, and does not touch a locked row but
\* for its tags, keeps the invariant.
LEMMA RowKeeps ==
    ASSUME IInv,
           NEW r \in Requests, pc[r] # "decide",
           NEW label \in Working \cup Replies, label # "decide",
           NEW q \in Locals \cup {None}, Moves(r, label, q),
           label \in Working => q \in Locals,
           label = "edit" => WantsReview(q),
           NEW j \in Requests,
           rows' = [rows EXCEPT ![j] = rows'[j]],
           rows'[j] \in Rows \cup {None},
           rows'[j] # None => j \in born' /\ Consistent(rows'[j]),
           rows'[j] # None /\ rows'[j].status # "pending" =>
               /\ rows[j] # None
               /\ rows'[j].status = rows[j].status /\ rows'[j].by = rows[j].by,
           \/ Unlocked(j)
           \/ rows[j] = None
           \/ rows[j] # None /\ rows'[j] # None
              /\ rows'[j].content = rows[j].content /\ rows'[j].status = rows[j].status
              /\ rows'[j].by = rows[j].by /\ rows'[j].note = rows[j].note,
           born' \in {born, born \cup {r}},
           UNCHANGED <<lock, audit>>
    PROVE  IInv'
PROOF
  <1>1. /\ pc'[r] = label /\ req'[r] = q
        /\ \A s \in Requests \ {r} : pc'[s] = pc[s] /\ req'[s] = req[s]
        /\ pc' \in [Requests -> {"idle"} \cup Working \cup Replies]
        /\ req' \in [Requests -> Locals \cup {None}]
    BY DEF IInv, StateTypes, Moves
  <1>2. /\ \A i \in Requests \ {j} : rows'[i] = rows[i]
        /\ rows' \in [Requests -> Rows \cup {None}]
    BY DEF IInv, StateTypes
  <1>3. StateTypes' /\ TrailTypes'
    <2>1. StateTypes'
      BY <1>1, <1>2 DEF IInv, StateTypes
    <2> QED
      BY <2>1 DEF IInv, TrailTypes
  <1>4. LockInv'
    BY <1>1 DEF IInv, StateTypes, LockInv
  <1>5. BornInv'
    BY <1>1, <1>2 DEF IInv, StateTypes, BornInv, Working, Replies
  <1>6. EditInv'
    BY <1>1 DEF IInv, EditInv
  <1>7. DecideInv'
    BY <1>1 DEF IInv, DecideInv
  <1>8. PendingIffUndecided'
    BY <1>2 DEF IInv, PendingIffUndecided, Consistent
  <1>9. DecidesOnWhatItRead'
    <2> SUFFICES ASSUME NEW s \in Requests, pc'[s] = "decide"
                 PROVE  /\ lock'[req'[s].job] = s
                        /\ rows'[req'[s].job] # None
                        /\ [rows'[req'[s].job] EXCEPT !.tags = req'[s].snap.tags] = req'[s].snap
                        /\ req'[s].snap.status = "pending"
      BY DEF DecidesOnWhatItRead
    <2>1. s # r /\ pc[s] = "decide" /\ req'[s] = req[s] /\ req[s] \in Locals
      BY <1>1 DEF IInv, StateTypes, Working
    <2>2. /\ lock[req[s].job] = s /\ rows[req[s].job] # None
          /\ [rows[req[s].job] EXCEPT !.tags = req[s].snap.tags] = req[s].snap
          /\ req[s].snap.status = "pending"
      BY <2>1 DEF IInv, DecidesOnWhatItRead
    <2>3. CASE req[s].job # j
      BY <1>2, <2>1, <2>2, <2>3 DEF Locals
    <2>4. CASE req[s].job = j
      <3>1. /\ rows[j] \in Rows /\ rows'[j] \in Rows /\ rows'[j] # None
            /\ rows'[j].content = rows[j].content /\ rows'[j].status = rows[j].status
            /\ rows'[j].by = rows[j].by /\ rows'[j].note = rows[j].note
        BY <2>2, <2>4 DEF IInv, StateTypes, Unlocked
      <3>2. \A t : [rows'[j] EXCEPT !.tags = t] = [rows[j] EXCEPT !.tags = t]
        BY <3>1 DEF Rows
      <3> QED
        BY <2>1, <2>2, <2>4, <3>1, <3>2
    <2> QED
      BY <2>3, <2>4
  <1>10. DecisionIsAudited'
    BY <1>2 DEF IInv, DecisionIsAudited
  <1> QED
    BY <1>3, <1>4, <1>5, <1>6, <1>7, <1>8, <1>9, <1>10 DEF IInv

\* A step that only reads, or ends a handler.
LEMMA ReadKeeps ==
    ASSUME IInv,
           NEW r \in Requests, pc[r] # "decide",
           NEW label \in Working \cup Replies, label # "decide",
           NEW q \in Locals \cup {None}, Moves(r, label, q),
           label \in Working => q \in Locals,
           label = "edit" => WantsReview(q),
           UNCHANGED <<rows, lock, audit, born>>
    PROVE  IInv'
PROOF
  <1>1. /\ rows' = [rows EXCEPT ![r] = rows'[r]]
        /\ rows'[r] \in Rows \cup {None}
        /\ rows'[r] # None => r \in born' /\ Consistent(rows'[r])
    BY DEF IInv, StateTypes, BornInv, PendingIffUndecided, Consistent
  <1> QED
    BY <1>1, RowKeeps

\* An answer is a move without variables.
LEMMA AnswerMoves ==
    ASSUME NEW r, NEW reply, Answer(r, reply)
    PROVE  Moves(r, reply, None)
PROOF
  BY DEF Answer, Goto, Moves

\* The flush of a row of the table yields one.
LEMMA FlushType ==
    ASSUME NEW row \in Rows, NEW snap \in Rows, NEW new \in Rows
    PROVE  /\ Flush(row, snap, new) \in Rows
           /\ Flush(row, snap, new).content = IF new.content # snap.content THEN new.content ELSE row.content
           /\ Flush(row, snap, new).status = IF new.status # snap.status THEN new.status ELSE row.status
           /\ Flush(row, snap, new).by = IF new.by # snap.by THEN new.by ELSE row.by
           /\ Flush(row, snap, new).note = IF new.note # snap.note THEN new.note ELSE row.note
           /\ Flush(row, snap, new).tags = row.tags
PROOF
  BY ZenonT(40) DEF Flush, Column, Rows

\* A flush that wants a review makes the row pending, or leaves the decision
\* that came after the load, whole.
LEMMA FlushForReview ==
    ASSUME NEW row \in Rows, NEW q \in Locals, WantsReview(q), Consistent(row)
    PROVE  LET flushed == Flush(row, q.snap, q.new) IN
           /\ flushed \in Rows
           /\ Consistent(flushed)
           /\ flushed.status # "pending" =>
                 flushed.status = row.status /\ flushed.by = row.by /\ q.snap.status = "pending"
PROOF
  <1>1. q.snap \in Rows /\ q.new \in Rows
    BY DEF Locals
  <1> QED
    BY <1>1, FlushType DEF WantsReview, Consistent

\* A job is created pending, under an id nobody has used.
LEMMA CreateJobStep ==
    ASSUME IInv, NEW r \in Requests, NEW u \in Recruiters, NEW tags \in {"clear", "set"},
           CreateJob(r, u, tags)
    PROVE  IInv'
PROOF
  <1> DEFINE row == [content |-> r, tags |-> None, status |-> "pending",
                     by |-> None, note |-> None]
             q == [job |-> r, snap |-> row, new |-> row, tags |-> tags]
  <1>1. pc[r] = "idle" /\ UNCHANGED <<lock, audit>>
    BY DEF CreateJob
  <1>2. CASE Answer(r, "forbidden") /\ UNCHANGED <<rows, born>>
    BY <1>1, <1>2, AnswerMoves, ReadKeeps DEF Working, Replies
  <1>3. CASE /\ rows' = [rows EXCEPT ![r] = row]
             /\ born' = born \cup {r}
             /\ req' = [req EXCEPT ![r] = q]
             /\ Goto(r, "retag")
    <2>1. row \in Rows /\ row.status = "pending" /\ row.by = None
      BY DEF Rows, JobStatuses
    <2>2. q \in Locals
      BY <2>1 DEF Locals
    <2> HIDE DEF row, q
    <2>3. Moves(r, "retag", q)
      BY <1>3 DEF Moves, Goto
    <2>4. rows[r] = None
      BY <1>1 DEF IInv, BornInv
    <2>5. rows'[r] = row
      BY <1>3 DEF IInv, StateTypes
    <2> QED
      BY <1>1, <1>3, <2>1, <2>2, <2>3, <2>4, <2>5, RowKeeps DEF Working, Consistent
  <1> QED
    BY <1>2, <1>3 DEF CreateJob

\* Reading a job changes nothing in the tables.
LEMMA EditGetJobStep ==
    ASSUME IInv, NEW r \in Requests, NEW u \in Recruiters, NEW j \in Requests,
           NEW changed \in BOOLEAN, NEW tags \in {"keep", "clear", "set"},
           EditGetJob(r, u, j, changed, tags)
    PROVE  IInv'
PROOF
  <1>1. pc[r] = "idle" /\ UNCHANGED <<rows, lock, audit, born>>
    BY DEF EditGetJob
  <1>2. CASE Answer(r, "not_found") \/ Answer(r, "forbidden")
    BY <1>1, <1>2, AnswerMoves, ReadKeeps DEF Working, Replies
  <1>3. ASSUME rows[j] # None,
               req' = [req EXCEPT ![r] =
                         [job |-> j, snap |-> rows[j], tags |-> tags,
                          new |-> [MarkPendingReview(rows[j]) EXCEPT
                                     !.content = IF changed THEN r ELSE @]]],
               Goto(r, "edit")
        PROVE  IInv'
    <2> DEFINE new == [MarkPendingReview(rows[j]) EXCEPT !.content = IF changed THEN r ELSE @]
               q == [job |-> j, snap |-> rows[j], tags |-> tags, new |-> new]
    <2>1. rows[j] \in Rows /\ Consistent(rows[j])
      BY <1>3 DEF IInv, StateTypes, PendingIffUndecided, Consistent
    <2>2. new \in Rows /\ new.status = "pending" /\ new.by = None
      BY <2>1 DEF MarkPendingReview, Rows, JobStatuses
    <2> HIDE DEF new
    <2>3. q \in Locals /\ q.snap = rows[j] /\ q.new = new
      BY <2>1, <2>2 DEF Locals
    <2>4. Moves(r, "edit", q)
      BY <1>3 DEF Moves, Goto, new
    <2> HIDE DEF q
    <2>5. WantsReview(q)
      BY <2>1, <2>2, <2>3 DEF WantsReview
    <2> QED
      BY <1>1, <2>3, <2>4, <2>5, ReadKeeps DEF Working
  <1> QED
    BY <1>2, <1>3 DEF EditGetJob

\* An edit writes its columns, or fails.
LEMMA EditCommitStep ==
    ASSUME IInv, NEW r \in Requests, EditCommit(r)
    PROVE  IInv'
PROOF
  <1> DEFINE j == req[r].job
  <1>1. /\ pc[r] = "edit" /\ UNCHANGED <<lock, audit, born>>
        /\ req[r] \in Locals /\ j \in Requests
        /\ req[r].snap \in Rows /\ req[r].new \in Rows
        /\ WantsReview(req[r])
    BY DEF EditCommit, IInv, StateTypes, EditInv, Working, Locals
  <1>2. CASE Answer(r, "server_error") /\ UNCHANGED rows
    BY <1>1, <1>2, AnswerMoves, ReadKeeps DEF Working, Replies
  <1>3. CASE /\ rows[j] # None
             /\ rows' = [rows EXCEPT ![j] = Flush(@, req[r].snap, req[r].new)]
             /\ Goto(r, "retag")
             /\ UNCHANGED req
    <2>1. Moves(r, "retag", req[r])
      BY <1>3 DEF IInv, StateTypes, Moves, Goto
    <2>2. /\ rows[j] \in Rows /\ Consistent(rows[j]) /\ j \in born
          /\ rows'[j] = Flush(rows[j], req[r].snap, req[r].new)
      BY <1>1, <1>3 DEF IInv, StateTypes, BornInv, PendingIffUndecided, Consistent
    <2>3. /\ rows'[j] \in Rows /\ Consistent(rows'[j])
          /\ rows'[j].status # "pending" =>
                rows'[j].status = rows[j].status /\ rows'[j].by = rows[j].by
      BY <1>1, <2>2, FlushForReview
    <2>4. Unlocked(j) \/ /\ rows'[j].content = rows[j].content /\ rows'[j].status = rows[j].status
                         /\ rows'[j].by = rows[j].by /\ rows'[j].note = rows[j].note
      <3>1. Unlocked(j) \/ req[r].new = req[r].snap
        BY DEF EditCommit
      <3> QED
        BY <1>1, <2>2, <3>1, FlushType
    <2>5. rows'[j] # None /\ rows' = [rows EXCEPT ![j] = rows'[j]]
      BY <1>3, <2>2, <2>3
    <2> HIDE DEF j
    <2> QED
      BY <1>1, <1>3, <2>1, <2>2, <2>3, <2>4, <2>5, RowKeeps DEF Working
  <1> QED
    BY <1>2, <1>3 DEF EditCommit

\* The replacement of tags writes what it has changed, or fails.
LEMMA RetagStep ==
    ASSUME IInv, NEW r \in Requests, Retag(r)
    PROVE  IInv'
PROOF
  <1> DEFINE j == req[r].job
  <1>1. /\ pc[r] = "retag" /\ UNCHANGED <<lock, audit, born>>
        /\ req[r] \in Locals /\ j \in Requests /\ req[r].tags \in {"keep", "clear", "set"}
    BY DEF Retag, IInv, StateTypes, Working, Locals
  <1>2. CASE Answer(r, "lost") /\ UNCHANGED rows
    BY <1>1, <1>2, AnswerMoves, ReadKeeps DEF Working, Replies
  <1>3. CASE /\ rows[j] # None
             /\ rows' = [rows EXCEPT ![j].tags =
                            CASE req[r].tags = "keep" -> @
                              [] req[r].tags = "clear" -> None
                              [] req[r].tags = "set" -> r]
             /\ Goto(r, "reload")
             /\ UNCHANGED req
    <2>1. Moves(r, "reload", req[r])
      BY <1>3 DEF IInv, StateTypes, Moves, Goto
    <2>2. rows[j] \in Rows /\ Consistent(rows[j]) /\ j \in born
      BY <1>1, <1>3 DEF IInv, StateTypes, BornInv, PendingIffUndecided, Consistent
    <2>3. PICK t \in Requests \cup {None} : rows' = [rows EXCEPT ![j].tags = t]
      <3>1. CASE req[r].tags = "keep"
        BY <1>3, <2>2, <3>1 DEF Rows
      <3>2. CASE req[r].tags = "clear"
        BY <1>3, <3>2
      <3>3. CASE req[r].tags = "set"
        BY <1>3, <3>3
      <3> QED
        BY <1>1, <3>1, <3>2, <3>3
    <2>4. rows'[j] = [rows[j] EXCEPT !.tags = t] /\ rows' = [rows EXCEPT ![j] = rows'[j]]
      BY <1>1, <2>3 DEF IInv, StateTypes
    <2>5. /\ rows'[j] \in Rows /\ rows'[j] # None
          /\ rows'[j].content = rows[j].content /\ rows'[j].status = rows[j].status
          /\ rows'[j].by = rows[j].by /\ rows'[j].note = rows[j].note
      BY <2>2, <2>4 DEF Rows
    <2>6. Consistent(rows'[j])
      BY <2>2, <2>5 DEF Consistent
    <2> HIDE DEF j
    <2> QED
      BY <1>1, <1>3, <2>1, <2>2, <2>4, <2>5, <2>6, RowKeeps DEF Working
  <1> QED
    BY <1>2, <1>3 DEF Retag

\* Reading the job to delete changes nothing in the tables.
LEMMA DeleteGetJobStep ==
    ASSUME IInv, NEW r \in Requests, NEW u \in Recruiters, NEW j \in Requests,
           DeleteGetJob(r, u, j)
    PROVE  IInv'
PROOF
  <1> DEFINE q == [job |-> j, snap |-> rows[j], new |-> rows[j], tags |-> "keep"]
  <1>1. pc[r] = "idle" /\ UNCHANGED <<rows, lock, audit, born>>
    BY DEF DeleteGetJob
  <1>2. CASE Answer(r, "not_found") \/ Answer(r, "forbidden")
    BY <1>1, <1>2, AnswerMoves, ReadKeeps DEF Working, Replies
  <1>3. CASE rows[j] # None /\ req' = [req EXCEPT ![r] = q] /\ Goto(r, "delete")
    <2>1. q \in Locals
      BY <1>3 DEF IInv, StateTypes, Locals
    <2>2. Moves(r, "delete", q)
      BY <1>3 DEF Moves, Goto
    <2> HIDE DEF q
    <2> QED
      BY <1>1, <2>1, <2>2, ReadKeeps DEF Working
  <1> QED
    BY <1>2, <1>3 DEF DeleteGetJob

\* A deletion empties the row, or fails and leaves it.
LEMMA DeleteCommitStep ==
    ASSUME IInv, NEW r \in Requests, DeleteCommit(r)
    PROVE  IInv'
PROOF
  <1> DEFINE j == req[r].job
  <1>1. pc[r] = "delete" /\ UNCHANGED <<lock, audit, born>> /\ j \in Requests
    BY DEF DeleteCommit, IInv, StateTypes, Working, Locals
  <1>2. CASE Answer(r, "server_error") /\ UNCHANGED rows
    BY <1>1, <1>2, AnswerMoves, ReadKeeps DEF Working, Replies
  <1>3. CASE Unlocked(j) /\ Answer(r, "ok") /\ rows' = [rows EXCEPT ![j] = None]
    <2>1. rows'[j] = None
      BY <1>1, <1>3 DEF IInv, StateTypes
    <2> HIDE DEF j
    <2> QED
      BY <1>1, <1>3, <2>1, AnswerMoves, RowKeeps DEF Working, Replies
  <1> QED
    BY <1>2, <1>3 DEF DeleteCommit

\* The last reads of the handlers.
LEMMA ReloadStep ==
    ASSUME IInv, NEW r \in Requests, Reload(r) \/ Refresh(r)
    PROVE  IInv'
PROOF
  <1>1. /\ pc[r] # "decide"
        /\ UNCHANGED <<rows, lock, audit, born>>
        /\ Answer(r, "ok") \/ Answer(r, "lost")
    BY DEF Reload, Refresh
  <1> QED
    BY <1>1, AnswerMoves, ReadKeeps DEF Working, Replies

\* SELECT FOR UPDATE: the handler that gets the lock holds what is in the row.
LEMMA ModerateLockStep ==
    ASSUME IInv, NEW r \in Requests, NEW a \in Admins, NEW j \in Requests,
           NEW verdict \in Decided, NEW note \in Notes \cup {None},
           ModerateLock(r, a, j, verdict, note)
    PROVE  IInv'
PROOF
  <1> DEFINE new == [rows[j] EXCEPT !.status = verdict, !.by = a, !.note = note]
             q == [job |-> j, snap |-> rows[j], tags |-> "keep", new |-> new]
  <1>1. pc[r] = "idle" /\ lock[j] = None /\ UNCHANGED <<rows, audit, born>>
    BY DEF ModerateLock, Unlocked
  <1>2. CASE (Answer(r, "not_found") \/ Answer(r, "conflict")) /\ UNCHANGED lock
    BY <1>1, <1>2, AnswerMoves, ReadKeeps DEF Working, Replies
  <1>3. CASE /\ rows[j] # None /\ StillPending(j)
             /\ lock' = [lock EXCEPT ![j] = r]
             /\ req' = [req EXCEPT ![r] = q]
             /\ Goto(r, "decide")
    <2>1. rows[j] \in Rows /\ rows[j].status = "pending"
      BY <1>3 DEF IInv, StateTypes, StillPending
    <2>2. /\ new \in Rows /\ new.status \in Decided /\ new.by \in Admins
          /\ new.content = rows[j].content
      BY <2>1 DEF Rows, JobStatuses, Decided
    <2> HIDE DEF new
    <2>3. q \in Locals /\ q.job = j /\ q.snap = rows[j] /\ q.new = new
      BY <2>1, <2>2 DEF Locals
    <2> HIDE DEF q
    <2>4. /\ pc' = [pc EXCEPT ![r] = "decide"] /\ pc'[r] = "decide" /\ req'[r] = q /\ lock'[j] = r
          /\ \A s \in Requests \ {r} : pc'[s] = pc[s] /\ req'[s] = req[s]
          /\ \A i \in Requests \ {j} : lock'[i] = lock[i]
      BY <1>3 DEF IInv, StateTypes, Goto
    <2>5. StateTypes' /\ TrailTypes'
      <3>1. StateTypes'
        BY <1>1, <1>3, <2>3, <2>4 DEF IInv, StateTypes, Working
      <3> QED
        BY <1>1, <3>1 DEF IInv, TrailTypes
    <2>6. LockInv'
      <3> SUFFICES ASSUME NEW i \in Requests, lock'[i] # None
                   PROVE  lock'[i] \in Requests /\ pc'[lock'[i]] = "decide" /\ req'[lock'[i]].job = i
        BY DEF LockInv
      <3>1. CASE i = j
        BY <2>3, <2>4, <3>1
      <3>2. CASE i # j
        <4>1. lock[i] \in Requests /\ pc[lock[i]] = "decide" /\ req[lock[i]].job = i /\ lock[i] # r
          BY <1>1, <2>4, <3>2 DEF IInv, LockInv
        <4> QED
          BY <2>4, <3>2, <4>1
      <3> QED
        BY <3>1, <3>2
    <2>7. BornInv'
      BY <1>1, <2>4 DEF IInv, BornInv
    <2>8. EditInv' /\ DecideInv'
      BY <2>2, <2>3, <2>4 DEF IInv, EditInv, DecideInv
    <2>9. PendingIffUndecided' /\ DecisionIsAudited'
      BY <1>1 DEF IInv, PendingIffUndecided, DecisionIsAudited
    <2>10. DecidesOnWhatItRead'
      <3>1. Holds(rows[j], q)
        BY <1>3, <2>1, <2>3 DEF Holds, Rows
      <3>2. \A s \in Requests \ {r} : pc[s] = "decide" =>
                /\ req[s].job \in Requests \ {j} /\ lock[req[s].job] = s
                /\ Holds(rows[req[s].job], req[s])
        BY <1>1 DEF IInv, StateTypes, DecidesOnWhatItRead, Holds, Working, Locals
      <3>3. \A s \in Requests : pc'[s] = "decide" =>
                lock'[req'[s].job] = s /\ Holds(rows'[req'[s].job], req'[s])
        BY <1>1, <2>3, <2>4, <3>1, <3>2
      <3> QED
        BY <3>3 DEF DecidesOnWhatItRead, Holds
    <2> QED
      BY <2>5, <2>6, <2>7, <2>8, <2>9, <2>10 DEF IInv
  <1> QED
    BY <1>2, <1>3 DEF ModerateLock

\* What the commit of a decision does: the row was pending and gets the verdict
\* and the moderator, both, and its trail the entry.
LEMMA DecideEffect ==
    ASSUME IInv, NEW r \in Requests, DecideCommit(r),
           NEW j, j = req[r].job, NEW e, e = [by |-> req[r].new.by, verdict |-> req[r].new.status]
    PROVE  /\ pc[r] = "decide" /\ j \in Requests /\ j \in born /\ lock[j] = r
           /\ rows[j] \in Rows /\ rows[j].status = "pending" /\ rows[j].by = None
           /\ e \in Entries /\ e.verdict \in Decided /\ e.by \in Admins
           /\ rows' = [rows EXCEPT ![j] = rows'[j]]
           /\ rows'[j] \in Rows /\ rows'[j].status = e.verdict /\ rows'[j].by = e.by
           /\ rows'[j].content = rows[j].content
           /\ audit' = [audit EXCEPT ![j] = Append(@, e)]
           /\ lock' = [lock EXCEPT ![j] = None]
           /\ pc' = [pc EXCEPT ![r] = "refresh"]
           /\ UNCHANGED <<req, born>>
PROOF
  <1>1. /\ pc[r] = "decide" /\ req[r] \in Locals /\ j \in Requests
        /\ req[r].snap \in Rows /\ req[r].new \in Rows
    BY DEF DecideCommit, IInv, StateTypes, Working, Locals
  <1>2. /\ lock[j] = r /\ rows[j] # None /\ rows[j] \in Rows
        /\ [rows[j] EXCEPT !.tags = req[r].snap.tags] = req[r].snap
        /\ req[r].snap.status = "pending"
        /\ req[r].new.status \in Decided /\ req[r].new.by \in Admins
        /\ req[r].new.content = req[r].snap.content
    BY <1>1 DEF IInv, StateTypes, DecidesOnWhatItRead, DecideInv
  <1>3. rows[j].status = req[r].snap.status /\ rows[j].by = req[r].snap.by
    BY <1>1, <1>2 DEF Rows
  <1>4. rows[j].by = None /\ j \in born
    BY <1>1, <1>2, <1>3 DEF IInv, PendingIffUndecided, BornInv
  <1>5. e \in Entries /\ e.verdict = req[r].new.status /\ e.by = req[r].new.by
    BY <1>2 DEF Entries, Decided
  <1>6. /\ rows' = [rows EXCEPT ![j] = Flush(@, req[r].snap, req[r].new)]
        /\ rows'[j] = Flush(rows[j], req[r].snap, req[r].new)
        /\ audit' = [audit EXCEPT ![j] = Append(@, e)]
        /\ lock' = [lock EXCEPT ![j] = None]
        /\ pc' = [pc EXCEPT ![r] = "refresh"]
        /\ UNCHANGED <<req, born>>
    BY <1>1 DEF DecideCommit, Goto, IInv, StateTypes
  <1>7. rows'[j] \in Rows /\ rows'[j].status = e.verdict /\ rows'[j].by = e.by
        /\ rows'[j].content = rows[j].content
    <2>1. /\ req[r].new.status # req[r].snap.status /\ req[r].new.by # req[r].snap.by
      BY <1>2, <1>3, <1>4 DEF Decided
    <2>2. PICK row : row = rows[j]
      OBVIOUS
    <2>3. PICK snap : snap = req[r].snap
      OBVIOUS
    <2>4. PICK new : new = req[r].new
      OBVIOUS
    <2>5. row \in Rows /\ snap \in Rows /\ new \in Rows
      BY <1>1, <1>2, <2>2, <2>3, <2>4
    <2>6. /\ Flush(row, snap, new) \in Rows
          /\ Flush(row, snap, new).status = new.status
          /\ Flush(row, snap, new).by = new.by
          /\ Flush(row, snap, new).content = row.content
      BY <1>2, <2>1, <2>3, <2>4, <2>5, FlushType
    <2> QED
      BY <1>5, <1>6, <2>2, <2>3, <2>4, <2>6
  <1> QED
    BY <1>1, <1>2, <1>3, <1>4, <1>5, <1>6, <1>7

\* Appending to a trail.
LEMMA AppendTrail ==
    ASSUME NEW trail \in Seq(Entries), NEW e \in Entries
    PROVE  /\ Append(trail, e) \in Seq(Entries)
           /\ Append(trail, e) # <<>>
           /\ Append(trail, e)[Len(Append(trail, e))] = e
PROOF
  OBVIOUS

\* A decision is of a pending job that nobody has changed since it was locked.
LEMMA DecideCommitStep ==
    ASSUME IInv, NEW r \in Requests, DecideCommit(r)
    PROVE  IInv'
PROOF
  <1>0. PICK j : j = req[r].job
    OBVIOUS
  <1>1. PICK e : e = [by |-> req[r].new.by, verdict |-> req[r].new.status]
    OBVIOUS
  <1>2. /\ pc[r] = "decide" /\ j \in Requests /\ j \in born /\ lock[j] = r
        /\ e \in Entries /\ e.verdict \in Decided /\ e.by \in Admins
        /\ rows' = [rows EXCEPT ![j] = rows'[j]]
        /\ rows'[j] \in Rows /\ rows'[j].status = e.verdict /\ rows'[j].by = e.by
        /\ audit' = [audit EXCEPT ![j] = Append(@, e)]
        /\ lock' = [lock EXCEPT ![j] = None]
        /\ pc' = [pc EXCEPT ![r] = "refresh"]
        /\ UNCHANGED <<req, born>>
    BY <1>0, <1>1, DecideEffect
  <1>3. /\ \A i \in Requests \ {j} : rows'[i] = rows[i] /\ lock'[i] = lock[i]
        /\ lock'[j] = None
        /\ pc'[r] = "refresh" /\ \A s \in Requests \ {r} : pc'[s] = pc[s]
    BY <1>2 DEF IInv, StateTypes
  <1>4. /\ \A i \in Requests \ {j} : audit'[i] = audit[i]
        /\ audit'[j] \in Seq(Entries) /\ audit'[j] # <<>>
        /\ audit'[j][Len(audit'[j])] = [by |-> rows'[j].by, verdict |-> rows'[j].status]
    <2>1. audit[j] \in Seq(Entries) /\ audit'[j] = Append(audit[j], e)
      BY <1>2 DEF IInv, TrailTypes
    <2>2. e = [by |-> rows'[j].by, verdict |-> rows'[j].status]
      BY <1>2 DEF Entries
    <2>3. \A i \in Requests \ {j} : audit'[i] = audit[i]
      BY <1>2 DEF IInv, TrailTypes
    <2> QED
      BY <1>2, <2>1, <2>2, <2>3, AppendTrail
  <1>5. TrailTypes'
    BY <1>2, <1>4 DEF IInv, TrailTypes
  <1>6. StateTypes'
    BY <1>2, <1>3 DEF IInv, StateTypes, Working
  <1>7. \A s \in Requests : pc[s] = "decide" /\ s # r =>
            /\ req[s].job \in Requests \ {j} /\ lock[req[s].job] = s
            /\ Holds(rows[req[s].job], req[s])
    BY <1>2 DEF IInv, StateTypes, DecidesOnWhatItRead, Holds, Working, Locals
  <1>8. LockInv'
    <2> SUFFICES ASSUME NEW i \in Requests, lock'[i] # None
                 PROVE  lock'[i] \in Requests /\ pc'[lock'[i]] = "decide" /\ req'[lock'[i]].job = i
      BY DEF LockInv
    <2>1. i # j /\ lock'[i] = lock[i]
      BY <1>3
    <2>2. lock[i] \in Requests /\ pc[lock[i]] = "decide" /\ req[lock[i]].job = i
      BY <2>1 DEF IInv, LockInv
    <2>3. lock[i] # r
      BY <1>0, <2>1, <2>2
    <2> QED
      BY <1>2, <1>3, <2>1, <2>2, <2>3
  <1>9. BornInv'
    BY <1>2, <1>3, <1>4 DEF IInv, BornInv
  <1>10. EditInv' /\ DecideInv'
    BY <1>2, <1>3 DEF IInv, EditInv, DecideInv
  <1>11. PendingIffUndecided'
    <2>1. rows'[j].status # "pending" /\ rows'[j].by # None
      BY <1>2 DEF Decided
    <2> QED
      BY <1>3, <2>1 DEF IInv, PendingIffUndecided
  <1>12. DecidesOnWhatItRead'
    <2>1. \A s \in Requests : pc'[s] = "decide" =>
              lock'[req'[s].job] = s /\ Holds(rows'[req'[s].job], req'[s])
      BY <1>2, <1>3, <1>7
    <2> QED
      BY <2>1 DEF DecidesOnWhatItRead, Holds
  <1>13. DecisionIsAudited'
    BY <1>3, <1>4 DEF IInv, DecisionIsAudited
  <1> QED
    BY <1>5, <1>6, <1>8, <1>9, <1>10, <1>11, <1>12, <1>13 DEF IInv

\* The session of a dead handler is rolled back: only its lock is left to free.
LEMMA CrashStep ==
    ASSUME IInv, NEW r \in Requests, Crash(r)
    PROVE  IInv'
PROOF
  <1>1. /\ pc[r] # "idle"
        /\ UNCHANGED <<rows, audit, born>>
        /\ lock' = [i \in Requests |-> IF lock[i] = r THEN None ELSE lock[i]]
        /\ pc' = [pc EXCEPT ![r] = pc'[r]] /\ pc'[r] \in {"server_error", "lost"}
        /\ req' = [req EXCEPT ![r] = None]
        /\ \A s \in Requests \ {r} : pc'[s] = pc[s] /\ req'[s] = req[s]
    BY DEF Crash, Answer, Goto, Working, IInv, StateTypes
  <1>2. StateTypes' /\ TrailTypes'
    <2>1. StateTypes'
      BY <1>1 DEF IInv, StateTypes, Working, Replies
    <2> QED
      BY <1>1, <2>1 DEF IInv, TrailTypes
  <1>3. LockInv' /\ BornInv' /\ EditInv' /\ DecideInv'
    BY <1>1 DEF IInv, LockInv, BornInv, EditInv, DecideInv
  <1>4. PendingIffUndecided' /\ DecisionIsAudited'
    BY <1>1 DEF IInv, PendingIffUndecided, DecisionIsAudited
  <1>5. DecidesOnWhatItRead'
    <2>1. \A s \in Requests \ {r} : pc[s] = "decide" =>
              /\ req[s].job \in Requests /\ lock[req[s].job] = s
              /\ Holds(rows[req[s].job], req[s])
      BY DEF IInv, StateTypes, DecidesOnWhatItRead, Holds, Working, Locals
    <2>2. \A s \in Requests : pc'[s] = "decide" =>
              lock'[req'[s].job] = s /\ Holds(rows'[req'[s].job], req'[s])
      BY <1>1, <2>1
    <2> QED
      BY <2>2 DEF DecidesOnWhatItRead, Holds
  <1> QED
    BY <1>2, <1>3, <1>4, <1>5 DEF IInv

\* Every step keeps the invariant.
LEMMA NextIInv == IInv /\ [Next]_vars => IInv'
PROOF
  <1> SUFFICES ASSUME IInv, [Next]_vars PROVE IInv'
    OBVIOUS
  <1>1. ASSUME NEW r \in Requests, Receive(r) PROVE IInv'
    BY <1>1, CreateJobStep, EditGetJobStep, DeleteGetJobStep, ModerateLockStep DEF Receive, Decided
  <1>2. ASSUME NEW r \in Requests, Handle(r) PROVE IInv'
    BY <1>2, EditCommitStep, RetagStep, ReloadStep, DeleteCommitStep, DecideCommitStep DEF Handle
  <1>3. ASSUME NEW r \in Requests, Crash(r) PROVE IInv'
    BY <1>3, CrashStep
  <1>4. CASE UNCHANGED vars
    BY <1>4 DEF vars, IInv, StateTypes, TrailTypes, LockInv, BornInv, EditInv, DecideInv,
                PendingIffUndecided, DecidesOnWhatItRead, DecisionIsAudited
  <1> QED
    BY <1>1, <1>2, <1>3, <1>4 DEF Next

\* The invariant holds in every state.
THEOREM Invariance == Spec => []IInv
PROOF
  BY InitIInv, NextIInv, PTL DEF Spec

\* Tables, locks and the variables of handlers keep their types.
THEOREM TypeCorrect == Spec => []TypeOK
PROOF
  <1>1. IInv => TypeOK
    BY DEF IInv, StateTypes, TrailTypes, TypeOK
  <1> QED
    BY <1>1, Invariance, PTL

\* A moderator decides on the row it read: the lock kept everyone else away.
THEOREM LockProtects == Spec => []DecidesOnWhatItRead
PROOF
  <1>1. IInv => DecidesOnWhatItRead
    BY DEF IInv
  <1> QED
    BY <1>1, Invariance, PTL

\* The status and the moderator of a job agree, whatever edits and decisions
\* cross each other.
THEOREM StatusAgrees == Spec => []PendingIffUndecided
PROOF
  <1>1. IInv => PendingIffUndecided
    BY DEF IInv
  <1> QED
    BY <1>1, Invariance, PTL

\* A decided job carries the decision of its last audit entry.
THEOREM Audited == Spec => []DecisionIsAudited
PROOF
  <1>1. IInv => DecisionIsAudited
    BY DEF IInv
  <1> QED
    BY <1>1, Invariance, PTL

\* Handler r is at a statement that needs the lock of its job, and has to wait.
Waits(r) ==
    /\ pc[r] \in {"edit", "retag", "delete"}
    /\ ~Unlocked(req[r].job)

\* A locked row is held by a moderator's handler that does not wait itself: one at
\* its commit, on that very job.  So whoever waits for a row, be it a recruiter's
\* handler or another moderator's SELECT ... FOR UPDATE, waits for one that is about
\* to end: no handlers wait in a cycle, and no lock is left behind by one that has
\* ended or died, however many there are.
THEOREM NobodyIsStuck ==
    Spec => [](\A j \in Requests : ~Unlocked(j) =>
                 \E s \in Requests : /\ lock[j] = s /\ ~Waits(s)
                                     /\ pc[s] = "decide" /\ req[s].job = j)
PROOF
  <1> DEFINE Served(j) == \E s \in Requests :
                /\ lock[j] = s /\ ~Waits(s)
                /\ pc[s] = "decide" /\ req[s].job = j
  <1>1. ASSUME IInv, NEW j \in Requests, ~Unlocked(j) PROVE Served(j)
    BY <1>1 DEF IInv, LockInv, Waits, Unlocked
  <1> HIDE DEF Served
  <1>2. IInv => \A j \in Requests : ~Unlocked(j) => Served(j)
    BY <1>1
  <1>3. Spec => [](\A j \in Requests : ~Unlocked(j) => Served(j))
    BY <1>2, Invariance, PTL
  <1> QED
    BY <1>3 DEF Served

-----------------------------------------------------------------------------
(* What a step does to the tables *)

\* Row j alone changes.
Only(j) == rows' = [rows EXCEPT ![j] = rows'[j]]

\* A handler writes the row of its own job only.
LEMMA OthersStay ==
    ASSUME IInv, NEW j \in Requests, Only(j)
    PROVE  \A i \in Requests \ {j} : rows'[i] = rows[i]
PROOF
  BY DEF IInv, StateTypes, Only

Creates(j) ==
    /\ rows[j] = None /\ j \notin born
    /\ Only(j) /\ rows'[j] \in Rows /\ rows'[j].status = "pending" /\ rows'[j].by = None
    /\ born' = born \cup {j} /\ UNCHANGED audit

\* An edit leaves status and moderator alone or resets both.
Edits(j) ==
    /\ rows[j] \in Rows /\ Consistent(rows[j])
    /\ Only(j) /\ rows'[j] \in Rows /\ Consistent(rows'[j])
    /\ rows'[j].status # "pending" =>
          rows'[j].status = rows[j].status /\ rows'[j].by = rows[j].by
    /\ UNCHANGED <<audit, born>>

Removes(j) ==
    /\ rows[j] \in Rows
    /\ Only(j) /\ rows'[j] = None
    /\ UNCHANGED <<audit, born>>

Decides(j, e) ==
    /\ rows[j] \in Rows /\ rows[j].status = "pending" /\ rows[j].by = None
    /\ Only(j) /\ rows'[j] \in Rows /\ rows'[j].status = e.verdict /\ rows'[j].by = e.by
    /\ rows'[j].content = rows[j].content
    /\ audit' = [audit EXCEPT ![j] = Append(@, e)]
    /\ UNCHANGED born

\* What a creation does to the table.
LEMMA CreateEffect ==
    ASSUME IInv, NEW r \in Requests, NEW u, NEW tags, CreateJob(r, u, tags)
    PROVE  Creates(r) \/ UNCHANGED <<rows, audit, born>>
PROOF
  <1>1. r \notin born /\ rows[r] = None
    BY DEF CreateJob, IInv, BornInv
  <1>2. UNCHANGED audit
    BY DEF CreateJob
  <1>3. PICK row \in Rows :
                            /\ row.status = "pending" /\ row.by = None
                            
                            /\ \/ UNCHANGED <<rows, born>>
                               \/ rows' = [rows EXCEPT ![r] = row] /\ born' = born \cup {r}
    <2> DEFINE row == [content |-> r, tags |-> None, status |-> "pending",
                       by |-> None, note |-> None]
    <2>1. row \in Rows /\ row.status = "pending" /\ row.by = None
      BY DEF Rows, JobStatuses
    <2>2. \/ UNCHANGED <<rows, born>>
          \/ rows' = [rows EXCEPT ![r] = row] /\ born' = born \cup {r}
      BY DEF CreateJob
    <2> QED
      BY <2>1, <2>2
  <1> QED
    BY <1>1, <1>2, <1>3 DEF Creates, Only, IInv, StateTypes

\* What an edit does to the row.
LEMMA EditEffect ==
    ASSUME IInv, NEW r \in Requests, EditCommit(r), NEW j, j = req[r].job
    PROVE  \/ UNCHANGED <<rows, audit, born>>
           \/ /\ Edits(j) /\ j \in Requests /\ pc[r] = "edit" /\ pc'[r] = "retag"
              /\ rows'[j].status # "pending" => req[r].snap.status = "pending"
PROOF
  <1>1. /\ pc[r] = "edit" /\ UNCHANGED <<audit, born>>
        /\ req[r] \in Locals /\ j \in Requests
        /\ WantsReview(req[r])
    BY DEF EditCommit, IInv, StateTypes, EditInv, Working, Locals
  <1>2. SUFFICES ASSUME rows[j] # None,
                        rows' = [rows EXCEPT ![j] = Flush(@, req[r].snap, req[r].new)],
                        Goto(r, "retag")
                 PROVE  /\ Edits(j) /\ pc'[r] = "retag"
                        /\ rows'[j].status # "pending" => req[r].snap.status = "pending"
    BY <1>1 DEF EditCommit
  <1>3. /\ rows[j] \in Rows /\ Consistent(rows[j])
        /\ rows'[j] = Flush(rows[j], req[r].snap, req[r].new)
        /\ pc'[r] = "retag"
    BY <1>1, <1>2 DEF IInv, StateTypes, PendingIffUndecided, Consistent, Goto
  <1>4. /\ rows'[j] \in Rows /\ Consistent(rows'[j])
        /\ rows'[j].status # "pending" =>
              /\ rows'[j].status = rows[j].status /\ rows'[j].by = rows[j].by
              /\ req[r].snap.status = "pending"
    BY <1>1, <1>3, FlushForReview
  <1>5. Only(j)
    BY <1>2, <1>3 DEF Only
  <1> QED
    BY <1>1, <1>3, <1>4, <1>5 DEF Edits

\* What a replacement of tags does to the row.
LEMMA RetagEffect ==
    ASSUME IInv, NEW r \in Requests, Retag(r), NEW j, j = req[r].job
    PROVE  \/ UNCHANGED <<rows, audit, born>>
           \/ Edits(j) /\ j \in Requests /\ rows'[j].content = rows[j].content
PROOF
  <1>1. /\ UNCHANGED <<audit, born>>
        /\ j \in Requests /\ req[r].tags \in {"keep", "clear", "set"}
    BY DEF Retag, IInv, StateTypes, Working, Locals
  <1>2. SUFFICES ASSUME rows[j] # None,
                        rows' = [rows EXCEPT ![j].tags =
                                   CASE req[r].tags = "keep" -> @
                                     [] req[r].tags = "clear" -> None
                                     [] req[r].tags = "set" -> r]
                 PROVE  Edits(j) /\ rows'[j].content = rows[j].content
    BY <1>1 DEF Retag
  <1>3. rows[j] \in Rows /\ Consistent(rows[j])
    BY <1>1, <1>2 DEF IInv, StateTypes, PendingIffUndecided, Consistent
  <1>4. PICK t \in Requests \cup {None} : rows' = [rows EXCEPT ![j].tags = t]
    <2>1. CASE req[r].tags = "keep"
      BY <1>2, <1>3, <2>1 DEF Rows
    <2>2. CASE req[r].tags = "clear"
      BY <1>2, <2>2
    <2>3. CASE req[r].tags = "set"
      BY <1>2, <2>3
    <2> QED
      BY <1>1, <2>1, <2>2, <2>3
  <1>5. rows'[j] = [rows[j] EXCEPT !.tags = t] /\ Only(j)
    BY <1>1, <1>4 DEF IInv, StateTypes, Only
  <1>6. /\ rows'[j] \in Rows /\ rows'[j].content = rows[j].content
        /\ rows'[j].status = rows[j].status /\ rows'[j].by = rows[j].by
    BY <1>3, <1>5 DEF Rows
  <1> QED
    BY <1>1, <1>3, <1>5, <1>6 DEF Edits, Consistent

\* What a deletion does to the table.
LEMMA DeleteEffect ==
    ASSUME IInv, NEW r \in Requests, DeleteCommit(r), NEW j, j = req[r].job
    PROVE  \/ UNCHANGED <<rows, audit, born>>
           \/ Removes(j) /\ j \in Requests
PROOF
  <1>1. UNCHANGED rows \/ rows' = [rows EXCEPT ![j] = None]
    BY DEF DeleteCommit
  <1>2. UNCHANGED <<audit, born>> /\ j \in Requests
    BY DEF DeleteCommit, IInv, StateTypes, Working, Locals
  <1>3. CASE UNCHANGED rows \/ rows[j] = None
    BY <1>1, <1>2, <1>3 DEF IInv, StateTypes
  <1>4. CASE rows[j] # None /\ rows' = [rows EXCEPT ![j] = None]
    BY <1>2, <1>4 DEF IInv, StateTypes, Removes, Only
  <1> QED
    BY <1>1, <1>3, <1>4

\* What a decision does to the row and to the audit log.
LEMMA DecisionEffect ==
    ASSUME IInv, NEW r \in Requests, DecideCommit(r)
    PROVE  \E j \in Requests : \E e \in Entries : Decides(j, e)
PROOF
  <1>1. PICK j : j = req[r].job
    OBVIOUS
  <1>2. PICK e : e = [by |-> req[r].new.by, verdict |-> req[r].new.status]
    OBVIOUS
  <1>3. /\ j \in Requests /\ e \in Entries
        /\ rows[j] \in Rows /\ rows[j].status = "pending" /\ rows[j].by = None
        /\ rows' = [rows EXCEPT ![j] = rows'[j]]
        /\ rows'[j] \in Rows /\ rows'[j].status = e.verdict /\ rows'[j].by = e.by
        /\ rows'[j].content = rows[j].content
        /\ audit' = [audit EXCEPT ![j] = Append(@, e)]
        /\ UNCHANGED born
    BY <1>1, <1>2, DecideEffect
  <1>4. Decides(j, e)
    BY <1>3 DEF Decides, Only
  <1> QED
    BY <1>3, <1>4

\* The other steps touch neither the table nor the audit log.
LEMMA QuietSteps ==
    ASSUME NEW r \in Requests,
           \/ \E u \in Recruiters, j \in Requests, changed \in BOOLEAN,
                 tags \in {"keep", "clear", "set"} : EditGetJob(r, u, j, changed, tags)
           \/ \E u \in Recruiters, j \in Requests : DeleteGetJob(r, u, j)
           \/ \E a \in Admins, j \in Requests, verdict \in Decided, note \in Notes \cup {None} :
                 ModerateLock(r, a, j, verdict, note)
           \/ Reload(r) \/ Refresh(r) \/ Crash(r)
    PROVE  UNCHANGED <<rows, audit, born>>
PROOF
  BY DEF EditGetJob, DeleteGetJob, ModerateLock, Reload, Refresh, Crash

\* The steps that change the table, and what they do to it.
LEMMA StepEffect ==
    ASSUME IInv, [Next]_vars
    PROVE  \/ UNCHANGED <<rows, audit, born>>
           \/ \E j \in Requests : Creates(j) \/ Edits(j) \/ Removes(j)
           \/ \E j \in Requests : \E e \in Entries : Decides(j, e)
PROOF
  <1>1. CASE UNCHANGED vars
    BY <1>1 DEF vars
  <1>2. CASE Next
    <2>1. PICK r \in Requests : Receive(r) \/ Handle(r) \/ Crash(r)
      BY <1>2 DEF Next
    <2>2. CASE \E u \in Recruiters, tags \in {"clear", "set"} : CreateJob(r, u, tags)
      BY <2>2, CreateEffect
    <2>3. CASE EditCommit(r)
      BY <2>3, EditEffect
    <2>4. CASE Retag(r)
      BY <2>4, RetagEffect
    <2>5. CASE DeleteCommit(r)
      BY <2>5, DeleteEffect
    <2>6. CASE DecideCommit(r)
      BY <2>6, DecisionEffect
    <2> QED
      BY <2>1, <2>2, <2>3, <2>4, <2>5, <2>6, QuietSteps DEF Receive, Handle, Decided
  <1> QED
    BY <1>1, <1>2

\* Content that changes on a decided job is the work of an edit that had loaded
\* the job while it was pending.
THEOREM OnlyStaleEditsEscape == Spec => EscapesReviewOnlyIfStale
PROOF
  <1> DEFINE Escapes(j) == /\ rows[j] # None /\ rows'[j] # None
                           /\ rows'[j].content # rows[j].content
                           /\ rows'[j].status # "pending"
             Explained(j) == \E r \in Requests : /\ pc[r] = "edit" /\ pc'[r] = "retag"
                                                 /\ req[r].job = j /\ req[r].snap.status = "pending"
  <1>1. ASSUME IInv, [Next]_vars, NEW j \in Requests, Escapes(j) PROVE Explained(j)
    <2>1. rows' # rows /\ Next
      BY <1>1 DEF vars
    <2>2. PICK r \in Requests : Receive(r) \/ Handle(r) \/ Crash(r)
      BY <2>1 DEF Next
    <2>3. CASE \E u \in Recruiters, tags \in {"clear", "set"} : CreateJob(r, u, tags)
      BY <1>1, <2>1, <2>3, CreateEffect, OthersStay DEF Creates
    <2>4. CASE EditCommit(r)
      BY <1>1, <2>1, <2>4, EditEffect, OthersStay DEF Edits
    <2>5. CASE Retag(r)
      BY <1>1, <2>1, <2>5, RetagEffect, OthersStay DEF Edits
    <2>6. CASE DeleteCommit(r)
      BY <1>1, <2>1, <2>6, DeleteEffect, OthersStay DEF Removes
    <2>7. CASE DecideCommit(r)
      BY <1>1, <2>1, <2>7, DecisionEffect, OthersStay DEF Decides
    <2> QED
      BY <2>1, <2>2, <2>3, <2>4, <2>5, <2>6, <2>7, QuietSteps DEF Receive, Handle, Decided
  <1>2. IInv /\ [Next]_vars => [\A j \in Requests : Escapes(j) => Explained(j)]_vars
    BY <1>1
  <1> QED
    BY <1>2, Invariance, PTL DEF Spec, EscapesReviewOnlyIfStale

-----------------------------------------------------------------------------
(* Refinement of AuditedDecision *)

\* A creation opens a subject of decisions.
LEMMA CreatesOpens ==
    ASSUME IInv, NEW j \in Requests, Creates(j)
    PROVE  Decision!Open(j)
PROOF
  BY OthersStay DEF Creates, Decision!Open, Decision!Become, DecisionState

\* An edit reopens a job or leaves its status.
LEMMA EditsReopens ==
    ASSUME IInv, NEW j \in Requests, Edits(j)
    PROVE  Decision!Reopen(j) \/ UNCHANGED Decision!vars
PROOF
  <1>1. CASE rows[j].status # "pending" /\ rows'[j].status = "pending"
    BY <1>1, OthersStay, ZenonT(40)
       DEF Edits, Consistent, Decision!Reopen, Decision!Become, DecisionState, Rows, JobStatuses
  <1>2. CASE rows[j].status = rows'[j].status
    <2>1. rows'[j].by = rows[j].by
      BY <1>2 DEF Edits, Consistent
    <2> QED
      BY <1>2, <2>1, OthersStay DEF Edits, Decision!vars, DecisionState
  <1> QED
    BY <1>1, <1>2 DEF Edits

\* A deletion removes a subject.
LEMMA RemovesRemoves ==
    ASSUME IInv, NEW j \in Requests, Removes(j)
    PROVE  Decision!Remove({j})
PROOF
  <1>1. j \in born /\ rows[j] # None /\ rows[j].status \in JobStatuses
    BY DEF IInv, BornInv, Removes, Rows
  <1> QED
    BY <1>1, OthersStay DEF Removes, Decision!Remove, DecisionState, JobStatuses

\* A decision decides an open subject, and records it.
LEMMA DecidesDecides ==
    ASSUME IInv, NEW j \in Requests, NEW e \in Entries, Decides(j, e)
    PROVE  Decision!Decide(j, e.by, e.verdict)
PROOF
  <1>1. e = [by |-> e.by, verdict |-> e.verdict] /\ e.verdict # "pending"
    BY DEF Entries
  <1> QED
    BY <1>1, OthersStay DEF Decides, Decision!Decide, Decision!Become, DecisionState

\* The handlers implement AuditedDecision: a decision is taken on a pending job,
\* together with its audit entry, and only an edit takes it back.
THEOREM Refinement == Spec => ImplementsAuditedDecision
PROOF
  <1>1. Init => Decision!Init
    BY DEF Init, Decision!Init, DecisionState
  <1>2. IInv /\ [Next]_vars => [Decision!Next]_(Decision!vars)
    <2> SUFFICES ASSUME IInv, [Next]_vars PROVE Decision!Next \/ UNCHANGED Decision!vars
      BY DEF Decision!vars
    <2>1. CASE UNCHANGED <<rows, audit, born>>
      BY <2>1 DEF Decision!vars, DecisionState
    <2>2. ASSUME NEW j \in Requests, Creates(j) PROVE Decision!Next
      BY <2>2, CreatesOpens DEF Decision!Next
    <2>3. ASSUME NEW j \in Requests, Edits(j) PROVE Decision!Next \/ UNCHANGED Decision!vars
      BY <2>3, EditsReopens DEF Decision!Next
    <2>4. ASSUME NEW j \in Requests, Removes(j) PROVE Decision!Next
      <3>1. PICK gone \in SUBSET Requests : gone = {j}
        OBVIOUS
      <3>2. Decision!Remove(gone)
        BY <2>4, <3>1, RemovesRemoves
      <3>3. \E removed \in SUBSET Requests : Decision!Remove(removed)
        BY <3>1, <3>2, Zenon DEF Decision!Remove
      <3> QED
        BY <3>3, Zenon DEF Decision!Next
    <2>5. ASSUME NEW j \in Requests, NEW e \in Entries, Decides(j, e) PROVE Decision!Next
      <3>1. e.by \in Admins /\ e.verdict \in {"approved", "rejected"}
        BY DEF Entries
      <3>2. Decision!Decide(j, e.by, e.verdict)
        BY <2>5, DecidesDecides
      <3>3. \E i \in Requests : \E d \in Admins, v \in {"approved", "rejected"} :
                Decision!Decide(i, d, v)
        BY <3>1, <3>2, Zenon DEF Decision!Decide, Decision!Become
      <3> QED
        BY <3>3, Zenon DEF Decision!Next
    <2> QED
      BY <2>1, <2>2, <2>3, <2>4, <2>5, StepEffect
  <1> QED
    BY <1>1, <1>2, Invariance, PTL DEF Spec, ImplementsAuditedDecision, Decision!Spec

-----------------------------------------------------------------------------
(* Refinement of JobLifecycle, from which Applications takes its jobs *)

\* To the rest of the application a job is created, moderated, edited and
\* deleted, each in one step, and never comes back.
THEOREM LifecycleRefinement == Spec => ImplementsJobLifecycle
PROOF
  <1>1. Init => Lifecycle!Init
    BY DEF Init, Lifecycle!Init
  <1> DEFINE jobs == [j \in Requests |-> IF rows[j] # None THEN rows[j].status
                                         ELSE IF j \in born THEN "deleted" ELSE "none"]
  <1>2. IInv /\ [Next]_vars => [Lifecycle!Next]_jobs
    <2> SUFFICES ASSUME IInv, [Next]_vars PROVE Lifecycle!Next \/ UNCHANGED jobs
      OBVIOUS
    <2>1. CASE UNCHANGED <<rows, audit, born>>
      BY <2>1
    <2>2. ASSUME NEW j \in Requests, Creates(j) PROVE Lifecycle!Next
      <3>1. Lifecycle!Create(j)
        BY <2>2, OthersStay DEF Creates, Lifecycle!Create, Lifecycle!Become
      <3> QED
        BY <3>1 DEF Lifecycle!Next
    <2>3. ASSUME NEW j \in Requests, Edits(j) PROVE Lifecycle!Next \/ UNCHANGED jobs
      <3>1. CASE rows'[j].status = "pending"
        <4>1. rows[j] # None /\ rows[j].status \in JobStatuses /\ rows'[j] # None
          BY <2>3 DEF Edits, Rows
        <4>2. \A i \in Requests \ {j} : rows'[i] = rows[i]
          BY <2>3, OthersStay DEF Edits
        <4>3. jobs[j] \in Lifecycle!Live
          BY <4>1 DEF Lifecycle!Live, JobStatuses
        <4>4. Lifecycle!Become(j, "pending")
          BY <2>3, <3>1, <4>1, <4>2 DEF Edits, Lifecycle!Become
        <4> QED
          BY <4>3, <4>4 DEF Lifecycle!Next, Lifecycle!Edit
      <3>2. CASE rows'[j].status # "pending"
        BY <2>3, <3>2, OthersStay DEF Edits
      <3> QED
        BY <3>1, <3>2
    <2>4. ASSUME NEW j \in Requests, Removes(j) PROVE Lifecycle!Next
      <3>1. j \in born /\ rows[j] # None /\ rows[j].status \in JobStatuses
        BY <2>4 DEF IInv, BornInv, Removes, Rows
      <3>2. Lifecycle!Delete(j)
        BY <2>4, <3>1, OthersStay
           DEF Removes, Lifecycle!Delete, Lifecycle!Become, Lifecycle!Live, JobStatuses
      <3> QED
        BY <3>2 DEF Lifecycle!Next
    <2>5. ASSUME NEW j \in Requests, NEW e \in Entries, Decides(j, e) PROVE Lifecycle!Next
      <3>1. Lifecycle!Moderate(j)
        BY <2>5, OthersStay DEF Decides, Entries, Lifecycle!Moderate, Lifecycle!Become
      <3> QED
        BY <3>1 DEF Lifecycle!Next
    <2> QED
      BY <2>1, <2>2, <2>3, <2>4, <2>5, StepEffect
  <1> QED
    BY <1>1, <1>2, Invariance, PTL DEF Spec, ImplementsJobLifecycle, Lifecycle!Spec
-----------------------------------------------------------------------------
(* One request at a time the documents are right. *)

\* A handler is alone, what an edit loaded is still stored, and a job whose tags
\* are yet to be replaced is pending.
ReadsAreFresh ==
    \A r \in Requests :
        /\ pc[r] \in Working => \A q \in Requests \ {r} : pc[q] \notin Working
        /\ pc[r] = "edit" => rows[req[r].job] = req[r].snap
        /\ pc[r] = "retag" /\ rows[req[r].job] # None =>
              rows[req[r].job].status = "pending"

SerialInv == IInv /\ ReadsAreFresh

\* Serial behaviours are behaviours.
LEMMA SerialIsNext == OneAtATime => Next
PROOF
  BY DEF OneAtATime, Next

\* Initially no handler is at work, so no two overlap.
LEMMA SerialInit == Init => SerialInv
PROOF
  BY InitIInv DEF Init, SerialInv, ReadsAreFresh, Working

\* An edit that loaded what is stored leaves the job pending.
LEMMA FreshEdit ==
    ASSUME SerialInv, NEW r \in Requests, EditCommit(r), NEW j, j = req[r].job,
           rows'[j] # None, rows' # rows
    PROVE  Edits(j) /\ rows'[j].status = "pending"
PROOF
  <1>1. /\ Edits(j) /\ pc[r] = "edit"
        /\ rows'[j].status # "pending" =>
              req[r].snap.status = "pending" /\ rows'[j].status = rows[j].status
    BY EditEffect DEF SerialInv, Edits
  <1> QED
    BY <1>1 DEF SerialInv, ReadsAreFresh

\* Nothing comes between the statements of a handler.
LEMMA SerialStep == SerialInv /\ [OneAtATime]_vars => SerialInv'
PROOF
  <1> SUFFICES ASSUME SerialInv, [OneAtATime]_vars PROVE ReadsAreFresh'
    BY SerialIsNext, NextIInv DEF SerialInv
  <1> USE DEF SerialInv, IInv, StateTypes
  <1>1. ASSUME NEW r \in Requests, Quiet, Receive(r) PROVE ReadsAreFresh'
    <2>1. /\ \A q \in Requests \ {r} : pc'[q] = pc[q] /\ pc'[q] \notin Working
          /\ pc'[r] = "edit" => rows'[req'[r].job] = req'[r].snap
          /\ pc'[r] = "retag" => rows'[req'[r].job].status = "pending"
      <3>0. \A q \in Requests : pc[q] \notin Working
        BY <1>1 DEF Quiet
      <3>1. ASSUME NEW u \in Recruiters, NEW tags \in {"clear", "set"}, CreateJob(r, u, tags)
            PROVE  /\ \A q \in Requests \ {r} : pc'[q] = pc[q]
                   /\ pc'[r] # "edit"
                   /\ pc'[r] = "retag" => rows'[req'[r].job].status = "pending"
        BY <3>1 DEF CreateJob, Goto, Answer
      <3>2. ASSUME NEW u \in Recruiters, NEW j \in Requests, NEW changed \in BOOLEAN,
                   NEW tags \in {"keep", "clear", "set"}, EditGetJob(r, u, j, changed, tags)
            PROVE  /\ \A q \in Requests \ {r} : pc'[q] = pc[q]
                   /\ pc'[r] # "retag"
                   /\ pc'[r] = "edit" => rows'[req'[r].job] = req'[r].snap
        BY <3>2 DEF EditGetJob, Goto, Answer
      <3>3. ASSUME NEW u \in Recruiters, NEW j \in Requests, DeleteGetJob(r, u, j)
            PROVE  /\ \A q \in Requests \ {r} : pc'[q] = pc[q]
                   /\ pc'[r] \notin {"edit", "retag"}
        BY <3>3 DEF DeleteGetJob, Goto, Answer
      <3>4. ASSUME NEW a \in Admins, NEW j \in Requests, NEW verdict \in {"approved", "rejected"},
                   NEW note \in Notes \cup {None}, ModerateLock(r, a, j, verdict, note)
            PROVE  /\ \A q \in Requests \ {r} : pc'[q] = pc[q]
                   /\ pc'[r] \notin {"edit", "retag"}
        BY <3>4 DEF ModerateLock, Goto, Answer
      <3> QED
        BY <1>1, <3>0, <3>1, <3>2, <3>3, <3>4 DEF Receive
    <2> QED
      BY <2>1 DEF ReadsAreFresh, Working
  <1>2. ASSUME NEW r \in Requests, Handle(r) \/ Crash(r) PROVE ReadsAreFresh'
    <2>1. pc[r] \in Working /\ \A q \in Requests \ {r} : pc[q] \notin Working
      <3>1. pc[r] \in Working
        BY <1>2 DEF Handle, Crash, EditCommit, Retag, Reload, DeleteCommit, DecideCommit,
                    Refresh, Working
      <3> QED
        BY <3>1 DEF ReadsAreFresh
    <2>2. \A q \in Requests \ {r} : pc'[q] = pc[q]
      BY <1>2 DEF Handle, Crash, EditCommit, Retag, Reload, DeleteCommit, DecideCommit,
                  Refresh, Goto, Answer
    <2>3. pc'[r] # "edit"
      BY <1>2 DEF Handle, Crash, EditCommit, Retag, Reload, DeleteCommit, DecideCommit,
                  Refresh, Goto, Answer
    <2>4. ASSUME pc'[r] = "retag", rows'[req'[r].job] # None
          PROVE  rows'[req'[r].job].status = "pending"
      <3>1. EditCommit(r)
        BY <1>2, <2>4 DEF Handle, Crash, Retag, Reload, DeleteCommit, DecideCommit,
                          Refresh, Goto, Answer
      <3>2. UNCHANGED req /\ pc[r] = "edit"
            /\ rows' = [rows EXCEPT ![req[r].job] = Flush(@, req[r].snap, req[r].new)]
        BY <2>4, <3>1 DEF EditCommit, Goto, Answer
      <3>3. CASE rows' # rows
        BY <2>4, <3>1, <3>2, <3>3, FreshEdit
      <3>4. CASE rows' = rows
        <4>1. /\ req[r] \in Locals /\ req[r].job \in Requests /\ WantsReview(req[r])
              /\ rows[req[r].job] = req[r].snap /\ req[r].snap \in Rows
          BY <3>2 DEF Working, Locals, EditInv, ReadsAreFresh
        <4>2. rows[req[r].job] = Flush(rows[req[r].job], req[r].snap, req[r].new)
          BY <3>2, <3>4, <4>1
        <4>3. Flush(rows[req[r].job], req[r].snap, req[r].new).status = "pending"
          BY <4>1 DEF Flush, Column, Rows, WantsReview
        <4> QED
          BY <3>2, <3>4, <4>2, <4>3
      <3> QED
        BY <3>3, <3>4
    <2> QED
      BY <2>1, <2>2, <2>3, <2>4 DEF ReadsAreFresh, Working
  <1>3. CASE UNCHANGED vars
    BY <1>3 DEF vars, ReadsAreFresh
  <1> QED
    BY <1>1, <1>2, <1>3 DEF OneAtATime

\* While handlers do not overlap, the serial invariant holds.
THEOREM SerialInvariance == SerialSpec => []SerialInv
PROOF
  BY SerialInit, SerialStep, PTL DEF SerialSpec

\* One request at a time, whoever edits a job, its content or its tags, sends it
\* back to the moderators: an edit of a decided job takes two requests at once.
THEOREM SerialEdits == SerialSpec => EditResetsModeration
PROOF
  <1> DEFINE Edited(j) == /\ rows[j] # None /\ rows'[j] # None
                          /\ rows'[j].content # rows[j].content \/ rows'[j].tags # rows[j].tags
                          /\ pc'[j] = pc[j]
  <1>1. ASSUME SerialInv, [OneAtATime]_vars, NEW j \in Requests, Edited(j)
        PROVE  rows'[j].status = "pending"
    <2> USE DEF SerialInv
    <2>1. rows' # rows /\ OneAtATime
      BY <1>1 DEF vars
    <2>2. PICK r \in Requests : Receive(r) \/ Handle(r) \/ Crash(r)
      BY <2>1 DEF OneAtATime
    <2>3. CASE \E u \in Recruiters, tags \in {"clear", "set"} : CreateJob(r, u, tags)
      BY <1>1, <2>1, <2>3, CreateEffect, OthersStay DEF Creates
    <2>4. CASE EditCommit(r)
      <3>1. Edits(req[r].job)
        BY <1>1, <2>1, <2>4, EditEffect
      <3>2. j = req[r].job
        BY <1>1, <2>4, <3>1, EditEffect, OthersStay DEF Edits
      <3> QED
        BY <1>1, <2>1, <2>4, <3>2, FreshEdit
    <2>5. CASE Retag(r)
      <3>1. Edits(req[r].job) /\ pc[r] = "retag"
        BY <1>1, <2>1, <2>5, RetagEffect DEF Retag
      <3>2. j = req[r].job
        BY <1>1, <2>1, <2>5, <3>1, RetagEffect, OthersStay DEF Edits
      <3> QED
        BY <1>1, <3>1, <3>2 DEF Edits, ReadsAreFresh
    <2>6. CASE DeleteCommit(r)
      BY <1>1, <2>1, <2>6, DeleteEffect, OthersStay DEF Removes
    <2>7. CASE DecideCommit(r)
      <3>1. PICK row, snap, new : rows' = [rows EXCEPT ![req[r].job] = Flush(row, snap, new)]
                                  /\ row = rows[req[r].job]
        BY <2>7 DEF DecideCommit
      <3>2. PICK i \in Requests : \E e \in Entries : Decides(i, e)
        BY <1>1, <2>7, DecisionEffect
      <3>3. i = j /\ rows'[j].content = rows[j].content
        BY <1>1, <3>2, OthersStay DEF Decides
      <3>4. Flush(row, snap, new).tags = row.tags
        BY <1>1 DEF Flush, Rows
      <3> QED
        BY <1>1, <3>1, <3>3, <3>4
    <2> QED
      BY <2>1, <2>2, <2>3, <2>4, <2>5, <2>6, <2>7, QuietSteps DEF Receive, Handle, Decided
  <1>2. SerialInv /\ [OneAtATime]_vars =>
          [\A j \in Requests : Edited(j) => rows'[j].status = "pending"]_vars
    BY <1>1
  <1> QED
    BY <1>2, SerialInvariance, PTL DEF SerialSpec, EditResetsModeration
=============================================================================
