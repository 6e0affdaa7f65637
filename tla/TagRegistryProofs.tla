-------------------------- MODULE TagRegistryProofs --------------------------
(***************************************************************************)
(* Proofs about TagRegistry, for any jobs, slugs, payloads and requests.   *)
(* The invariant remembers, for every handler at work, what it has seen:   *)
(* the tags it loaded are still the job's, and the slug it is about to     *)
(* insert is still missing, or else somebody overtook it.  And it follows  *)
(* the rows of a flush, which belong to one handler each until it commits. *)
(***************************************************************************)
EXTENDS TagRegistry, FiniteSetTheorems, TLAPS

\* Somebody committed a write or a deletion of r's job while r was at work.
Behind(r) == \E q \in Requests : Overtook(q, r) /\ req[q].job = req[r].job

\* The rows of a flush: those left and those done make up the difference between the
\* two lists, and once the last deletion is done all were found.  A handler has no rows
\* before it flushes, and who deletes a job has looked for no tags.
RowsFit(label, q) ==
    /\ label \in {"select", "insert"} => q.held = {} /\ q.rows = {} /\ q.row = None
    /\ label \in Flushing => /\ q.todo = <<>>
                             /\ q.row \in q.rows \/ (q.row = None /\ q.rows = {})
    /\ label \in {"write", "refer", "delete"} =>
          /\ q.rows \cup q.held \subseteq ToDelete(q) \cup ToInsert(q)
          /\ ToInsert(q) \subseteq q.held \cup q.rows
          /\ ToDelete(q) \cap q.rows = {} => ToDelete(q) \subseteq q.held
    /\ label = "refer" => q.row \in ToInsert(q) \cap q.held \cap q.rows
    /\ label \in {"delete", "cascade"} => q.found = {}
    /\ label = "cascade" => q.loaded \subseteq q.held

FlushInv == \A r \in Requests : pc[r] \in Open => RowsFit(pc[r], req[r])

\* A row that a handler has deleted is still there for all others, and one that it has
\* inserted is not.
StoredInv ==
    \A r \in Requests : pc[r] \in Open =>
        \A s \in req[r].held : s \in req[r].found <=> s \notin map[req[r].job]

\* Nobody has a row that another has.
ExclusiveInv ==
    \A q, r \in Requests :
        pc[q] \in Open /\ pc[r] \in Open /\ req[q].job = req[r].job /\ q # r =>
            req[q].held \cap req[r].held = {}

\* A job whose deletion has locked it is there, nobody else has a row that refers to
\* it or deletes it, and all its rows are or will be deleted.
JobInv ==
    \A r \in Requests :
        /\ KeepsJob(r, r) => req[r].job \in jobs
        /\ pc[r] = "cascade" =>
              /\ req[r].job \in jobs
              /\ map[req[r].job] \subseteq req[r].held \cup req[r].rows
              /\ \A q \in Requests \ {r} : ~KeepsJob(q, r) /\ ~DropsJob(q, r)

\* What a handler loaded is what is stored, of a job that is there, unless it is behind.
LoadInv ==
    \A r \in Requests : pc[r] \in Open =>
        \/ map[req[r].job] = req[r].loaded /\ req[r].job \in jobs
        \/ Behind(r)

\* A row a DELETE did not find is gone because the handler is behind.
MissInv ==
    \A r \in Requests : pc[r] \in {"write", "refer", "delete"} =>
        ToDelete(req[r]) \subseteq req[r].held \cup req[r].rows \/ Behind(r)

\* A slug about to be inserted was missing from the list and from the registry,
\* and whoever has put it there since overtook the handler.
InsertInv ==
    \A r \in Requests : pc[r] = "insert" =>
        /\ Slug(r) \notin req[r].found
        /\ \A q \in Requests : tags[Slug(r)] = q => Overtook(q, r)

\* A tag a handler has is in the registry, or a row of its own.
FoundInv ==
    \A r \in Requests : pc[r] \in Open =>
        \A t \in req[r].found : tags[t] # None \/ fresh[t] = r

\* Who had committed before a handler began has still committed.
BeforeInv ==
    \A r, q \in Requests :
        pc[r] \notin {"idle", "deadlock", "crashed"} /\ q \in req[r].before => pc[q] \in Done

\* The last writer of a job has succeeded, and it was about this job.
LastInv ==
    \A j \in Jobs : last[j] # None => pc[last[j]] \in Done /\ req[last[j]].job = j

\* The failures of FailsOnlyIfRaced that are no deadlocks.
ErrorInv ==
    \A r \in Requests : pc[r] = "server_error" =>
        Behind(r) \/ \E q \in Requests : Overtook(q, r) /\ req[r].todo # <<>> /\ tags[Slug(r)] = q

\* The flush of every handler and the rows it has written.
RowsInv == FlushInv /\ StoredInv /\ ExclusiveInv /\ JobInv

\* What the handlers know, and who has overtaken them.
RaceInv == LoadInv /\ MissInv /\ InsertInv /\ FoundInv /\ BeforeInv /\ LastInv /\ ErrorInv

IInv == TypeOK /\ RegistryAgrees /\ RowsInv /\ RaceInv /\ LastListWins

USE TagAssumption

-----------------------------------------------------------------------------
\* Initially there are no tags and nobody is at work.
LEMMA InitIInv == Init => IInv
PROOF
  <1> SUFFICES ASSUME Init PROVE IInv
    OBVIOUS
  <1>1. TypeOK /\ RegistryAgrees
    BY DEF Init, TypeOK, RegistryAgrees, Working, Open, Flushing
  <1>2. RowsInv
    BY DEF Init, RowsInv, FlushInv, StoredInv, ExclusiveInv, JobInv, KeepsJob, Open, Flushing
  <1>3. RaceInv /\ LastListWins
    BY DEF Init, RaceInv, LoadInv, MissInv, InsertInv, FoundInv, BeforeInv, LastInv, ErrorInv,
           LastListWins, Open, Flushing
  <1> QED
    BY <1>1, <1>2, <1>3 DEF IInv

\* A payload's spellings, normalised, are a sequence of slugs.
LEMMA NormalisedPayload ==
    ASSUME NEW list \in Payloads
    PROVE  [i \in 1 .. Len(list) |-> SlugOf[list[i]]] \in Seq(Slugs)
PROOF
  <1>1. PICK n \in 0 .. MaxTags : list \in [1 .. n -> Spellings]
    BY DEF Payloads
  <1>2. list \in Seq(Spellings)
    BY <1>1
  <1>3. Len(list) \in Nat /\ \A i \in 1 .. Len(list) : list[i] \in Spellings
    BY <1>2
  <1> QED
    BY <1>3

\* A handler at a slug has one to deal with, and is left with a list of slugs.
LEMMA SlugType ==
    ASSUME TypeOK, NEW r \in Requests, pc[r] \in {"select", "insert"}
    PROVE  Slug(r) \in Slugs /\ Tail(req[r].todo) \in Seq(Slugs)
PROOF
  <1>1. req[r].todo \in Seq(Slugs) /\ req[r].todo # <<>>
    BY DEF TypeOK, Locals
  <1> QED
    BY <1>1 DEF Slug

\* A handler before its COMMIT has its variables.
LEMMA OpenType ==
    ASSUME TypeOK, NEW r \in Requests, pc[r] \in Open
    PROVE  /\ req[r] \in Locals /\ req[r].job \in Jobs /\ req[r].todo \in Seq(Slugs)
           /\ req[r].found \in SUBSET Slugs /\ req[r].loaded \in SUBSET Slugs
           /\ req[r].rows \in SUBSET Slugs /\ req[r].held \in SUBSET Slugs
           /\ req[r].row \in Slugs \cup {None} /\ req[r].before \in SUBSET Requests
           /\ map[req[r].job] \in SUBSET Slugs
PROOF
  BY DEF TypeOK, Open, Flushing, Locals

\* A handler moves on within its transaction: it may insert a tag that nobody has, and
\* may write rows of its job that nobody has.
LEMMA WithinKeeps ==
    ASSUME IInv, NEW r \in Requests, pc[r] \in Open,
           NEW label \in Open, pc' = [pc EXCEPT ![r] = label],
           NEW q \in Locals, req' = [req EXCEPT ![r] = q],
           q.job = req[r].job, q.loaded = req[r].loaded, q.before = req[r].before,
           req[r].found \subseteq q.found,
           UNCHANGED <<tags, jobs, map, last>>,
           fresh' \in [Slugs -> Requests \cup {None}],
           \A s \in Slugs : fresh'[s] # fresh[s] =>
               fresh[s] = None /\ tags[s] = None /\ fresh'[s] = r /\ s \in q.found,
           \A s \in q.found \ req[r].found : tags[s] # None \/ fresh'[s] = r,
           label \in {"select", "insert"} => q.todo # <<>>,
           label = "insert" => Head(q.todo) \notin q.found /\ tags[Head(q.todo)] = None,
           label = "refer" => q.row # None,
           RowsFit(label, q),
           label \in {"write", "refer", "delete"} =>
               ToDelete(q) \subseteq q.held \cup q.rows \/ Behind(r),
           \A s \in q.held : s \in q.found <=> s \notin map[q.job],
           \A p \in Requests \ {r} : pc[p] \in Open /\ req[p].job = q.job =>
               q.held \cap req[p].held = {},
           JobInv'
    PROVE  IInv'
PROOF
  <1> USE DEF IInv
  <1>1. /\ \A p \in Requests \ {r} : pc'[p] = pc[p] /\ req'[p] = req[p]
        /\ pc'[r] = label /\ req'[r] = q
    BY DEF TypeOK
  <1>2. /\ \A p \in Requests : (pc'[p] \in Done <=> pc[p] \in Done)
        /\ \A p \in Requests : (pc'[p] \in Open <=> pc[p] \in Open)
        /\ pc[r] \notin Done
    BY <1>1 DEF Done, Open, Flushing
  <1>3. TypeOK'
    <2>1. label \notin {"idle", "deadlock", "crashed"} /\ label \in Working
      BY DEF Open, Flushing, Working
    <2> QED
      BY <1>1, <2>1 DEF TypeOK
  <1>4. RegistryAgrees'
    <2>1. \A s \in Slugs : tags[s] # None => tags[s] # r /\ tags[s] \in Requests
      BY <1>2 DEF RegistryAgrees, TypeOK
    <2>2. \A s \in Slugs : tags[s] # None => pc'[tags[s]] \in Done /\ s \in req'[tags[s]].found
      BY <1>1, <2>1 DEF RegistryAgrees
    <2>3. ASSUME NEW s \in Slugs, fresh'[s] # None
          PROVE  tags[s] = None /\ pc'[fresh'[s]] \in Open /\ s \in req'[fresh'[s]].found
      <3>1. CASE fresh'[s] = fresh[s]
        BY <1>1, <1>2, <2>3, <3>1 DEF RegistryAgrees, TypeOK
      <3>2. CASE fresh'[s] # fresh[s]
        BY <1>1, <3>2
      <3> QED
        BY <3>1, <3>2
    <2> QED
      BY <2>2, <2>3 DEF RegistryAgrees
  <1>5. RowsInv'
    <2>1. FlushInv'
      BY <1>1, <1>2 DEF RowsInv, FlushInv
    <2>2. StoredInv'
      BY <1>1, <1>2 DEF RowsInv, StoredInv
    <2>3. ExclusiveInv'
      BY <1>1, <1>2 DEF RowsInv, ExclusiveInv
    <2> QED
      BY <2>1, <2>2, <2>3 DEF RowsInv
  <1>6. \A p, o \in Requests : Overtook(p, o)' <=> Overtook(p, o)
    BY <1>1, <1>2 DEF Overtook
  <1>7. \A p \in Requests : Behind(p)' <=> Behind(p)
    <2>1. \A p \in Requests : req'[p].job = req[p].job
      BY <1>1
    <2> QED
      BY <1>6, <2>1 DEF Behind
  <1>8. LoadInv' /\ MissInv'
    <2>1. LoadInv'
      BY <1>1, <1>2, <1>7 DEF RaceInv, LoadInv
    <2>2. MissInv'
      BY <1>1, <1>7 DEF RaceInv, MissInv
    <2> QED
      BY <2>1, <2>2
  <1>9. InsertInv'
    <2> SUFFICES ASSUME NEW p \in Requests, pc'[p] = "insert"
                 PROVE  /\ Slug(p)' \notin req'[p].found
                        /\ \A o \in Requests : tags'[Slug(p)'] = o => Overtook(o, p)'
      BY DEF InsertInv
    <2>1. CASE p = r
      BY <1>1, <2>1 DEF Slug
    <2>2. CASE p # r
      <3>1. pc[p] = "insert" /\ Slug(p)' = Slug(p) /\ req'[p] = req[p] /\ Slug(p) \in Slugs
        BY <1>1, <2>2, SlugType DEF Slug
      <3> QED
        BY <1>6, <3>1 DEF RaceInv, InsertInv
    <2> QED
      BY <2>1, <2>2
  <1>10. FoundInv'
    <2> SUFFICES ASSUME NEW p \in Requests, pc[p] \in Open, NEW t \in req'[p].found
                 PROVE  tags[t] # None \/ fresh'[t] = p
      BY <1>2 DEF FoundInv
    <2>1. CASE t \in req[p].found
      <3>1. t \in Slugs
        BY <2>1, OpenType
      <3> QED
        BY <2>1, <3>1 DEF RaceInv, FoundInv, TypeOK
    <2>2. CASE t \notin req[p].found
      BY <1>1, <2>2
    <2> QED
      BY <2>1, <2>2
  <1>11. BeforeInv' /\ LastInv'
    <2>1. BeforeInv'
      <3>1. pc[r] \notin {"idle", "deadlock", "crashed"}
        BY DEF Open, Flushing
      <3> QED
        BY <1>1, <1>2, <3>1 DEF RaceInv, BeforeInv
    <2>2. LastInv'
      BY <1>1, <1>2 DEF RaceInv, LastInv, TypeOK
    <2> QED
      BY <2>1, <2>2
  <1>12. ErrorInv'
    <2> SUFFICES ASSUME NEW p \in Requests, pc'[p] = "server_error"
                 PROVE  \/ Behind(p)'
                        \/ \E o \in Requests :
                              Overtook(o, p)' /\ req'[p].todo # <<>> /\ tags'[Slug(p)'] = o
      BY DEF ErrorInv
    <2>1. pc[p] = "server_error" /\ req'[p] = req[p] /\ Slug(p)' = Slug(p)
      BY <1>1 DEF Open, Flushing, Slug
    <2> QED
      BY <1>6, <1>7, <2>1 DEF RaceInv, ErrorInv
  <1>13. LastListWins'
    <2>1. \A j \in Jobs : last[j] # None => last[j] # r /\ last[j] \in Requests
      BY <1>2 DEF RaceInv, LastInv, TypeOK
    <2>2. \A p \in Requests : req'[p].job = req[p].job
      BY <1>1
    <2> QED
      BY <1>1, <1>6, <2>1, <2>2 DEF LastListWins, TypeOK
  <1> QED
    BY <1>3, <1>4, <1>5, <1>8, <1>9, <1>10, <1>11, <1>12, <1>13 DEF RaceInv

\* A handler with this record at this label refers to its job.
Refers(label, q) ==
    /\ label \in {"write", "refer"}
    /\ \E s \in q.held \cap q.found : label = "refer" => s # q.row

\* A handler moves on within its transaction: whoever refers to its job knows that it
\* is not being deleted, and who deletes it that nobody refers to it.
LEMMA JobInvKept ==
    ASSUME TypeOK, JobInv, NEW r \in Requests, NEW label, NEW q,
           pc' = [pc EXCEPT ![r] = label], req' = [req EXCEPT ![r] = q],
           q.job = req[r].job, UNCHANGED <<jobs, map>>,
           Refers(label, q) =>
               q.job \in jobs /\ \A p \in Requests \ {r} : ~DropsJob(p, r),
           label = "cascade" =>
               /\ q.job \in jobs
               /\ map[q.job] \subseteq q.held \cup q.rows
               /\ \A p \in Requests \ {r} : ~KeepsJob(p, r) /\ ~DropsJob(p, r)
    PROVE  JobInv'
PROOF
  <1>1. /\ \A p \in Requests \ {r} : pc'[p] = pc[p] /\ req'[p] = req[p]
        /\ pc'[r] = label /\ req'[r] = q
        /\ \A p \in Requests : req'[p].job = req[p].job
    BY DEF TypeOK
  <1>2. /\ \A p \in Requests \ {r} : \A o \in Requests : KeepsJob(p, o)' <=> KeepsJob(p, o)
        /\ \A p \in Requests \ {r} : \A o \in Requests : DropsJob(p, o)' <=> DropsJob(p, o)
    BY <1>1 DEF KeepsJob, DropsJob
  <1>3. \A o \in Requests : KeepsJob(r, o)' <=> Refers(label, q) /\ q.job = req[o].job
    BY <1>1 DEF KeepsJob, Refers
  <1>4. \A o \in Requests : DropsJob(r, o)' <=> label = "cascade" /\ q.job = req[o].job
    BY <1>1 DEF DropsJob
  <1> SUFFICES ASSUME NEW p \in Requests
               PROVE  /\ KeepsJob(p, p)' => req'[p].job \in jobs
                      /\ pc'[p] = "cascade" =>
                            /\ req'[p].job \in jobs
                            /\ map[req'[p].job] \subseteq req'[p].held \cup req'[p].rows
                            /\ \A o \in Requests \ {p} : ~KeepsJob(o, p)' /\ ~DropsJob(o, p)'
    BY DEF JobInv
  <1>5. CASE p = r
    BY <1>1, <1>2, <1>3, <1>5
  <1>6. CASE p # r
    <2>1. KeepsJob(p, p)' => req'[p].job \in jobs
      BY <1>1, <1>2, <1>6 DEF JobInv
    <2>2. ASSUME pc'[p] = "cascade"
          PROVE  /\ req'[p].job \in jobs
                 /\ map[req'[p].job] \subseteq req'[p].held \cup req'[p].rows
                 /\ \A o \in Requests \ {p} : ~KeepsJob(o, p)' /\ ~DropsJob(o, p)'
      <3>1. pc[p] = "cascade" /\ req'[p] = req[p]
        BY <1>1, <1>6, <2>2
      <3>2. \A o \in Requests \ {p, r} : ~KeepsJob(o, p)' /\ ~DropsJob(o, p)'
        BY <1>2, <3>1 DEF JobInv
      <3>3. q.job = req[p].job => DropsJob(p, r)
        BY <3>1 DEF DropsJob
      <3>4. ~KeepsJob(r, p)' /\ ~DropsJob(r, p)'
        BY <1>3, <1>4, <1>6, <3>3
      <3> QED
        BY <3>1, <3>2, <3>4 DEF JobInv
    <2> QED
      BY <2>1, <2>2
  <1> QED
    BY <1>5, <1>6

\* A handler that has written no rows disturbs nobody's.
LEMMA NoRowsYet ==
    ASSUME IInv, NEW r \in Requests, NEW label \in Open \ {"cascade"}, NEW q \in Locals,
           pc' = [pc EXCEPT ![r] = label], req' = [req EXCEPT ![r] = q],
           q.job = req[r].job, q.held = {}, UNCHANGED <<jobs, map>>
    PROVE  JobInv'
PROOF
  <1>1. ~Refers(label, q)
    BY DEF Refers
  <1> QED
    BY <1>1, JobInvKept DEF IInv, RowsInv

\* The flush begins with all its rows.
LEMMA FlushFits ==
    ASSUME NEW q \in Locals, q.todo = <<>>, q.held = {},
           NEW n \in AtRows(q, ToDelete(q) \cup ToInsert(q))
    PROVE  /\ n \in Locals /\ n.job = q.job /\ n.todo = q.todo /\ n.found = q.found
           /\ n.loaded = q.loaded /\ n.before = q.before /\ n.held = {}
           /\ n.rows = ToDelete(n) \cup ToInsert(n)
           /\ n.row \in n.rows \/ (n.row = None /\ n.rows = {})
           /\ RowsFit("write", n)
           /\ q.found = {} => RowsFit("delete", n)
PROOF
  <1> DEFINE rows == ToDelete(q) \cup ToInsert(q)
  <1>1. rows \in SUBSET Slugs
    BY DEF Locals, ToDelete, ToInsert
  <1>2. PICK s \in IF rows = {} THEN {None} ELSE rows :
            n = [q EXCEPT !.rows = rows, !.row = s]
    BY DEF AtRows
  <1>3. /\ n \in Locals /\ n.job = q.job /\ n.todo = q.todo /\ n.found = q.found
        /\ n.loaded = q.loaded /\ n.before = q.before /\ n.held = {}
        /\ n.rows = rows /\ n.row = s
    BY <1>1, <1>2 DEF Locals
  <1>4. ToDelete(n) = ToDelete(q) /\ ToInsert(n) = ToInsert(q)
    BY <1>3 DEF ToDelete, ToInsert
  <1>5. n.row \in n.rows \/ (n.row = None /\ n.rows = {})
    BY <1>2, <1>3
  <1>6. RowsFit("write", n) /\ (q.found = {} => RowsFit("delete", n))
    BY <1>3, <1>4, <1>5 DEF RowsFit
  <1> QED
    BY <1>3, <1>4, <1>5, <1>6

\* A tag is dealt with, by a row there is or by a new one: the handler goes on with its
\* list, or to the flush.
LEMMA TakeStep ==
    ASSUME IInv, NEW r \in Requests, pc[r] \in {"select", "insert"}, Take(r),
           UNCHANGED <<tags, jobs, map, last>>,
           \/ fresh' = fresh /\ (Slug(r) \in req[r].found \/ tags[Slug(r)] # None)
           \/ /\ fresh' = [fresh EXCEPT ![Slug(r)] = r]
              /\ fresh[Slug(r)] = None /\ tags[Slug(r)] = None
    PROVE  IInv'
PROOF
  <1> DEFINE q == [req[r] EXCEPT !.todo = Tail(@), !.found = @ \cup {Slug(r)}]
  <1>1. Slug(r) \in Slugs /\ Tail(req[r].todo) \in Seq(Slugs) /\ req[r] \in Locals /\ pc[r] \in Open
    BY SlugType, OpenType DEF IInv, Open
  <1>2. /\ q \in Locals /\ q.job = req[r].job /\ q.todo = Tail(req[r].todo)
        /\ q.found = req[r].found \cup {Slug(r)} /\ q.loaded = req[r].loaded
        /\ q.before = req[r].before /\ q.held = req[r].held
        /\ q.rows = req[r].rows /\ q.row = req[r].row
    BY <1>1 DEF Locals
  <1>3. Loop(r, q)
    BY DEF Take
  <1> HIDE DEF q
  <1>4. q.held = {} /\ q.rows = {} /\ q.row = None
    BY <1>1, <1>2 DEF IInv, RowsInv, FlushInv, RowsFit
  <1>5. /\ fresh' \in [Slugs -> Requests \cup {None}]
        /\ \A s \in Slugs : fresh'[s] # fresh[s] =>
               fresh[s] = None /\ tags[s] = None /\ fresh'[s] = r /\ s \in q.found
        /\ \A s \in q.found \ req[r].found : tags[s] # None \/ fresh'[s] = r
    BY <1>1, <1>2 DEF IInv, TypeOK
  <1>6. CASE q.todo # <<>> /\ Put(r, q) /\ Goto(r, "select")
    <2>1. pc' = [pc EXCEPT ![r] = "select"] /\ req' = [req EXCEPT ![r] = q] /\ "select" \in Open
      BY <1>6 DEF Put, Goto, Open
    <2>2. RowsFit("select", q)
      BY <1>4 DEF RowsFit, Flushing
    <2>3. JobInv'
      BY <1>2, <1>4, <2>1, NoRowsYet
    <2>4. /\ q.loaded = req[r].loaded /\ q.before = req[r].before /\ q.job = req[r].job
          /\ req[r].found \subseteq q.found /\ q.todo # <<>>
          /\ \A s \in q.held : s \in q.found <=> s \notin map[q.job]
          /\ \A p \in Requests \ {r} : pc[p] \in Open /\ req[p].job = q.job =>
                 q.held \cap req[p].held = {}
      BY <1>2, <1>4, <1>6
    <2> QED
      BY <1>1, <1>2, <1>5, <2>1, <2>2, <2>3, <2>4, WithinKeeps
  <1>7. CASE /\ q.todo = <<>> /\ Goto(r, "write")
             /\ \E n \in AtRows(q, ToDelete(q) \cup ToInsert(q)) : Put(r, n)
    <2>1. PICK n \in AtRows(q, ToDelete(q) \cup ToInsert(q)) : Put(r, n)
      BY <1>7
    <2>2. /\ n \in Locals /\ n.job = q.job /\ n.found = q.found
          /\ n.loaded = q.loaded /\ n.before = q.before /\ n.held = {}
          /\ n.rows = ToDelete(n) \cup ToInsert(n) /\ RowsFit("write", n)
      BY <1>2, <1>4, <1>7, FlushFits
    <2>3. pc' = [pc EXCEPT ![r] = "write"] /\ req' = [req EXCEPT ![r] = n] /\ "write" \in Open
      BY <1>7, <2>1 DEF Put, Goto, Open, Flushing
    <2>4. JobInv'
      BY <1>2, <2>2, <2>3, NoRowsYet
    <2>5. /\ n.loaded = req[r].loaded /\ n.before = req[r].before /\ n.job = req[r].job
          /\ req[r].found \subseteq n.found
          /\ ToDelete(n) \subseteq n.held \cup n.rows
          /\ \A s \in n.held : s \in n.found <=> s \notin map[n.job]
          /\ \A p \in Requests \ {r} : pc[p] \in Open /\ req[p].job = n.job =>
                 n.held \cap req[p].held = {}
      BY <1>2, <2>2
    <2>6. /\ \A s \in Slugs : fresh'[s] # fresh[s] =>
                 fresh[s] = None /\ tags[s] = None /\ fresh'[s] = r /\ s \in n.found
          /\ \A s \in n.found \ req[r].found : tags[s] # None \/ fresh'[s] = r
      BY <1>5, <2>2
    <2> QED
      BY <1>1, <1>5, <2>2, <2>3, <2>4, <2>5, <2>6, WithinKeeps
  <1> QED
    BY <1>3, <1>6, <1>7 DEF Loop

\* A SELECT that finds nothing sends the handler on to the INSERT.
LEMMA SelectStep ==
    ASSUME IInv, NEW r \in Requests, Select(r)
    PROVE  IInv'
PROOF
  <1>1. CASE Exists(r, Slug(r)) /\ Take(r)
    BY <1>1, TakeStep DEF Select, Exists
  <1>2. CASE ~Exists(r, Slug(r)) /\ Goto(r, "insert") /\ UNCHANGED req
    <2> DEFINE q == req[r]
    <2>1. /\ pc[r] = "select" /\ pc[r] \in Open /\ "insert" \in Open
          /\ pc' = [pc EXCEPT ![r] = "insert"]
          /\ UNCHANGED <<tags, fresh, jobs, map, req, last>>
          /\ Slug(r) \notin req[r].found /\ tags[Slug(r)] = None
      BY <1>2 DEF Select, Goto, Exists, Open
    <2>2. q \in Locals /\ q.todo # <<>> /\ req' = [req EXCEPT ![r] = q]
      BY <2>1 DEF IInv, TypeOK
    <2>3. q.held = {} /\ RowsFit("insert", q)
      BY <2>1 DEF IInv, RowsInv, FlushInv, RowsFit, Flushing
    <2>4. JobInv'
      BY <2>1, <2>2, <2>3, NoRowsYet
    <2>5. fresh' \in [Slugs -> Requests \cup {None}]
      BY <2>1 DEF IInv, TypeOK
    <2> QED
      BY <2>1, <2>2, <2>3, <2>4, <2>5, WithinKeeps DEF Slug
  <1> QED
    BY <1>1, <1>2 DEF Select

-----------------------------------------------------------------------------
\* A transaction is rolled back: its rows go, and nobody has relied on them.
LEMMA RollbackStep ==
    ASSUME IInv, NEW r \in Requests, pc[r] \in Open,
           NEW reply \in {"server_error", "deadlock", "crashed"},
           Goto(r, reply), Rollback(r),
           \/ /\ reply = "server_error" /\ UNCHANGED req
              /\ \/ Behind(r)
                 \/ \E q \in Requests : Overtook(q, r) /\ req[r].todo # <<>> /\ tags[Slug(r)] = q
           \/ reply # "server_error" /\ req' = [req EXCEPT ![r] = None]
    PROVE  IInv'
PROOF
  <1> USE DEF IInv
  <1>1. /\ pc' = [pc EXCEPT ![r] = reply] /\ UNCHANGED <<tags, jobs, map, last>>
        /\ fresh' = [s \in Slugs |-> IF fresh[s] = r THEN None ELSE fresh[s]]
    BY DEF Rollback, Goto
  <1>2. /\ \A p \in Requests \ {r} : pc'[p] = pc[p] /\ req'[p] = req[p]
        /\ pc'[r] = reply /\ (reply = "server_error" => req'[r] = req[r])
    BY <1>1 DEF TypeOK
  <1>3. /\ pc[r] \notin Done /\ pc'[r] \notin Done /\ pc'[r] \notin Open
        /\ \A p \in Requests : (pc'[p] \in Done <=> pc[p] \in Done)
        /\ \A p \in Requests : (pc'[p] \in Open <=> p # r /\ pc[p] \in Open)
    BY <1>2 DEF Open, Flushing, Done
  <1>4. TypeOK'
    <2>1. req' \in [Requests -> Locals \cup {None}]
      BY DEF TypeOK
    <2>2. reply \in Replies /\ reply \notin {"idle", "select", "insert", "refer"}
      BY DEF Replies
    <2>3. reply = "server_error" => req'[r] \in Locals
      BY <1>2, OpenType
    <2> QED
      BY <1>1, <1>2, <2>1, <2>2, <2>3 DEF TypeOK
  <1>5. RegistryAgrees'
    BY <1>1, <1>2, <1>3 DEF RegistryAgrees, TypeOK
  <1>6. \A p \in Requests : \A o \in Requests : o # r \/ reply = "server_error" =>
            (Overtook(p, o)' <=> Overtook(p, o))
    BY <1>2, <1>3 DEF Overtook
  <1>7. \A o \in Requests : o # r \/ reply = "server_error" => (Behind(o) => Behind(o)')
    <2>1. \A p, o \in Requests : Overtook(p, o) => p # r
      BY <1>3 DEF Overtook
    <2> QED
      BY <1>2, <1>6, <2>1 DEF Behind
  <1>8. RowsInv'
    <2>1. FlushInv'
      BY <1>2, <1>3 DEF RowsInv, FlushInv
    <2>2. StoredInv'
      BY <1>1, <1>2, <1>3 DEF RowsInv, StoredInv
    <2>3. ExclusiveInv'
      BY <1>2, <1>3 DEF RowsInv, ExclusiveInv
    <2>4. JobInv'
      <3>1. pc'[r] \notin {"write", "refer", "cascade"}
        BY <1>2
      <3>2. \A p, o \in Requests : KeepsJob(p, o)' /\ o # r => p # r /\ KeepsJob(p, o)
        BY <1>2, <3>1 DEF KeepsJob
      <3>3. \A p, o \in Requests : DropsJob(p, o)' /\ o # r => p # r /\ DropsJob(p, o)
        BY <1>2, <3>1 DEF DropsJob
      <3>4. ~KeepsJob(r, r)'
        BY <3>1 DEF KeepsJob
      <3> QED
        BY <1>1, <1>2, <3>1, <3>2, <3>3, <3>4 DEF RowsInv, JobInv
    <2> QED
      BY <2>1, <2>2, <2>3, <2>4 DEF RowsInv
  <1>9. LoadInv' /\ MissInv'
    <2>1. LoadInv'
      BY <1>1, <1>2, <1>3, <1>7 DEF RaceInv, LoadInv
    <2>2. \A p \in Requests : pc'[p] \in {"write", "refer", "delete"} => p # r
      BY <1>2
    <2>3. MissInv'
      BY <1>2, <1>7, <2>2 DEF RaceInv, MissInv
    <2> QED
      BY <2>1, <2>3
  <1>10. InsertInv' /\ FoundInv'
    <2>1. \A p \in Requests : pc'[p] = "insert" => p # r
      BY <1>2
    <2>2. InsertInv'
      BY <1>1, <1>2, <1>6, <2>1 DEF RaceInv, InsertInv, Slug
    <2>3. \A p \in Requests : \A t \in Slugs : p # r /\ fresh[t] = p => fresh'[t] = p
      BY <1>1
    <2>4. FoundInv'
      BY <1>1, <1>2, <1>3, <2>3, OpenType DEF RaceInv, FoundInv
    <2> QED
      BY <2>2, <2>4
  <1>11. BeforeInv' /\ LastInv'
    <2>1. pc[r] \notin {"idle", "deadlock", "crashed"}
      BY DEF Open, Flushing
    <2>2. \A p \in Requests : pc'[p] \notin {"idle", "deadlock", "crashed"} =>
             pc[p] \notin {"idle", "deadlock", "crashed"} /\ req'[p] = req[p]
      BY <1>2, <2>1
    <2>3. BeforeInv'
      BY <1>3, <2>2 DEF RaceInv, BeforeInv
    <2>4. \A j \in Jobs : last[j] # None => last[j] # r /\ last[j] \in Requests
      BY <1>3 DEF RaceInv, LastInv, TypeOK
    <2>5. LastInv'
      BY <1>1, <1>2, <1>3, <2>4 DEF RaceInv, LastInv
    <2> QED
      BY <2>3, <2>5
  <1>12. ErrorInv'
    <2> SUFFICES ASSUME NEW p \in Requests, pc'[p] = "server_error"
                 PROVE  \/ Behind(p)'
                        \/ \E o \in Requests :
                              Overtook(o, p)' /\ req'[p].todo # <<>> /\ tags'[Slug(p)'] = o
      BY DEF ErrorInv
    <2>1. req'[p] = req[p] /\ Slug(p)' = Slug(p) /\ (p # r \/ reply = "server_error")
      BY <1>2 DEF Slug
    <2>2. Behind(p) \/ \E o \in Requests : Overtook(o, p) /\ req[p].todo # <<>> /\ tags[Slug(p)] = o
      <3>1. CASE p = r
        BY <1>2, <3>1
      <3>2. CASE p # r
        BY <1>2, <3>2 DEF RaceInv, ErrorInv
      <3> QED
        BY <3>1, <3>2
    <2> QED
      BY <1>1, <1>6, <1>7, <2>1, <2>2
  <1>13. LastListWins'
    <2>1. \A j \in Jobs : last[j] # None => last[j] # r /\ last[j] \in Requests
      BY <1>3 DEF RaceInv, LastInv, TypeOK
    <2>2. \A p \in Requests : Overtook(p, r) \/ pc[p] \in Done => p # r
      BY <1>3 DEF Overtook
    <2>3. \A p, o \in Requests : Overtook(p, o) => p # r
      BY <1>3 DEF Overtook
    <2> QED
      BY <1>1, <1>2, <1>6, <2>1, <2>3 DEF LastListWins, TypeOK
  <1> QED
    BY <1>4, <1>5, <1>8, <1>9, <1>10, <1>11, <1>12, <1>13 DEF RaceInv

\* A handler that fails is behind, or meets the tag of somebody who overtook it.
LEMMA FailStep ==
    ASSUME IInv, NEW r \in Requests, pc[r] \in Open, Fail(r, "server_error"),
           \/ Behind(r)
           \/ \E q \in Requests : Overtook(q, r) /\ req[r].todo # <<>> /\ tags[Slug(r)] = q
    PROVE  IInv'
PROOF
  BY RollbackStep DEF Fail

\* So does a handler that dies.
LEMMA DieStep ==
    ASSUME IInv, NEW r \in Requests, pc[r] \in Open,
           NEW reply \in {"deadlock", "crashed"}, Die(r, reply)
    PROVE  IInv'
PROOF
  BY RollbackStep DEF Die

\* An INSERT that fails meets the row of somebody who overtook the handler.
LEMMA InsertStep ==
    ASSUME IInv, NEW r \in Requests, Insert(r)
    PROVE  IInv'
PROOF
  <1>1. pc[r] = "insert" /\ pc[r] \in Open /\ Slug(r) \in Slugs /\ req[r].todo # <<>>
    BY SlugType DEF Insert, Open, IInv, TypeOK
  <1>2. CASE tags[Slug(r)] # None /\ Fail(r, "server_error")
    <2>1. tags[Slug(r)] \in Requests
      BY <1>1, <1>2 DEF IInv, TypeOK
    <2>2. Overtook(tags[Slug(r)], r)
      BY <1>1, <2>1 DEF IInv, RaceInv, InsertInv
    <2> QED
      BY <1>1, <1>2, <2>1, <2>2, FailStep
  <1>3. CASE tags[Slug(r)] = None /\ fresh' = [fresh EXCEPT ![Slug(r)] = r] /\ Take(r)
    <2>1. fresh[Slug(r)] \in Requests \cup {None} /\ fresh[Slug(r)] # r
      BY <1>1 DEF IInv, RaceInv, InsertInv, TypeOK, RegistryAgrees
    <2>2. fresh[Slug(r)] = None
      BY <1>1, <2>1 DEF Insert, WaitsFor, Blocks
    <2> QED
      BY <1>1, <1>3, <2>2, TakeStep DEF Insert
  <1> QED
    BY <1>2, <1>3 DEF Insert

-----------------------------------------------------------------------------
\* A flush goes on with these rows.
LEMMA AtRowsType ==
    ASSUME NEW q \in Locals, NEW rows \in SUBSET Slugs, NEW n \in AtRows(q, rows)
    PROVE  /\ n \in Locals /\ n.job = q.job /\ n.todo = q.todo /\ n.found = q.found
           /\ n.loaded = q.loaded /\ n.before = q.before /\ n.held = q.held /\ n.rows = rows
           /\ n.row \in rows \/ (n.row = None /\ rows = {})
           /\ ToDelete(n) = ToDelete(q) /\ ToInsert(n) = ToInsert(q)
PROOF
  <1>1. PICK s \in IF rows = {} THEN {None} ELSE rows : n = [q EXCEPT !.rows = rows, !.row = s]
    BY DEF AtRows
  <1>2. /\ n \in Locals /\ n.job = q.job /\ n.todo = q.todo /\ n.found = q.found
        /\ n.loaded = q.loaded /\ n.before = q.before /\ n.held = q.held /\ n.rows = rows
        /\ n.row = s
    BY <1>1 DEF Locals
  <1> QED
    BY <1>1, <1>2 DEF ToDelete, ToInsert

\* What it comes to when a handler has a row, and goes on to the next.
LEMMA NextRowType ==
    ASSUME NEW r \in Requests, req[r] \in Locals, NEW held \in SUBSET Slugs, NextRow(r, held),
           req \in [Requests -> Locals \cup {None}]
    PROVE  \E n \in Locals :
              /\ req' = [req EXCEPT ![r] = n]
              /\ n.job = req[r].job /\ n.todo = req[r].todo /\ n.found = req[r].found
              /\ n.loaded = req[r].loaded /\ n.before = req[r].before /\ n.held = held
              /\ n.rows = req[r].rows \ {req[r].row}
              /\ n.row \in n.rows \/ (n.row = None /\ n.rows = {})
              /\ ToDelete(n) = ToDelete(req[r]) /\ ToInsert(n) = ToInsert(req[r])
PROOF
  <1> DEFINE q == [req[r] EXCEPT !.held = held]
             rows == req[r].rows \ {req[r].row}
  <1>1. /\ q \in Locals /\ q.job = req[r].job /\ q.todo = req[r].todo /\ q.found = req[r].found
        /\ q.loaded = req[r].loaded /\ q.before = req[r].before /\ q.held = held
        /\ ToDelete(q) = ToDelete(req[r]) /\ ToInsert(q) = ToInsert(req[r])
    BY DEF Locals, ToDelete, ToInsert
  <1>2. PICK n \in AtRows(q, rows) : Put(r, n)
    BY DEF NextRow
  <1>3. rows \in SUBSET Slugs
    BY DEF Locals
  <1> HIDE DEF q, rows
  <1>4. /\ n \in Locals /\ n.job = q.job /\ n.todo = q.todo /\ n.found = q.found
        /\ n.loaded = q.loaded /\ n.before = q.before /\ n.held = q.held /\ n.rows = rows
        /\ n.row \in rows \/ (n.row = None /\ rows = {})
        /\ ToDelete(n) = ToDelete(q) /\ ToInsert(n) = ToInsert(q)
    BY <1>1, <1>2, <1>3, AtRowsType
  <1> QED
    BY <1>1, <1>2, <1>4 DEF Put, rows

\* Who refers to a job keeps others from deleting it.
LEMMA ReferrerIsSafe ==
    ASSUME IInv, NEW r \in Requests, Refers(pc[r], req[r])
    PROVE  req[r].job \in jobs /\ \A p \in Requests \ {r} : ~DropsJob(p, r)
PROOF
  <1>1. \A p \in Requests : req[r].job = req[p].job => KeepsJob(r, p)
    BY DEF Refers, KeepsJob
  <1>2. \A p \in Requests \ {r} : DropsJob(p, r) => pc[p] = "cascade" /\ req[r].job = req[p].job
    BY DEF DropsJob
  <1> QED
    BY <1>1, <1>2 DEF IInv, RowsInv, JobInv

\* A row that a handler writes, waiting for nobody, is nobody's.
LEMMA RowIsFree ==
    ASSUME IInv, NEW r \in Requests, pc[r] \in {"write", "delete", "cascade"},
           req[r].row \in map[req[r].job] \cup req[r].found, req[r].row # None,
           WaitsFor(r) = {}
    PROVE  \A p \in Requests \ {r} : pc[p] \in Open /\ req[p].job = req[r].job =>
               req[r].row \notin req[p].held
PROOF
  BY DEF WaitsFor, Blocks, Holds

\* A handler goes on with a flush whose rows are in order.
LEMMA FlushGoesOn ==
    ASSUME IInv, NEW r \in Requests, pc[r] \in Flushing, WaitsFor(r) = {},
           NEW label \in Flushing, pc' = [pc EXCEPT ![r] = label],
           NEW n \in Locals, req' = [req EXCEPT ![r] = n],
           n.job = req[r].job, n.todo = req[r].todo, n.found = req[r].found,
           n.loaded = req[r].loaded, n.before = req[r].before,
           UNCHANGED <<tags, fresh, jobs, map, last>>,
           n.held = req[r].held \/
               /\ pc[r] \in {"write", "delete", "cascade"} /\ req[r].row # None
               /\ req[r].row \in n.found <=> req[r].row \notin map[n.job]
               /\ n.held = req[r].held \cup {req[r].row},
           label = "refer" => n.row # None,
           RowsFit(label, n),
           label \in {"write", "refer", "delete"} =>
               ToDelete(n) \subseteq n.held \cup n.rows \/ Behind(r),
           Refers(label, n) => n.job \in jobs /\ \A p \in Requests \ {r} : ~DropsJob(p, r),
           label = "cascade" =>
               /\ n.job \in jobs
               /\ map[n.job] \subseteq n.held \cup n.rows
               /\ \A p \in Requests \ {r} : ~KeepsJob(p, r) /\ ~DropsJob(p, r)
    PROVE  IInv'
PROOF
  <1>1. pc[r] \in Open /\ label \in Open /\ label \notin {"select", "insert"}
    BY DEF Open, Flushing
  <1>2. JobInv'
    BY JobInvKept DEF IInv, RowsInv
  <1>3. /\ \A s \in req[r].held : s \in req[r].found <=> s \notin map[req[r].job]
        /\ \A p \in Requests \ {r} : pc[p] \in Open /\ req[p].job = req[r].job =>
              req[r].held \cap req[p].held = {}
    BY <1>1 DEF IInv, RowsInv, StoredInv, ExclusiveInv
  <1>4. \A s \in n.held : s \in n.found <=> s \notin map[n.job]
    BY <1>3
  <1>5. \A p \in Requests \ {r} : pc[p] \in Open /\ req[p].job = n.job =>
            n.held \cap req[p].held = {}
    <2>1. CASE n.held = req[r].held
      BY <1>3, <2>1
    <2>2. CASE n.held # req[r].held
      <3>1. \A p \in Requests \ {r} : pc[p] \in Open /\ req[p].job = req[r].job =>
               req[r].row \notin req[p].held
        BY <2>2, RowIsFree
      <3> QED
        BY <1>3, <2>2, <3>1
    <2> QED
      BY <2>1, <2>2
  <1>6. fresh' \in [Slugs -> Requests \cup {None}]
    BY DEF IInv, TypeOK
  <1> QED
    BY <1>1, <1>2, <1>4, <1>5, <1>6, WithinKeeps

\* A DELETE that misses its row is of a handler that is behind.
LEMMA DeleteRowStep ==
    ASSUME IInv, NEW r \in Requests, DeleteRow(r)
    PROVE  IInv'
PROOF
  <1> DEFINE held == req[r].held \cup ({req[r].row} \cap map[req[r].job])
  <1>1. /\ pc[r] \in {"write", "delete"} /\ pc[r] \in Flushing /\ pc[r] \in Open
        /\ req[r].row \in ToDelete(req[r]) /\ WaitsFor(r) = {}
    BY DEF DeleteRow, Open, Flushing
  <1>2. req[r] \in Locals /\ map[req[r].job] \in SUBSET Slugs
    BY <1>1, OpenType DEF IInv
  <1>3. /\ req[r].row \in req[r].loaded /\ req[r].row \notin req[r].found
        /\ req[r].row \in Slugs /\ req[r].row # None
    BY <1>1, <1>2 DEF ToDelete, Locals
  <1>4. RowsFit(pc[r], req[r])
    BY <1>1 DEF IInv, RowsInv, FlushInv
  <1>5. req[r].row \in req[r].rows
    BY <1>1, <1>3, <1>4 DEF RowsFit
  <1>6. \/ ToDelete(req[r]) \subseteq held \cup (req[r].rows \ {req[r].row})
        \/ Behind(r)
    <2>1. map[req[r].job] = req[r].loaded \/ Behind(r)
      BY <1>1 DEF IInv, RaceInv, LoadInv
    <2>2. ToDelete(req[r]) \subseteq req[r].held \cup req[r].rows \/ Behind(r)
      BY <1>1 DEF IInv, RaceInv, MissInv
    <2> QED
      BY <1>3, <2>1, <2>2
  <1>7. CASE /\ ToDelete(req[r]) \cap req[r].rows = {req[r].row}
             /\ ~(ToDelete(req[r]) \subseteq held) /\ Fail(r, "server_error")
    <2>1. Behind(r)
      BY <1>6, <1>7
    <2> QED
      BY <1>1, <1>7, <2>1, FailStep
  <1>8. CASE /\ ToDelete(req[r]) \cap req[r].rows = {req[r].row} => ToDelete(req[r]) \subseteq held
             /\ NextRow(r, held)
             /\ UNCHANGED <<tags, fresh, jobs, map, pc, last>>
    <2>1. held \in SUBSET Slugs
      BY <1>2 DEF Locals
    <2>2. PICK n \in Locals :
              /\ req' = [req EXCEPT ![r] = n]
              /\ n.job = req[r].job /\ n.todo = req[r].todo /\ n.found = req[r].found
              /\ n.loaded = req[r].loaded /\ n.before = req[r].before /\ n.held = held
              /\ n.rows = req[r].rows \ {req[r].row}
              /\ n.row \in n.rows \/ (n.row = None /\ n.rows = {})
              /\ ToDelete(n) = ToDelete(req[r]) /\ ToInsert(n) = ToInsert(req[r])
      <3> HIDE DEF held
      <3> QED
        BY <1>2, <1>8, <2>1, NextRowType DEF IInv, TypeOK
    <2>3. RowsFit(pc[r], n)
      <3>1. n.rows \cup n.held \subseteq ToDelete(n) \cup ToInsert(n)
        BY <1>1, <1>4, <2>2 DEF RowsFit
      <3>2. ToInsert(n) \subseteq n.held \cup n.rows
        <4>1. req[r].row \notin ToInsert(req[r])
          BY <1>3 DEF ToInsert
        <4> QED
          BY <1>1, <1>4, <2>2, <4>1 DEF RowsFit
      <3>3. ToDelete(n) \cap n.rows = {} => ToDelete(n) \subseteq n.held
        BY <1>1, <1>5, <1>8, <2>2
      <3> QED
        BY <1>1, <1>4, <2>2, <3>1, <3>2, <3>3 DEF RowsFit
    <2>4. Refers(pc[r], n) => Refers(pc[r], req[r])
      BY <1>1, <1>3, <2>2 DEF Refers
    <2>5. Refers(pc[r], n) => n.job \in jobs /\ \A p \in Requests \ {r} : ~DropsJob(p, r)
      BY <2>2, <2>4, ReferrerIsSafe
    <2>6. pc' = [pc EXCEPT ![r] = pc[r]]
      BY <1>8 DEF IInv, TypeOK
    <2>7. \/ n.held = req[r].held
          \/ /\ req[r].row \in n.found <=> req[r].row \notin map[n.job]
             /\ n.held = req[r].held \cup {req[r].row}
      BY <1>3, <2>2
    <2>8. ToDelete(n) \subseteq n.held \cup n.rows \/ Behind(r)
      BY <1>6, <2>2
    <2> HIDE DEF held
    <2> QED
      BY <1>1, <1>3, <1>8, <2>2, <2>3, <2>5, <2>6, <2>7, <2>8, FlushGoesOn
  <1> QED
    BY <1>7, <1>8 DEF DeleteRow

\* An INSERT that meets its row, too.
LEMMA InsertRowStep ==
    ASSUME IInv, NEW r \in Requests, InsertRow(r)
    PROVE  IInv'
PROOF
  <1>1. /\ pc[r] = "write" /\ pc[r] \in Flushing /\ pc[r] \in Open
        /\ req[r].row \in ToInsert(req[r]) /\ WaitsFor(r) = {}
    BY DEF InsertRow, Open, Flushing
  <1>2. req[r] \in Locals /\ map[req[r].job] \in SUBSET Slugs
    BY <1>1, OpenType DEF IInv
  <1>3. /\ req[r].row \notin req[r].loaded /\ req[r].row \in req[r].found
        /\ req[r].row \in Slugs /\ req[r].row # None
    BY <1>1, <1>2 DEF ToInsert, Locals
  <1>4. CASE req[r].row \in map[req[r].job] /\ Fail(r, "server_error")
    <2>1. Behind(r)
      BY <1>1, <1>3, <1>4 DEF IInv, RaceInv, LoadInv
    <2> QED
      BY <1>1, <1>4, <2>1, FailStep
  <1>5. CASE /\ req[r].row \notin map[req[r].job] /\ Goto(r, "refer")
             /\ Put(r, [req[r] EXCEPT !.held = @ \cup {req[r].row}])
             /\ UNCHANGED <<tags, fresh, jobs, map, last>>
    <2> DEFINE n == [req[r] EXCEPT !.held = @ \cup {req[r].row}]
    <2>1. /\ n \in Locals /\ n.job = req[r].job /\ n.todo = req[r].todo
          /\ n.found = req[r].found /\ n.loaded = req[r].loaded /\ n.before = req[r].before
          /\ n.held = req[r].held \cup {req[r].row} /\ n.rows = req[r].rows
          /\ n.row = req[r].row
          /\ ToDelete(n) = ToDelete(req[r]) /\ ToInsert(n) = ToInsert(req[r])
      BY <1>2, <1>3 DEF Locals, ToDelete, ToInsert
    <2>2. req' = [req EXCEPT ![r] = n] /\ pc' = [pc EXCEPT ![r] = "refer"]
      BY <1>5 DEF Put, Goto
    <2> HIDE DEF n
    <2>3. RowsFit("refer", n)
      <3>1. RowsFit(pc[r], req[r])
        BY <1>1 DEF IInv, RowsInv, FlushInv
      <3> QED
        BY <1>1, <1>3, <2>1, <3>1 DEF RowsFit, Flushing
    <2>4. Refers("refer", n) => Refers(pc[r], req[r])
      BY <1>1, <2>1 DEF Refers
    <2>5. Refers("refer", n) => n.job \in jobs /\ \A p \in Requests \ {r} : ~DropsJob(p, r)
      BY <2>1, <2>4, ReferrerIsSafe
    <2>6. ToDelete(n) \subseteq n.held \cup n.rows \/ Behind(r)
      BY <1>1, <2>1 DEF IInv, RaceInv, MissInv
    <2>7. /\ n.row # None
          /\ req[r].row \in n.found <=> req[r].row \notin map[n.job]
          /\ "refer" \in Flushing /\ "refer" # "cascade"
      BY <1>3, <1>5, <2>1 DEF Flushing
    <2> QED
      BY <1>1, <1>3, <1>5, <2>1, <2>2, <2>3, <2>5, <2>6, <2>7, FlushGoesOn
  <1> QED
    BY <1>4, <1>5 DEF InsertRow

\* The check of a foreign key that fails is of a handler whose job was deleted; one that
\* succeeds keeps it.
LEMMA CheckJobStep ==
    ASSUME IInv, NEW r \in Requests, CheckJob(r)
    PROVE  IInv'
PROOF
  <1>1. pc[r] = "refer" /\ pc[r] \in Flushing /\ pc[r] \in Open /\ WaitsFor(r) = {}
    BY DEF CheckJob, Open, Flushing
  <1>2. req[r] \in Locals /\ req[r].held \in SUBSET Slugs
    BY <1>1, OpenType DEF IInv
  <1>3. RowsFit("refer", req[r])
    BY <1>1 DEF IInv, RowsInv, FlushInv
  <1>4. CASE req[r].job \notin jobs /\ Fail(r, "server_error")
    <2>1. Behind(r)
      BY <1>1, <1>4 DEF IInv, RaceInv, LoadInv
    <2> QED
      BY <1>1, <1>4, <2>1, FailStep
  <1>5. CASE /\ req[r].job \in jobs /\ NextRow(r, req[r].held) /\ Goto(r, "write")
             /\ UNCHANGED <<tags, fresh, jobs, map, last>>
    <2>1. PICK n \in Locals :
              /\ req' = [req EXCEPT ![r] = n]
              /\ n.job = req[r].job /\ n.todo = req[r].todo /\ n.found = req[r].found
              /\ n.loaded = req[r].loaded /\ n.before = req[r].before /\ n.held = req[r].held
              /\ n.rows = req[r].rows \ {req[r].row}
              /\ n.row \in n.rows \/ (n.row = None /\ n.rows = {})
              /\ ToDelete(n) = ToDelete(req[r]) /\ ToInsert(n) = ToInsert(req[r])
      BY <1>2, <1>5, NextRowType DEF IInv, TypeOK
    <2>2. req[r].row \notin ToDelete(req[r]) /\ req[r].row \in req[r].held
      BY <1>3 DEF RowsFit, ToDelete, ToInsert
    <2>3. RowsFit("write", n)
      BY <1>3, <2>1, <2>2 DEF RowsFit, Flushing
    <2>4. \A p \in Requests \ {r} : ~DropsJob(p, r)
      BY <1>1 DEF WaitsFor, Blocks
    <2>5. ToDelete(n) \subseteq n.held \cup n.rows \/ Behind(r)
      BY <1>1, <2>1, <2>2 DEF IInv, RaceInv, MissInv
    <2>6. pc' = [pc EXCEPT ![r] = "write"] /\ "write" \in Flushing
      BY <1>5 DEF Goto, Flushing
    <2> QED
      BY <1>1, <1>5, <2>1, <2>3, <2>4, <2>5, <2>6, FlushGoesOn
  <1> QED
    BY <1>4, <1>5 DEF CheckJob

\* A cascade deletes a row of a job that nobody else can have a new one of.
LEMMA CascadeRowStep ==
    ASSUME IInv, NEW r \in Requests, CascadeRow(r)
    PROVE  IInv'
PROOF
  <1> DEFINE held == req[r].held \cup ({req[r].row} \cap map[req[r].job])
  <1>1. /\ pc[r] = "cascade" /\ pc[r] \in Flushing /\ pc[r] \in Open
        /\ req[r].row # None /\ WaitsFor(r) = {} /\ NextRow(r, held)
        /\ UNCHANGED <<tags, fresh, jobs, map, pc, last>>
    BY DEF CascadeRow, Open, Flushing
  <1>2. req[r] \in Locals /\ map[req[r].job] \in SUBSET Slugs
    BY <1>1, OpenType DEF IInv
  <1>3. held \in SUBSET Slugs
    BY <1>2 DEF Locals
  <1>4. PICK n \in Locals :
            /\ req' = [req EXCEPT ![r] = n]
            /\ n.job = req[r].job /\ n.todo = req[r].todo /\ n.found = req[r].found
            /\ n.loaded = req[r].loaded /\ n.before = req[r].before /\ n.held = held
            /\ n.rows = req[r].rows \ {req[r].row}
            /\ n.row \in n.rows \/ (n.row = None /\ n.rows = {})
            /\ ToDelete(n) = ToDelete(req[r]) /\ ToInsert(n) = ToInsert(req[r])
    <2> HIDE DEF held
    <2> QED
      BY <1>1, <1>2, <1>3, NextRowType DEF IInv, TypeOK
  <1>5. RowsFit("cascade", req[r])
    BY <1>1 DEF IInv, RowsInv, FlushInv
  <1>6. RowsFit("cascade", n)
    BY <1>4, <1>5 DEF RowsFit
  <1>7. /\ n.job \in jobs
        /\ map[n.job] \subseteq n.held \cup n.rows
        /\ \A p \in Requests \ {r} : ~KeepsJob(p, r) /\ ~DropsJob(p, r)
    BY <1>1, <1>4 DEF IInv, RowsInv, JobInv
  <1>8. pc' = [pc EXCEPT ![r] = "cascade"] /\ "cascade" \in Flushing
    BY <1>1 DEF IInv, TypeOK, Flushing
  <1>9. ~Refers("cascade", n)
    BY DEF Refers
  <1>10. \/ n.held = req[r].held
         \/ /\ req[r].row \in n.found <=> req[r].row \notin map[n.job]
            /\ n.held = req[r].held \cup {req[r].row}
    BY <1>4, <1>5 DEF RowsFit
  <1> HIDE DEF held
  <1> QED
    BY <1>1, <1>4, <1>6, <1>7, <1>8, <1>9, <1>10, FlushGoesOn

\* The DELETE of a job finds the rows that the handler has not deleted.
LEMMA DeleteJobLocks ==
    ASSUME IInv, NEW r \in Requests, pc[r] = "delete", req[r].row = None, WaitsFor(r) = {},
           req[r].job \in jobs, Goto(r, "cascade"),
           NEW n \in AtRows(req[r], map[req[r].job] \ req[r].held), Put(r, n),
           UNCHANGED <<tags, fresh, jobs, map, last>>
    PROVE  IInv'
PROOF
  <1> DEFINE rows == map[req[r].job] \ req[r].held
  <1>1. pc[r] \in Flushing /\ pc[r] \in Open
    BY DEF Open, Flushing
  <1>2. req[r] \in Locals /\ rows \in SUBSET Slugs
    BY <1>1, OpenType DEF IInv
  <1>3. /\ n \in Locals /\ n.job = req[r].job /\ n.todo = req[r].todo
        /\ n.found = req[r].found /\ n.loaded = req[r].loaded /\ n.before = req[r].before
        /\ n.held = req[r].held /\ n.rows = rows
        /\ n.row \in rows \/ (n.row = None /\ rows = {})
    BY <1>2, AtRowsType
  <1>4. RowsFit("delete", req[r])
    BY <1>1 DEF IInv, RowsInv, FlushInv
  <1>5. req[r].rows = {} /\ req[r].found = {}
    BY <1>2, <1>4 DEF RowsFit, Flushing, Locals
  <1>6. ToDelete(req[r]) = req[r].loaded
    BY <1>5 DEF ToDelete
  <1>7. req[r].loaded \subseteq req[r].held
    BY <1>4, <1>5, <1>6 DEF RowsFit
  <1>8. RowsFit("cascade", n)
    BY <1>3, <1>4, <1>5, <1>7 DEF RowsFit, Flushing
  <1>9. \A p \in Requests \ {r} : ~KeepsJob(p, r) /\ ~DropsJob(p, r)
    BY DEF WaitsFor, Blocks
  <1>10. /\ n.job \in jobs /\ map[n.job] \subseteq n.held \cup n.rows
         /\ ~Refers("cascade", n) /\ "cascade" \in Flushing
         /\ req' = [req EXCEPT ![r] = n] /\ pc' = [pc EXCEPT ![r] = "cascade"]
    BY <1>3 DEF Refers, Flushing, Put, Goto
  <1> HIDE DEF rows
  <1> QED
    BY <1>1, <1>3, <1>8, <1>9, <1>10, FlushGoesOn

-----------------------------------------------------------------------------
\* A handler commits tags of a job: its new tags become the registry's, and it overtakes
\* all others at work.
LEMMA OvertakeStep ==
    ASSUME IInv, NEW r \in Requests, pc[r] \in Open,
           NEW label \in {"reload", "ok"}, pc' = [pc EXCEPT ![r] = label], UNCHANGED req,
           NEW new \in SUBSET Slugs, map' = [map EXCEPT ![req[r].job] = new],
           jobs' \subseteq jobs, jobs \ {req[r].job} \subseteq jobs',
           tags' = [s \in Slugs |-> IF fresh[s] = r THEN r ELSE tags[s]],
           fresh' = [s \in Slugs |-> IF fresh[s] = r THEN None ELSE fresh[s]],
           \A s \in new : tags'[s] # None /\ req[r].job \in jobs',
           last' = last \/ last' = [last EXCEPT ![req[r].job] = r],
           req[r].job \in jobs' => /\ last' = [last EXCEPT ![req[r].job] = r]
                                   /\ new = req[r].found \/ Behind(r),
           \A p \in Requests \ {r} : pc[p] \in Open /\ req[p].job = req[r].job =>
               \A s \in req[p].held : s \in map[req[r].job] <=> s \in new,
           JobInv'
    PROVE  IInv'
PROOF
  <1> DEFINE j == req[r].job
  <1> USE DEF IInv
  <1>1. /\ req[r] \in Locals /\ j \in Jobs /\ pc[r] \notin Done
        /\ pc'[r] = label /\ pc'[r] \in Done /\ pc'[r] \notin Open
        /\ \A p \in Requests \ {r} : pc'[p] = pc[p]
    BY OpenType DEF TypeOK, Done, Open, Flushing
  <1>2. /\ map'[j] = new /\ \A i \in Jobs \ {j} : map'[i] = map[i]
        /\ \A i \in Jobs \ {j} : last'[i] = last[i]
    BY <1>1 DEF TypeOK
  <1>3. TypeOK'
    BY <1>1 DEF TypeOK, Working, Replies
  <1>4. /\ \A p \in Requests : pc[p] \in Done => pc'[p] \in Done
        /\ \A p \in Requests : pc'[p] \in Open <=> p # r /\ pc[p] \in Open
        /\ \A p \in Requests : \A l \in Open : pc'[p] = l => p # r /\ pc[p] = l
    BY <1>1
  <1>5. RegistryAgrees'
    <2>1. \A s \in Slugs : tags'[s] # None => pc'[tags'[s]] \in Done /\ s \in req[tags'[s]].found
      BY <1>1, <1>4 DEF RegistryAgrees, TypeOK
    <2>2. \A s \in Slugs : fresh'[s] # None =>
             tags'[s] = None /\ pc'[fresh'[s]] \in Open /\ s \in req[fresh'[s]].found
      BY <1>1, <1>4 DEF RegistryAgrees, TypeOK
    <2>3. ASSUME NEW i \in Jobs, NEW s \in map'[i] PROVE tags'[s] # None /\ i \in jobs'
      <3>1. CASE i = j
        BY <1>2, <2>3, <3>1
      <3>2. CASE i # j
        <4>1. s \in map[i] /\ s \in Slugs /\ tags[s] # None /\ i \in jobs
          BY <1>2, <2>3, <3>2 DEF RegistryAgrees, TypeOK
        <4> QED
          BY <3>2, <4>1
      <3> QED
        BY <3>1, <3>2
    <2> QED
      BY <2>1, <2>2, <2>3 DEF RegistryAgrees
  <1>6. \A p, o \in Requests : Overtook(p, o) => Overtook(p, o)'
    BY <1>4 DEF Overtook
  <1>7. \A o \in Requests \ {r} : pc[o] \in Open => Overtook(r, o)'
    <2>1. \A o \in Requests : pc[o] \in Open => r \notin req[o].before
      BY <1>1 DEF RaceInv, BeforeInv, Open, Flushing
    <2> QED
      BY <1>1, <2>1 DEF Overtook
  <1>8. \A o \in Requests : Behind(o) => Behind(o)'
    BY <1>6 DEF Behind
  <1>9. \A o \in Requests \ {r} : pc[o] \in Open /\ req[o].job = j => Behind(o)'
    BY <1>7 DEF Behind
  <1>10. RowsInv'
    <2>1. FlushInv'
      BY <1>1, <1>4 DEF RowsInv, FlushInv
    <2>2. StoredInv'
      <3> SUFFICES ASSUME NEW p \in Requests, p # r, pc[p] \in Open, NEW s \in req[p].held
                   PROVE  s \in req[p].found <=> s \notin map'[req[p].job]
        BY <1>4 DEF StoredInv
      <3>1. s \in req[p].found <=> s \notin map[req[p].job]
        BY DEF RowsInv, StoredInv
      <3>2. req[p].job \in Jobs
        BY OpenType
      <3> QED
        BY <1>2, <3>1, <3>2
    <2>3. ExclusiveInv'
      BY <1>4 DEF RowsInv, ExclusiveInv
    <2> QED
      BY <2>1, <2>2, <2>3 DEF RowsInv
  <1>11. LoadInv' /\ MissInv'
    <2>1. LoadInv'
      <3> SUFFICES ASSUME NEW p \in Requests, p # r, pc[p] \in Open
                   PROVE  \/ map'[req[p].job] = req[p].loaded /\ req[p].job \in jobs'
                          \/ Behind(p)'
        BY <1>4 DEF LoadInv
      <3>1. req[p].job \in Jobs
        BY OpenType
      <3>2. \/ map[req[p].job] = req[p].loaded /\ req[p].job \in jobs
            \/ Behind(p)
        BY DEF RaceInv, LoadInv
      <3> QED
        BY <1>2, <1>8, <1>9, <3>1, <3>2
    <2>2. MissInv'
      BY <1>4, <1>8 DEF RaceInv, MissInv, Open, Flushing
    <2> QED
      BY <2>1, <2>2
  <1>12. InsertInv'
    <2> SUFFICES ASSUME NEW p \in Requests, pc'[p] = "insert"
                 PROVE  /\ Slug(p) \notin req[p].found
                        /\ \A o \in Requests : tags'[Slug(p)] = o => Overtook(o, p)'
      BY DEF InsertInv, Slug
    <2>1. p # r /\ pc[p] = "insert" /\ pc[p] \in Open /\ Slug(p) \in Slugs
      BY <1>4, SlugType DEF Open
    <2>2. /\ Slug(p) \notin req[p].found
          /\ \A o \in Requests : tags[Slug(p)] = o => Overtook(o, p)
      BY <2>1 DEF RaceInv, InsertInv
    <2> QED
      BY <1>6, <1>7, <2>1, <2>2
  <1>13. FoundInv'
    <2>1. ASSUME NEW p \in Requests, p # r, pc[p] \in Open, NEW t \in req[p].found
          PROVE  tags'[t] # None \/ fresh'[t] = p
      <3>1. t \in Slugs /\ (tags[t] # None \/ fresh[t] = p)
        BY <2>1, OpenType DEF RaceInv, FoundInv
      <3> QED
        BY <2>1, <3>1
    <2> QED
      BY <1>4, <2>1 DEF FoundInv
  <1>14. BeforeInv' /\ LastInv'
    <2>1. pc[r] \notin {"idle", "deadlock", "crashed"}
      BY DEF Open, Flushing
    <2>2. BeforeInv'
      BY <1>1, <1>4, <2>1 DEF RaceInv, BeforeInv
    <2>3. LastInv'
      BY <1>1, <1>4 DEF RaceInv, LastInv, TypeOK
    <2> QED
      BY <2>2, <2>3
  <1>15. ErrorInv'
    <2> SUFFICES ASSUME NEW p \in Requests, pc'[p] = "server_error"
                 PROVE  \/ Behind(p)'
                        \/ \E o \in Requests :
                              Overtook(o, p)' /\ req[p].todo # <<>> /\ tags'[Slug(p)] = o
      BY DEF ErrorInv, Slug
    <2>1. pc[p] = "server_error"
      BY <1>1
    <2>2. req[p].todo # <<>> => Slug(p) \in Slugs
      BY <2>1 DEF TypeOK, Locals, Slug
    <2>3. \A s \in Slugs : \A o \in Requests : tags[s] = o => tags'[s] = o
      BY DEF RegistryAgrees
    <2> QED
      BY <1>6, <1>8, <2>1, <2>2, <2>3 DEF RaceInv, ErrorInv
  <1>16. LastListWins'
    <2>1. ASSUME NEW i \in Jobs, NEW w \in Requests, i \in jobs', last'[i] = w
          PROVE  map'[i] = req[w].found \/ \E o \in Requests : Overtook(o, w)' /\ req[o].job = i
      <3>1. CASE i = j
        <4>1. w = r
          BY <1>1, <2>1, <3>1 DEF TypeOK
        <4>2. new = req[r].found \/ Behind(r)'
          BY <1>8, <2>1, <3>1
        <4> QED
          BY <1>2, <3>1, <4>1, <4>2 DEF Behind
      <3>2. CASE i # j
        <4>1. last[i] = w /\ map'[i] = map[i] /\ i \in jobs
          BY <1>2, <2>1, <3>2
        <4>2. map[i] = req[w].found \/ \E o \in Requests : Overtook(o, w) /\ req[o].job = i
          BY <4>1 DEF LastListWins
        <4> QED
          BY <1>6, <4>1, <4>2
      <3> QED
        BY <3>1, <3>2
    <2> QED
      BY <1>3, <2>1 DEF LastListWins, TypeOK
  <1> QED
    BY <1>3, <1>5, <1>10, <1>11, <1>12, <1>13, <1>14, <1>15, <1>16 DEF RaceInv, RowsInv

\* The flush of a handler that is not behind leaves its list.
LEMMA FlushOfUnchanged ==
    ASSUME NEW q \in Locals, NEW stored \in SUBSET Slugs, stored = q.loaded
    PROVE  (stored \ ToDelete(q)) \cup ToInsert(q) = q.found
PROOF
  BY DEF ToDelete, ToInsert, Locals

\* COMMIT of a replacement, all of whose rows are written.
LEMMA CommitStep ==
    ASSUME IInv, NEW r \in Requests, Commit(r)
    PROVE  IInv'
PROOF
  <1> DEFINE j == req[r].job
             new == (map[j] \ ToDelete(req[r])) \cup ToInsert(req[r])
  <1>1. /\ pc[r] = "write" /\ pc[r] \in Open /\ req[r].row = None
        /\ map' = [map EXCEPT ![j] = new]
        /\ tags' = [s \in Slugs |-> IF fresh[s] = r THEN r ELSE tags[s]]
        /\ fresh' = [s \in Slugs |-> IF fresh[s] = r THEN None ELSE fresh[s]]
        /\ last' = [last EXCEPT ![j] = r]
        /\ pc' = [pc EXCEPT ![r] = "reload"]
        /\ UNCHANGED <<jobs, req>>
    BY DEF Commit, Goto, Open, Flushing
  <1>2. /\ req[r] \in Locals /\ map[j] \in SUBSET Slugs /\ req[r].found \in SUBSET Slugs
        /\ req[r].loaded \in SUBSET Slugs /\ j \in Jobs
    BY <1>1, OpenType DEF IInv
  <1>3. new \in SUBSET Slugs
    BY <1>2 DEF ToInsert
  <1>4. /\ ToDelete(req[r]) \subseteq req[r].held /\ ToInsert(req[r]) \subseteq req[r].held
        /\ req[r].held \subseteq ToDelete(req[r]) \cup ToInsert(req[r])
    <2>1. RowsFit("write", req[r])
      BY <1>1 DEF IInv, RowsInv, FlushInv
    <2>2. req[r].rows = {}
      BY <1>1, <1>2, <2>1 DEF RowsFit, Flushing, Locals
    <2> QED
      BY <2>1, <2>2 DEF RowsFit
  <1>5. ToInsert(req[r]) # {} => j \in jobs /\ \A p \in Requests \ {r} : ~DropsJob(p, r)
    <2>1. ToInsert(req[r]) # {} => Refers(pc[r], req[r])
      BY <1>1, <1>4 DEF Refers, ToInsert
    <2> QED
      BY <2>1, ReferrerIsSafe
  <1>6. \A s \in new : tags'[s] # None /\ j \in jobs
    <2>1. \A s \in map[j] : tags'[s] # None /\ j \in jobs
      BY <1>1, <1>2 DEF IInv, RegistryAgrees
    <2>2. \A s \in ToInsert(req[r]) : tags'[s] # None
      BY <1>1, <1>2 DEF ToInsert, IInv, RaceInv, FoundInv
    <2> QED
      BY <1>5, <2>1, <2>2
  <1>7. new = req[r].found \/ Behind(r)
    BY <1>1, <1>2, FlushOfUnchanged DEF IInv, RaceInv, LoadInv
  <1>8. ASSUME NEW p \in Requests \ {r}, pc[p] \in Open, req[p].job = j, NEW s \in req[p].held
        PROVE  s \in map[j] <=> s \in new
    <2>1. s \notin req[r].held
      BY <1>1, <1>8 DEF IInv, RowsInv, ExclusiveInv
    <2> QED
      BY <1>4, <2>1
  <1>9. JobInv'
    <2>1. /\ pc'[r] = "reload" /\ \A p \in Requests \ {r} : pc'[p] = pc[p]
          /\ map'[j] = new /\ \A i \in Jobs \ {j} : map'[i] = map[i]
      BY <1>1, <1>2 DEF IInv, TypeOK
    <2>2. \A p, o \in Requests : (KeepsJob(p, o)' => KeepsJob(p, o)) /\ (DropsJob(p, o)' => DropsJob(p, o))
      BY <1>1, <2>1 DEF KeepsJob, DropsJob
    <2>3. ASSUME NEW p \in Requests, pc'[p] = "cascade"
          PROVE  map'[req[p].job] \subseteq req[p].held \cup req[p].rows
      <3>1. p # r /\ pc[p] = "cascade" /\ req[p].job \in Jobs
        BY <2>1, <2>3, OpenType DEF IInv, Open, Flushing
      <3>2. map[req[p].job] \subseteq req[p].held \cup req[p].rows
        BY <3>1 DEF IInv, RowsInv, JobInv
      <3>3. CASE req[p].job = j
        <4>1. DropsJob(p, r)
          BY <3>1, <3>3 DEF DropsJob
        <4>2. ToInsert(req[r]) = {}
          BY <1>5, <3>1, <4>1
        <4> QED
          BY <2>1, <3>2, <3>3, <4>2
      <3>4. CASE req[p].job # j
        BY <2>1, <3>1, <3>2, <3>4
      <3> QED
        BY <3>3, <3>4
    <2>4. \A p \in Requests : pc'[p] = "cascade" => pc[p] = "cascade"
      BY <2>1
    <2> QED
      BY <1>1, <2>2, <2>3, <2>4 DEF IInv, RowsInv, JobInv
  <1> HIDE DEF new
  <1> QED
    BY <1>1, <1>3, <1>6, <1>7, <1>8, <1>9, OvertakeStep

\* The COMMIT of a deletion, or the end of one that finds its job gone, leaves the job
\* without tags.
LEMMA DropStep ==
    ASSUME IInv, NEW r \in Requests, pc[r] \in {"delete", "cascade"},
           pc[r] = "delete" => req[r].job \notin jobs,
           pc[r] = "cascade" => map[req[r].job] \subseteq req[r].held,
           Goto(r, "ok"), jobs' = jobs \ {req[r].job}, map' = [map EXCEPT ![req[r].job] = {}],
           UNCHANGED <<tags, fresh, req, last>>
    PROVE  IInv'
PROOF
  <1> DEFINE j == req[r].job
  <1>1. pc[r] \in Open /\ pc' = [pc EXCEPT ![r] = "ok"]
    BY DEF Open, Flushing, Goto
  <1>2. req[r] \in Locals /\ map[j] \in SUBSET Slugs /\ j \in Jobs
    BY <1>1, OpenType DEF IInv
  <1>3. \A s \in Slugs : fresh[s] # r
    <2>1. req[r].found = {}
      BY <1>1 DEF IInv, RowsInv, FlushInv, RowsFit
    <2> QED
      BY <1>1, <2>1 DEF IInv, RegistryAgrees, TypeOK
  <1>4. /\ tags' = [s \in Slugs |-> IF fresh[s] = r THEN r ELSE tags[s]]
        /\ fresh' = [s \in Slugs |-> IF fresh[s] = r THEN None ELSE fresh[s]]
    BY <1>3 DEF IInv, TypeOK
  <1>5. ASSUME NEW p \in Requests \ {r}, pc[p] \in Open, req[p].job = j, NEW s \in req[p].held
        PROVE  s \notin map[j]
    <2>1. s \in map[j] => s \notin req[p].found
      BY <1>5 DEF IInv, RowsInv, StoredInv
    <2>2. CASE pc[r] = "delete"
      BY <1>2, <2>2 DEF IInv, RegistryAgrees
    <2>3. CASE pc[r] = "cascade"
      <3>1. s \notin req[r].held
        BY <1>1, <1>5 DEF IInv, RowsInv, ExclusiveInv
      <3> QED
        BY <2>3, <3>1
    <2> QED
      BY <2>2, <2>3
  <1>6. JobInv'
    <2>1. /\ pc'[r] = "ok" /\ \A p \in Requests \ {r} : pc'[p] = pc[p]
          /\ map'[j] = {} /\ \A i \in Jobs \ {j} : map'[i] = map[i]
      BY <1>1, <1>2 DEF IInv, TypeOK
    <2>2. /\ \A p, o \in Requests : KeepsJob(p, o)' => KeepsJob(p, o) /\ p # r
          /\ \A p, o \in Requests : DropsJob(p, o)' => DropsJob(p, o) /\ p # r
      BY <2>1 DEF KeepsJob, DropsJob
    <2>3. \A p \in Requests \ {r} : pc[p] \in {"write", "refer", "cascade"} => req[p].job \in Jobs
      BY OpenType DEF IInv, Open, Flushing
    <2>4. ASSUME NEW p \in Requests \ {r}, KeepsJob(p, p) \/ pc[p] = "cascade"
          PROVE  req[p].job \in jobs'
      <3>1. req[p].job \in jobs
        BY <2>4 DEF IInv, RowsInv, JobInv
      <3>2. CASE req[p].job = j
        <4>1. KeepsJob(p, r) \/ DropsJob(p, r)
          BY <2>4, <3>2 DEF KeepsJob, DropsJob
        <4> QED
          BY <3>1, <3>2, <4>1 DEF IInv, RowsInv, JobInv
      <3> QED
        BY <3>1, <3>2
    <2>5. ASSUME NEW p \in Requests, pc'[p] = "cascade"
          PROVE  map'[req[p].job] \subseteq req[p].held \cup req[p].rows
      BY <2>1, <2>3, <2>5 DEF IInv, RowsInv, JobInv
    <2>6. \A p \in Requests : pc'[p] = "cascade" => p # r /\ pc[p] = "cascade"
      BY <2>1
    <2>7. \A p \in Requests : pc[p] = "cascade" =>
             \A q \in Requests \ {p} : ~KeepsJob(q, p) /\ ~DropsJob(q, p)
      BY DEF IInv, RowsInv, JobInv
    <2> QED
      BY <2>2, <2>4, <2>5, <2>6, <2>7 DEF JobInv
  <1>7. DEFINE new == {}
  <1>8. /\ new \in SUBSET Slugs /\ map' = [map EXCEPT ![j] = new]
        /\ \A s \in new : tags'[s] # None /\ j \in jobs'
        /\ j \notin jobs'
        /\ \A p \in Requests \ {r} : pc[p] \in Open /\ req[p].job = j =>
               \A s \in req[p].held : s \in map[j] <=> s \in new
    BY <1>5
  <1> HIDE DEF new
  <1> QED
    BY <1>1, <1>4, <1>6, <1>8, OvertakeStep

\* The COMMIT of a deletion finds all rows of the job deleted.
LEMMA CommitDeleteStep ==
    ASSUME IInv, NEW r \in Requests, CommitDelete(r)
    PROVE  /\ pc[r] = "cascade" /\ map[req[r].job] \subseteq req[r].held
           /\ map' = [map EXCEPT ![req[r].job] = {}]
           /\ IInv'
PROOF
  <1>1. /\ pc[r] = "cascade" /\ pc[r] \in Open /\ req[r].row = None
        /\ jobs' = jobs \ {req[r].job}
        /\ map' = [map EXCEPT ![req[r].job] = @ \ req[r].held]
        /\ Goto(r, "ok") /\ UNCHANGED <<tags, fresh, req, last>>
    BY DEF CommitDelete, Open, Flushing
  <1>2. req[r].rows \in SUBSET Slugs /\ req[r].job \in Jobs
    BY <1>1, OpenType DEF IInv
  <1>3. req[r].rows = {}
    BY <1>1, <1>2 DEF IInv, RowsInv, FlushInv, RowsFit, Flushing
  <1>4. map[req[r].job] \subseteq req[r].held
    BY <1>1, <1>3 DEF IInv, RowsInv, JobInv
  <1>5. map[req[r].job] \ req[r].held = {}
    BY <1>4
  <1>6. map' = [map EXCEPT ![req[r].job] = {}]
    BY <1>1, <1>5 DEF IInv, TypeOK
  <1> QED
    BY <1>1, <1>4, <1>6, DropStep

\* The DELETE of a job locks it and goes on to its rows, or finds it gone.
LEMMA DeleteJobStep ==
    ASSUME IInv, NEW r \in Requests, DeleteJob(r)
    PROVE  IInv'
PROOF
  <1>1. pc[r] = "delete" /\ req[r].row = None /\ WaitsFor(r) = {}
        /\ UNCHANGED <<tags, fresh, jobs, map, last>>
    BY DEF DeleteJob
  <1>2. CASE req[r].job \notin jobs /\ Goto(r, "ok") /\ UNCHANGED req
    <2>1. req[r].job \in Jobs
      BY <1>1, OpenType DEF IInv, Open, Flushing
    <2>2. map[req[r].job] = {}
      BY <1>2, <2>1 DEF IInv, RegistryAgrees, TypeOK
    <2>3. map' = [map EXCEPT ![req[r].job] = {}] /\ jobs' = jobs \ {req[r].job}
      BY <1>1, <1>2, <2>1, <2>2 DEF IInv, TypeOK
    <2> QED
      BY <1>1, <1>2, <2>3, DropStep
  <1>3. CASE /\ req[r].job \in jobs /\ Goto(r, "cascade")
             /\ \E n \in AtRows(req[r], map[req[r].job] \ req[r].held) : Put(r, n)
    BY <1>1, <1>3, DeleteJobLocks
  <1> QED
    BY <1>2, <1>3 DEF DeleteJob

\* A handler that has committed ends, well or not, and has no rows of its own.
LEMMA EndStep ==
    ASSUME IInv, NEW r \in Requests, pc[r] = "reload",
           NEW reply \in {"ok", "lost"}, Goto(r, reply),
           UNCHANGED <<tags, fresh, jobs, map, req, last>>
    PROVE  IInv'
PROOF
  <1> USE DEF IInv
  <1>1. /\ \A p \in Requests \ {r} : pc'[p] = pc[p]
        /\ pc'[r] = reply
    BY DEF TypeOK, Goto
  <1>2. /\ \A p \in Requests : pc'[p] \in Done <=> pc[p] \in Done
        /\ \A p \in Requests : pc'[p] \in Open <=> p # r /\ pc[p] \in Open
        /\ \A p \in Requests : pc'[p] \in Open => pc'[p] = pc[p]
    BY <1>1 DEF Done, Open, Flushing
  <1>3. TypeOK'
    BY <1>1 DEF TypeOK, Goto, Working, Open, Flushing, Replies
  <1>4. RegistryAgrees'
    <2>1. \A s \in Slugs : tags[s] # None => pc'[tags[s]] \in Done /\ s \in req[tags[s]].found
      BY <1>2 DEF RegistryAgrees, TypeOK
    <2>2. \A p \in Requests : pc[p] \in Open => pc'[p] \in Open
      BY <1>1, <1>2 DEF Open, Flushing
    <2>3. \A s \in Slugs : fresh[s] # None =>
             tags[s] = None /\ pc'[fresh[s]] \in Open /\ s \in req[fresh[s]].found
      BY <2>2 DEF RegistryAgrees, TypeOK
    <2> QED
      BY <2>1, <2>3 DEF RegistryAgrees
  <1>5. RowsInv'
    <2>1. FlushInv' /\ StoredInv' /\ ExclusiveInv'
      BY <1>2 DEF RowsInv, FlushInv, StoredInv, ExclusiveInv
    <2>2. /\ \A p, o \in Requests : KeepsJob(p, o)' <=> KeepsJob(p, o)
          /\ \A p, o \in Requests : DropsJob(p, o)' <=> DropsJob(p, o)
          /\ \A p \in Requests : pc'[p] = "cascade" <=> pc[p] = "cascade"
      BY <1>1 DEF KeepsJob, DropsJob
    <2>3. JobInv'
      BY <2>2 DEF RowsInv, JobInv
    <2> QED
      BY <2>1, <2>3 DEF RowsInv
  <1>6. /\ \A p, o \in Requests : Overtook(p, o)' <=> Overtook(p, o)
        /\ \A p \in Requests : Behind(p)' <=> Behind(p)
    BY <1>2 DEF Overtook, Behind
  <1>7. LoadInv' /\ MissInv' /\ FoundInv'
    BY <1>2, <1>6 DEF RaceInv, LoadInv, MissInv, FoundInv, Open, Flushing
  <1>8. InsertInv'
    BY <1>1, <1>6 DEF RaceInv, InsertInv, Slug
  <1>9. BeforeInv' /\ LastInv'
    BY <1>1, <1>2 DEF RaceInv, BeforeInv, LastInv, TypeOK
  <1>10. ErrorInv'
    BY <1>1, <1>6 DEF RaceInv, ErrorInv, Slug
  <1>11. LastListWins'
    BY <1>6 DEF LastListWins, TypeOK
  <1> QED
    BY <1>3, <1>4, <1>5, <1>7, <1>8, <1>9, <1>10, <1>11 DEF RaceInv

\* Whoever waits is before its COMMIT.
LEMMA WaitersAreOpen ==
    ASSUME NEW r \in Requests, WaitsFor(r) # {}
    PROVE  pc[r] \in {"insert", "write", "refer", "delete", "cascade"} /\ pc[r] \in Open
PROOF
  BY DEF WaitsFor, Blocks, Open, Flushing

\* Who is on a cycle of waits waits.
LEMMA CyclesWait ==
    ASSUME NEW r \in Requests, InCycle(r)
    PROVE  WaitsFor(r) # {}
PROOF
  <1> SUFFICES ASSUME WaitsFor(r) = {} PROVE FALSE
    OBVIOUS
  <1> DEFINE S == {}
  <1>1. S \in SUBSET Requests /\ WaitsFor(r) \subseteq S /\ r \notin S
        /\ \A q \in S : WaitsFor(q) \subseteq S
    OBVIOUS
  <1> HIDE DEF S
  <1> QED
    BY <1>1 DEF InCycle

\* The victim of a deadlock is rolled back.
LEMMA DeadlockStep ==
    ASSUME IInv, NEW r \in Requests, Deadlock(r)
    PROVE  IInv'
PROOF
  BY CyclesWait, WaitersAreOpen, DieStep DEF Deadlock

\* A death before the COMMIT is a rollback, one after it only silences the handler.
LEMMA CrashStep ==
    ASSUME IInv, NEW r \in Requests, Crash(r)
    PROVE  IInv'
PROOF
  <1>1. CASE pc[r] \in Open /\ Die(r, "crashed")
    BY <1>1, DieStep
  <1>2. CASE pc[r] = "reload" /\ Fail(r, "lost")
    <2>1. \A s \in Slugs : fresh[s] # r
      BY <1>2 DEF IInv, RegistryAgrees, TypeOK, Open, Flushing
    <2>2. fresh' = fresh
      BY <1>2, <2>1 DEF Fail, Rollback, IInv, TypeOK
    <2> QED
      BY <1>2, <2>2, EndStep DEF Fail, Rollback
  <1> QED
    BY <1>1, <1>2 DEF Crash

\* A handler begins with what is stored, so there is nothing it has missed.
LEMMA BeginStep ==
    ASSUME IInv, NEW r \in Requests, pc[r] = "idle", NEW j \in jobs,
           NEW label \in {"select", "write", "delete"}, pc' = [pc EXCEPT ![r] = label],
           NEW q \in Locals, req' = [req EXCEPT ![r] = q],
           q.job = j, q.loaded = map[j], q.before = {p \in Requests : pc[p] \in Done},
           q.found = {}, q.held = {}, label = "select" => q.todo # <<>>,
           RowsFit(label, q), label # "select" => ToDelete(q) \subseteq q.held \cup q.rows,
           UNCHANGED <<tags, fresh, jobs, map, last>>
    PROVE  IInv'
PROOF
  <1> USE DEF IInv
  <1>1. /\ \A p \in Requests \ {r} : pc'[p] = pc[p] /\ req'[p] = req[p]
        /\ pc'[r] = label /\ req'[r] = q /\ label \in Open /\ label \notin Done
        /\ pc[r] \notin Done /\ pc[r] \notin Open /\ j \in Jobs
    BY DEF TypeOK, Open, Flushing, Done
  <1>2. /\ \A p \in Requests : pc'[p] \in Done <=> pc[p] \in Done
        /\ \A p \in Requests \ {r} : pc'[p] \in Open <=> pc[p] \in Open
        /\ \A p \in Requests : pc[p] \in Done \/ pc[p] \in Open => p # r
    BY <1>1
  <1>3. TypeOK'
    BY <1>1 DEF TypeOK, Working
  <1>4. RegistryAgrees'
    <2>1. \A s \in Slugs : tags[s] # None => pc'[tags[s]] \in Done /\ s \in req'[tags[s]].found
      BY <1>1, <1>2 DEF RegistryAgrees, TypeOK
    <2>2. \A s \in Slugs : fresh[s] # None =>
             tags[s] = None /\ pc'[fresh[s]] \in Open /\ s \in req'[fresh[s]].found
      BY <1>1, <1>2 DEF RegistryAgrees, TypeOK
    <2> QED
      BY <2>1, <2>2 DEF RegistryAgrees
  <1>5. RowsInv'
    <2>1. FlushInv' /\ StoredInv' /\ ExclusiveInv'
      BY <1>1, <1>2 DEF RowsInv, FlushInv, StoredInv, ExclusiveInv
    <2>2. /\ \A p, o \in Requests : KeepsJob(p, o)' /\ o # r => p # r /\ KeepsJob(p, o)
          /\ \A p, o \in Requests : DropsJob(p, o)' /\ o # r => p # r /\ DropsJob(p, o)
          /\ ~KeepsJob(r, r)'
          /\ \A p \in Requests : pc'[p] = "cascade" => p # r /\ pc[p] = "cascade"
      BY <1>1 DEF KeepsJob, DropsJob
    <2>3. JobInv'
      BY <1>1, <2>2 DEF RowsInv, JobInv
    <2> QED
      BY <2>1, <2>3 DEF RowsInv
  <1>6. /\ \A p, o \in Requests : Overtook(p, o) => p # r
        /\ \A p, o \in Requests : Overtook(p, o) /\ o # r => Overtook(p, o)'
        /\ \A p \in Requests \ {r} : Behind(p) => Behind(p)'
    <2>1. \A p, o \in Requests : Overtook(p, o) => p # r
      BY <1>2 DEF Overtook
    <2>2. \A p, o \in Requests : Overtook(p, o) /\ o # r => Overtook(p, o)'
      BY <1>1, <1>2 DEF Overtook
    <2> QED
      BY <1>1, <2>1, <2>2 DEF Behind
  <1>7. LoadInv' /\ MissInv'
    <2>1. LoadInv'
      BY <1>1, <1>2, <1>6 DEF RaceInv, LoadInv
    <2>2. MissInv'
      BY <1>1, <1>6 DEF RaceInv, MissInv
    <2> QED
      BY <2>1, <2>2
  <1>8. InsertInv' /\ FoundInv'
    <2>1. \A p \in Requests : pc'[p] = "insert" => p # r
      BY <1>1
    <2>2. InsertInv'
      BY <1>1, <1>6, <2>1 DEF RaceInv, InsertInv, Slug
    <2>3. FoundInv'
      BY <1>1, <1>2 DEF RaceInv, FoundInv
    <2> QED
      BY <2>2, <2>3
  <1>9. BeforeInv' /\ LastInv'
    <2>1. BeforeInv'
      BY <1>1, <1>2 DEF RaceInv, BeforeInv
    <2>2. \A i \in Jobs : last[i] # None => last[i] # r /\ last[i] \in Requests
      BY <1>2 DEF RaceInv, LastInv, TypeOK
    <2>3. LastInv'
      BY <1>1, <2>2 DEF RaceInv, LastInv
    <2> QED
      BY <2>1, <2>3
  <1>10. ErrorInv'
    <2>1. \A p \in Requests : pc'[p] = "server_error" => p # r
      BY <1>1
    <2> QED
      BY <1>1, <1>6, <2>1 DEF RaceInv, ErrorInv, Slug
  <1>11. LastListWins'
    <2>1. \A i \in jobs : last[i] # None => last[i] # r /\ last[i] \in Requests
      BY <1>2 DEF RaceInv, LastInv, TypeOK
    <2>2. \A p, o \in Requests : Overtook(p, o) => req'[p] = req[p]
      BY <1>1, <1>6
    <2> QED
      BY <1>1, <1>6, <2>1, <2>2 DEF LastListWins
  <1> QED
    BY <1>3, <1>4, <1>5, <1>7, <1>8, <1>9, <1>10, <1>11 DEF RaceInv

\* The record a handler begins with.
LEMMA BeginType ==
    ASSUME TypeOK, NEW r \in Requests, NEW j \in jobs, NEW todo \in Seq(Slugs),
           NEW q, q = Begin(r, j, todo)
    PROVE  /\ q \in Locals /\ q.job = j /\ q.todo = todo /\ q.found = {} /\ q.loaded = map[j]
           /\ q.rows = {} /\ q.row = None /\ q.held = {}
           /\ q.before = {p \in Requests : pc[p] \in Done}
           /\ ToDelete(q) \cup ToInsert(q) = map[j]
PROOF
  <1>1. /\ q \in Locals /\ q.job = j /\ q.todo = todo /\ q.found = {} /\ q.loaded = map[j]
        /\ q.rows = {} /\ q.row = None /\ q.held = {}
        /\ q.before = {p \in Requests : pc[p] \in Done}
    BY DEF TypeOK, Begin, Locals
  <1> QED
    BY <1>1 DEF ToDelete, ToInsert

\* It begins with the flush, if there is nothing to look up.
LEMMA BeginFlushStep ==
    ASSUME IInv, NEW r \in Requests, pc[r] = "idle", NEW j \in jobs,
           NEW label \in {"write", "delete"}, Goto(r, label),
           NEW n \in AtRows(Begin(r, j, <<>>), map[j]), Put(r, n),
           UNCHANGED <<tags, fresh, jobs, map, last>>
    PROVE  IInv'
PROOF
  <1> DEFINE todo == <<>>
             q == Begin(r, j, todo)
  <1>1. todo \in Seq(Slugs)
    OBVIOUS
  <1>2. todo = <<>> /\ n \in AtRows(q, map[j])
    OBVIOUS
  <1> HIDE DEF todo
  <1>3. /\ q \in Locals /\ q.job = j /\ q.todo = todo /\ q.found = {} /\ q.loaded = map[j]
        /\ q.held = {} /\ q.before = {p \in Requests : pc[p] \in Done}
        /\ ToDelete(q) \cup ToInsert(q) = map[j]
    BY <1>1, BeginType DEF IInv
  <1> HIDE DEF q
  <1>4. /\ n \in Locals /\ n.job = q.job /\ n.todo = q.todo /\ n.found = q.found
        /\ n.loaded = q.loaded /\ n.before = q.before /\ n.held = {}
        /\ n.rows = ToDelete(n) \cup ToInsert(n)
        /\ RowsFit("write", n) /\ RowsFit("delete", n)
    BY <1>2, <1>3, FlushFits
  <1>5. /\ ToDelete(n) \subseteq n.held \cup n.rows /\ RowsFit(label, n)
        /\ pc' = [pc EXCEPT ![r] = label] /\ req' = [req EXCEPT ![r] = n]
    BY <1>4 DEF Goto, Put
  <1> QED
    BY <1>3, <1>4, <1>5, BeginStep

\* A replacement begins with its list, or with the flush.
LEMMA StartStep ==
    ASSUME IInv, NEW r \in Requests, NEW j \in Jobs, NEW list \in Payloads, Start(r, j, list)
    PROVE  IInv'
PROOF
  <1> DEFINE todo == [i \in 1 .. Len(list) |-> SlugOf[list[i]]]
             q == Begin(r, j, todo)
  <1>1. todo \in Seq(Slugs)
    BY NormalisedPayload
  <1>2. Loop(r, q) /\ pc[r] = "idle" /\ j \in jobs /\ UNCHANGED <<tags, fresh, jobs, map, last>>
    BY DEF Start
  <1> HIDE DEF todo
  <1>3. /\ q \in Locals /\ q.job = j /\ q.todo = todo /\ q.found = {} /\ q.loaded = map[j]
        /\ q.rows = {} /\ q.row = None /\ q.held = {}
        /\ q.before = {p \in Requests : pc[p] \in Done}
        /\ ToDelete(q) \cup ToInsert(q) = map[j]
    BY <1>1, <1>2, BeginType DEF IInv
  <1>4. CASE todo # <<>> /\ Put(r, q) /\ Goto(r, "select")
    <2> HIDE DEF q
    <2>1. RowsFit("select", q)
      BY <1>3 DEF RowsFit, Flushing
    <2>2. pc' = [pc EXCEPT ![r] = "select"] /\ req' = [req EXCEPT ![r] = q]
      BY <1>4 DEF Goto, Put
    <2> QED
      BY <1>2, <1>3, <1>4, <2>1, <2>2, BeginStep
  <1>5. CASE /\ todo = <<>> /\ Goto(r, "write")
             /\ \E n \in AtRows(q, ToDelete(q) \cup ToInsert(q)) : Put(r, n)
    BY <1>2, <1>3, <1>5, BeginFlushStep
  <1> QED
    BY <1>2, <1>3, <1>4, <1>5 DEF Loop

\* A deletion begins with the rows it has loaded.
LEMMA DeleteGetJobStep ==
    ASSUME IInv, NEW r \in Requests, NEW j \in Jobs, DeleteGetJob(r, j)
    PROVE  IInv'
PROOF
  BY BeginFlushStep DEF DeleteGetJob

\* Nothing happens.
LEMMA StutterStep ==
    ASSUME IInv, UNCHANGED vars
    PROVE  IInv'
PROOF
  <1> USE DEF vars, IInv
  <1>1. TypeOK' /\ RegistryAgrees'
    BY DEF TypeOK, RegistryAgrees
  <1>2. RowsInv'
    BY DEF RowsInv, FlushInv, StoredInv, ExclusiveInv, JobInv, KeepsJob, DropsJob
  <1>3. RaceInv' /\ LastListWins'
    BY DEF RaceInv, LoadInv, MissInv, InsertInv, FoundInv, BeforeInv, LastInv, ErrorInv,
           LastListWins, Behind, Overtook, Slug
  <1> QED
    BY <1>1, <1>2, <1>3

\* Every step keeps the invariant.
LEMMA StepIInv == IInv /\ [Next]_vars => IInv'
PROOF
  <1> SUFFICES ASSUME IInv, [Next]_vars PROVE IInv'
    OBVIOUS
  <1>1. CASE UNCHANGED vars
    BY <1>1, StutterStep
  <1>2. ASSUME NEW r \in Requests, Receive(r) PROVE IInv'
    BY <1>2, StartStep, DeleteGetJobStep DEF Receive, TagAssumption
  <1>3. ASSUME NEW r \in Requests, Handle(r) PROVE IInv'
    <2>1. CASE Select(r) \/ Insert(r)
      BY <2>1, SelectStep, InsertStep
    <2>2. CASE DeleteRow(r) \/ InsertRow(r) \/ CheckJob(r)
      BY <2>2, DeleteRowStep, InsertRowStep, CheckJobStep
    <2>3. CASE Commit(r)
      BY <2>3, CommitStep
    <2>4. CASE Reload(r)
      BY <2>4, EndStep DEF Reload
    <2>5. CASE DeleteJob(r) \/ CascadeRow(r) \/ CommitDelete(r)
      BY <2>5, DeleteJobStep, CascadeRowStep, CommitDeleteStep
    <2> QED
      BY <1>3, <2>1, <2>2, <2>3, <2>4, <2>5 DEF Handle
  <1>4. ASSUME NEW r \in Requests, Deadlock(r) PROVE IInv'
    BY <1>4, DeadlockStep
  <1>5. ASSUME NEW r \in Requests, Crash(r) PROVE IInv'
    BY <1>5, CrashStep
  <1> QED
    BY <1>1, <1>2, <1>3, <1>4, <1>5 DEF Next

\* The invariant holds in every state.
THEOREM Invariant == Spec => []IInv
PROOF
  BY InitIInv, StepIInv, PTL DEF Spec

\* Every variable keeps its type.
THEOREM TypeCorrect == Spec => []TypeOK
PROOF
  <1>1. IInv => TypeOK
    BY DEF IInv
  <1> QED
    BY <1>1, Invariant, PTL

\* No failed request leaves a tag behind, and jobs have only tags that exist.
THEOREM RegistryIsConsistent == Spec => []RegistryAgrees
PROOF
  <1>1. IInv => RegistryAgrees
    BY DEF IInv
  <1> QED
    BY <1>1, Invariant, PTL

\* A job has the tags of its last writer, unless two writers overlapped.
THEOREM LastListStands == Spec => []LastListWins
PROOF
  <1>1. IInv => LastListWins
    BY DEF IInv
  <1> QED
    BY <1>1, Invariant, PTL

\* Whoever is waited for has something others wait for: a new tag, rows of a job, or the
\* job itself.
LEMMA WaitedForHas ==
    ASSUME IInv, NEW r \in Requests, NEW q \in WaitsFor(r)
    PROVE  /\ q \in Requests /\ q # r /\ pc[q] \in Open
           /\ pc[r] = "insert" => \E s \in Slugs : fresh[s] = q
           /\ pc[r] # "insert" => /\ pc[q] \in Flushing /\ req[q].job = req[r].job
                                  /\ req[q].held # {} \/ pc[q] = "cascade"
PROOF
  <1>1. Blocks(q, r) /\ q \in Requests /\ q # r
    BY DEF WaitsFor
  <1>2. CASE pc[r] = "insert"
    <2>1. Slug(r) \in Slugs /\ fresh[Slug(r)] = q
      BY <1>1, <1>2, SlugType DEF IInv, Blocks
    <2> QED
      BY <1>1, <1>2, <2>1 DEF IInv, RegistryAgrees, TypeOK
  <1>3. CASE Holds(q, r, req[r].row)
    <2>1. pc[q] \in Open /\ req[q].held # {} /\ req[q].job = req[r].job
      BY <1>3 DEF Holds
    <2>2. pc[q] \notin {"select", "insert"}
      BY <1>1, <2>1 DEF IInv, RowsInv, FlushInv, RowsFit
    <2>3. pc[r] # "insert" \/ pc[r] = "insert"
      OBVIOUS
    <2> QED
      BY <1>1, <1>2, <2>1, <2>2 DEF Open
  <1>4. CASE DropsJob(q, r) \/ KeepsJob(q, r)
    BY <1>1, <1>2, <1>4 DEF DropsJob, KeepsJob, Open, Flushing
  <1> QED
    BY <1>1, <1>2, <1>3, <1>4 DEF Blocks

\* Who is on a cycle of waits is waited for.
LEMMA CyclesAreWaitedFor ==
    ASSUME NEW r \in Requests, InCycle(r)
    PROVE  \E q \in Requests \ {r} : r \in WaitsFor(q)
PROOF
  <1> SUFFICES ASSUME \A q \in Requests \ {r} : r \notin WaitsFor(q) PROVE FALSE
    OBVIOUS
  <1> DEFINE S == Requests \ {r}
  <1>1. /\ S \in SUBSET Requests /\ r \notin S /\ WaitsFor(r) \subseteq S
        /\ \A q \in S : WaitsFor(q) \subseteq S
    BY DEF WaitsFor
  <1> HIDE DEF S
  <1> QED
    BY <1>1 DEF InCycle

\* On a cycle of waits those who write the rows of a job are waited for by others who do,
\* since whoever flushes waits only for others who flush.
LEMMA FlushingCycle ==
    ASSUME IInv, NEW r \in Requests, InCycle(r), pc[r] # "insert"
    PROVE  \E q \in Requests \ {r} : r \in WaitsFor(q) /\ pc[q] # "insert"
PROOF
  <1> SUFFICES ASSUME \A q \in Requests \ {r} : r \in WaitsFor(q) => pc[q] = "insert" PROVE FALSE
    OBVIOUS
  <1> DEFINE S == {q \in Requests \ {r} : pc[q] \in Flushing}
  <1>1. WaitsFor(r) \subseteq S
    BY WaitedForHas DEF WaitsFor
  <1>2. ASSUME NEW q \in S PROVE WaitsFor(q) \subseteq S
    <2>1. q \in Requests \ {r} /\ pc[q] # "insert"
      BY DEF Flushing
    <2>2. r \notin WaitsFor(q)
      BY <2>1
    <2> QED
      BY <2>1, <2>2, WaitedForHas
  <1>3. S \in SUBSET Requests /\ r \notin S
    OBVIOUS
  <1> HIDE DEF S
  <1> QED
    BY <1>1, <1>2, <1>3 DEF InCycle

\* Replacing tags, or deleting a job, fails only for a rival that committed meanwhile;
\* and a deadlock is of handlers that want two new tags, or that write rows of one job.
THEOREM FailuresAreRaces == Spec => []FailsOnlyIfRaced
PROOF
  <1>1. IInv => FailsOnlyIfRaced
    <2> SUFFICES ASSUME IInv, NEW r \in Requests
                 PROVE  /\ pc[r] = "server_error" =>
                             \E q \in Requests :
                                 /\ Overtook(q, r)
                                 /\ \/ req[q].job = req[r].job
                                    \/ req[r].todo # <<>> /\ tags[Slug(r)] = q
                        /\ InCycle(r) =>
                             \/ pc[r] = "insert" /\ \E s \in Slugs : fresh[s] = r
                             \/ /\ pc[r] \in Flushing
                                /\ req[r].held # {} \/ pc[r] = "cascade"
                                /\ \E q \in Requests \ {r} :
                                      pc[q] \in Flushing /\ req[q].job = req[r].job
      BY DEF FailsOnlyIfRaced
    <2>1. ASSUME pc[r] = "server_error"
          PROVE  \E q \in Requests :
                     /\ Overtook(q, r)
                     /\ req[q].job = req[r].job \/ (req[r].todo # <<>> /\ tags[Slug(r)] = q)
      BY <2>1 DEF IInv, RaceInv, ErrorInv, Behind
    <2>2. CASE InCycle(r) /\ pc[r] = "insert"
      <3>1. PICK q \in Requests \ {r} : r \in WaitsFor(q)
        BY <2>2, CyclesAreWaitedFor
      <3>2. pc[q] = "insert" \/ pc[r] \in Flushing
        BY <3>1, WaitedForHas
      <3> QED
        BY <2>1, <2>2, <3>1, <3>2, WaitedForHas DEF Flushing
    <2>3. CASE InCycle(r) /\ pc[r] # "insert"
      <3>1. PICK q \in Requests \ {r} : r \in WaitsFor(q) /\ pc[q] # "insert"
        BY <2>3, FlushingCycle
      <3>2. pc[q] \in Flushing
        BY <3>1, WaitersAreOpen DEF Flushing
      <3> QED
        BY <2>1, <2>3, <3>1, <3>2, WaitedForHas
    <2> QED
      BY <2>1, <2>2, <2>3
  <1> QED
    BY <1>1, Invariant, PTL
-----------------------------------------------------------------------------
(* Nobody is stuck. *)

\* Every handler in S waits, and for handlers in S only.
Stuck(S) == \A q \in S : WaitsFor(q) # {} /\ WaitsFor(q) \subseteq S

\* Of the sets of stuck handlers a smallest one is a cycle: who is in it waits, in the
\* end, for all others and for itself.
LEMMA SmallestIsCycle ==
    ASSUME NEW S \in SUBSET Requests, Stuck(S),
           \A T \in SUBSET S : T # {} /\ Stuck(T) => T = S
    PROVE  \A r \in S : InCycle(r)
PROOF
  <1> SUFFICES ASSUME NEW r \in S, NEW R \in SUBSET Requests, WaitsFor(r) \subseteq R,
                      \A q \in R : WaitsFor(q) \subseteq R
               PROVE  r \in R
    BY DEF InCycle
  <1> DEFINE T == S \cap R
  <1>1. T \in SUBSET S /\ T # {} /\ Stuck(T)
    BY DEF Stuck
  <1>2. T = S
    BY <1>1
  <1> QED
    BY <1>2

\* A finite set of stuck handlers has a cycle in it.
LEMMA StuckHasCycle ==
    ASSUME IsFiniteSet(Requests), NEW W \in SUBSET Requests, W # {}, Stuck(W)
    PROVE  \E r \in W : InCycle(r)
PROOF
  <1> DEFINE Sets == {S \in SUBSET W : S # {} /\ Stuck(S)}
  <1>1. IsWellFoundedOn(StrictSubsetOrdering(W), SUBSET W)
    <2>1. IsFiniteSet(W)
      BY FS_Subset
    <2>2. FiniteSubsetsOf(W) = SUBSET W
      BY <2>1, FS_FiniteSubsetsOfFinite
    <2>3. IsWellFoundedOn(StrictSubsetOrdering(W), FiniteSubsetsOf(W))
      BY FS_StrictSubsetOrderingWellFounded
    <2> QED
      BY <2>2, <2>3
  <1>2. Sets \subseteq SUBSET W /\ Sets # {}
    OBVIOUS
  <1>3. PICK S \in Sets : \A T \in Sets : ~(<<T, S>> \in StrictSubsetOrdering(W))
    <2> HIDE DEF Sets
    <2> QED
      BY <1>1, <1>2, WFMin
  <1>4. \A T \in SUBSET S : T # {} /\ Stuck(T) => T = S
    BY <1>3 DEF StrictSubsetOrdering
  <1>5. \A r \in S : InCycle(r)
    BY <1>3, <1>4, SmallestIsCycle
  <1> QED
    BY <1>3, <1>5

\* Of the handlers at work, if there are finitely many, one can always go on, or the
\* deadlock detector can abort it.
THEOREM NobodyIsStuck ==
    ASSUME IsFiniteSet(Requests)
    PROVE  Spec => []SomeoneCanGoOn
PROOF
  <1>1. IInv => SomeoneCanGoOn
    <2> SUFFICES ASSUME IInv, NEW r \in Requests, pc[r] \in Working,
                        \A q \in Requests : pc[q] \in Working => WaitsFor(q) # {}
                 PROVE  \E q \in Requests : pc[q] \in Working /\ InCycle(q)
      BY DEF SomeoneCanGoOn
    <2> DEFINE W == {q \in Requests : pc[q] \in Working}
    <2>1. Stuck(W)
      BY WaitedForHas DEF Stuck, Working
    <2>2. \E q \in W : InCycle(q)
      <3> HIDE DEF W
      <3>1. W # {} /\ W \in SUBSET Requests
        BY DEF W
      <3> QED
        BY <2>1, <3>1, StuckHasCycle
    <2> QED
      BY <2>2
  <1> QED
    BY <1>1, Invariant, PTL
-----------------------------------------------------------------------------
(* Refinement of TagMerge *)

\* The list that is left and the tags that are found are together what they were.
LEMMA HeadAndTail ==
    ASSUME NEW s \in Seq(Slugs), s # <<>>
    PROVE  {s[i] : i \in DOMAIN s} = {Head(s)} \cup {Tail(s)[i] : i \in DOMAIN Tail(s)}
PROOF
  <1>1. /\ Len(s) \in Nat \ {0} /\ DOMAIN s = 1 .. Len(s) /\ Head(s) = s[1]
        /\ DOMAIN Tail(s) = 1 .. Len(s) - 1
        /\ \A i \in 1 .. Len(s) - 1 : Tail(s)[i] = s[i + 1]
    OBVIOUS
  <1>2. ASSUME NEW i \in DOMAIN s
        PROVE  s[i] \in {Head(s)} \cup {Tail(s)[k] : k \in DOMAIN Tail(s)}
    <2>1. CASE i = 1
      BY <1>1, <2>1
    <2>2. CASE i # 1
      <3>1. i - 1 \in DOMAIN Tail(s) /\ Tail(s)[i - 1] = s[i]
        BY <1>1, <1>2, <2>2
      <3> QED
        BY <3>1
    <2> QED
      BY <2>1, <2>2
  <1>3. ASSUME NEW i \in DOMAIN Tail(s) PROVE \E k \in DOMAIN s : Tail(s)[i] = s[k]
    <2>1. i + 1 \in DOMAIN s /\ Tail(s)[i] = s[i + 1]
      BY <1>1, <1>3
    <2> QED
      BY <2>1
  <1>4. \E k \in DOMAIN s : Head(s) = s[k]
    BY <1>1
  <1> QED
    BY <1>2, <1>3, <1>4

\* Initially nothing is registered and nobody has loaded anything.
LEMMA MergeInit == Init => Merge!Init
PROOF
  BY DEF Init, Merge!Init, Open, Flushing

\* What a handler has loaded is among its variables.
LEMMA SameLoaded ==
    ASSUME NEW q \in Requests, req'[q] = req[q]
    PROVE  Loaded(q)' = Loaded(q)
PROOF
  BY Zenon DEF Loaded

\* A step within a transaction is not seen.
LEMMA NotSeen ==
    ASSUME UNCHANGED <<tags, map, jobs>>,
           \A q \in Requests : /\ pc'[q] = "idle" <=> pc[q] = "idle"
                               /\ pc'[q] \in Open <=> pc[q] \in Open
                               /\ pc[q] \in Open => Loaded(q)' = Loaded(q)
    PROVE  UNCHANGED Merge!vars
PROOF
  BY DEF Merge!vars

\* So is one that moves on with the job it has loaded and the tags it wants.
LEMMA MovesUnseen ==
    ASSUME TypeOK, NEW r \in Requests, pc[r] \in Open,
           NEW label \in Open, pc' = [pc EXCEPT ![r] = label],
           NEW n, req' = [req EXCEPT ![r] = n], n.job = req[r].job, n.loaded = req[r].loaded,
           n.found \cup {n.todo[i] : i \in DOMAIN n.todo}
               = req[r].found \cup {req[r].todo[i] : i \in DOMAIN req[r].todo},
           UNCHANGED <<tags, map, jobs>>
    PROVE  UNCHANGED Merge!vars
PROOF
  <1>1. /\ \A q \in Requests \ {r} : pc'[q] = pc[q] /\ req'[q] = req[q]
        /\ pc'[r] = label /\ req'[r] = n /\ label # "idle" /\ pc[r] # "idle"
    BY DEF TypeOK, Open, Flushing
  <1>2. Loaded(r)' = Loaded(r)
    BY <1>1 DEF Loaded
  <1>3. \A q \in Requests : Loaded(q)' = Loaded(q)
    BY <1>1, <1>2, SameLoaded
  <1> QED
    BY <1>1, <1>3, NotSeen

\* So is the end of a handler that has committed.
LEMMA EndUnseen ==
    ASSUME TypeOK, NEW r \in Requests, pc[r] = "reload",
           NEW reply \in {"ok", "lost"}, Goto(r, reply), UNCHANGED <<tags, map, jobs, req>>
    PROVE  UNCHANGED Merge!vars
PROOF
  <1>1. /\ pc'[r] = reply /\ \A q \in Requests \ {r} : pc'[q] = pc[q]
        /\ \A q \in Requests : Loaded(q)' = Loaded(q)
    BY DEF Goto, Loaded, TypeOK
  <1> QED
    BY <1>1, NotSeen DEF Open, Flushing

\* An error or a crash before the COMMIT leaves no trace.
LEMMA RollsBack ==
    ASSUME TypeOK, NEW r \in Requests, pc[r] \in Open,
           NEW reply, reply \notin Open \cup {"idle"}, Goto(r, reply),
           UNCHANGED <<tags, map, jobs>>,
           \A q \in Requests \ {r} : req'[q] = req[q]
    PROVE  Merge!GiveUp(r)
PROOF
  <1>1. /\ pc'[r] = reply /\ pc[r] # "idle"
        /\ \A q \in Requests \ {r} : pc'[q] = pc[q] /\ Loaded(q)' = Loaded(q)
    BY SameLoaded DEF TypeOK, Goto, Open, Flushing
  <1> QED
    BY <1>1 DEF Merge!GiveUp, Merge!Finish

\* So do failures of all kinds.
LEMMA FailsUnseen ==
    ASSUME TypeOK, NEW r \in Requests, pc[r] \in Open,
           Fail(r, "server_error") \/ Die(r, "deadlock") \/ Die(r, "crashed")
    PROVE  Merge!GiveUp(r)
PROOF
  <1>1. UNCHANGED <<tags, map, jobs>> /\ \A q \in Requests \ {r} : req'[q] = req[q]
    BY DEF Fail, Die, Rollback, TypeOK
  <1>2. PICK reply \in {"server_error", "deadlock", "crashed"} : Goto(r, reply)
    BY DEF Fail, Die
  <1>3. reply \notin Open \cup {"idle"}
    BY DEF Open, Flushing
  <1> QED
    BY <1>1, <1>2, <1>3, RollsBack

\* Dealing with a tag moves it from the list to those found.
LEMMA TakeUnseen ==
    ASSUME TypeOK, NEW r \in Requests, pc[r] \in {"select", "insert"}, Take(r),
           UNCHANGED <<tags, map, jobs>>
    PROVE  UNCHANGED Merge!vars
PROOF
  <1> DEFINE q == [req[r] EXCEPT !.todo = Tail(@), !.found = @ \cup {Slug(r)}]
  <1>1. /\ req[r] \in Locals /\ req[r].todo \in Seq(Slugs) /\ req[r].todo # <<>> /\ pc[r] \in Open
        /\ Slug(r) = Head(req[r].todo) /\ Slug(r) \in Slugs /\ Tail(req[r].todo) \in Seq(Slugs)
    BY SlugType DEF TypeOK, Locals, Open, Slug
  <1>2. /\ q \in Locals /\ q.job = req[r].job /\ q.todo = Tail(req[r].todo)
        /\ q.found = req[r].found \cup {Slug(r)} /\ q.loaded = req[r].loaded
    BY <1>1 DEF Locals
  <1>3. Loop(r, q)
    BY DEF Take
  <1> HIDE DEF q
  <1>4. q.found \cup {q.todo[i] : i \in DOMAIN q.todo}
            = req[r].found \cup {req[r].todo[i] : i \in DOMAIN req[r].todo}
    <2>1. {req[r].todo[i] : i \in DOMAIN req[r].todo}
              = {Head(req[r].todo)} \cup {Tail(req[r].todo)[i] : i \in DOMAIN Tail(req[r].todo)}
      BY <1>1, HeadAndTail
    <2> QED
      BY <1>1, <1>2, <2>1
  <1>5. PICK n \in Locals, label \in {"select", "write"} :
            /\ req' = [req EXCEPT ![r] = n] /\ pc' = [pc EXCEPT ![r] = label]
            /\ n.job = q.job /\ n.loaded = q.loaded /\ n.found = q.found /\ n.todo = q.todo
    <2>1. CASE q.todo # <<>> /\ Put(r, q) /\ Goto(r, "select")
      BY <1>2, <2>1 DEF Put, Goto
    <2>2. CASE /\ q.todo = <<>> /\ Goto(r, "write")
               /\ \E n \in AtRows(q, ToDelete(q) \cup ToInsert(q)) : Put(r, n)
      <3> DEFINE rows == ToDelete(q) \cup ToInsert(q)
      <3>1. PICK n \in AtRows(q, rows) : Put(r, n)
        BY <2>2
      <3>2. rows \in SUBSET Slugs
        BY <1>2 DEF Locals, ToDelete, ToInsert
      <3> HIDE DEF rows
      <3>3. /\ n \in Locals /\ n.job = q.job /\ n.loaded = q.loaded
            /\ n.found = q.found /\ n.todo = q.todo
        BY <1>2, <3>2, AtRowsType
      <3> QED
        BY <2>2, <3>1, <3>3 DEF Put, Goto
    <2> QED
      BY <1>3, <2>1, <2>2 DEF Loop
  <1>6. /\ n.found \cup {n.todo[i] : i \in DOMAIN n.todo}
               = req[r].found \cup {req[r].todo[i] : i \in DOMAIN req[r].todo}
        /\ n.job = req[r].job /\ n.loaded = req[r].loaded /\ label \in Open
    BY <1>2, <1>4, <1>5 DEF Open, Flushing
  <1> QED
    BY <1>1, <1>5, <1>6, MovesUnseen

\* A step of the flush.
LEMMA FlushUnseen ==
    ASSUME TypeOK, NEW r \in Requests, pc[r] \in Open,
           NEW label \in Open, pc' = [pc EXCEPT ![r] = label], UNCHANGED <<tags, map, jobs>>,
           \/ \E held \in SUBSET Slugs : NextRow(r, held)
           \/ \E held \in SUBSET Slugs : Put(r, [req[r] EXCEPT !.held = held])
           \/ \E rows \in SUBSET Slugs : \E n \in AtRows(req[r], rows) : Put(r, n)
    PROVE  UNCHANGED Merge!vars
PROOF
  <1>1. req[r] \in Locals /\ req \in [Requests -> Locals \cup {None}]
    BY OpenType DEF TypeOK
  <1>2. PICK n \in Locals :
            /\ req' = [req EXCEPT ![r] = n] /\ n.job = req[r].job /\ n.loaded = req[r].loaded
            /\ n.found = req[r].found /\ n.todo = req[r].todo
    <2>1. CASE \E held \in SUBSET Slugs : NextRow(r, held)
      BY <1>1, <2>1, NextRowType
    <2>2. CASE \E held \in SUBSET Slugs : Put(r, [req[r] EXCEPT !.held = held])
      <3>1. PICK held \in SUBSET Slugs : Put(r, [req[r] EXCEPT !.held = held])
        BY <2>2
      <3> DEFINE q == [req[r] EXCEPT !.held = held]
      <3>2. /\ q \in Locals /\ q.job = req[r].job /\ q.loaded = req[r].loaded
            /\ q.found = req[r].found /\ q.todo = req[r].todo /\ req' = [req EXCEPT ![r] = q]
        BY <1>1, <3>1 DEF Locals, Put
      <3> HIDE DEF q
      <3> QED
        BY <3>2
    <2>3. CASE \E rows \in SUBSET Slugs : \E n \in AtRows(req[r], rows) : Put(r, n)
      <3>1. PICK rows \in SUBSET Slugs : \E n \in AtRows(req[r], rows) : Put(r, n)
        BY <2>3
      <3>2. PICK n \in AtRows(req[r], rows) : Put(r, n)
        BY <3>1
      <3>3. /\ n \in Locals /\ n.job = req[r].job /\ n.loaded = req[r].loaded
            /\ n.found = req[r].found /\ n.todo = req[r].todo
        BY <1>1, AtRowsType
      <3> QED
        BY <3>2, <3>3 DEF Put
    <2> QED
      BY <2>1, <2>2, <2>3
  <1>3. n.found \cup {n.todo[i] : i \in DOMAIN n.todo}
            = req[r].found \cup {req[r].todo[i] : i \in DOMAIN req[r].todo}
    BY <1>2
  <1> QED
    BY <1>2, <1>3, MovesUnseen

\* A handler begins with the job's tags and a payload.
LEMMA BeginLoads ==
    ASSUME TypeOK, NEW r \in Requests, pc[r] = "idle", NEW j \in jobs, NEW todo \in Seq(Slugs),
           NEW label \in Open, pc' = [pc EXCEPT ![r] = label],
           NEW n \in Locals, req' = [req EXCEPT ![r] = n],
           n.job = j, n.loaded = map[j], n.found = {}, n.todo = todo,
           UNCHANGED <<tags, map, jobs>>
    PROVE  \E wanted \in SUBSET Slugs : Merge!Load(r, j, wanted)
PROOF
  <1> DEFINE wanted == {todo[i] : i \in DOMAIN todo}
  <1>1. wanted \in SUBSET Slugs
    OBVIOUS
  <1>2. /\ pc'[r] = label /\ label # "idle" /\ req'[r] = n
        /\ \A q \in Requests \ {r} : pc'[q] = pc[q] /\ req'[q] = req[q]
    BY DEF TypeOK, Open, Flushing
  <1>3. Loaded(r)' = [job |-> j, tags |-> map[j], wanted |-> wanted]
    <2>1. req'[r].job = j /\ req'[r].loaded = map[j] /\ req'[r].found = {} /\ req'[r].todo = todo
      BY <1>2
    <2> QED
      BY <2>1 DEF Loaded
  <1>4. \A q \in Requests \ {r} : Loaded(q)' = Loaded(q)
    BY <1>2, SameLoaded
  <1> HIDE DEF wanted
  <1>5. Merge!Load(r, j, wanted)
    BY <1>2, <1>3, <1>4 DEF Merge!Load, Open, Flushing
  <1> QED
    BY <1>1, <1>5

\* A request that begins loads the tags of its job.
LEMMA ReceiveLoads ==
    ASSUME TypeOK, NEW r \in Requests, NEW j \in Jobs,
           DeleteGetJob(r, j) \/ \E list \in Payloads : Start(r, j, list)
    PROVE  \E wanted \in SUBSET Slugs : Merge!Load(r, j, wanted)
PROOF
  <1>1. ASSUME NEW todo \in Seq(Slugs), NEW q, q = Begin(r, j, todo), j \in jobs,
               NEW rows \in SUBSET Slugs, NEW n, n = q \/ n \in AtRows(q, rows)
        PROVE  /\ n \in Locals /\ n.job = j /\ n.loaded = map[j] /\ n.found = {} /\ n.todo = todo
    <2>1. q \in Locals /\ q.job = j /\ q.loaded = map[j] /\ q.found = {} /\ q.todo = todo
      BY <1>1, BeginType
    <2> QED
      BY <1>1, <2>1, AtRowsType
  <1>2. CASE DeleteGetJob(r, j)
    <2> DEFINE todo == <<>>
               q == Begin(r, j, todo)
    <2>1. todo \in Seq(Slugs)
      OBVIOUS
    <2>2. PICK n \in AtRows(q, map[j]) : Put(r, n)
      BY <1>2 DEF DeleteGetJob
    <2>3. /\ pc[r] = "idle" /\ j \in jobs /\ pc' = [pc EXCEPT ![r] = "delete"] /\ "delete" \in Open
          /\ map[j] \in SUBSET Slugs /\ UNCHANGED <<tags, map, jobs>>
      BY <1>2 DEF DeleteGetJob, Goto, Open, Flushing, TypeOK
    <2> HIDE DEF todo
    <2>4. n \in Locals /\ n.job = j /\ n.loaded = map[j] /\ n.found = {} /\ n.todo = todo
      BY <1>1, <2>1, <2>3
    <2> HIDE DEF q
    <2> QED
      BY <2>1, <2>2, <2>3, <2>4, BeginLoads DEF Put
  <1>3. ASSUME NEW list \in Payloads, Start(r, j, list)
        PROVE  \E wanted \in SUBSET Slugs : Merge!Load(r, j, wanted)
    <2> DEFINE todo == [i \in 1 .. Len(list) |-> SlugOf[list[i]]]
               q == Begin(r, j, todo)
               rows == ToDelete(q) \cup ToInsert(q)
    <2>1. todo \in Seq(Slugs)
      BY NormalisedPayload
    <2>2. Loop(r, q) /\ pc[r] = "idle" /\ j \in jobs /\ UNCHANGED <<tags, map, jobs>>
      BY <1>3 DEF Start
    <2> HIDE DEF todo
    <2>3. rows \in SUBSET Slugs
      BY <2>1, <2>2, BeginType DEF TypeOK
    <2>4. q = Begin(r, j, todo)
      OBVIOUS
    <2>5. \/ Put(r, q) /\ Goto(r, "select")
          \/ Goto(r, "write") /\ \E n \in AtRows(q, rows) : Put(r, n)
      BY <2>2 DEF Loop
    <2> HIDE DEF rows, q
    <2>6. "select" \in Open /\ "write" \in Open
      BY DEF Open, Flushing
    <2>7. ASSUME NEW n, n = q \/ n \in AtRows(q, rows), Put(r, n), NEW label \in Open, Goto(r, label)
          PROVE  \E wanted \in SUBSET Slugs : Merge!Load(r, j, wanted)
      <3>1. n \in Locals /\ n.job = j /\ n.loaded = map[j] /\ n.found = {} /\ n.todo = todo
        BY <1>1, <2>1, <2>2, <2>3, <2>4, <2>7
      <3> QED
        BY <2>1, <2>2, <2>7, <3>1, BeginLoads DEF Put, Goto
    <2> QED
      BY <2>5, <2>6, <2>7
  <1> QED
    BY <1>2, <1>3

\* COMMIT is the merge: whatever was to be deleted is still there, and what is to be
\* inserted is not.
LEMMA CommitReplaces ==
    ASSUME IInv, NEW r \in Requests, Commit(r)
    PROVE  Merge!Replace(r)
PROOF
  <1> DEFINE q == req[r]
  <1>1. /\ pc[r] = "write" /\ pc[r] \in Open /\ q.row = None
        /\ map' = [map EXCEPT ![q.job] = (@ \ ToDelete(q)) \cup ToInsert(q)]
        /\ tags' = [s \in Slugs |-> IF fresh[s] = r THEN r ELSE tags[s]]
        /\ Goto(r, "reload")
        /\ UNCHANGED <<jobs, req>>
    BY DEF Commit, Open, Flushing
  <1>2. /\ q \in Locals /\ q.job \in Jobs /\ q.found \in SUBSET Slugs /\ q.rows \in SUBSET Slugs
        /\ map[q.job] \in SUBSET Slugs
    BY <1>1, OpenType DEF IInv
  <1>3. RowsFit("write", q)
    BY <1>1 DEF IInv, RowsInv, FlushInv
  <1>4. q.rows = {} /\ q.todo = <<>>
    BY <1>1, <1>2, <1>3 DEF RowsFit, Flushing
  <1>5. ToDelete(q) \subseteq q.held /\ ToInsert(q) \subseteq q.held
    BY <1>3, <1>4 DEF RowsFit
  <1>6. \A s \in q.held : s \in q.found <=> s \notin map[q.job]
    BY <1>1 DEF IInv, RowsInv, StoredInv
  <1>7. ToDelete(q) \subseteq map[q.job] /\ ToInsert(q) \cap map[q.job] = {}
    BY <1>5, <1>6 DEF ToDelete, ToInsert
  <1>8. ToInsert(q) # {} => q.job \in jobs
    <2>1. ToInsert(q) # {} => Refers(pc[r], q)
      BY <1>1, <1>5 DEF Refers, ToInsert
    <2> QED
      BY <2>1, ReferrerIsSafe
  <1>9. Loaded(r) = [job |-> q.job, tags |-> q.loaded, wanted |-> q.found]
    <2>1. {q.todo[i] : i \in DOMAIN q.todo} = {}
      BY <1>4
    <2> QED
      BY <2>1 DEF Loaded
  <1>10. {s \in Slugs : tags'[s] # None} = {s \in Slugs : tags[s] # None} \cup q.found
    <2>1. \A s \in Slugs : fresh[s] = r => s \in q.found
      BY DEF IInv, RegistryAgrees, TypeOK
    <2>2. \A s \in q.found : tags[s] # None \/ fresh[s] = r
      BY <1>1 DEF IInv, RaceInv, FoundInv
    <2> QED
      BY <1>1, <1>2, <2>1, <2>2
  <1>11. /\ pc'[r] = "reload" /\ \A p \in Requests \ {r} : pc'[p] = pc[p]
         /\ \A p \in Requests : Loaded(p)' = Loaded(p)
    BY <1>1 DEF Goto, Loaded, IInv, TypeOK
  <1>12. Merge!Finish(r)
    BY <1>1, <1>11 DEF Merge!Finish, Open, Flushing
  <1> HIDE DEF q
  <1>13. Merge!Replace(r) <=>
            LET off == q.loaded \ q.found
                on == q.found \ q.loaded
            IN
            /\ Merge!Finish(r)
            /\ off \subseteq map[q.job] /\ on \cap map[q.job] = {} /\ (on # {} => q.job \in jobs)
            /\ map' = [map EXCEPT ![q.job] = (@ \ off) \cup on]
            /\ {s \in Slugs : tags[s] # None}' = {s \in Slugs : tags[s] # None} \cup q.found
            /\ UNCHANGED jobs
    <2>1. pc[r] \in Open
      BY <1>1
    <2> QED
      BY <1>9, <2>1 DEF Merge!Replace
  <1> QED
    BY <1>1, <1>7, <1>8, <1>10, <1>12, <1>13 DEF ToDelete, ToInsert

\* COMMIT of a deletion is the deletion.
LEMMA CommitDeletes ==
    ASSUME IInv, NEW r \in Requests, CommitDelete(r)
    PROVE  Merge!Delete(r)
PROOF
  <1>1. /\ pc[r] = "cascade" /\ pc[r] \in Open /\ Goto(r, "ok")
        /\ jobs' = jobs \ {req[r].job} /\ UNCHANGED <<tags, req>>
    BY DEF CommitDelete, Open, Flushing
  <1>2. map' = [map EXCEPT ![req[r].job] = {}]
    BY CommitDeleteStep
  <1>3. req[r].loaded \subseteq map[req[r].job]
    <2>1. req[r].loaded \subseteq req[r].held /\ req[r].found = {}
      BY <1>1 DEF IInv, RowsInv, FlushInv, RowsFit
    <2> QED
      BY <1>1, <2>1 DEF IInv, RowsInv, StoredInv
  <1>4. /\ pc'[r] = "ok" /\ \A p \in Requests \ {r} : pc'[p] = pc[p]
        /\ \A p \in Requests : Loaded(p)' = Loaded(p)
    BY <1>1 DEF Goto, Loaded, IInv, TypeOK
  <1>5. Merge!Finish(r)
    BY <1>1, <1>4 DEF Merge!Finish, Open, Flushing
  <1> QED
    BY <1>1, <1>2, <1>3, <1>5 DEF Merge!Delete, Loaded

\* A step of a handler is a step of TagMerge or is not seen there.
LEMMA HandleRefines ==
    ASSUME IInv, NEW r \in Requests, Handle(r)
    PROVE  UNCHANGED Merge!vars \/ Merge!Next
PROOF
  <1> DEFINE seen == UNCHANGED Merge!vars \/ Merge!GiveUp(r)
  <1>1. TypeOK
    BY DEF IInv
  <1>2. \A label \in Flushing : label \in Open
    BY DEF Open
  <1>3. pc = [pc EXCEPT ![r] = pc[r]]
    BY <1>1 DEF TypeOK
  <1>4. ASSUME pc[r] \in Open
        PROVE  req[r].held \in SUBSET Slugs /\ map[req[r].job] \in SUBSET Slugs
               /\ req[r].row \in Slugs \cup {None}
    BY <1>1, <1>4, OpenType
  <1>5. CASE Select(r)
    <2>1. CASE Take(r)
      BY <1>1, <1>5, <2>1, TakeUnseen DEF Select
    <2>2. CASE Goto(r, "insert") /\ UNCHANGED req
      <3>1. /\ pc[r] \in Open /\ "insert" \in Open /\ pc' = [pc EXCEPT ![r] = "insert"]
            /\ UNCHANGED <<tags, map, jobs>> /\ req' = [req EXCEPT ![r] = req[r]]
        BY <1>1, <1>5, <2>2 DEF Select, Goto, Open, TypeOK
      <3> QED
        BY <1>1, <3>1, MovesUnseen
    <2> QED
      BY <1>5, <2>1, <2>2 DEF Select
  <1>6. CASE Insert(r)
    <2>1. CASE Fail(r, "server_error")
      BY <1>1, <1>6, <2>1, FailsUnseen DEF Insert, Open, Merge!Next
    <2>2. CASE Take(r) /\ UNCHANGED <<tags, jobs, map>>
      BY <1>1, <1>6, <2>2, TakeUnseen DEF Insert
    <2> QED
      BY <1>6, <2>1, <2>2 DEF Insert
  <1>7. CASE DeleteRow(r)
    <2> DEFINE held == req[r].held \cup ({req[r].row} \cap map[req[r].job])
    <2>1. pc[r] \in Open
      BY <1>7 DEF DeleteRow, Open, Flushing
    <2>2. CASE Fail(r, "server_error")
      BY <1>1, <2>1, <2>2, FailsUnseen DEF Merge!Next
    <2>3. CASE NextRow(r, held) /\ UNCHANGED <<tags, jobs, map, pc>>
      <3>1. held \in SUBSET Slugs
        BY <1>4, <2>1
      <3> HIDE DEF held
      <3>2. pc' = [pc EXCEPT ![r] = pc[r]]
        BY <1>3, <2>3
      <3> QED
        BY <1>1, <2>1, <2>3, <3>1, <3>2, FlushUnseen
    <2> QED
      BY <1>7, <2>2, <2>3 DEF DeleteRow
  <1>8. CASE InsertRow(r)
    <2> DEFINE held == req[r].held \cup {req[r].row}
    <2>1. pc[r] \in Open /\ "refer" \in Open
      BY <1>8 DEF InsertRow, Open, Flushing
    <2>2. CASE Fail(r, "server_error")
      BY <1>1, <2>1, <2>2, FailsUnseen DEF Merge!Next
    <2>3. CASE /\ Put(r, [req[r] EXCEPT !.held = @ \cup {req[r].row}]) /\ Goto(r, "refer")
               /\ UNCHANGED <<tags, jobs, map>>
      <3>1. held \in SUBSET Slugs
        <4>1. req[r] \in Locals
          BY <1>1, <2>1, OpenType
        <4> QED
          BY <1>8, <4>1 DEF InsertRow, ToInsert, Locals
      <3>2. Put(r, [req[r] EXCEPT !.held = held])
        BY <2>3
      <3> HIDE DEF held
      <3> QED
        BY <1>1, <2>1, <2>3, <3>1, <3>2, FlushUnseen DEF Goto
    <2> QED
      BY <1>8, <2>2, <2>3 DEF InsertRow
  <1>9. CASE CheckJob(r)
    <2>1. pc[r] \in Open /\ "write" \in Open
      BY <1>9 DEF CheckJob, Open, Flushing
    <2>2. CASE Fail(r, "server_error")
      BY <1>1, <2>1, <2>2, FailsUnseen DEF Merge!Next
    <2>3. CASE NextRow(r, req[r].held) /\ Goto(r, "write") /\ UNCHANGED <<tags, jobs, map>>
      BY <1>1, <1>4, <2>1, <2>3, FlushUnseen DEF Goto
    <2> QED
      BY <1>9, <2>2, <2>3 DEF CheckJob
  <1>10. CASE Commit(r) \/ CommitDelete(r)
    BY <1>10, CommitReplaces, CommitDeletes DEF Merge!Next
  <1>11. CASE Reload(r)
    BY <1>1, <1>11, EndUnseen DEF Reload
  <1>12. CASE DeleteJob(r)
    <2>1. pc[r] \in Open /\ "cascade" \in Open /\ "ok" \notin Open \cup {"idle"}
      BY <1>12 DEF DeleteJob, Open, Flushing
    <2>2. CASE Goto(r, "ok") /\ UNCHANGED req
      BY <1>1, <1>12, <2>1, <2>2, RollsBack DEF DeleteJob, Merge!Next
    <2>3. CASE /\ \E n \in AtRows(req[r], map[req[r].job] \ req[r].held) : Put(r, n)
               /\ Goto(r, "cascade") /\ UNCHANGED <<tags, jobs, map>>
      <3> DEFINE rows == map[req[r].job] \ req[r].held
      <3>1. rows \in SUBSET Slugs
        BY <1>4, <2>1
      <3>2. \E n \in AtRows(req[r], rows) : Put(r, n)
        BY <2>3
      <3> HIDE DEF rows
      <3> QED
        BY <1>1, <2>1, <2>3, <3>1, <3>2, FlushUnseen DEF Goto
    <2> QED
      BY <1>12, <2>2, <2>3 DEF DeleteJob
  <1>13. CASE CascadeRow(r)
    <2> DEFINE held == req[r].held \cup ({req[r].row} \cap map[req[r].job])
    <2>1. pc[r] \in Open /\ NextRow(r, held) /\ UNCHANGED <<tags, jobs, map, pc>>
      BY <1>13 DEF CascadeRow, Open, Flushing
    <2>2. held \in SUBSET Slugs
      BY <1>4, <2>1
    <2> HIDE DEF held
    <2>3. pc' = [pc EXCEPT ![r] = pc[r]]
      BY <1>3, <2>1
    <2> QED
      BY <1>1, <2>1, <2>2, <2>3, FlushUnseen
  <1> QED
    BY <1>5, <1>6, <1>7, <1>8, <1>9, <1>10, <1>11, <1>12, <1>13 DEF Handle

\* Every step is a step of TagMerge or is not seen there.
LEMMA MergeStep == IInv /\ [Next]_vars => UNCHANGED Merge!vars \/ Merge!Next
PROOF
  <1> SUFFICES ASSUME IInv, [Next]_vars PROVE UNCHANGED Merge!vars \/ Merge!Next
    OBVIOUS
  <1>1. TypeOK
    BY DEF IInv
  <1>2. ASSUME NEW r \in Requests, Receive(r) PROVE Merge!Next
    <2>1. PICK j \in Jobs : DeleteGetJob(r, j) \/ \E list \in Payloads : Start(r, j, list)
      BY <1>2 DEF Receive, TagAssumption
    <2>2. \E wanted \in SUBSET Slugs : Merge!Load(r, j, wanted)
      BY <1>1, <2>1, ReceiveLoads
    <2> QED
      BY <2>2 DEF Merge!Next
  <1>3. ASSUME NEW r \in Requests, Deadlock(r) PROVE Merge!Next
    <2>1. pc[r] \in Open
      BY <1>3, CyclesWait, WaitersAreOpen DEF Deadlock
    <2> QED
      BY <1>1, <1>3, <2>1, FailsUnseen DEF Deadlock, Merge!Next
  <1>4. ASSUME NEW r \in Requests, Crash(r) PROVE UNCHANGED Merge!vars \/ Merge!Next
    <2>1. CASE pc[r] \in Open /\ Die(r, "crashed")
      BY <1>1, <2>1, FailsUnseen DEF Merge!Next
    <2>2. CASE pc[r] = "reload" /\ Fail(r, "lost")
      BY <1>1, <2>2, EndUnseen DEF Fail, Rollback
    <2> QED
      BY <1>4, <2>1, <2>2 DEF Crash
  <1>5. CASE UNCHANGED vars
    <2>1. \A q \in Requests : Loaded(q)' = Loaded(q)
      BY <1>5 DEF vars, Loaded
    <2> QED
      BY <1>5, <2>1, NotSeen DEF vars
  <1> QED
    BY <1>2, <1>3, <1>4, <1>5, HandleRefines DEF Next

\* The handlers, some statements for each tag, implement TagMerge, where a replacement is
\* one step.
THEOREM Refinement == Spec => ImplementsTagMerge
PROOF
  <1>1. IInv /\ [Next]_vars => [UNCHANGED Merge!vars \/ Merge!Next]_(Merge!vars)
    BY MergeStep
  <1> QED
    BY <1>1, MergeInit, Invariant, PTL DEF Spec, ImplementsTagMerge, Merge!Spec
=============================================================================
