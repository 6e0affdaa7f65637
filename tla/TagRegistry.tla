---------------------------- MODULE TagRegistry -----------------------------
(***************************************************************************)
(* The registry of tags all jobs share, and the tags of each job:          *)
(* replace_job_tags and get_or_create_tags of app/domains/jobs/tags.py,    *)
(* one database statement per step, and the deletion of a job, which takes *)
(* its tags off it.  JobModeration takes a replacement as one step and     *)
(* asks what moderation makes of it; here several requests are inside it   *)
(* at once.                                                                *)
(*                                                                         *)
(* Three things of the libraries matter, and are modelled by what they do. *)
(* A statement that meets an uncommitted row of another transaction waits  *)
(* for it; PostgreSQL aborts a member of a cycle of such waits.  A rolled  *)
(* back SAVEPOINT takes the objects added in it out of SQLAlchemy's        *)
(* session.  And job.tags = tags is flushed as the difference from the     *)
(* collection the session has loaded, a DELETE or an INSERT for each row   *)
(* of job_tag_map, as the deletion of a job deletes the rows it has loaded.*)
(* The rows come in any order: that of the list, of a SELECT without ORDER *)
(* BY or of the unit of work's sets, which takes Job.tags or JobTag.jobs,  *)
(* the two relationships on this table, first.                             *)
(***************************************************************************)
EXTENDS Integers, Sequences, FiniteSets

CONSTANTS
    Jobs,          \* the jobs there at the start, with no tags yet
    Slugs,         \* normalised tags
    Spellings,     \* tags as a payload spells them
    SlugOf,        \* normalize_tag_slug
    Requests,      \* the requests ever received; bounds a behaviour
    JobsOf,        \* the jobs each request may be about
    MaxTags,       \* MAX_JOB_TAGS
    None           \* "no such row"

ASSUME TagAssumption ==
    /\ SlugOf \in [Spellings -> Slugs]
    /\ JobsOf \in [Requests -> SUBSET Jobs]
    /\ MaxTags \in Nat
    /\ None \notin Requests /\ None \notin Slugs

\* The tags of a payload, in the order given; of several spellings of one slug
\* the validator keeps the first.
Payloads ==
    {list \in UNION {[1 .. n -> Spellings] : n \in 0 .. MaxTags} :
        \A i, k \in DOMAIN list : i # k => SlugOf[list[i]] # SlugOf[list[k]]}

\* What a handler has: the job, the slugs it has still to look up, the tags it has
\* (its "seen" and its "tags"), job.tags as the session loaded it; the rows of
\* job_tag_map it has still to flush, the one it is at, and those it has inserted or
\* deleted.  "before", a history variable, is who had committed by then.
Locals == [job : Jobs, todo : Seq(Slugs), found : SUBSET Slugs, loaded : SUBSET Slugs,
           rows : SUBSET Slugs, row : Slugs \cup {None}, held : SUBSET Slugs,
           before : SUBSET Requests]

\* Where a handler is before its COMMIT.  select, insert: at a slug of its list.
\* write: at a row of the flush of job.tags, or at the COMMIT if no row is left;
\* refer: an inserted row awaits its check against table jobs.
\* delete: at a row of the deletion of a job, or at the job if no row is left;
\* cascade: the job is locked, and its remaining rows go, or COMMIT.
Flushing == {"write", "refer", "delete", "cascade"}

Open == {"select", "insert"} \cup Flushing

Done == {"reload", "ok", "lost"}

Working == Open \cup {"reload"}

\* "lost" is an exception or a crash after the COMMIT.
Replies == {"ok", "server_error", "deadlock", "crashed", "lost"}

VARIABLES
    tags,      \* job_tags: the request that inserted the committed row of a slug
    fresh,     \* job_tags: the request whose row of a slug is not committed yet
    jobs,      \* table jobs: those that are not deleted
    map,       \* job_tag_map: the slugs of each job, as committed
    pc,        \* where each request is
    req,       \* Locals of each request, kept after its answer
    last       \* history variable: the last request that wrote a job's tags

vars == <<tags, fresh, jobs, map, pc, req, last>>

Init ==
    /\ tags = [s \in Slugs |-> None]
    /\ fresh = [s \in Slugs |-> None]
    /\ jobs = Jobs
    /\ map = [j \in Jobs |-> {}]
    /\ pc = [r \in Requests |-> "idle"]
    /\ req = [r \in Requests |-> None]
    /\ last = [j \in Jobs |-> None]

Goto(r, label) == pc' = [pc EXCEPT ![r] = label]

\* A slip for the mutation runs: a failed handler's session stays open.
LeftOpen(r) == UNCHANGED <<tags, fresh, jobs, map, last>>

\* The transaction of r is rolled back: its rows are gone.
Rollback(r) ==
    /\ fresh' = [s \in Slugs |-> IF fresh[s] = r THEN None ELSE fresh[s]]
    /\ UNCHANGED <<tags, jobs, map, last>>

\* The handler ends in an error, and its session is closed.
Fail(r, reply) ==
    /\ Goto(r, reply)
    /\ Rollback(r)
    /\ UNCHANGED req

\* The handler's variables are gone as well.
Die(r, reply) ==
    /\ Goto(r, reply)
    /\ Rollback(r)
    /\ req' = [req EXCEPT ![r] = None]

Put(r, q) == req' = [req EXCEPT ![r] = q]

Slug(r) == Head(req[r].todo)

\* A slip for the mutation runs: job.tags.extend(tags).
DeletesNothing(q) == {}

\* The flush of job.tags = tags: the rows it deletes and the rows it inserts.  A
\* deletion has found no tags, and deletes all it has loaded.
ToDelete(q) == q.loaded \ q.found

ToInsert(q) == q.found \ q.loaded

\* q with these rows left to flush, at one of them.
AtRows(q, rows) ==
    {[q EXCEPT !.rows = rows, !.row = s] : s \in IF rows = {} THEN {None} ELSE rows}

\* r is done with the row it is at, and has those in held.
NextRow(r, held) ==
    LET q == req[r] IN
    \E n \in AtRows([q EXCEPT !.held = held], q.rows \ {q.row}) : Put(r, n)

\* The request that has inserted or deleted the row of r's job with this slug, and
\* has not committed.
Holds(q, r, s) == pc[q] \in Open /\ req[q].job = req[r].job /\ s \in req[q].held

\* q has a row that refers to the job of r, and so keeps the job.
KeepsJob(q, r) ==
    /\ pc[q] \in {"write", "refer"} /\ req[q].job = req[r].job
    /\ \E s \in req[q].held \cap req[q].found : pc[q] = "refer" => s # req[q].row

\* q has deleted the job of r, and has not committed.
DropsJob(q, r) == pc[q] = "cascade" /\ req[q].job = req[r].job

\* The statement of r meets a row q has written: a DELETE the row it deletes, an
\* INSERT one with the same key, a check of the foreign key the job, and the DELETE
\* of the job whoever refers to it or deletes it.
Blocks(q, r) ==
    \/ pc[r] = "insert" /\ fresh[Slug(r)] = q
    \/ /\ pc[r] \in {"write", "delete", "cascade"} /\ req[r].row # None
       /\ Holds(q, r, req[r].row)
       /\ req[r].row \in map[req[r].job] \cup req[r].found
    \/ pc[r] = "refer" /\ DropsJob(q, r)
    \/ pc[r] = "delete" /\ req[r].row = None /\ (DropsJob(q, r) \/ KeepsJob(q, r))

\* The requests r waits for.
WaitsFor(r) == {q \in Requests \ {r} : Blocks(q, r)}

\* A handler begins with the job as its session has just loaded it.
Begin(r, j, todo) ==
    [job |-> j, todo |-> todo, found |-> {}, loaded |-> map[j],
     rows |-> {}, row |-> None, held |-> {},
     before |-> {q \in Requests : pc[q] \in Done}]

-----------------------------------------------------------------------------
\* The loop of get_or_create_tags, and after it job.tags = tags and the flush.
Loop(r, q) ==
    \/ q.todo # <<>> /\ Put(r, q) /\ Goto(r, "select")
    \/ /\ q.todo = <<>>
       /\ \E n \in AtRows(q, ToDelete(q) \cup ToInsert(q)) : Put(r, n)
       /\ Goto(r, "write")

\* replace_job_tags, after create_job or an edit whose db.refresh(job) has loaded
\* the job's tags.  Without slugs get_or_create_tags is not called.
Start(r, j, list) ==
    /\ pc[r] = "idle"
    /\ j \in jobs
    /\ Loop(r, Begin(r, j, [i \in 1 .. Len(list) |-> SlugOf[list[i]]]))
    /\ UNCHANGED <<tags, fresh, jobs, map, last>>

\* The tag at the head of the list is dealt with.
Take(r) == Loop(r, [req[r] EXCEPT !.todo = Tail(@), !.found = @ \cup {Slug(r)}])

\* A slip for the mutation runs: the registry is not looked up.
InsertsAnyway(r, s) == s \in req[r].found

\* The SELECT sees the committed rows; a slug in "seen" needs none.
Exists(r, s) == s \in req[r].found \/ tags[s] # None

Select(r) ==
    /\ pc[r] = "select"
    /\ \/ /\ Exists(r, Slug(r))
          /\ Take(r)
       \/ /\ ~Exists(r, Slug(r))
          /\ Goto(r, "insert")
          /\ UNCHANGED req
    /\ UNCHANGED <<tags, fresh, jobs, map, last>>

\* A slip for the mutation runs: each new tag is committed on its own.
InsertCommitted(r) ==
    /\ pc[r] = "insert"
    /\ \/ /\ tags[Slug(r)] # None
          /\ Fail(r, "server_error")
       \/ /\ tags[Slug(r)] = None
          /\ tags' = [tags EXCEPT ![Slug(r)] = r]
          /\ Take(r)
          /\ UNCHANGED <<fresh, jobs, map, last>>

\* SAVEPOINT, INSERT, RELEASE.  If the slug is there by now the INSERT fails, and
\* so does the handler: the rollback of the savepoint has taken the tag out of
\* the session, and db.expunge(tag) raises InvalidRequestError for an instance
\* that is not in it.  The SELECT of the winner's row is never reached.
Insert(r) ==
    /\ pc[r] = "insert"
    /\ WaitsFor(r) = {}
    /\ \/ /\ tags[Slug(r)] # None
          /\ Fail(r, "server_error")
       \/ /\ tags[Slug(r)] = None
          /\ fresh' = [fresh EXCEPT ![Slug(r)] = r]
          /\ Take(r)
          /\ UNCHANGED <<tags, jobs, map, last>>

\* A DELETE of a row.  A row that is gone by now is missed, and after the last of
\* these DELETEs the session raises StaleDataError.
DeleteRow(r) ==
    LET q == req[r]
        held == q.held \cup ({q.row} \cap map[q.job])
    IN
    /\ pc[r] \in {"write", "delete"} /\ q.row \in ToDelete(q)
    /\ WaitsFor(r) = {}
    /\ \/ /\ ToDelete(q) \cap q.rows = {q.row} /\ ~(ToDelete(q) \subseteq held)
          /\ Fail(r, "server_error")
       \/ /\ ToDelete(q) \cap q.rows = {q.row} => ToDelete(q) \subseteq held
          /\ NextRow(r, held)
          /\ UNCHANGED <<tags, fresh, jobs, map, pc, last>>

\* An INSERT of a row.  One that is there by now violates the primary key.
InsertRow(r) ==
    LET q == req[r] IN
    /\ pc[r] = "write" /\ q.row \in ToInsert(q)
    /\ WaitsFor(r) = {}
    /\ \/ /\ q.row \in map[q.job]
          /\ Fail(r, "server_error")
       \/ /\ q.row \notin map[q.job]
          /\ Put(r, [q EXCEPT !.held = @ \cup {q.row}])
          /\ Goto(r, "refer")
          /\ UNCHANGED <<tags, fresh, jobs, map, last>>

\* The check of its foreign key, which locks the job against deletion.
CheckJob(r) ==
    /\ pc[r] = "refer"
    /\ WaitsFor(r) = {}
    /\ \/ /\ req[r].job \notin jobs
          /\ Fail(r, "server_error")
       \/ /\ req[r].job \in jobs
          /\ NextRow(r, req[r].held)
          /\ Goto(r, "write")
          /\ UNCHANGED <<tags, fresh, jobs, map, last>>

\* COMMIT of replace_job_tags.
Commit(r) ==
    LET q == req[r] IN
    /\ pc[r] = "write" /\ q.row = None
    /\ map' = [map EXCEPT ![q.job] = (@ \ ToDelete(q)) \cup ToInsert(q)]
    /\ tags' = [s \in Slugs |-> IF fresh[s] = r THEN r ELSE tags[s]]
    /\ fresh' = [s \in Slugs |-> IF fresh[s] = r THEN None ELSE fresh[s]]
    /\ last' = [last EXCEPT ![q.job] = r]
    /\ Goto(r, "reload")
    /\ UNCHANGED <<jobs, req>>

\* db.refresh(job), and the endpoint's "assert refreshed is not None".
Reload(r) ==
    /\ pc[r] = "reload"
    /\ Goto(r, IF req[r].job \in jobs THEN "ok" ELSE "lost")
    /\ UNCHANGED <<tags, fresh, jobs, map, req, last>>

-----------------------------------------------------------------------------
\* delete_recruiter_job: the SELECT loads the job with its tags.
DeleteGetJob(r, j) ==
    /\ pc[r] = "idle"
    /\ j \in jobs
    /\ \E n \in AtRows(Begin(r, j, <<>>), map[j]) : Put(r, n)
    /\ Goto(r, "delete")
    /\ UNCHANGED <<tags, fresh, jobs, map, last>>

\* delete_job, after the rows of job_tag_map that were loaded: the DELETE of the job,
\* whose foreign key takes the rows that came later.  That it is gone is no error.
DeleteJob(r) ==
    LET q == req[r] IN
    /\ pc[r] = "delete" /\ q.row = None
    /\ WaitsFor(r) = {}
    /\ \/ /\ q.job \notin jobs
          /\ Goto(r, "ok")
          /\ UNCHANGED req
       \/ /\ q.job \in jobs
          /\ \E n \in AtRows(q, map[q.job] \ q.held) : Put(r, n)
          /\ Goto(r, "cascade")
    /\ UNCHANGED <<tags, fresh, jobs, map, last>>

CascadeRow(r) ==
    LET q == req[r] IN
    /\ pc[r] = "cascade" /\ q.row # None
    /\ WaitsFor(r) = {}
    /\ NextRow(r, q.held \cup ({q.row} \cap map[q.job]))
    /\ UNCHANGED <<tags, fresh, jobs, map, pc, last>>

\* COMMIT of delete_job.
CommitDelete(r) ==
    LET q == req[r] IN
    /\ pc[r] = "cascade" /\ q.row = None
    /\ jobs' = jobs \ {q.job}
    /\ map' = [map EXCEPT ![q.job] = @ \ q.held]
    /\ Goto(r, "ok")
    /\ UNCHANGED <<tags, fresh, req, last>>

-----------------------------------------------------------------------------
\* r is on a cycle of waits: it waits, in the end, for itself.
InCycle(r) ==
    \A S \in SUBSET Requests :
        WaitsFor(r) \subseteq S /\ (\A q \in S : WaitsFor(q) \subseteq S) => r \in S

\* PostgreSQL finds a cycle of waits and aborts one of its transactions, whose
\* handler does not catch the OperationalError.
Deadlock(r) == InCycle(r) /\ Die(r, "deadlock")

\* The process is killed or its connection drops, before the COMMIT or after it.
Crash(r) ==
    \/ pc[r] \in Open /\ Die(r, "crashed")
    \/ pc[r] = "reload" /\ Fail(r, "lost")

Receive(r) ==
    \/ \E j \in JobsOf[r], list \in Payloads : Start(r, j, list)
    \/ \E j \in JobsOf[r] : DeleteGetJob(r, j)

Handle(r) ==
    \/ Select(r) \/ Insert(r)
    \/ DeleteRow(r) \/ InsertRow(r) \/ CheckJob(r) \/ Commit(r) \/ Reload(r)
    \/ DeleteJob(r) \/ CascadeRow(r) \/ CommitDelete(r)

Next == \E r \in Requests : Receive(r) \/ Handle(r) \/ Deadlock(r) \/ Crash(r)

Spec == Init /\ [][Next]_vars

\* A handler's thread is scheduled again, and the deadlock detector runs.
FairSpec ==
    /\ Spec
    /\ \A r \in Requests : WF_vars(Handle(r))
    /\ WF_vars(\E r \in Requests : Deadlock(r))

-----------------------------------------------------------------------------
(* Properties *)

\* Every variable keeps its type; a handler has its variables until it dies, and one
\* at a SELECT or an INSERT has a slug to do it for.
TypeOK ==
    /\ tags \in [Slugs -> Requests \cup {None}]
    /\ fresh \in [Slugs -> Requests \cup {None}]
    /\ jobs \in SUBSET Jobs
    /\ map \in [Jobs -> SUBSET Slugs]
    /\ pc \in [Requests -> {"idle"} \cup Working \cup Replies]
    /\ req \in [Requests -> Locals \cup {None}]
    /\ last \in [Jobs -> Requests \cup {None}]
    /\ \A r \in Requests : pc[r] \notin {"idle", "deadlock", "crashed"} => req[r] \in Locals
    /\ \A r \in Requests : pc[r] \in {"select", "insert"} => req[r].todo # <<>>
    /\ \A r \in Requests : pc[r] = "refer" => req[r].row # None

\* A tag is in the registry because a request that succeeded asked for it, a job
\* has only tags of the registry and a deleted one has none, and an uncommitted
\* tag is of a handler that will use it: no failed request leaves a tag behind,
\* whoever else used it.
RegistryAgrees ==
    /\ \A s \in Slugs : tags[s] # None => pc[tags[s]] \in Done /\ s \in req[tags[s]].found
    /\ \A s \in Slugs : fresh[s] # None =>
          tags[s] = None /\ pc[fresh[s]] \in Open /\ s \in req[fresh[s]].found
    /\ \A j \in Jobs : \A s \in map[j] : tags[s] # None /\ j \in jobs

\* q committed while r was at work.
Overtook(q, r) == q # r /\ pc[q] \in Done /\ q \notin req[r].before

\* A job has the tags its last writer asked for, no more and no fewer, unless
\* another writer of the same job committed between the last writer's load and
\* its commit: then it can have tags of both lists, or lack one of the last.
LastListWins ==
    \A j \in jobs : last[j] # None =>
        \/ map[j] = req[last[j]].found
        \/ \E q \in Requests : Overtook(q, last[j]) /\ req[q].job = j

\* Replacing tags, or deleting a job, fails only because of a rival: one that
\* committed meanwhile and wrote or deleted the same job, or created a tag this
\* request wanted.  The deadlock detector finds only handlers that insert a second new
\* tag while the first is not committed, and handlers that write rows of one job and
\* have some already.
FailsOnlyIfRaced ==
    \A r \in Requests :
        /\ pc[r] = "server_error" =>
             \E q \in Requests :
                 /\ Overtook(q, r)
                 /\ \/ req[q].job = req[r].job
                    \/ req[r].todo # <<>> /\ tags[Slug(r)] = q
        /\ InCycle(r) =>
             \/ pc[r] = "insert" /\ \E s \in Slugs : fresh[s] = r
             \/ /\ pc[r] \in Flushing
                /\ req[r].held # {} \/ pc[r] = "cascade"
                /\ \E q \in Requests \ {r} : pc[q] \in Flushing /\ req[q].job = req[r].job

\* As long as a handler is at work, one at least waits for nobody or is on a cycle,
\* which the deadlock detector will break: no chain of waits ends at a handler that
\* is dead, or was answered, with its tags uncommitted.
SomeoneCanGoOn ==
    (\E r \in Requests : pc[r] \in Working) =>
        \E r \in Requests : pc[r] \in Working /\ (WaitsFor(r) = {} \/ InCycle(r))

\* What a handler before its COMMIT has loaded, and all the tags it wants.
Loaded(r) ==
    [job |-> req[r].job, tags |-> req[r].loaded,
     wanted |-> req[r].found \cup {req[r].todo[i] : i \in DOMAIN req[r].todo}]

Merge == INSTANCE TagMerge
    WITH tagged <- map, there <- jobs,
         registered <- {s \in Slugs : tags[s] # None},
         phase <- [r \in Requests |-> IF pc[r] = "idle" THEN "before"
                                      ELSE IF pc[r] \in Open THEN "loaded" ELSE "over"],
         seen <- [r \in Requests |-> IF pc[r] \in Open THEN Loaded(r) ELSE None]

\* Every behaviour of the handlers is one of TagMerge: however their SELECTs and
\* INSERTs mix, a replacement merges the difference of its payload into the job's
\* tags and the payload into the registry in one step, or has no effect at all.
ImplementsTagMerge == Merge!Spec

\* Every handler ends: no two requests wait for each other's rows for ever, and after
\* some time, the requests being finitely many, nobody is at work.
EveryRequestIsAnswered ==
    (\E r \in Requests : pc[r] \in Working) ~> (\A r \in Requests : pc[r] \notin Working)
=============================================================================
