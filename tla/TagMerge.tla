------------------------------ MODULE TagMerge -------------------------------
(***************************************************************************)
(* What the tags of jobs promise: a request that wants some tags on a job  *)
(* loads those it has, and later replaces them, or deletes the job, in one *)
(* step that either takes effect or leaves no trace.  The step does not    *)
(* overwrite: it takes off what the request has loaded and does not want,  *)
(* and adds what it wants and has not loaded, provided all of that is      *)
(* still to be done.  The registry has the tags of all replacements, and   *)
(* only those.                                                             *)
(* TagRegistry.tla implements it by a SELECT and an INSERT for each tag.   *)
(***************************************************************************)
CONSTANTS
    Jobs, Slugs, Requests,
    None          \* nothing loaded

VARIABLES
    registered,   \* the tags of the registry
    tagged,       \* the tags of each job
    there,        \* the jobs not deleted
    phase,        \* where each request is: "before" its load, "loaded" or "over"
    seen          \* the job a request has loaded, its tags, and those wanted

vars == <<registered, tagged, there, phase, seen>>

Init ==
    /\ registered = {}
    /\ tagged = [j \in Jobs |-> {}]
    /\ there = Jobs
    /\ phase = [r \in Requests |-> "before"]
    /\ seen = [r \in Requests |-> None]

Load(r, j, wanted) ==
    /\ phase[r] = "before"
    /\ j \in there
    /\ phase' = [phase EXCEPT ![r] = "loaded"]
    /\ seen' = [seen EXCEPT ![r] = [job |-> j, tags |-> tagged[j], wanted |-> wanted]]
    /\ UNCHANGED <<registered, tagged, there>>

Finish(r) ==
    /\ phase[r] = "loaded"
    /\ phase' = [phase EXCEPT ![r] = "over"]
    /\ seen' = [seen EXCEPT ![r] = None]

Replace(r) ==
    LET j == seen[r].job
        off == seen[r].tags \ seen[r].wanted
        on == seen[r].wanted \ seen[r].tags
    IN
    /\ Finish(r)
    /\ off \subseteq tagged[j] /\ on \cap tagged[j] = {} /\ (on # {} => j \in there)
    /\ tagged' = [tagged EXCEPT ![j] = (@ \ off) \cup on]
    /\ registered' = registered \cup seen[r].wanted
    /\ UNCHANGED there

Delete(r) ==
    LET j == seen[r].job IN
    /\ Finish(r)
    /\ seen[r].tags \subseteq tagged[j]
    /\ tagged' = [tagged EXCEPT ![j] = {}]
    /\ there' = there \ {j}
    /\ UNCHANGED registered

GiveUp(r) == Finish(r) /\ UNCHANGED <<registered, tagged, there>>

Next ==
    \E r \in Requests :
        \/ \E j \in Jobs, wanted \in SUBSET Slugs : Load(r, j, wanted)
        \/ Replace(r) \/ Delete(r) \/ GiveUp(r)

\* Stuttering first, as in StatusRecord.
Spec == Init /\ [][UNCHANGED vars \/ Next]_vars
=============================================================================
