---------------------------- MODULE JobLifecycle ----------------------------
(***************************************************************************)
(* A job as the rest of the application sees it: the column                *)
(* jobs.moderation_status, and whether the row is there.  JobModeration    *)
(* implements this module, and Applications assumes no more of the jobs    *)
(* than it says.                                                           *)
(***************************************************************************)
CONSTANT Jobs

VARIABLE jobs

Init == jobs = [j \in Jobs |-> "none"]

Live == {"pending", "approved", "rejected"}

Become(j, s) == jobs' = [jobs EXCEPT ![j] = s]

Create(j) == jobs[j] = "none" /\ Become(j, "pending")

Moderate(j) == jobs[j] = "pending" /\ (Become(j, "approved") \/ Become(j, "rejected"))

Edit(j) == jobs[j] \in Live /\ Become(j, "pending")

Delete(j) == jobs[j] \in Live /\ Become(j, "deleted")

Next == \E j \in Jobs : Create(j) \/ Moderate(j) \/ Edit(j) \/ Delete(j)

Spec == Init /\ [][Next]_jobs
=============================================================================
