---------------------------- MODULE MCTagRegistry ----------------------------
(* A small instance of TagRegistry for TLC: two slugs, one with two spellings. *)
EXTENDS TagRegistry

CONSTANTS job1, job2, q3

MCSpellings == {"python", "Python", "go_lang"}

MCSlugOf == [t \in MCSpellings |-> IF t = "go_lang" THEN "go-lang" ELSE "python"]

\* Of three requests two at least are about one job: let those be the others, and
\* let the job be job1.  It is the symmetry that TLC cannot use with liveness.
MCJobsOf == [r \in Requests |-> IF r = q3 THEN {job1, job2} ELSE {job1}]
=============================================================================
