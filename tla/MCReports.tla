------------------------------ MODULE MCReports -----------------------------
(* Small instances of Reports for TLC. *)
EXTENDS Reports, TLC

Symmetry == Permutations(Requests) \cup Permutations(Admins) \cup Permutations(Jobs)
=============================================================================
