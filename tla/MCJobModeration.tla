--------------------------- MODULE MCJobModeration --------------------------
(* Small instances of JobModeration for TLC. *)
EXTENDS JobModeration, TLC

Symmetry == Permutations(Requests) \cup Permutations(Admins)
=============================================================================
