--------------------------- MODULE MCApplications ---------------------------
(* Small instances of Applications for TLC. *)
EXTENDS Applications, TLC

CONSTANTS job1, job2, company1, company2

\* Every job of company1 but job2.
MCCompanyOf == [j \in Jobs |-> IF j = job2 THEN company2 ELSE company1]

\* Jobs and companies are not interchangeable once MCCompanyOf names them.
Symmetry == Permutations(Requests) \cup Permutations(Candidates) \cup Permutations(Recruiters)
=============================================================================
