----------------------------- MODULE MCAccounts ------------------------------
(* A small instance of Accounts for TLC. *)
EXTENDS Accounts, TLC

CONSTANTS ada, bob

\* The emails of the seeds, and one that is free at first, in two spellings.
MCSpellings == {"ada@x.pl", "bob@x.pl", "eve@x.pl", "Eve@X.pl"}

MCNormalized == [e \in MCSpellings |-> IF e = "Eve@X.pl" THEN "eve@x.pl" ELSE e]

\* Ada is a recruiter; bob is another, or a candidate, or deactivated.
MCSeedUsers ==
    {ada :> [email |-> "ada@x.pl", role |-> "recruiter", active |-> TRUE] @@ bob :> row :
        row \in {[email |-> "bob@x.pl", role |-> "recruiter", active |-> TRUE],
                 [email |-> "bob@x.pl", role |-> "candidate", active |-> TRUE],
                 [email |-> "bob@x.pl", role |-> "recruiter", active |-> FALSE]}}

Symmetry == Permutations(Requests)
=============================================================================
