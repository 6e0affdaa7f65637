\* Violated: two registrations of one email race to the INSERT.
CONSTANTS
    ada = ada
    bob = bob
    Seeds = {ada, bob}
    SeedUsers <- MCSeedUsers
    Spellings <- MCSpellings
    Normalized <- MCNormalized
    Requests = {q1, q2}
    None = None
SPECIFICATION Spec
SYMMETRY Symmetry
\* The requests are finitely many: when all are answered the model stops.
CHECK_DEADLOCK FALSE
INVARIANT
    DuplicateIsConflict
