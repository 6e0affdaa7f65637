\* Two accounts, a free email with two spellings, and three requests: two that
\* race, and one to set the scene or to use what they leave.
CONSTANTS
    ada = ada
    bob = bob
    Seeds = {ada, bob}
    SeedUsers <- MCSeedUsers
    Spellings <- MCSpellings
    Normalized <- MCNormalized
    Requests = {q1, q2, q3}
    None = None
SPECIFICATION Spec
SYMMETRY Symmetry
\* The requests are finitely many: when all are answered the model stops.
CHECK_DEADLOCK FALSE
INVARIANTS
    OneAccountPerEmail
    TokenSpeaksForItsAccount
    FailsOnlyIfRaced
PROPERTIES
    GoesOnlyIfRaced
