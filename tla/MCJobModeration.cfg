\* Three requests, two recruiters of whom one has access, a moderator and a note:
\* a job, and two requests that edit it, decide on it or delete it.  No symmetry:
\* TLC does not support it for liveness.
CONSTANTS
    Recruiters = {rec1, rec2}
    Members = {rec1}
    Admins = {adm1}
    Notes = {note1}
    Requests = {q1, q2, q3}
    None = None
SPECIFICATION FairSpec
\* The requests are finitely many: when all are answered the model stops.
CHECK_DEADLOCK FALSE
INVARIANTS
    TypeOK
    PendingIffUndecided
    DecidesOnWhatItRead
    DecisionIsAudited
PROPERTIES
    EscapesReviewOnlyIfStale
    ImplementsAuditedDecision
    ImplementsJobLifecycle
    EveryRequestIsAnswered
