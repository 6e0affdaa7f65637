\* Four requests: one or two reports and two or three admins' answers to them.
CONSTANTS
    Jobs = {job1, job2}
    Admins = {adm1, adm2}
    Requests = {q1, q2, q3, q4}
    None = None
SPECIFICATION Spec
SYMMETRY Symmetry
\* The requests are finitely many: when all are answered the model stops.
CHECK_DEADLOCK FALSE
INVARIANTS
    HandlesWhatItRead
    HandledOnce
PROPERTIES
    ImplementsAuditedDecision
