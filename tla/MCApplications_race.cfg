\* Four requests for one application, one recruiter: enough for an application
\* to be submitted, reviewed, decided, and written again by a stale handler.
CONSTANTS
    job1 = job1
    job2 = job2
    company1 = company1
    company2 = company2
    Jobs = {job1}
    Companies = {company1}
    CompanyOf <- MCCompanyOf
    Candidates = {cand1}
    Recruiters = {rec1}
    Admins = {}
    Requests = {q1, q2, q3, q4}
    NoRow = NoRow
SPECIFICATION Spec
SYMMETRY Symmetry
\* The requests are finitely many: when all are answered the model stops.
CHECK_DEADLOCK FALSE
INVARIANTS
    DecidedAfterReview
    EveryStatusIsAccountedFor
    NotifiedOnlyIfCommitted
PROPERTIES
    ImplementsStatusRecord
    IllegalOnlyIfStale
