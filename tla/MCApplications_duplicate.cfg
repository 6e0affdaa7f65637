\* Violated: two applications of one candidate race to the INSERT.
CONSTANTS
    job1 = job1
    job2 = job2
    company1 = company1
    company2 = company2
    Jobs = {job1}
    Companies = {company1}
    CompanyOf <- MCCompanyOf
    Candidates = {cand1}
    Recruiters = {rec1}
    Admins = {}
    Requests = {q1, q2, q3}
    NoRow = NoRow
SPECIFICATION Spec
SYMMETRY Symmetry
\* The requests are finitely many: when all are answered the model stops.
CHECK_DEADLOCK FALSE
INVARIANT
    DuplicateIsConflict
