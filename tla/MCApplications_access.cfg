\* Two jobs of two companies, a candidate, two recruiters (an owner and a
\* possible member) and an admin, two requests: who may write what, duplicates,
\* and every handler answered.  No symmetry: TLC does not support it for liveness.
CONSTANTS
    job1 = job1
    job2 = job2
    company1 = company1
    company2 = company2
    Jobs = {job1, job2}
    Companies = {company1, company2}
    CompanyOf <- MCCompanyOf
    Candidates = {cand1}
    Recruiters = {rec1, rec2}
    Admins = {adm1}
    Requests = {q1, q2}
    NoRow = NoRow
SPECIFICATION FairSpec
\* The requests are finitely many: when all are answered the model stops.
CHECK_DEADLOCK FALSE
INVARIANTS
    OneApplicationPerJob
    AppliedOnlyToPublished
    HistoryIsTruthful
PROPERTIES
    GoesWithItsJob
    EveryRequestIsAnswered
