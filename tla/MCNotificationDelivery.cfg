\* Two tasks, two workers that die twice, and the real max_retries.
CONSTANTS
    app1 = app1
    Apps = {app1}
    Tasks = {task1, task2}
    AppOf <- MCAppOf
    Workers = {w1, w2}
    MaxRetries = 3
    MaxCrashes = 2
    Free = Free
SPECIFICATION FairSpec
\* The tasks are finitely many: when all are settled the model stops.
CHECK_DEADLOCK FALSE
INVARIANTS
    MailsBounded
    SuccessIsHonest
    NothingLost
PROPERTIES
    RepeatedOnlyByRetry
    ImplementsRetriedDelivery
    EveryTaskSettles
