\* Three requests that replace the tags of two jobs or delete one: one to set the
\* scene and two that race, or three that race; lists of up to two tags, in both
\* orders.
CONSTANTS
    job1 = job1
    job2 = job2
    q3 = q3
    Jobs = {job1, job2}
    Slugs = {"python", "go-lang"}
    Spellings <- MCSpellings
    SlugOf <- MCSlugOf
    Requests = {q1, q2, q3}
    JobsOf <- MCJobsOf
    MaxTags = 2
    None = None
SPECIFICATION FairSpec
\* The requests are finitely many: when all are answered the model stops.
CHECK_DEADLOCK FALSE
INVARIANTS
    RegistryAgrees
    LastListWins
    FailsOnlyIfRaced
    SomeoneCanGoOn
PROPERTIES
    ImplementsTagMerge
    EveryRequestIsAnswered
