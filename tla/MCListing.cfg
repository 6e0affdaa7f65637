\* Three jobs, read one or two to a page: with two, a full page, one that is not and
\* one past the end all occur, and with one a page can shift twice.
CONSTANTS
    MaxJob = 3
    Memberships = {1, 2}
    Mine = 2
    PageSizes = {1, 2}
SPECIFICATION Spec
\* When every job is deleted and the client is done the model stops.
CHECK_DEADLOCK FALSE
INVARIANTS
    SkippedOnlyIfOneLeft
    RepeatedOnlyIfOneCame
    WholeIfNothingMoved
