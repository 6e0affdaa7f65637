------------------------------- MODULE Listing -------------------------------
(***************************************************************************)
(* A client pages through a listing of jobs while the jobs change: GET     *)
(* /jobs (list_jobs, approved jobs only) and GET /jobs/me, the recruiter's *)
(* own (list_jobs_for_recruiter_scope).  A page is cut from the result of  *)
(* one SELECT by OFFSET and LIMIT, and nothing ties one page to the next.  *)
(* The jobs move as JobLifecycle says.                                     *)
(***************************************************************************)
EXTENDS Integers, FiniteSets

CONSTANTS
    MaxJob,        \* the jobs are 1 .. MaxJob, jobs.id
    Memberships,   \* ids in company_recruiters, for the company of the jobs
    Mine,          \* the one that is the reader's, if it is ever inserted
    PageSizes      \* the values of page_size

ASSUME ListAssumption ==
    /\ MaxJob \in Nat
    /\ Memberships \subseteq Nat \ {0}
    /\ Mine \in Memberships
    /\ PageSizes \subseteq Nat \ {0}

Jobs == 1 .. MaxJob

Views == {"public", "owner", "recruiter"}

VARIABLES
    jobs,      \* jobs.moderation_status, as in JobLifecycle
    match,     \* the jobs that match the filters of the query
    members,   \* the rows of company_recruiters
    view,      \* which listing is read; the owner's is a recruiter's too
    size,      \* page_size
    page,      \* the last page read, 0 before the first
    done,      \* the client got a page that was not full, and stopped
    shown,     \* the jobs on the pages read
    twice,     \* those of them that were there twice
    steady,    \* history variables: the jobs listed ever since the first page,
    topLeft,   \* the greatest id of those that have left the listing since,
    topCame    \* and of those that have come into it

reader == <<view, size, page, done, shown, twice>>

vars == <<jobs, match, members, view, size, page, done, shown, twice,
          steady, topLeft, topCame>>

Life == INSTANCE JobLifecycle

\* Title, location, employment type, company and tags.
Filtered == {j \in Jobs : jobs[j] \in Life!Live /\ j \in match}

\* company_recruiters joined from the outside: a row of its own if there is none.
OuterJoin == IF members = {} THEN {0} ELSE members

\* A slip for the mutation runs: the rows of the join are all returned.
AllRows(rows) == rows

\* SELECT DISTINCT: the columns are those of the job.
Distinct(rows) == {<<row[1], 0>> : row \in rows}

\* The rows of the SELECT, before OFFSET and LIMIT: a job, and the row of the join.
Result ==
    IF view = "public"
      THEN {j \in Filtered : jobs[j] = "approved"} \X {0}
      ELSE Distinct({row \in Filtered \X OuterJoin : view = "owner" \/ row[2] = Mine})

Listed == {row[1] : row \in Result}

\* ORDER BY jobs.id DESC.
Precedes(a, b) == a[1] > b[1] \/ (a[1] = b[1] /\ a[2] > b[2])

Rank(row) == Cardinality({other \in Result : Precedes(other, row)})

\* A slip for the mutation runs: pages counted from zero.
OffsetFromZero(k) == k * size

Offset(k) == (k - 1) * size

Page(k) == {row \in Result : Rank(row) >= Offset(k) /\ Rank(row) < Offset(k) + size}

JobsOn(rows) == {row[1] : row \in rows}

Greatest(S) == CHOOSE x \in S \cup {0} : \A y \in S \cup {0} : x >= y

Init ==
    /\ Life!Init
    /\ match \in SUBSET Jobs
    /\ members = {}
    /\ view \in Views
    /\ size \in PageSizes
    /\ page = 0
    /\ done = FALSE
    /\ shown = {}
    /\ twice = {}
    /\ steady = {}
    /\ topLeft = 0
    /\ topCame = 0

\* The history of the listing, from the first page on.
Watch ==
    IF page = 0
      THEN UNCHANGED <<steady, topLeft, topCame>>
      ELSE /\ steady' = steady \cap Listed'
           /\ topLeft' = Greatest({topLeft} \cup (Listed \ Listed'))
           /\ topCame' = Greatest({topCame} \cup (Listed' \ Listed))

\* The next page.  The listing has no total: the client stops at a page that is
\* not full.
Read ==
    LET rows == Page(page + 1) IN
    /\ ~done
    /\ page' = page + 1
    /\ shown' = shown \cup JobsOn(rows)
    /\ twice' = twice \cup (shown \cap JobsOn(rows))
                      \cup {j \in JobsOn(rows) : Cardinality({row \in rows : row[1] = j}) > 1}
    /\ done' = (Cardinality(rows) < size)
    /\ steady' = IF page = 0 THEN Listed ELSE steady
    /\ UNCHANGED <<jobs, match, members, view, size, topLeft, topCame>>

\* Another client's request, as JobLifecycle has it; an edit may change what the
\* filters see.
Create(j) == Life!Create(j) /\ UNCHANGED match

Moderate(j) == Life!Moderate(j) /\ UNCHANGED match

Edit(j) ==
    /\ Life!Edit(j)
    /\ match' \in {match, match \cup {j}, match \ {j}}

Delete(j) == Life!Delete(j) /\ UNCHANGED match

ChangeJob(j) ==
    /\ Create(j) \/ Moderate(j) \/ Edit(j) \/ Delete(j)
    /\ UNCHANGED members

\* add_recruiter_to_company.
AddRecruiter(m) ==
    /\ m \notin members
    /\ members' = members \cup {m}
    /\ UNCHANGED <<jobs, match>>

Elsewhere ==
    /\ (\E j \in Jobs : ChangeJob(j)) \/ (\E m \in Memberships : AddRecruiter(m))
    /\ UNCHANGED reader
    /\ Watch

Next == Read \/ Elsewhere

Spec == Init /\ [][Next]_vars

-----------------------------------------------------------------------------
(* Properties *)

\* Every variable keeps its type.
TypeOK ==
    /\ jobs \in [Jobs -> {"none", "deleted"} \cup Life!Live]
    /\ match \in SUBSET Jobs
    /\ members \in SUBSET Memberships
    /\ view \in Views
    /\ size \in PageSizes
    /\ page \in Nat
    /\ done \in BOOLEAN
    /\ shown \in SUBSET Jobs
    /\ twice \in SUBSET Jobs
    /\ steady \in SUBSET Jobs
    /\ topLeft \in 0 .. MaxJob
    /\ topCame \in 0 .. MaxJob

\* A job that is listed all the time the client reads, from the first page to the
\* last, is missing from its pages only if a newer job left the listing meanwhile.
SkippedOnlyIfOneLeft ==
    done => \A j \in steady \ shown : j < topLeft

\* A job is on the client's pages twice only if a newer one came into the listing
\* meanwhile; a company's recruiters do not multiply its jobs.
RepeatedOnlyIfOneCame ==
    \A j \in twice : j < topCame

\* If no job has come into the listing or left it between the first page and the
\* last, the pages are the listing: every job of it, no other, and each one once.
WholeIfNothingMoved ==
    done /\ topLeft = 0 /\ topCame = 0 => shown = Listed /\ twice = {}
=============================================================================
