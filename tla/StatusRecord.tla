---------------------------- MODULE StatusRecord ----------------------------
(***************************************************************************)
(* What the applications domain promises of a status although it takes no  *)
(* lock.  A write is legal from some status the application has had, not   *)
(* always from the one it has.  Whoever wrote tells the other side at most *)
(* once, and after that records the write at most once; both say what was  *)
(* written.  The application's job takes it along, with its record, and    *)
(* nothing else does.  Applications.tla implements it by handlers of up to *)
(* seven statements each, which may die between any two.                   *)
(***************************************************************************)
CONSTANTS
    Writes,       \* the writes of a status; a submission names its application
    Jobs,
    Candidates,
    Allowed,      \* the legal transitions: pairs of statuses
    First,        \* the status of a submission
    None          \* no row, no write, nothing told or recorded

VARIABLES
    rows,         \* the application of each submission
    had,          \* the statuses each application ever had
    written,      \* what each write wrote
    told,         \* what was told of each write
    recorded      \* what was recorded of each write

vars == <<rows, had, written, told, recorded>>

Init ==
    /\ rows = [w \in Writes |-> None]
    /\ had = [w \in Writes |-> {}]
    /\ written = [w \in Writes |-> None]
    /\ told = [w \in Writes |-> None]
    /\ recorded = [w \in Writes |-> None]

Write(w, a, from, to) ==
    /\ written' = [written EXCEPT ![w] = [app |-> a, from |-> from, to |-> to]]
    /\ had' = [had EXCEPT ![a] = @ \cup {to}]
    /\ UNCHANGED <<told, recorded>>

Submit(w, j, c) ==
    /\ written[w] = None
    /\ \A a \in Writes : rows[a] # None => rows[a].job # j \/ rows[a].candidate # c
    /\ had[w] = {}
    /\ rows' = [rows EXCEPT ![w] = [job |-> j, candidate |-> c, status |-> First]]
    /\ Write(w, w, First, First)

Move(w, a, from, to) ==
    /\ rows[a] # None
    /\ written[w] = None
    /\ from \in had[a]
    /\ rows' = [rows EXCEPT ![a].status = to]
    /\ Write(w, a, from, to)

Tell(w) ==
    /\ written[w] # None /\ told[w] = None /\ recorded[w] = None
    /\ told' = [told EXCEPT ![w] = written[w]]
    /\ UNCHANGED <<rows, had, written, recorded>>

Record(w) ==
    /\ written[w] # None /\ recorded[w] = None
    /\ rows[written[w].app] # None
    /\ recorded' = [recorded EXCEPT ![w] = written[w]]
    /\ UNCHANGED <<rows, had, written, told>>

Withdraw(j) ==
    LET gone == {a \in Writes : rows[a] # None /\ rows[a].job = j} IN
    /\ rows' = [a \in Writes |-> IF a \in gone THEN None ELSE rows[a]]
    /\ recorded' = [w \in Writes |-> IF recorded[w] # None /\ recorded[w].app \in gone
                                     THEN None ELSE recorded[w]]
    /\ UNCHANGED <<had, written, told>>

Next ==
    \/ \E w \in Writes :
          \/ \E j \in Jobs, c \in Candidates : Submit(w, j, c)
          \/ \E a \in Writes, step \in Allowed : Move(w, a, step[1], step[2])
          \/ Tell(w) \/ Record(w)
    \/ \E j \in Jobs : Withdraw(j)

\* Stuttering is spelt out, and first, for TLC: most steps of the handlers write,
\* tell and record nothing.
Spec == Init /\ [][UNCHANGED vars \/ Next]_vars
=============================================================================
