--------------------------- MODULE AuditedDecision --------------------------
(***************************************************************************)
(* What the admin domain promises about the things it decides on, the jobs *)
(* in the moderation queue and the user reports: a decision is taken on an *)
(* open item only, and in the same instant the audit trail gains the entry *)
(* that tells who took it.  JobModeration.tla and Reports.tla implement it *)
(* with row locks and transactions.                                        *)
(***************************************************************************)
EXTENDS Sequences

CONSTANTS
    Items,        \* whatever is decided on
    Deciders,     \* who decides
    Verdicts,     \* what can be decided
    Nobody,       \* no decider
    Reopenable    \* may a decided item become open again?

VARIABLES
    state,        \* of each item: "absent", "open", "gone" or its verdict
    decider,      \* of each item: who decided it
    trail         \* of each item: the decisions ever taken, oldest first

vars == <<state, decider, trail>>

Init ==
    /\ state = [i \in Items |-> "absent"]
    /\ decider = [i \in Items |-> Nobody]
    /\ trail = [i \in Items |-> <<>>]

Become(i, s, d) ==
    /\ state' = [state EXCEPT ![i] = s]
    /\ decider' = [decider EXCEPT ![i] = d]

Open(i) ==
    /\ state[i] = "absent"
    /\ Become(i, "open", Nobody)
    /\ UNCHANGED trail

Decide(i, d, v) ==
    /\ state[i] = "open"
    /\ Become(i, v, d)
    /\ trail' = [trail EXCEPT ![i] = Append(@, [by |-> d, verdict |-> v])]

Reopen(i) ==
    /\ Reopenable
    /\ state[i] \in Verdicts
    /\ Become(i, "open", Nobody)
    /\ UNCHANGED trail

\* Items may go together; their trail outlives them.
Remove(gone) ==
    /\ \A i \in gone : state[i] \notin {"absent", "gone"}
    /\ state' = [i \in Items |-> IF i \in gone THEN "gone" ELSE state[i]]
    /\ decider' = [i \in Items |-> IF i \in gone THEN Nobody ELSE decider[i]]
    /\ UNCHANGED trail

Next ==
    \/ \E i \in Items :
          \/ Open(i) \/ Reopen(i)
          \/ \E d \in Deciders, v \in Verdicts : Decide(i, d, v)
    \/ \E gone \in SUBSET Items : Remove(gone)

Spec == Init /\ [][Next]_vars
=============================================================================
