-------------------------- MODULE RetriedDelivery ---------------------------
(***************************************************************************)
(* What a request handler may expect of a mail it has asked for, seen from *)
(* the result backend and from the candidate's mailbox.  The mail goes out *)
(* a bounded number of times, only while its task is open; success means   *)
(* that it went out or that there is nothing left to write about, and is   *)
(* final; failure is final too, but can be reported too early; a task is   *)
(* lost without a word.                                                    *)
(* NotificationDelivery.tla implements it by a broker, workers that die    *)
(* and an SMTP server whose answers get lost.                              *)
(***************************************************************************)
EXTENDS Integers

CONSTANTS Apps, Tasks, AppOf, MaxRetries

VARIABLES
    alive,     \* applications not yet deleted
    result,    \* state of each task, "none" before it is asked for
    mails,     \* how often the mail of each task went out
    lost,      \* the tasks that are not heard of any more
    premature  \* the tasks reported as failed that go on nevertheless

vars == <<alive, result, mails, lost, premature>>

Init ==
    /\ alive = Apps
    /\ result = [t \in Tasks |-> "none"]
    /\ mails = [t \in Tasks |-> 0]
    /\ lost = {}
    /\ premature = {}

IsOpen(t) == (result[t] \in {"PENDING", "RETRY"} /\ t \notin lost) \/ t \in premature

Ask(t) ==
    /\ result[t] = "none"
    /\ result' = [result EXCEPT ![t] = "PENDING"]
    /\ UNCHANGED <<alive, mails, lost, premature>>

Withdraw(a) ==
    /\ a \in alive
    /\ alive' = alive \ {a}
    /\ UNCHANGED <<result, mails, lost, premature>>

MailGoesOut(t) ==
    /\ IsOpen(t)
    /\ mails[t] <= MaxRetries
    /\ mails' = [mails EXCEPT ![t] = @ + 1]
    /\ UNCHANGED <<alive, result, lost, premature>>

\* The sender tells what became of the task.
Tell(t, res) ==
    /\ IsOpen(t)
    /\ result' = [result EXCEPT ![t] = res]
    /\ premature' = premature \ {t}
    /\ UNCHANGED <<alive, mails, lost>>

Succeed(t) ==
    /\ mails[t] > 0 \/ AppOf[t] \notin alive
    /\ Tell(t, "SUCCESS")

RetryOrFail(t) == Tell(t, "RETRY") \/ Tell(t, "FAILURE")

FailTooEarly(t) ==
    /\ IsOpen(t)
    /\ result' = [result EXCEPT ![t] = "FAILURE"]
    /\ premature' = premature \cup {t}
    /\ UNCHANGED <<alive, mails, lost>>

Lose(t) ==
    /\ IsOpen(t)
    /\ lost' = lost \cup {t}
    /\ premature' = premature \ {t}
    /\ UNCHANGED <<alive, result, mails>>

Next ==
    \/ \E t \in Tasks : \/ Ask(t) \/ MailGoesOut(t) \/ Succeed(t)
                        \/ RetryOrFail(t) \/ FailTooEarly(t) \/ Lose(t)
    \/ \E a \in Apps : Withdraw(a)

\* Stuttering first, as in StatusRecord.
Spec == Init /\ [][UNCHANGED vars \/ Next]_vars
=============================================================================
