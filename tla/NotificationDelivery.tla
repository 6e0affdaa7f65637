------------------------ MODULE NotificationDelivery ------------------------
(***************************************************************************)
(* What becomes of a notification task once the Celery broker accepted it: *)
(* the two tasks of app/domains/notifications/tasks.py, which differ in    *)
(* the text of the mail only, run by the worker of app/worker.py, and the  *)
(* mail transport they use.                                                *)
(*                                                                         *)
(* The worker is configured with Celery's defaults: a message is           *)
(* acknowledged when its execution starts, so the message of a worker that *)
(* dies before comes back, and that of one that dies later does not; a     *)
(* result is stored after the function has ended, and may replace any but  *)
(* SUCCESS.  Messages overtake one another (workers, retries after a       *)
(* minute), so the broker is a set.                                        *)
(*                                                                         *)
(* Assumed of time: no message waits so long in a worker that Redis takes  *)
(* it for abandoned, and a retry, due after a minute, does not start while *)
(* the execution that asked for it is still storing its result.  Assumed   *)
(* of Redis: a message it did not acknowledge was not published, and it    *)
(* stores results.                                                         *)
(***************************************************************************)
EXTENDS Integers, FiniteSets

CONSTANTS
    Apps,          \* primary keys of applications
    Tasks,         \* tasks ever enqueued; Applications.tla enqueues them
    AppOf,         \* application_id of each task
    Workers,       \* worker processes
    MaxRetries,    \* max_retries of the tasks
    MaxCrashes,    \* bound: worker deaths in a behaviour
    Free           \* a worker without a message

ASSUME DeliveryAssumption ==
    /\ AppOf \in [Tasks -> Apps]
    /\ MaxRetries \in Nat
    /\ MaxCrashes \in Nat

Messages == [task : Tasks, retries : 0 .. MaxRetries]

\* held: received, not acknowledged, perhaps waiting for the countdown;
\* load: in the SELECT of the application; send: in deliver_plain_email;
\* retry: in self.retry; SUCCESS, RETRY, FAILURE: the function has ended so, which is
\* still to be stored; stored: the pool has not yet heard of it.
Outcomes == {"SUCCESS", "RETRY", "FAILURE"}

Stages == {"held", "load", "send", "retry", "stored"} \cup Outcomes

Executions == [at : Stages, msg : Messages]

ASSUME FreeAssumption == Free \notin Executions

Results == {"none", "PENDING"} \cup Outcomes

VARIABLES
    transport,   \* "smtp", or "log" for EMAIL_TRANSPORT=log and unusable settings
    alive,       \* applications not yet deleted
    broker,      \* messages no worker has received
    worker,      \* what each worker does
    result,      \* state of each task in the result backend, "none" before .delay
    mails,       \* how many copies of the mail of each task went out
    crashes,     \* counts worker deaths, up to MaxCrashes
    dropped,     \* history variable: tasks that ended without a final result
    early        \* history variable: tasks reported as failed with a retry published

vars == <<transport, alive, broker, worker, result, mails, crashes, dropped, early>>

Init ==
    /\ transport \in {"smtp", "log"}
    /\ alive = Apps
    /\ broker = {}
    /\ worker = [w \in Workers |-> Free]
    /\ result = [t \in Tasks |-> "none"]
    /\ mails = [t \in Tasks |-> 0]
    /\ crashes = 0
    /\ dropped = {}
    /\ early = {}

At(w, stage) == worker[w] # Free /\ worker[w].at = stage

Current(w) == worker[w].msg.task

Enter(w, stage) == worker' = [worker EXCEPT ![w].at = stage]

\* The worker has no message.
Leave(w) == worker' = [worker EXCEPT ![w] = Free]

-----------------------------------------------------------------------------
\* .delay of a request handler.  The application may be gone already.
Enqueue(t) ==
    /\ result[t] = "none"
    /\ result' = [result EXCEPT ![t] = "PENDING"]
    /\ broker' = broker \cup {[task |-> t, retries |-> 0]}
    /\ UNCHANGED <<transport, alive, worker, mails, crashes, dropped, early>>

\* The application goes with its job.
DeleteApplication(a) ==
    /\ a \in alive
    /\ alive' = alive \ {a}
    /\ UNCHANGED <<transport, broker, worker, result, mails, crashes, dropped, early>>

Receive(w) ==
    /\ worker[w] = Free
    /\ \E m \in broker :
          /\ broker' = broker \ {m}
          /\ worker' = [worker EXCEPT ![w] = [at |-> "held", msg |-> m]]
    /\ UNCHANGED <<transport, alive, result, mails, crashes, dropped, early>>

\* v has published a retry, or may have, and is not done with its own execution.
Reporting(v) == At(v, "RETRY") \/ At(v, "stored")

\* The message is acknowledged and its task starts, after the countdown.
Start(w) ==
    /\ At(w, "held")
    /\ \A v \in Workers : Reporting(v) => Current(v) # Current(w)
    /\ Enter(w, "load")
    /\ UNCHANGED <<transport, alive, broker, result, mails, crashes, dropped, early>>

\* The application with its job and candidate, in one statement.  Without a
\* row there is nothing to do, and that is no failure.  An application never
\* changes its job or candidate, so the ids of the task always match.
Load(w) ==
    /\ At(w, "load")
    /\ \/ /\ AppOf[Current(w)] \in alive
          /\ Enter(w, "send")
       \/ /\ AppOf[Current(w)] \notin alive
          /\ Enter(w, "SUCCESS")
    /\ UNCHANGED <<transport, alive, broker, result, mails, crashes, dropped, early>>

MailGoesOut(w) == mails' = [mails EXCEPT ![Current(w)] = @ + 1]

\* A slip for the mutation runs: the failed delivery is logged, not raised.
SwallowError(w) ==
    /\ At(w, "send")
    /\ Enter(w, "SUCCESS")
    /\ MailGoesOut(w) \/ UNCHANGED mails
    /\ UNCHANGED <<transport, alive, broker, result, crashes, dropped, early>>

\* Another: SMTP without the timeout, so that a send may never return.
SendWithoutTimeout(w) ==
    /\ At(w, "send")
    /\ \/ MailGoesOut(w) /\ Enter(w, "SUCCESS")
       \/ /\ transport = "smtp"
          /\ Enter(w, "hung")
          /\ UNCHANGED mails
    /\ UNCHANGED <<transport, alive, broker, result, crashes, dropped, early>>

\* deliver_plain_email.  With the log transport the mail is a line of the log.
\* SMTP can fail before the server has the mail, or after: its answer may be
\* lost, and the QUIT at the end of the with block can fail as well.
Send(w) ==
    /\ At(w, "send")
    /\ \/ MailGoesOut(w) /\ Enter(w, "SUCCESS")
       \/ /\ transport = "smtp"
          /\ MailGoesOut(w) \/ UNCHANGED mails
          /\ Enter(w, "retry")
    /\ UNCHANGED <<transport, alive, broker, result, crashes, dropped, early>>

\* An exception that is no EmailDeliveryError, say of the database or of a
\* subject that is no header: the task fails for good.
Fail(w) ==
    /\ At(w, "load") \/ At(w, "send")
    /\ Enter(w, "FAILURE")
    /\ UNCHANGED <<transport, alive, broker, result, mails, crashes, dropped, early>>

\* Celery raises the exception itself when request.retries is at max_retries;
\* the mutant retries once more.
OneMoreTry(m) == m.retries <= MaxRetries

MayRetry(m) == m.retries < MaxRetries

NextTry(m) == [m EXCEPT !.retries = @ + 1]

\* A slip for the mutation runs: retry(throw=False), after which the function
\* returns as if the mail were out.
RetryAndReturn(w) ==
    /\ At(w, "retry")
    /\ broker' = broker \cup {NextTry(m) : m \in {m \in {worker[w].msg} : MayRetry(m)}}
    /\ Enter(w, "SUCCESS")
    /\ UNCHANGED <<transport, alive, result, mails, crashes, dropped, early>>

\* self.retry publishes the same arguments with one retry more, and raises Retry.
\* With the broker down the task is rejected, not requeued, and has no result.
Retry(w) ==
    /\ At(w, "retry")
    /\ LET m == worker[w].msg IN
       \/ /\ ~MayRetry(m)
          /\ Enter(w, "FAILURE")
          /\ UNCHANGED <<broker, dropped>>
       \/ /\ MayRetry(m)
          /\ broker' = broker \cup {NextTry(m)}
          /\ Enter(w, "RETRY")
          /\ UNCHANGED dropped
       \/ /\ MayRetry(m)
          /\ dropped' = dropped \cup {m.task}
          /\ Leave(w)
          /\ UNCHANGED broker
    /\ UNCHANGED <<transport, alive, result, mails, crashes, early>>

SetResult(w, res) == result' = [result EXCEPT ![Current(w)] = res]

\* The process stores what became of its task.
Store(w) ==
    /\ \E res \in Outcomes : At(w, res) /\ SetResult(w, res)
    /\ Enter(w, "stored")
    /\ UNCHANGED <<transport, alive, broker, mails, crashes, dropped, early>>

\* It tells the pool, and is free.
Report(w) ==
    /\ At(w, "stored")
    /\ Leave(w)
    /\ UNCHANGED <<transport, alive, broker, result, mails, crashes, dropped, early>>

\* A slip for the mutation runs: acks_late, with which the message of a task
\* under way comes back too.
CrashRequeues(w) ==
    /\ worker[w] # Free
    /\ crashes < MaxCrashes
    /\ crashes' = crashes + 1
    /\ Leave(w)
    /\ broker' = broker \cup {worker[w].msg}
    /\ UNCHANGED <<transport, alive, result, mails, dropped, early>>

\* The pool reports the loss of a process as a failure of its task, whatever the task
\* has published or stored, a stored SUCCESS excepted.
ReportLoss(w) ==
    /\ IF result[Current(w)] = "SUCCESS" THEN UNCHANGED result ELSE SetResult(w, "FAILURE")
    /\ early' = IF Reporting(w) /\ result'[Current(w)] # result[Current(w)]
                THEN early \cup {Current(w)} ELSE early
    /\ UNCHANGED <<broker, dropped>>

\* Nobody reports the loss of the worker with all its processes, and a task is gone
\* unless its result is stored or its retry published.
LoseUnseen(w) ==
    /\ dropped' = IF Reporting(w) THEN dropped ELSE dropped \cup {Current(w)}
    /\ UNCHANGED <<broker, result, early>>

\* A process or a worker dies and another takes its place.
Crash(w) ==
    /\ worker[w] # Free
    /\ crashes < MaxCrashes
    /\ crashes' = crashes + 1
    /\ Leave(w)
    /\ \/ /\ At(w, "held")
          /\ broker' = broker \cup {worker[w].msg}
          /\ UNCHANGED <<result, dropped, early>>
       \/ ~At(w, "held") /\ (ReportLoss(w) \/ LoseUnseen(w))
    /\ UNCHANGED <<transport, alive, mails>>

-----------------------------------------------------------------------------
Work(w) ==
    \/ Receive(w) \/ Start(w) \/ Load(w) \/ Send(w) \/ Fail(w) \/ Retry(w)
    \/ Store(w) \/ Report(w)

Next ==
    \/ \E t \in Tasks : Enqueue(t)
    \/ \E a \in Apps : DeleteApplication(a)
    \/ \E w \in Workers : Work(w) \/ Crash(w)

Spec == Init /\ [][Next]_vars

\* Workers run, the database answers and smtp_timeout_seconds bounds a send.
FairSpec == Spec /\ \A w \in Workers : WF_vars(Work(w))

-----------------------------------------------------------------------------
\* A message of the task waits in the broker, or a worker has it and has not stored
\* what became of it.
InFlight(t) ==
    \/ \E m \in broker : m.task = t
    \/ \E w \in Workers : worker[w] # Free /\ ~At(w, "stored") /\ Current(w) = t

TypeOK ==
    /\ transport \in {"smtp", "log"}
    /\ alive \in SUBSET Apps
    /\ broker \in SUBSET Messages
    /\ worker \in [Workers -> Executions \cup {Free}]
    /\ result \in [Tasks -> Results]
    /\ mails \in [Tasks -> Nat]
    /\ crashes \in 0 .. MaxCrashes
    /\ dropped \in SUBSET Tasks
    /\ early \in SUBSET Tasks

\* A candidate gets at most four copies of one mail, whatever the SMTP server
\* does after it took the message and wherever workers die.
MailsBounded == \A t \in Tasks : mails[t] <= MaxRetries + 1

\* A task that reports success has sent its mail, or its application is gone.
SuccessIsHonest ==
    \A t \in Tasks : result[t] = "SUCCESS" => mails[t] > 0 \/ AppOf[t] \notin alive

\* The result backend tells the truth about the broker, but for one race: a task
\* without a final result is under way, unless a dead worker or a dead broker swallowed
\* it, and one with a final result is not, unless the process that published its retry
\* died before it was heard of.  Such a task counts as failed while it goes on.
NothingLost ==
    \A t \in Tasks :
        /\ result[t] \in {"PENDING", "RETRY"} /\ t \notin dropped => InFlight(t)
        /\ InFlight(t) => /\ t \notin dropped
                          /\ \/ result[t] \in {"PENDING", "RETRY"}
                             \/ result[t] = "FAILURE" /\ t \in early

\* A mail is sent again only by a retry of its task, after a send that failed:
\* the death of a worker never repeats one.
RepeatedOnlyByRetry ==
    [][\A t \in Tasks : mails[t] > 0 /\ mails'[t] > mails[t] =>
           \E w \in Workers : At(w, "send") /\ Current(w) = t /\ worker[w].msg.retries > 0]_vars

Promise == INSTANCE RetriedDelivery
    WITH lost <- dropped,
         premature <- {t \in Tasks : result[t] = "FAILURE" /\ InFlight(t)}

\* Every behaviour of broker and workers is one of RetriedDelivery: however many
\* workers there are and whenever they die, a task is handled as if by one sender,
\* whose mail goes out MaxRetries + 1 times at most, whose SUCCESS is final, and whose
\* FAILURE is final unless a published retry belies it.
ImplementsRetriedDelivery == Promise!Spec

\* Retries come to an end: every task is settled in the end and not under way any
\* more, with a final result or without one if it was swallowed.
EveryTaskSettles ==
    \A t \in Tasks :
        result[t] = "PENDING" ~>
            ~InFlight(t) /\ (result[t] \in {"SUCCESS", "FAILURE"} \/ t \in dropped)
=============================================================================
