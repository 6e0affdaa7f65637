------------------------- MODULE NotificationProofs -------------------------
(***************************************************************************)
(* Proofs about NotificationDelivery, for any tasks, applications, workers *)
(* and retry budget.  The invariant says that a task has one message at    *)
(* most, that the retries the message counts bound the mails sent, and     *)
(* that an execution that asked for a retry has left a message behind.     *)
(***************************************************************************)
EXTENDS NotificationDelivery, TLAPS

\* w has the message of t, which nobody else has.
Carries(w, t) ==
    worker[w] # Free /\ worker[w].at \notin {"RETRY", "stored"} /\ worker[w].msg.task = t

Carried(t) == (\E m \in broker : m.task = t) \/ (\E w \in Workers : Carries(w, t))

\* A task has one message at most, in the broker or in the hands of a worker.
OneMessage ==
    /\ \A m, n \in broker : m.task = n.task => m = n
    /\ \A t \in Tasks : \A v, w \in Workers : Carries(v, t) /\ Carries(w, t) => v = w
    /\ \A m \in broker : \A w \in Workers : ~Carries(w, m.task)

\* While an execution is being reported, the retry of its task waits.
RetryWaits ==
    \A v, w \in Workers :
        Reporting(v) /\ worker[w] # Free /\ Current(w) = Current(v) /\ v # w => At(w, "held")

\* Before a send, as many mails went out as there were retries, or fewer.
MailCount ==
    /\ \A m \in broker : mails[m.task] <= m.retries
    /\ \A w \in Workers : worker[w] # Free =>
          /\ worker[w].at \in {"held", "load", "send"} =>
                mails[Current(w)] <= worker[w].msg.retries
          /\ worker[w].at = "retry" => mails[Current(w)] <= worker[w].msg.retries + 1

\* What a worker is about to report is so, and a retry it reports is published.
Honest(w, t) ==
    /\ worker[w].at = "RETRY" => Carried(t)
    /\ worker[w].at = "SUCCESS" => mails[t] > 0 \/ AppOf[t] \notin alive
    /\ worker[w].at = "stored" => /\ result[t] \in Outcomes
                                  /\ result[t] = "RETRY" => Carried(t)

HonestReports ==
    \A w \in Workers : \A t \in Tasks : worker[w] # Free /\ Current(w) = t => Honest(w, t)

NotYetEnqueued ==
    \A t \in Tasks : result[t] = "none" => mails[t] = 0 /\ t \notin dropped

\* NothingLost, said of the message of a task.
Truthful ==
    \A t \in Tasks :
        /\ result[t] \in {"PENDING", "RETRY"} /\ t \notin dropped => Carried(t)
        /\ Carried(t) => /\ t \notin dropped
                         /\ \/ result[t] \in {"PENDING", "RETRY"}
                            \/ result[t] = "FAILURE" /\ t \in early

IInv ==
    /\ TypeOK
    /\ OneMessage
    /\ RetryWaits
    /\ MailCount
    /\ HonestReports
    /\ NotYetEnqueued
    /\ MailsBounded
    /\ SuccessIsHonest
    /\ Truthful

USE DeliveryAssumption, FreeAssumption

-----------------------------------------------------------------------------
\* Initially nothing is enqueued.
LEMMA InitIInv == Init => IInv
PROOF
  <1> SUFFICES ASSUME Init PROVE IInv
    OBVIOUS
  <1>1. TypeOK
    BY DEF Init, TypeOK, Results
  <1>2. OneMessage /\ RetryWaits /\ MailCount /\ HonestReports
    BY DEF Init, OneMessage, RetryWaits, MailCount, HonestReports, Honest, Carries, Reporting, At
  <1>3. NotYetEnqueued /\ MailsBounded /\ SuccessIsHonest /\ Truthful
    BY DEF Init, NotYetEnqueued, MailsBounded, SuccessIsHonest, Truthful, Carried, Carries,
           Outcomes
  <1> QED
    BY <1>1, <1>2, <1>3 DEF IInv

\* A worker at work holds a message.
LEMMA AtWork ==
    ASSUME TypeOK, NEW w \in Workers, worker[w] # Free
    PROVE  /\ worker[w] \in Executions
           /\ worker[w].at \in Stages
           /\ worker[w].msg \in Messages
           /\ Current(w) \in Tasks
           /\ Current(w) = worker[w].msg.task
           /\ worker[w].msg.retries \in 0 .. MaxRetries
PROOF
  BY DEF TypeOK, Executions, Messages, Current

\* .delay makes the only message of its task.
LEMMA EnqueueStep ==
    ASSUME IInv, NEW t \in Tasks, Enqueue(t)
    PROVE  IInv'
PROOF
  <1> DEFINE m == [task |-> t, retries |-> 0]
  <1>1. result[t] = "none" /\ mails[t] = 0 /\ t \notin dropped /\ ~Carried(t)
    BY DEF IInv, Enqueue, Truthful, NotYetEnqueued, Outcomes
  <1>2. m \in Messages /\ m.task = t /\ m.retries = 0
    BY DEF Messages
  <1> HIDE DEF m
  <1>3. /\ broker' = broker \cup {m}
        /\ result' = [result EXCEPT ![t] = "PENDING"]
        /\ UNCHANGED <<transport, alive, worker, mails, crashes, dropped, early>>
    BY DEF Enqueue, m
  <1>4. TypeOK'
    BY <1>2, <1>3 DEF IInv, TypeOK, Results
  <1>5. /\ \A w \in Workers : \A u : Carries(w, u)' <=> Carries(w, u)
        /\ \A u : Carried(u)' <=> Carried(u) \/ u = t
    BY <1>2, <1>3 DEF Carries, Carried
  <1>6. OneMessage'
    BY <1>1, <1>2, <1>3, <1>5 DEF IInv, OneMessage, Carried
  <1>7. RetryWaits' /\ MailCount'
    BY <1>1, <1>2, <1>3 DEF IInv, RetryWaits, MailCount, Current, Reporting, At
  <1>8. HonestReports'
    <2> SUFFICES ASSUME NEW w \in Workers, NEW u \in Tasks, worker'[w] # Free, Current(w)' = u
                 PROVE  Honest(w, u)'
      BY DEF HonestReports
    <2>1. worker'[w] = worker[w] /\ Honest(w, u)
      BY <1>3 DEF IInv, HonestReports, Current
    <2>2. worker[w].at = "stored" => u # t
      BY <1>1, <2>1 DEF Honest, Outcomes
    <2>3. u # t => result'[u] = result[u]
      BY <1>3 DEF IInv, TypeOK
    <2>4. Carried(u) => Carried(u)'
      BY <1>5
    <2> QED
      BY <1>3, <2>1, <2>2, <2>3, <2>4 DEF Honest
  <1>9. NotYetEnqueued' /\ MailsBounded' /\ SuccessIsHonest' /\ Truthful'
    BY <1>1, <1>3, <1>5 DEF IInv, TypeOK, NotYetEnqueued, MailsBounded, SuccessIsHonest, Truthful
  <1> QED
    BY <1>4, <1>6, <1>7, <1>8, <1>9 DEF IInv

\* A deletion can only excuse a mail that was not sent.
LEMMA DeleteApplicationStep ==
    ASSUME IInv, NEW a \in Apps, DeleteApplication(a)
    PROVE  IInv'
PROOF
  <1>1. /\ alive' \subseteq alive /\ alive' \in SUBSET Apps
        /\ UNCHANGED <<transport, broker, worker, result, mails, crashes, dropped, early>>
    BY DEF IInv, TypeOK, DeleteApplication
  <1>2. TypeOK' /\ OneMessage' /\ RetryWaits' /\ MailCount' /\ NotYetEnqueued' /\ MailsBounded'
    BY <1>1 DEF IInv, TypeOK, OneMessage, RetryWaits, MailCount, NotYetEnqueued, MailsBounded,
                Current, Carries, Reporting, At
  <1>3. HonestReports' /\ SuccessIsHonest' /\ Truthful'
    BY <1>1 DEF IInv, HonestReports, Honest, SuccessIsHonest, Truthful, Carried, Carries, Current
  <1> QED
    BY <1>2, <1>3 DEF IInv

\* A message moves between the broker and a worker that holds it.
LEMMA ReceiveStep ==
    ASSUME IInv, NEW w \in Workers, Receive(w)
    PROVE  IInv'
PROOF
  <1>1. PICK m \in broker : /\ broker' = broker \ {m}
                            /\ worker' = [worker EXCEPT ![w] = [at |-> "held", msg |-> m]]
    BY DEF Receive
  <1>2. /\ worker[w] = Free
        /\ UNCHANGED <<transport, alive, result, mails, crashes, dropped, early>>
    BY DEF Receive
  <1>3. m \in Messages /\ m.task \in Tasks
    BY <1>1 DEF IInv, TypeOK, Messages
  <1>4. /\ worker'[w] = [at |-> "held", msg |-> m] /\ worker'[w] \in Executions
        /\ worker'[w] # Free /\ worker'[w].at = "held" /\ worker'[w].msg = m
        /\ \A v \in Workers \ {w} : worker'[v] = worker[v]
    BY <1>1, <1>3 DEF IInv, TypeOK, Executions, Stages
  <1>5. TypeOK'
    BY <1>1, <1>2, <1>4 DEF IInv, TypeOK
  <1>6. /\ \A v \in Workers \ {w} : \A t : Carries(v, t)' <=> Carries(v, t)
        /\ \A t : Carries(w, t)' <=> t = m.task
        /\ \A t : ~Carries(w, t)
    BY <1>2, <1>4 DEF Carries
  <1>7. OneMessage'
    BY <1>1, <1>6 DEF IInv, OneMessage
  <1>8. \A t : Carried(t)' <=> Carried(t)
    BY <1>1, <1>6 DEF IInv, OneMessage, Carried
  <1>9. RetryWaits'
    BY <1>2, <1>4 DEF IInv, RetryWaits, Reporting, At, Current
  <1>10. MailCount'
    BY <1>1, <1>2, <1>4 DEF IInv, MailCount, Current
  <1>11. HonestReports'
    BY <1>2, <1>4, <1>8 DEF IInv, HonestReports, Honest, Current
  <1>12. NotYetEnqueued' /\ MailsBounded' /\ SuccessIsHonest' /\ Truthful'
    BY <1>2, <1>8 DEF IInv, NotYetEnqueued, MailsBounded, SuccessIsHonest, Truthful
  <1> QED
    BY <1>5, <1>7, <1>9, <1>10, <1>11, <1>12 DEF IInv

\* A worker goes on with its message.
LEMMA EnterKeeps ==
    ASSUME IInv, NEW w \in Workers, worker[w] # Free,
           worker[w].at \notin {"RETRY", "stored"},
           NEW stage \in Stages \ {"held", "RETRY", "stored"}, Enter(w, stage),
           \A v \in Workers : Reporting(v) => Current(v) # Current(w),
           UNCHANGED <<transport, alive, broker, result, crashes, dropped, early>>,
           mails' \in [Tasks -> Nat],
           \A t \in Tasks : t # Current(w) => mails'[t] = mails[t],
           mails[Current(w)] <= mails'[Current(w)],
           mails'[Current(w)] <= MaxRetries + 1,
           stage \in {"load", "send"} => mails'[Current(w)] <= worker[w].msg.retries,
           stage = "retry" => mails'[Current(w)] <= worker[w].msg.retries + 1,
           stage = "SUCCESS" => mails'[Current(w)] > 0 \/ AppOf[Current(w)] \notin alive
    PROVE  IInv'
PROOF
  <1>0. PICK c \in Tasks : c = Current(w)
    BY AtWork DEF IInv
  <1>1. worker[w] \in Executions /\ worker[w].msg.task = c
    BY <1>0, AtWork DEF IInv
  <1>2. /\ worker'[w].msg = worker[w].msg /\ worker'[w].at = stage
        /\ worker'[w] \in Executions /\ worker'[w] # Free
        /\ \A v \in Workers \ {w} : worker'[v] = worker[v]
    BY <1>1 DEF IInv, TypeOK, Enter, Executions
  <1>3. worker' \in [Workers -> Executions \cup {Free}]
    BY <1>1, <1>2 DEF IInv, TypeOK, Enter
  <1>4. TypeOK'
    BY <1>3 DEF IInv, TypeOK
  <1>5. /\ \A v \in Workers : \A t : Carries(v, t)' <=> Carries(v, t)
        /\ \A t : Carried(t)' <=> Carried(t)
    BY <1>2 DEF Carries, Carried
  <1>6. OneMessage'
    BY <1>5 DEF IInv, OneMessage
  <1>7. RetryWaits'
    <2>1. \A v \in Workers : Current(v)' = Current(v)
      BY <1>2 DEF Current
    <2>2. \A v \in Workers \ {w} : /\ Reporting(v)' <=> Reporting(v)
                                   /\ At(v, "held")' <=> At(v, "held")
                                   /\ worker'[v] = worker[v]
      BY <1>2 DEF Reporting, At
    <2>3. ~Reporting(w)'
      BY <1>2 DEF Reporting, At
    <2> QED
      BY <2>1, <2>2, <2>3 DEF IInv, RetryWaits
  <1>8. Carries(w, c) /\ Carried(c)
    BY <1>1 DEF Carries, Carried
  <1>9. MailCount'
    <2>1. \A m \in broker' : mails'[m.task] <= m.retries
      <3>1. \A m \in broker : m.task \in Tasks \ {c}
        BY <1>8 DEF IInv, TypeOK, OneMessage, Messages
      <3> QED
        BY <1>0, <3>1 DEF IInv, MailCount
    <2>2. ASSUME NEW v \in Workers, worker'[v] # Free
          PROVE  /\ worker'[v].at \in {"held", "load", "send"} =>
                      mails'[Current(v)'] <= worker'[v].msg.retries
                 /\ worker'[v].at = "retry" => mails'[Current(v)'] <= worker'[v].msg.retries + 1
      <3>1. CASE v = w
        BY <1>2, <3>1 DEF Current
      <3>2. CASE v # w
        <4>1. worker'[v] = worker[v] /\ worker[v] # Free /\ Current(v)' = Current(v)
          BY <1>2, <2>2, <3>2 DEF Current
        <4>2. CASE Carries(v, Current(v))
          <5>1. Current(v) \in Tasks /\ Current(v) # c
            BY <1>8, <4>1, <4>2, <3>2, AtWork DEF IInv, OneMessage
          <5> QED
            BY <1>0, <4>1, <5>1 DEF IInv, MailCount
        <4>3. CASE ~Carries(v, Current(v))
          BY <4>1, <4>3, AtWork DEF IInv, Carries
        <4> QED
          BY <4>2, <4>3
      <3> QED
        BY <3>1, <3>2
    <2> QED
      BY <2>1, <2>2 DEF MailCount
  <1>10. \A t \in Tasks : mails[t] <= mails'[t]
    BY <1>0 DEF IInv, TypeOK
  <1>11. HonestReports'
    <2> SUFFICES ASSUME NEW v \in Workers, NEW t \in Tasks, worker'[v] # Free, Current(v)' = t
                 PROVE  Honest(v, t)'
      BY DEF HonestReports
    <2>1. CASE v = w
      <3>1. t = c
        BY <1>1, <1>2, <2>1 DEF Current
      <3> QED
        BY <1>0, <1>2, <2>1, <3>1 DEF Honest
    <2>2. CASE v # w
      <3>1. worker'[v] = worker[v] /\ worker[v] # Free /\ Current(v) = t
        BY <1>2, <2>2 DEF Current
      <3>2. Honest(v, t)
        BY <3>1 DEF IInv, HonestReports
      <3> QED
        BY <1>5, <1>10, <3>1, <3>2 DEF IInv, TypeOK, Honest
    <2> QED
      BY <2>1, <2>2
  <1>12. NotYetEnqueued'
    <2>1. result[c] # "none"
      BY <1>8 DEF IInv, Truthful
    <2> QED
      BY <1>0, <2>1 DEF IInv, NotYetEnqueued
  <1>13. MailsBounded'
    BY <1>0 DEF IInv, MailsBounded
  <1>14. SuccessIsHonest'
    BY <1>10 DEF IInv, TypeOK, SuccessIsHonest
  <1>15. Truthful'
    BY <1>5 DEF IInv, Truthful
  <1> QED
    BY <1>4, <1>6, <1>7, <1>9, <1>11, <1>12, <1>13, <1>14, <1>15 DEF IInv

\* What becomes of the message of a worker that is done with it: it is published again,
\* or nobody has it any more; a worker that was but reporting had none.
LEMMA CarriedAfter ==
    ASSUME IInv, NEW w \in Workers, worker[w] # Free, NEW c \in Tasks, c = Current(w),
           worker'[w] = Free \/ worker'[w].at \in {"RETRY", "stored"},
           \A v \in Workers \ {w} : worker'[v] = worker[v],
           NEW new \in SUBSET Messages, broker' = broker \cup new,
           \A m \in new : m.task = c
    PROVE  /\ \A t : t # c => (Carried(t)' <=> Carried(t))
           /\ new # {} => Carried(c)'
           /\ Reporting(w) /\ new = {} => (Carried(c)' <=> Carried(c))
           /\ ~Reporting(w) /\ new = {} => ~Carried(c)'
PROOF
  <1>1. /\ \A v \in Workers \ {w} : \A t : Carries(v, t)' <=> Carries(v, t)
        /\ \A t : ~Carries(w, t)'
        /\ \A t : Carries(w, t) <=> ~Reporting(w) /\ t = c
    BY DEF Carries, Reporting, At, Current
  <1>2. \A t : t # c => (Carried(t)' <=> Carried(t))
    BY <1>1 DEF Carried
  <1>3. new # {} => Carried(c)'
    BY DEF Carried
  <1>4. Reporting(w) /\ new = {} => (Carried(c)' <=> Carried(c))
    BY <1>1 DEF Carried
  <1>5. ~Reporting(w) /\ new = {} => ~Carried(c)'
    BY <1>1 DEF IInv, OneMessage, Carried
  <1> QED
    BY <1>2, <1>3, <1>4, <1>5

\* The worker is done with its message: it is free, or reports.  What it says of its
\* task, or leaves unsaid, is so.
LEMMA HandOverKeeps ==
    ASSUME IInv, NEW w \in Workers, worker[w] # Free, NEW c \in Tasks, c = Current(w),
           worker' \in [Workers -> Executions \cup {Free}],
           \A v \in Workers \ {w} : worker'[v] = worker[v],
           worker'[w] # Free => /\ worker'[w].msg = worker[w].msg /\ worker[w].at # "held"
                                /\ worker'[w].at \in {"RETRY", "stored"},
           NEW new \in SUBSET Messages, broker' = broker \cup new,
           \A m, n \in new : m = n,
           \A m \in new : /\ m.task = c /\ ~Reporting(w)
                          /\ mails[c] <= m.retries,
           UNCHANGED <<transport, alive, mails>>,
           crashes' \in 0 .. MaxCrashes,
           result' \in [Tasks -> Results], result'[c] # "none",
           dropped' \in SUBSET Tasks, early' \in SUBSET Tasks,
           \A t \in Tasks : t # c =>
               /\ result'[t] = result[t]
               /\ t \in dropped' <=> t \in dropped
               /\ t \in early' <=> t \in early,
           worker[w].at = "held" => new # {} /\ UNCHANGED result,
           worker'[w] # Free /\ worker'[w].at = "RETRY" => Carried(c)',
           worker'[w] # Free /\ worker'[w].at = "stored" =>
               /\ result'[c] \in Outcomes
               /\ result'[c] = "RETRY" => Carried(c)',
           result'[c] = "SUCCESS" =>
               mails[c] > 0 \/ AppOf[c] \notin alive,
           result'[c] \in {"PENDING", "RETRY"} /\ c \notin dropped' =>
               Carried(c)',
           Carried(c)' =>
               /\ c \notin dropped'
               /\ \/ result'[c] \in {"PENDING", "RETRY"}
                  \/ result'[c] = "FAILURE" /\ c \in early'
    PROVE  IInv'
PROOF
  <1>1. worker[w] \in Executions /\ worker[w].msg.task = c
    BY AtWork DEF IInv
  <1>2. TypeOK'
    BY DEF IInv, TypeOK
  <1>3. /\ \A v \in Workers \ {w} : \A t : Carries(v, t)' <=> Carries(v, t)
        /\ \A t : ~Carries(w, t)'
        /\ \A t : Carries(w, t) <=> ~Reporting(w) /\ t = c
    BY DEF Carries, Reporting, At, Current
  <1>4. \A t : t # c => (Carried(t)' <=> Carried(t))
    BY CarriedAfter
  <1>5. OneMessage'
    <2>1. \A m \in new : m.task = c /\ Carries(w, c)
      BY <1>3
    <2>2. \A m, n \in broker' : m.task = n.task => m = n
      BY <2>1 DEF IInv, OneMessage
    <2>3. \A m \in broker' : \A v \in Workers : ~Carries(v, m.task)'
      BY <1>3, <2>1 DEF IInv, OneMessage
    <2>4. \A t \in Tasks : \A v, u \in Workers : Carries(v, t)' /\ Carries(u, t)' => v = u
      BY <1>3 DEF IInv, OneMessage
    <2> QED
      BY <2>2, <2>3, <2>4 DEF OneMessage
  <1>6. \A v \in Workers \ {w} : /\ Current(v)' = Current(v)
                                 /\ Reporting(v)' <=> Reporting(v)
                                 /\ At(v, "held")' <=> At(v, "held")
    BY DEF Current, Reporting, At
  <1>7. worker'[w] # Free => Current(w)' = c /\ worker[w].at # "held"
    BY DEF Current
  <1>8. RetryWaits'
    <2> SUFFICES ASSUME NEW v \in Workers, NEW u \in Workers, Reporting(v)', worker'[u] # Free,
                        Current(u)' = Current(v)', v # u
                 PROVE  At(u, "held")'
      BY DEF RetryWaits
    <2>1. CASE v # w /\ u # w
      BY <1>6, <2>1 DEF IInv, RetryWaits
    <2>2. CASE u = w
      <3>1. Reporting(v) /\ Current(v) = c /\ worker[w].at # "held"
        BY <1>6, <1>7, <2>2
      <3> QED
        BY <2>2, <3>1 DEF IInv, RetryWaits, At
    <2>3. CASE v = w
      <3>1. /\ u # w /\ worker[u] # Free /\ Current(u) = c /\ worker[w].at # "held"
        BY <1>6, <1>7, <2>3 DEF Reporting, At
      <3>2. CASE Reporting(w)
        BY <1>6, <2>3, <3>1, <3>2 DEF IInv, RetryWaits
      <3>3. CASE ~Reporting(w)
        <4>1. ~Carries(u, c)
          BY <1>3, <3>1, <3>3 DEF IInv, OneMessage
        <4>2. Reporting(u)
          BY <3>1, <4>1, AtWork DEF IInv, Carries, Reporting, At
        <4> QED
          BY <3>1, <4>2 DEF IInv, RetryWaits, At
      <3> QED
        BY <3>2, <3>3
    <2> QED
      BY <2>1, <2>2, <2>3
  <1>9. MailCount'
    <2>1. \A m \in broker' : mails'[m.task] <= m.retries
      BY DEF IInv, MailCount
    <2>2. ASSUME NEW v \in Workers, worker'[v] # Free
          PROVE  /\ worker'[v].at \in {"held", "load", "send"} =>
                      mails'[Current(v)'] <= worker'[v].msg.retries
                 /\ worker'[v].at = "retry" => mails'[Current(v)'] <= worker'[v].msg.retries + 1
      <3>1. CASE v = w
        BY <2>2, <3>1
      <3>2. CASE v # w
        BY <1>6, <2>2, <3>2 DEF IInv, MailCount
      <3> QED
        BY <3>1, <3>2
    <2> QED
      BY <2>1, <2>2 DEF MailCount
  <1>10. HonestReports'
    <2> SUFFICES ASSUME NEW v \in Workers, NEW t \in Tasks, worker'[v] # Free, Current(v)' = t
                 PROVE  Honest(v, t)'
      BY DEF HonestReports
    <2>1. CASE v = w
      <3>1. t = c
        BY <1>7, <2>1
      <3> QED
        BY <2>1, <3>1 DEF Honest
    <2>2. CASE v # w
      <3>1. worker'[v] = worker[v] /\ worker[v] # Free /\ Current(v) = t
        BY <1>6, <2>2
      <3>2. Honest(v, t)
        BY <3>1 DEF IInv, HonestReports
      <3>3. CASE t # c
        BY <1>4, <3>1, <3>2, <3>3 DEF Honest
      <3>4. CASE t = c /\ Reporting(v)
        <4>1. worker[w].at = "held"
          BY <2>2, <3>1, <3>4 DEF IInv, RetryWaits, At
        <4>2. Carried(c)' /\ result' = result
          BY <4>1, CarriedAfter
        <4> QED
          BY <3>1, <3>2, <3>4, <4>2 DEF Honest, Reporting, At
      <3>5. CASE t = c /\ ~Reporting(v)
        BY <3>1, <3>2, <3>5 DEF Honest, Reporting, At
      <3> QED
        BY <3>3, <3>4, <3>5
    <2> QED
      BY <2>1, <2>2
  <1>11. NotYetEnqueued' /\ MailsBounded' /\ SuccessIsHonest'
    BY DEF IInv, NotYetEnqueued, MailsBounded, SuccessIsHonest
  <1>12. Truthful'
    <2> SUFFICES ASSUME NEW t \in Tasks
                 PROVE  /\ result'[t] \in {"PENDING", "RETRY"} /\ t \notin dropped' => Carried(t)'
                        /\ Carried(t)' => /\ t \notin dropped'
                                          /\ \/ result'[t] \in {"PENDING", "RETRY"}
                                             \/ result'[t] = "FAILURE" /\ t \in early'
      BY DEF Truthful
    <2>2. CASE t = c
      BY <2>2
    <2>3. CASE t # c
      BY <1>4, <2>3 DEF IInv, Truthful
    <2> QED
      BY <2>2, <2>3
  <1> QED
    BY <1>2, <1>5, <1>8, <1>9, <1>10, <1>11, <1>12 DEF IInv

-----------------------------------------------------------------------------
\* The task of a worker at work has been enqueued, and its retry waits in the
\* meantime.
LEMMA OneExecution ==
    ASSUME IInv, NEW w \in Workers, worker[w] # Free, NEW c \in Tasks, c = Current(w)
    PROVE  /\ result[c] # "none"
           /\ ~Reporting(w) => Carried(c)
           /\ At(w, "RETRY") => Carried(c)
           /\ ~Reporting(w) /\ ~At(w, "held") =>
                 \A v \in Workers : Reporting(v) => Current(v) # c
PROOF
  <1>1. ~Reporting(w) => Carried(c)
    BY DEF Carried, Carries, Current, Reporting, At
  <1>2. Honest(w, c)
    BY DEF IInv, HonestReports
  <1>3. At(w, "RETRY") => Carried(c)
    BY <1>2 DEF Honest, At
  <1>4. result[c] # "none"
    BY <1>1, <1>2, <1>3 DEF IInv, Truthful, Honest, Reporting, At, Outcomes
  <1>5. ~Reporting(w) /\ ~At(w, "held") =>
            \A v \in Workers : Reporting(v) => Current(v) # c
    BY DEF IInv, RetryWaits
  <1> QED
    BY <1>1, <1>3, <1>4, <1>5

\* A worker that takes a message has nothing else of that task.
LEMMA StartStep ==
    ASSUME IInv, NEW w \in Workers, Start(w)
    PROVE  IInv'
PROOF
  <1>1. worker[w] # Free /\ worker[w].at = "held" /\ Current(w) \in Tasks
    BY AtWork DEF IInv, Start, At
  <1>2. mails[Current(w)] <= worker[w].msg.retries
    BY <1>1 DEF IInv, MailCount
  <1>3. mails[Current(w)] \in Nat /\ mails[Current(w)] <= MaxRetries + 1
    BY <1>1 DEF IInv, TypeOK, MailsBounded
  <1> QED
    BY <1>1, <1>2, <1>3, EnterKeeps DEF Start, Stages, IInv, TypeOK

\* A SELECT and a send: without a row the application is gone; a send may end in
\* self.retry with its mail gone out or not.
LEMMA LoadStep ==
    ASSUME IInv, NEW w \in Workers, Load(w)
    PROVE  IInv'
PROOF
  <1> DEFINE c == Current(w)
  <1>1. worker[w] # Free /\ worker[w].at = "load" /\ c \in Tasks
    BY AtWork DEF IInv, Load, At
  <1>2. \A v \in Workers : Reporting(v) => Current(v) # c
    BY <1>1, OneExecution DEF Reporting, At
  <1>3. mails[c] <= worker[w].msg.retries
    BY <1>1 DEF IInv, MailCount
  <1>4. mails[c] \in Nat /\ mails[c] <= MaxRetries + 1 /\ mails \in [Tasks -> Nat]
    BY <1>1 DEF IInv, TypeOK, MailsBounded
  <1>5. PICK stage \in {"send", "SUCCESS"} :
            Enter(w, stage) /\ (stage = "SUCCESS" => AppOf[c] \notin alive)
    BY DEF Load
  <1> QED
    BY <1>1, <1>2, <1>3, <1>4, <1>5, EnterKeeps DEF Load, Stages, Outcomes

\* A try that reaches the transport counts one mail more, or none.
LEMMA SendStep ==
    ASSUME IInv, NEW w \in Workers, Send(w)
    PROVE  IInv'
PROOF
  <1>0. PICK c \in Tasks : c = Current(w)
    BY AtWork DEF IInv, Send, At
  <1>1. worker[w] # Free /\ worker[w].at = "send"
    BY DEF Send, At
  <1>2. \A v \in Workers : Reporting(v) => Current(v) # c
    BY <1>0, <1>1, OneExecution DEF Reporting, At
  <1>3. mails[c] <= worker[w].msg.retries /\ worker[w].msg.retries \in 0 .. MaxRetries
    BY <1>0, <1>1, AtWork DEF IInv, MailCount
  <1>4. mails[c] \in Nat /\ mails \in [Tasks -> Nat]
    BY <1>0 DEF IInv, TypeOK
  <1>5. PICK stage \in {"retry", "SUCCESS"} :
            Enter(w, stage) /\ (stage = "SUCCESS" => MailGoesOut(w))
    BY DEF Send
  <1>6. MailGoesOut(w) \/ UNCHANGED mails
    BY DEF Send
  <1>7. CASE MailGoesOut(w)
    <2>1. /\ mails' \in [Tasks -> Nat]
          /\ mails'[c] = mails[c] + 1
          /\ \A t \in Tasks : t # c => mails'[t] = mails[t]
      BY <1>0, <1>4, <1>7 DEF MailGoesOut
    <2>2. mails'[c] > 0 /\ mails'[c] <= MaxRetries + 1 /\ mails[c] <= mails'[c]
          /\ mails'[c] <= worker[w].msg.retries + 1
      BY <1>3, <1>4, <2>1
    <2> QED
      BY <1>0, <1>1, <1>2, <1>5, <2>1, <2>2, EnterKeeps DEF Send, Stages, Outcomes
  <1>8. CASE UNCHANGED mails /\ ~MailGoesOut(w)
    <2>1. stage = "retry"
      BY <1>5, <1>8
    <2>2. mails[c] <= MaxRetries + 1 /\ mails[c] <= mails[c]
          /\ mails[c] <= worker[w].msg.retries + 1
      BY <1>3, <1>4
    <2> QED
      BY <1>0, <1>1, <1>2, <1>4, <1>5, <1>8, <2>1, <2>2, EnterKeeps DEF Send, Stages, Outcomes
  <1> QED
    BY <1>6, <1>7, <1>8

\* A try that fails is not a success, and may be retried.
LEMMA FailStep ==
    ASSUME IInv, NEW w \in Workers, Fail(w)
    PROVE  IInv'
PROOF
  <1>1. worker[w] # Free /\ worker[w].at \in {"load", "send"} /\ Current(w) \in Tasks
    BY AtWork DEF IInv, Fail, At
  <1>2. \A v \in Workers : Reporting(v) => Current(v) # Current(w)
    BY <1>1, OneExecution DEF Reporting, At
  <1>3. mails[Current(w)] \in Nat /\ mails[Current(w)] <= MaxRetries + 1
    BY <1>1 DEF IInv, TypeOK, MailsBounded
  <1> QED
    BY <1>1, <1>2, <1>3, EnterKeeps DEF Fail, Stages, Outcomes, IInv, TypeOK

\* self.retry fails the task, publishes its message again, or loses it.
LEMMA RetryStep ==
    ASSUME IInv, NEW w \in Workers, Retry(w)
    PROVE  IInv'
PROOF
  <1>0. PICK c \in Tasks : c = Current(w)
    BY AtWork DEF IInv, Retry, At
  <1>1. /\ worker[w] # Free /\ worker[w].at = "retry" /\ ~Reporting(w)
        /\ worker[w] \in Executions /\ worker[w].msg \in Messages /\ worker[w].msg.task = c
    BY <1>0, AtWork DEF IInv, Retry, Reporting, At
  <1>2. \A v \in Workers : Reporting(v) => Current(v) # c
    BY <1>0, <1>1, OneExecution DEF At
  <1>3. /\ Carried(c) /\ result[c] # "none" /\ c \notin dropped
        /\ \/ result[c] \in {"PENDING", "RETRY"}
           \/ result[c] = "FAILURE" /\ c \in early
    BY <1>0, <1>1, OneExecution DEF IInv, Truthful
  <1>4. mails[c] <= worker[w].msg.retries + 1 /\ mails[c] \in Nat /\ mails[c] <= MaxRetries + 1
    BY <1>0, <1>1 DEF IInv, TypeOK, MailCount, MailsBounded
  <1>5. UNCHANGED <<transport, alive, result, mails, crashes, early>>
    BY DEF Retry
  <1>6. result \in [Tasks -> Results] /\ dropped \in SUBSET Tasks /\ early \in SUBSET Tasks
        /\ crashes \in 0 .. MaxCrashes /\ worker \in [Workers -> Executions \cup {Free}]
    BY DEF IInv, TypeOK
  <1>7. CASE Enter(w, "FAILURE") /\ UNCHANGED <<broker, dropped>>
    BY <1>0, <1>1, <1>2, <1>4, <1>5, <1>7, EnterKeeps DEF Stages, Outcomes, IInv, TypeOK
  <1>8. CASE /\ MayRetry(worker[w].msg) /\ broker' = broker \cup {NextTry(worker[w].msg)}
             /\ Enter(w, "RETRY") /\ UNCHANGED dropped
    <2> DEFINE n == NextTry(worker[w].msg)
               new == {n}
    <2>1. n \in Messages /\ n.task = c /\ n.retries = worker[w].msg.retries + 1
      BY <1>1, <1>8 DEF NextTry, MayRetry, Messages
    <2>2. /\ worker' \in [Workers -> Executions \cup {Free}]
          /\ worker'[w].msg = worker[w].msg /\ worker'[w].at = "RETRY"
          /\ \A v \in Workers \ {w} : worker'[v] = worker[v]
      BY <1>1, <1>6, <1>8 DEF Enter, Executions, Stages, Outcomes
    <2>3. /\ new \in SUBSET Messages /\ broker' = broker \cup new /\ new # {}
          /\ \A m \in new : m.task = c /\ mails[c] <= m.retries
          /\ \A m, k \in new : m = k
      BY <1>4, <1>8, <2>1
    <2> HIDE DEF new, n
    <2>4. Carried(c)'
      BY <1>0, <1>1, <2>2, <2>3, CarriedAfter
    <2> QED
      BY <1>0, <1>1, <1>3, <1>5, <1>6, <1>8, <2>2, <2>3, <2>4, HandOverKeeps
  <1>9. CASE Leave(w) /\ dropped' = dropped \cup {c} /\ UNCHANGED broker
    <2>1. /\ worker' \in [Workers -> Executions \cup {Free}] /\ worker'[w] = Free
          /\ \A v \in Workers \ {w} : worker'[v] = worker[v]
      BY <1>6, <1>9 DEF Leave
    <2>2. PICK new \in SUBSET Messages : broker' = broker \cup new /\ new = {}
      BY <1>9
    <2>3. ~Carried(c)'
      BY <1>0, <1>1, <2>1, <2>2, CarriedAfter
    <2>4. dropped' \in SUBSET Tasks /\ \A t \in Tasks : t # c => (t \in dropped' <=> t \in dropped)
      BY <1>6, <1>9
    <2> QED
      BY <1>0, <1>1, <1>3, <1>5, <1>6, <1>9, <2>1, <2>2, <2>3, <2>4, HandOverKeeps
  <1> QED
    BY <1>1, <1>7, <1>8, <1>9 DEF Retry

\* The result is stored while the task, if it goes on, goes on as a published retry.
LEMMA StoreStep ==
    ASSUME IInv, NEW w \in Workers, Store(w)
    PROVE  IInv'
PROOF
  <1>0. PICK c \in Tasks : c = Current(w)
    BY AtWork DEF IInv, Store, At
  <1>1. PICK res \in Outcomes : At(w, res) /\ SetResult(w, res)
    BY DEF Store
  <1>2. /\ worker[w] # Free /\ worker[w].at = res /\ worker[w] \in Executions
        /\ Reporting(w) <=> res = "RETRY"
    BY <1>1, AtWork DEF IInv, Reporting, At, Outcomes
  <1>3. Honest(w, c)
    BY <1>0, <1>2 DEF IInv, HonestReports
  <1>4. /\ result' \in [Tasks -> Results] /\ result'[c] = res
        /\ \A t \in Tasks : t # c => result'[t] = result[t]
    BY <1>0, <1>1 DEF IInv, TypeOK, SetResult, Results
  <1>5. /\ worker' \in [Workers -> Executions \cup {Free}] /\ worker'[w] # Free
        /\ worker'[w].msg = worker[w].msg /\ worker'[w].at = "stored"
        /\ \A v \in Workers \ {w} : worker'[v] = worker[v]
    BY <1>2 DEF IInv, TypeOK, Store, Enter, Executions, Stages
  <1>6. PICK new \in SUBSET Messages : broker' = broker \cup new /\ new = {}
    BY DEF Store
  <1>7. /\ Reporting(w) => (Carried(c)' <=> Carried(c))
        /\ ~Reporting(w) => ~Carried(c)'
    BY <1>0, <1>2, <1>5, <1>6, CarriedAfter
  <1>8. res = "RETRY" => Carried(c)' /\ c \notin dropped
    BY <1>2, <1>3, <1>7 DEF Honest, IInv, Truthful
  <1>9. res # "RETRY" => ~Carried(c)'
    BY <1>2, <1>7
  <1>10. res = "SUCCESS" => mails[c] > 0 \/ AppOf[c] \notin alive
    BY <1>2, <1>3 DEF Honest
  <1>11. UNCHANGED <<transport, alive, mails, crashes, dropped, early>>
    BY DEF Store
  <1>12. /\ crashes' \in 0 .. MaxCrashes /\ dropped' \in SUBSET Tasks /\ early' \in SUBSET Tasks
         /\ worker[w].at # "held" /\ res # "none" /\ res # "PENDING"
    BY <1>2, <1>11 DEF IInv, TypeOK, Outcomes
  <1> QED
    BY <1>0, <1>2, <1>4, <1>5, <1>6, <1>8, <1>9, <1>10, <1>11, <1>12, HandOverKeeps

\* A result that is reported is that of the try.
LEMMA ReportStep ==
    ASSUME IInv, NEW w \in Workers, Report(w)
    PROVE  IInv'
PROOF
  <1>0. PICK c \in Tasks : c = Current(w)
    BY AtWork DEF IInv, Report, At
  <1>1. worker[w] # Free /\ worker[w].at = "stored" /\ Reporting(w)
    BY DEF Report, Reporting, At
  <1>2. /\ worker' \in [Workers -> Executions \cup {Free}] /\ worker'[w] = Free
        /\ \A v \in Workers \ {w} : worker'[v] = worker[v]
    BY DEF IInv, TypeOK, Report, Leave
  <1>3. PICK new \in SUBSET Messages : broker' = broker \cup new /\ new = {}
    BY DEF Report
  <1>4. Carried(c)' <=> Carried(c)
    BY <1>0, <1>1, <1>2, <1>3, CarriedAfter
  <1>5. result[c] # "none"
    BY <1>0, <1>1, OneExecution
  <1>6. UNCHANGED <<transport, alive, result, mails, crashes, dropped, early>>
    BY DEF Report
  <1>7. /\ crashes \in 0 .. MaxCrashes /\ dropped \in SUBSET Tasks /\ early \in SUBSET Tasks
        /\ result \in [Tasks -> Results]
    BY DEF IInv, TypeOK
  <1>8. /\ result[c] = "SUCCESS" => mails[c] > 0 \/ AppOf[c] \notin alive
        /\ result[c] \in {"PENDING", "RETRY"} /\ c \notin dropped => Carried(c)
        /\ Carried(c) => /\ c \notin dropped
                         /\ \/ result[c] \in {"PENDING", "RETRY"}
                            \/ result[c] = "FAILURE" /\ c \in early
    BY DEF IInv, SuccessIsHonest, Truthful
  <1> QED
    BY <1>0, <1>1, <1>2, <1>3, <1>4, <1>5, <1>6, <1>7, <1>8, HandOverKeeps

\* Only a message not yet acknowledged survives a crash, and then as it was.  The pool
\* may belie a published retry.
LEMMA CrashStep ==
    ASSUME IInv, NEW w \in Workers, Crash(w)
    PROVE  IInv'
PROOF
  <1>0. PICK c \in Tasks : c = Current(w)
    BY AtWork DEF IInv, Crash
  <1>1. /\ worker[w] # Free /\ worker[w].msg \in Messages /\ worker[w].msg.task = c
        /\ result[c] # "none"
    BY <1>0, AtWork, OneExecution DEF IInv, Crash
  <1>2. /\ worker' \in [Workers -> Executions \cup {Free}] /\ worker'[w] = Free
        /\ \A v \in Workers \ {w} : worker'[v] = worker[v]
    BY DEF IInv, TypeOK, Crash, Leave
  <1>3. /\ crashes' \in 0 .. MaxCrashes /\ dropped \in SUBSET Tasks /\ early \in SUBSET Tasks
        /\ result \in [Tasks -> Results]
    BY DEF IInv, TypeOK, Crash
  <1>4. /\ result[c] = "SUCCESS" => mails[c] > 0 \/ AppOf[c] \notin alive
        /\ result[c] \in {"PENDING", "RETRY"} /\ c \notin dropped => Carried(c)
        /\ Carried(c) => /\ c \notin dropped
                         /\ \/ result[c] \in {"PENDING", "RETRY"}
                            \/ result[c] = "FAILURE" /\ c \in early
    BY DEF IInv, SuccessIsHonest, Truthful
  <1>5. UNCHANGED <<transport, alive, mails>>
    BY DEF Crash
  <1>6. CASE /\ At(w, "held") /\ broker' = broker \cup {worker[w].msg}
             /\ UNCHANGED <<result, dropped, early>>
    <2> DEFINE new == {worker[w].msg}
    <2>1. /\ ~Reporting(w) /\ new \in SUBSET Messages /\ broker' = broker \cup new /\ new # {}
          /\ \A m, n \in new : m = n
      BY <1>1, <1>6 DEF Reporting, At
    <2>2. \A m \in new : m.task = c /\ mails[c] <= m.retries
      BY <1>0, <1>1, <1>6 DEF IInv, MailCount, At
    <2> HIDE DEF new
    <2>3. Carried(c)'
      BY <1>0, <1>1, <1>2, <2>1, <2>2, CarriedAfter
    <2>4. Carried(c)
      BY <1>0, <1>1, <2>1, OneExecution
    <2> QED
      BY <1>0, <1>1, <1>2, <1>3, <1>4, <1>5, <1>6, <2>1, <2>2, <2>3, <2>4, HandOverKeeps
  <1>7. CASE ~At(w, "held") /\ (ReportLoss(w) \/ LoseUnseen(w))
    <2>1. PICK new \in SUBSET Messages : broker' = broker \cup new /\ new = {}
      BY <1>7 DEF ReportLoss, LoseUnseen
    <2>2. worker[w].at # "held"
      BY <1>1, <1>7 DEF At
    <2>3. /\ Reporting(w) => (Carried(c)' <=> Carried(c))
          /\ ~Reporting(w) => ~Carried(c)'
      BY <1>0, <1>1, <1>2, <2>1, CarriedAfter
    <2>4. CASE ReportLoss(w)
      <3>1. /\ result' \in [Tasks -> Results] /\ result'[c] \in {"SUCCESS", "FAILURE"}
            /\ \A t \in Tasks : t # c => result'[t] = result[t]
            /\ result'[c] = "SUCCESS" <=> result[c] = "SUCCESS"
        BY <1>0, <1>3, <2>4 DEF ReportLoss, SetResult, Results, Outcomes
      <3>2. /\ early' \in SUBSET Tasks /\ \A t \in Tasks : t # c => (t \in early' <=> t \in early)
            /\ Reporting(w) /\ result'[c] # result[c] => c \in early'
            /\ c \in early => c \in early'
        BY <1>0, <1>3, <2>4 DEF ReportLoss
      <3>3. dropped' = dropped
        BY <2>4 DEF ReportLoss
      <3>4. Carried(c)' => c \notin dropped /\ result'[c] = "FAILURE" /\ c \in early'
        BY <1>4, <2>3, <3>1, <3>2
      <3> QED
        BY <1>0, <1>1, <1>2, <1>3, <1>4, <1>5, <2>1, <2>2, <3>1, <3>2, <3>3, <3>4, HandOverKeeps
    <2>5. CASE LoseUnseen(w)
      <3>1. UNCHANGED <<result, early>>
        BY <2>5 DEF LoseUnseen
      <3>2. /\ dropped' \in SUBSET Tasks
            /\ \A t \in Tasks : t # c => (t \in dropped' <=> t \in dropped)
            /\ Reporting(w) => dropped' = dropped
            /\ ~Reporting(w) => c \in dropped'
        BY <1>0, <1>3, <2>5 DEF LoseUnseen
      <3>3. CASE Reporting(w)
        BY <1>0, <1>1, <1>2, <1>3, <1>4, <1>5, <2>1, <2>2, <2>3, <3>1, <3>2, <3>3, HandOverKeeps
      <3>4. CASE ~Reporting(w)
        BY <1>0, <1>1, <1>2, <1>3, <1>4, <1>5, <2>1, <2>2, <2>3, <3>1, <3>2, <3>4, HandOverKeeps
      <3> QED
        BY <3>3, <3>4
    <2> QED
      BY <1>7, <2>4, <2>5
  <1> QED
    BY <1>6, <1>7 DEF Crash

-----------------------------------------------------------------------------
\* Every step keeps the invariant.
LEMMA NextIInv == IInv /\ [Next]_vars => IInv'
PROOF
  <1> SUFFICES ASSUME IInv, [Next]_vars PROVE IInv'
    OBVIOUS
  <1>1. ASSUME NEW t \in Tasks, Enqueue(t) PROVE IInv'
    BY <1>1, EnqueueStep
  <1>2. ASSUME NEW a \in Apps, DeleteApplication(a) PROVE IInv'
    BY <1>2, DeleteApplicationStep
  <1>3. ASSUME NEW w \in Workers, Work(w) PROVE IInv'
    BY <1>3, ReceiveStep, StartStep, LoadStep, SendStep, FailStep, RetryStep, StoreStep,
       ReportStep DEF Work
  <1>4. ASSUME NEW w \in Workers, Crash(w) PROVE IInv'
    BY <1>4, CrashStep
  <1>5. CASE UNCHANGED vars
    BY <1>5 DEF vars, IInv, TypeOK, OneMessage, RetryWaits, MailCount, HonestReports, Honest,
                NotYetEnqueued, MailsBounded, SuccessIsHonest, Truthful, Carried, Carries,
                Reporting, At, Current
  <1> QED
    BY <1>1, <1>2, <1>3, <1>4, <1>5 DEF Next

\* The invariant holds in every reachable state.
THEOREM Invariance == Spec => []IInv
PROOF
  BY InitIInv, NextIInv, PTL DEF Spec

\* The message of a task is what keeps it under way: a retry that is being reported has
\* been published.
LEMMA CarriedIsInFlight ==
    ASSUME IInv
    PROVE  \A t \in Tasks : InFlight(t) <=> Carried(t)
PROOF
  <1>1. \A t \in Tasks : \A w \in Workers :
            worker[w] # Free /\ worker[w].at = "RETRY" /\ Current(w) = t => Carried(t)
    BY DEF IInv, HonestReports, Honest
  <1> QED
    BY <1>1 DEF InFlight, Carried, Carries, At, Current

-----------------------------------------------------------------------------
\* Messages, workers, results and counts keep their types.
THEOREM TypeCorrect == Spec => []TypeOK
PROOF
  <1>1. IInv => TypeOK
    BY DEF IInv
  <1> QED
    BY <1>1, Invariance, PTL

\* No candidate gets more copies of a mail than one for each try of
\* deliver_plain_email, wherever workers die.
THEOREM AtMostOneMailPerTry == Spec => []MailsBounded
PROOF
  <1>1. IInv => MailsBounded
    BY DEF IInv
  <1> QED
    BY <1>1, Invariance, PTL

\* Success means that the mail went out or its application is gone.
THEOREM HonestSuccess == Spec => []SuccessIsHonest
PROOF
  <1>1. IInv => SuccessIsHonest
    BY DEF IInv
  <1> QED
    BY <1>1, Invariance, PTL

\* Tasks without a final result are under way or were swallowed, and those with one are
\* not under way, wherever between publishing a retry and storing RETRY a process dies,
\* unless it died just there and was reported as a failure.
THEOREM NoLoss == Spec => []NothingLost
PROOF
  <1>1. IInv => NothingLost
    BY CarriedIsInFlight DEF IInv, NothingLost, Truthful
  <1> QED
    BY <1>1, Invariance, PTL

\* Only a retry repeats a mail.
THEOREM Repeats == Spec => RepeatedOnlyByRetry
PROOF
  <1> DEFINE Again(t) ==
        mails[t] > 0 /\ mails'[t] > mails[t] =>
           \E w \in Workers : At(w, "send") /\ Current(w) = t /\ worker[w].msg.retries > 0
  <1>1. IInv /\ [Next]_vars => [\A t \in Tasks : Again(t)]_vars
    <2> SUFFICES ASSUME IInv, Next, NEW t \in Tasks, mails[t] > 0, mails'[t] > mails[t]
                 PROVE  \E w \in Workers :
                            At(w, "send") /\ Current(w) = t /\ worker[w].msg.retries > 0
      OBVIOUS
    <2>1. mails' # mails
      BY DEF IInv, TypeOK
    <2>2. PICK w \in Workers : Send(w)
      BY <2>1 DEF Next, Work, Enqueue, DeleteApplication, Receive, Start, Load, Fail, Retry,
                  Store, Report, Crash
    <2>3. At(w, "send") /\ mails' = [mails EXCEPT ![Current(w)] = @ + 1]
      BY <2>1, <2>2 DEF Send, MailGoesOut
    <2>4. Current(w) = t
      BY <2>3 DEF IInv, TypeOK
    <2>5. worker[w].msg.retries > 0
      BY <2>3, <2>4, AtWork DEF IInv, TypeOK, MailCount, At
    <2> QED
      BY <2>3, <2>4, <2>5
  <1> QED
    BY <1>1, Invariance, PTL DEF Spec, RepeatedOnlyByRetry

-----------------------------------------------------------------------------
(* Refinement of RetriedDelivery *)

Premature == {t \in Tasks : result[t] = "FAILURE" /\ Carried(t)}

\* Initially no task is asked for.
LEMMA PromiseInit == Init => Promise!Init
PROOF
  BY DEF Init, Promise!Init

\* A task is open to RetriedDelivery as long as somebody has its message.
LEMMA OpenIsCarried ==
    ASSUME IInv
    PROVE  /\ {t \in Tasks : result[t] = "FAILURE" /\ InFlight(t)} = Premature
           /\ \A t \in Tasks : Carried(t) => Promise!IsOpen(t)
PROOF
  <1>1. {t \in Tasks : result[t] = "FAILURE" /\ InFlight(t)} = Premature
    BY CarriedIsInFlight DEF Premature
  <1>2. \A t \in Tasks : Carried(t) => Promise!IsOpen(t)
    BY <1>1 DEF IInv, Truthful, Promise!IsOpen, Premature
  <1> QED
    BY <1>1, <1>2

\* What RetriedDelivery sees as premature, after a step.
LEMMA PrematureAfter ==
    ASSUME IInv'
    PROVE  {t \in Tasks : result'[t] = "FAILURE" /\ InFlight(t)'} = Premature'
PROOF
  <1>1. \A t \in Tasks : \A w \in Workers :
            worker'[w] # Free /\ worker'[w].at = "RETRY" /\ Current(w)' = t => Carried(t)'
    BY DEF IInv, HonestReports, Honest
  <1>2. \A t \in Tasks : InFlight(t)' <=> Carried(t)'
    BY <1>1 DEF InFlight, Carried, Carries, At, Current
  <1> QED
    BY <1>2 DEF Premature

\* Nobody outside sees a step that moves a message and tells nothing.
LEMMA Unseen ==
    ASSUME IInv, IInv', UNCHANGED <<alive, result, mails, dropped>>,
           \A t \in Tasks : Carried(t)' <=> Carried(t)
    PROVE  UNCHANGED Promise!vars
PROOF
  <1>1. Premature' = Premature
    BY DEF Premature
  <1> QED
    BY <1>1, OpenIsCarried, PrematureAfter DEF Promise!vars

\* Its own worker tells what became of a task, too early, or it is lost.
LEMMA Heard ==
    ASSUME IInv, IInv', NEW c \in Tasks, Carried(c), UNCHANGED <<alive, mails>>,
           \A t \in Tasks : t # c => (Carried(t)' <=> Carried(t)),
           NEW res \in Outcomes,
           \/ /\ result' = [result EXCEPT ![c] = res]
              /\ UNCHANGED dropped
              /\ Carried(c)' => res \in {"RETRY", "FAILURE"}
              /\ res = "SUCCESS" => mails[c] > 0 \/ AppOf[c] \notin alive
           \/ /\ UNCHANGED result
              /\ dropped' = dropped \cup {c}
              /\ ~Carried(c)'
    PROVE  Promise!Next
PROOF
  <1> DEFINE early0 == {t \in Tasks : result[t] = "FAILURE" /\ InFlight(t)}
  <1>1. early0 = Premature /\ early0' = Premature' /\ Promise!IsOpen(c)
    BY OpenIsCarried, PrematureAfter
  <1>2. CASE /\ result' = [result EXCEPT ![c] = res] /\ UNCHANGED dropped
             /\ Carried(c)' => res \in {"RETRY", "FAILURE"}
             /\ res = "SUCCESS" => mails[c] > 0 \/ AppOf[c] \notin alive
    <2>1. result'[c] = res /\ \A t \in Tasks : t # c => result'[t] = result[t]
      BY <1>2 DEF IInv, TypeOK
    <2>2. CASE Carried(c)' /\ res = "FAILURE"
      <3>1. Premature' = Premature \cup {c}
        BY <2>1, <2>2 DEF Premature
      <3>2. Promise!FailTooEarly(c)
        BY <1>1, <1>2, <2>2, <3>1 DEF Promise!FailTooEarly
      <3> QED
        BY <3>2 DEF Promise!Next
    <2>3. CASE ~Carried(c)' \/ res = "RETRY"
      <3>1. Premature' = Premature \ {c}
        BY <2>1, <2>3 DEF Premature
      <3>2. Promise!Tell(c, res)
        BY <1>1, <1>2, <3>1 DEF Promise!Tell
      <3>3. Promise!Succeed(c) \/ Promise!RetryOrFail(c)
        BY <1>2, <3>2 DEF Outcomes, Promise!Succeed, Promise!RetryOrFail
      <3> QED
        BY <3>3 DEF Promise!Next
    <2> QED
      BY <1>2, <2>2, <2>3
  <1>3. CASE UNCHANGED result /\ dropped' = dropped \cup {c} /\ ~Carried(c)'
    <2>1. Premature' = Premature \ {c}
      BY <1>3 DEF Premature
    <2>2. Promise!Lose(c)
      BY <1>1, <1>3, <2>1 DEF Promise!Lose
    <2> QED
      BY <2>2 DEF Promise!Next
  <1> QED
    BY <1>2, <1>3

\* A worker that goes on keeps its message.
LEMMA EnterCarries ==
    ASSUME IInv, NEW w \in Workers, worker[w] # Free, ~Reporting(w),
           NEW stage \in Stages \ {"RETRY", "stored"}, Enter(w, stage), UNCHANGED broker
    PROVE  \A t \in Tasks : Carried(t)' <=> Carried(t)
PROOF
  <1>1. worker[w] \in Executions
    BY AtWork DEF IInv
  <1>2. /\ worker'[w].msg = worker[w].msg /\ worker'[w].at = stage /\ worker'[w] # Free
        /\ \A v \in Workers \ {w} : worker'[v] = worker[v]
    BY <1>1 DEF IInv, TypeOK, Enter, Executions
  <1> QED
    BY <1>2 DEF Carried, Carries, Reporting, At

\* A mail that goes out is one of a task under way.
LEMMA SendKeepsPromise ==
    ASSUME IInv, IInv', NEW w \in Workers, Send(w)
    PROVE  UNCHANGED Promise!vars \/ Promise!Next
PROOF
  <1>0. PICK c \in Tasks : c = Current(w)
    BY AtWork DEF IInv, Send, At
  <1>1. worker[w] # Free /\ worker[w].at = "send" /\ ~Reporting(w)
    BY DEF Send, Reporting, At
  <1>2. PICK stage \in {"retry", "SUCCESS"} : Enter(w, stage)
    BY DEF Send
  <1>3. UNCHANGED <<alive, broker, result, dropped>>
    BY DEF Send
  <1>4. \A t \in Tasks : Carried(t)' <=> Carried(t)
    BY <1>1, <1>2, <1>3, EnterCarries DEF Stages, Outcomes
  <1>5. CASE UNCHANGED mails
    BY <1>3, <1>4, <1>5, Unseen
  <1>6. CASE MailGoesOut(w)
    <2>1. mails[c] <= MaxRetries
      BY <1>0, <1>1, AtWork DEF IInv, TypeOK, MailCount
    <2>2. Promise!IsOpen(c)
      BY <1>0, <1>1, OneExecution, OpenIsCarried
    <2>3. UNCHANGED {t \in Tasks : result[t] = "FAILURE" /\ InFlight(t)}
      <3>1. Premature' = Premature
        BY <1>3, <1>4 DEF Premature
      <3> QED
        BY <3>1, OpenIsCarried, PrematureAfter
    <2>4. Promise!MailGoesOut(c)
      BY <1>0, <1>3, <1>6, <2>1, <2>2, <2>3 DEF MailGoesOut, Promise!MailGoesOut
    <2> QED
      BY <2>4 DEF Promise!Next
  <1> QED
    BY <1>5, <1>6 DEF Send

\* A retry publishes the message it has, or loses it.
LEMMA RetryKeepsPromise ==
    ASSUME IInv, IInv', NEW w \in Workers, Retry(w)
    PROVE  UNCHANGED Promise!vars \/ Promise!Next
PROOF
  <1>0. PICK c \in Tasks : c = Current(w)
    BY AtWork DEF IInv, Retry, At
  <1>1. /\ worker[w] # Free /\ worker[w].at = "retry" /\ ~Reporting(w) /\ Carried(c)
        /\ worker[w] \in Executions /\ worker[w].msg \in Messages /\ worker[w].msg.task = c
    BY <1>0, AtWork, OneExecution DEF IInv, Retry, Reporting, At
  <1>2. UNCHANGED <<alive, result, mails>>
    BY DEF Retry
  <1>3. CASE Enter(w, "FAILURE") /\ UNCHANGED <<broker, dropped>>
    <2>1. \A t \in Tasks : Carried(t)' <=> Carried(t)
      BY <1>1, <1>3, EnterCarries DEF Stages, Outcomes
    <2> QED
      BY <1>2, <1>3, <2>1, Unseen
  <1>4. CASE /\ MayRetry(worker[w].msg) /\ broker' = broker \cup {NextTry(worker[w].msg)}
             /\ Enter(w, "RETRY") /\ UNCHANGED dropped
    <2> DEFINE new == {NextTry(worker[w].msg)}
    <2>1. /\ new \in SUBSET Messages /\ broker' = broker \cup new /\ new # {}
          /\ \A m \in new : m.task = c
      BY <1>1, <1>4 DEF NextTry, MayRetry, Messages
    <2> HIDE DEF new
    <2>2. worker'[w].at = "RETRY" /\ \A v \in Workers \ {w} : worker'[v] = worker[v]
      BY <1>1, <1>4 DEF IInv, TypeOK, Enter, Executions
    <2>3. \A t \in Tasks : Carried(t)' <=> Carried(t)
      BY <1>0, <1>1, <2>1, <2>2, CarriedAfter
    <2> QED
      BY <1>2, <1>4, <2>3, Unseen
  <1>5. CASE Leave(w) /\ dropped' = dropped \cup {c} /\ UNCHANGED broker
    <2>1. PICK new \in SUBSET Messages : broker' = broker \cup new /\ new = {}
      BY <1>5
    <2>2. worker'[w] = Free /\ \A v \in Workers \ {w} : worker'[v] = worker[v]
      BY <1>5 DEF IInv, TypeOK, Leave
    <2>3. ~Carried(c)' /\ \A t \in Tasks : t # c => (Carried(t)' <=> Carried(t))
      BY <1>0, <1>1, <2>1, <2>2, CarriedAfter
    <2>4. "FAILURE" \in Outcomes
      BY DEF Outcomes
    <2> QED
      BY <1>1, <1>2, <1>5, <2>3, <2>4, Heard
  <1> QED
    BY <1>1, <1>3, <1>4, <1>5 DEF Retry

\* A stored result is one the promise allows.
LEMMA StoreKeepsPromise ==
    ASSUME IInv, IInv', NEW w \in Workers, Store(w)
    PROVE  Promise!Next
PROOF
  <1>0. PICK c \in Tasks : c = Current(w)
    BY AtWork DEF IInv, Store, At
  <1>1. PICK res \in Outcomes : At(w, res) /\ SetResult(w, res)
    BY DEF Store
  <1>2. /\ worker[w] # Free /\ worker[w].at = res /\ worker[w] \in Executions
        /\ Reporting(w) <=> res = "RETRY"
    BY <1>1, AtWork DEF IInv, Reporting, At, Outcomes
  <1>3. Honest(w, c) /\ Carried(c)
    BY <1>0, <1>1, <1>2, OneExecution DEF IInv, HonestReports
  <1>4. worker'[w].at = "stored" /\ \A v \in Workers \ {w} : worker'[v] = worker[v]
    BY <1>2 DEF IInv, TypeOK, Store, Enter, Executions
  <1>5. PICK new \in SUBSET Messages : broker' = broker \cup new /\ new = {}
    BY DEF Store
  <1>6. /\ \A t \in Tasks : t # c => (Carried(t)' <=> Carried(t))
        /\ Carried(c)' => res = "RETRY"
    BY <1>0, <1>2, <1>4, <1>5, CarriedAfter
  <1>7. UNCHANGED <<alive, mails, dropped>> /\ result' = [result EXCEPT ![c] = res]
    BY <1>0, <1>1 DEF Store, SetResult
  <1>8. res = "SUCCESS" => mails[c] > 0 \/ AppOf[c] \notin alive
    BY <1>2, <1>3 DEF Honest
  <1> QED
    BY <1>3, <1>6, <1>7, <1>8, Heard

\* A death loses a task, is told as a failure, perhaps too early, or is not seen.
LEMMA CrashKeepsPromise ==
    ASSUME IInv, IInv', NEW w \in Workers, Crash(w)
    PROVE  UNCHANGED Promise!vars \/ Promise!Next
PROOF
  <1>0. PICK c \in Tasks : c = Current(w)
    BY AtWork DEF IInv, Crash
  <1>1. /\ worker[w] # Free /\ worker[w].msg \in Messages /\ worker[w].msg.task = c
        /\ ~Reporting(w) => Carried(c)
    BY <1>0, AtWork, OneExecution DEF IInv, Crash
  <1>2. /\ worker'[w] = Free /\ \A v \in Workers \ {w} : worker'[v] = worker[v]
        /\ UNCHANGED <<alive, mails>>
    BY DEF IInv, TypeOK, Crash, Leave
  <1>3. CASE /\ At(w, "held") /\ broker' = broker \cup {worker[w].msg}
             /\ UNCHANGED <<result, dropped, early>>
    <2> DEFINE new == {worker[w].msg}
    <2>1. /\ new \in SUBSET Messages /\ broker' = broker \cup new /\ new # {}
          /\ \A m \in new : m.task = c
      BY <1>1, <1>3
    <2> HIDE DEF new
    <2>2. ~Reporting(w)
      BY <1>3 DEF Reporting, At
    <2>3. \A t \in Tasks : Carried(t)' <=> Carried(t)
      BY <1>0, <1>1, <1>2, <2>1, <2>2, CarriedAfter
    <2> QED
      BY <1>2, <1>3, <2>3, Unseen
  <1>4. CASE ReportLoss(w) \/ LoseUnseen(w)
    <2>1. PICK new \in SUBSET Messages : broker' = broker \cup new /\ new = {}
      BY <1>4 DEF ReportLoss, LoseUnseen
    <2>2. /\ \A t \in Tasks : t # c => (Carried(t)' <=> Carried(t))
          /\ Reporting(w) => (Carried(c)' <=> Carried(c))
          /\ ~Reporting(w) => ~Carried(c)'
      BY <1>0, <1>1, <1>2, <2>1, CarriedAfter
    <2>3. "FAILURE" \in Outcomes
      BY DEF Outcomes
    <2>4. CASE ReportLoss(w) /\ Carried(c)
      <3>1. result[c] # "SUCCESS"
        BY <2>4 DEF IInv, Truthful
      <3>2. result' = [result EXCEPT ![c] = "FAILURE"] /\ UNCHANGED dropped
        BY <1>0, <2>4, <3>1 DEF ReportLoss, SetResult
      <3> QED
        BY <1>2, <2>2, <2>3, <2>4, <3>2, Heard
    <2>5. CASE ReportLoss(w) /\ ~Carried(c)
      <3>1. Honest(w, c) /\ Reporting(w)
        BY <1>0, <1>1, <2>5 DEF IInv, HonestReports
      <3>2. result[c] \in {"SUCCESS", "FAILURE"}
        BY <2>5, <3>1 DEF Honest, Reporting, At, Outcomes
      <3>3. UNCHANGED <<result, dropped>>
        BY <1>0, <2>5, <3>2 DEF ReportLoss, SetResult, IInv, TypeOK
      <3> QED
        BY <1>2, <2>2, <3>1, <3>3, Unseen
    <2>6. CASE LoseUnseen(w) /\ Reporting(w)
      BY <1>2, <2>2, <2>6, Unseen DEF LoseUnseen
    <2>7. CASE LoseUnseen(w) /\ ~Reporting(w)
      <3>1. UNCHANGED result /\ dropped' = dropped \cup {c}
        BY <1>0, <2>7 DEF LoseUnseen
      <3> QED
        BY <1>1, <1>2, <2>2, <2>3, <2>7, <3>1, Heard
    <2> QED
      BY <1>4, <2>4, <2>5, <2>6, <2>7
  <1> QED
    BY <1>3, <1>4 DEF Crash

\* Every step of broker and workers is a step of RetriedDelivery or not seen there.
LEMMA PromiseStep == IInv /\ [Next]_vars /\ IInv' => UNCHANGED Promise!vars \/ Promise!Next
PROOF
  <1> SUFFICES ASSUME IInv, [Next]_vars, IInv' PROVE UNCHANGED Promise!vars \/ Promise!Next
    OBVIOUS
  <1>1. ASSUME NEW t \in Tasks, Enqueue(t) PROVE Promise!Next
    <2>1. \A u \in Tasks : u # t => (Carried(u)' <=> Carried(u)) /\ result'[u] = result[u]
      BY <1>1 DEF Enqueue, Carried, Carries, IInv, TypeOK
    <2>2. result[t] = "none" /\ result'[t] = "PENDING"
      BY <1>1 DEF Enqueue, IInv, TypeOK
    <2>3. Premature' = Premature
      BY <2>1, <2>2 DEF Premature
    <2>4. Promise!Ask(t)
      BY <1>1, <2>3, OpenIsCarried, PrematureAfter DEF Enqueue, Promise!Ask
    <2> QED
      BY <2>4 DEF Promise!Next
  <1>2. ASSUME NEW a \in Apps, DeleteApplication(a) PROVE Promise!Next
    <2>1. Premature' = Premature
      BY <1>2 DEF DeleteApplication, Premature, Carried, Carries
    <2>2. Promise!Withdraw(a)
      BY <1>2, <2>1, OpenIsCarried, PrematureAfter DEF DeleteApplication, Promise!Withdraw
    <2> QED
      BY <2>2 DEF Promise!Next
  <1>3. ASSUME NEW w \in Workers, Receive(w) PROVE UNCHANGED Promise!vars
    <2>1. PICK m \in broker : /\ broker' = broker \ {m}
                              /\ worker' = [worker EXCEPT ![w] = [at |-> "held", msg |-> m]]
      BY <1>3 DEF Receive
    <2>2. /\ worker'[w].at = "held" /\ worker'[w].msg = m /\ worker'[w] # Free
          /\ worker[w] = Free /\ \A v \in Workers \ {w} : worker'[v] = worker[v]
      BY <1>3, <2>1 DEF Receive, IInv, TypeOK, Executions, Stages
    <2>3. \A t \in Tasks : Carried(t)' <=> Carried(t)
      BY <2>1, <2>2 DEF Carried, Carries, IInv, OneMessage
    <2> QED
      BY <1>3, <2>3, Unseen DEF Receive
  <1>4. ASSUME NEW w \in Workers, Start(w) \/ Load(w) \/ Fail(w) PROVE UNCHANGED Promise!vars
    <2>1. worker[w] # Free /\ ~Reporting(w) /\ UNCHANGED <<alive, broker, result, mails, dropped>>
      BY <1>4 DEF Start, Load, Fail, Reporting, At
    <2>2. PICK stage \in Stages \ {"RETRY", "stored"} : Enter(w, stage)
      BY <1>4 DEF Start, Load, Fail, Stages, Outcomes
    <2> QED
      BY <2>1, <2>2, EnterCarries, Unseen
  <1>5. ASSUME NEW w \in Workers, Report(w) PROVE UNCHANGED Promise!vars
    <2>1. /\ worker[w] # Free /\ worker'[w] = Free /\ worker[w].at = "stored"
          /\ \A v \in Workers \ {w} : worker'[v] = worker[v]
          /\ UNCHANGED <<alive, broker, result, mails, dropped>>
      BY <1>5 DEF Report, Leave, At, IInv, TypeOK
    <2>2. \A t \in Tasks : Carried(t)' <=> Carried(t)
      BY <2>1 DEF Carried, Carries
    <2> QED
      BY <2>1, <2>2, Unseen
  <1>6. ASSUME NEW w \in Workers, Work(w) PROVE UNCHANGED Promise!vars \/ Promise!Next
    BY <1>3, <1>4, <1>5, <1>6, SendKeepsPromise, RetryKeepsPromise, StoreKeepsPromise DEF Work
  <1>7. CASE UNCHANGED vars
    <2>1. Premature' = Premature
      BY <1>7 DEF vars, Premature, Carried, Carries
    <2> QED
      BY <1>7, <2>1, OpenIsCarried, PrematureAfter DEF vars, Promise!vars
  <1> QED
    BY <1>1, <1>2, <1>6, <1>7, CrashKeepsPromise DEF Next

\* Broker, workers and retries implement RetriedDelivery, where there is but the task:
\* a process that dies between publishing a retry and storing RETRY is its FailTooEarly.
THEOREM Refinement == Spec => ImplementsRetriedDelivery
PROOF
  <1>1. IInv /\ [Next]_vars /\ IInv' => [UNCHANGED Promise!vars \/ Promise!Next]_(Promise!vars)
    BY PromiseStep
  <1> QED
    BY <1>1, PromiseInit, Invariance, PTL DEF Spec, ImplementsRetriedDelivery, Promise!Spec
=============================================================================
