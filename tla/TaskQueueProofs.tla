--------------------------- MODULE TaskQueueProofs ---------------------------
(* Theorems about TaskQueue, for any jobs and any calling threads.          *)
EXTENDS TaskQueue, TLAPS

(* The variables of the queue keep their types, and a task is in hand       *)
(* exactly while the worker runs one (ProcessTasks).                        *)
THEOREM TQTypeCorrect == TQSpec => []TQTypeOK
<1>1. TQInit => TQTypeOK
  <2> SUFFICES ASSUME TQInit PROVE TQTypeOK
    OBVIOUS
  <2>1. stopFlag \in BOOLEAN /\ fault \in BOOLEAN
    BY DEF TQInit
  <2>2. task \in Job \cup {Idle} /\ (worker = "run" <=> task # Idle)
    BY DEF TQInit
  <2> QED
    BY <2>1, <2>2 DEF TQInit, TQTypeOK
<1>2. TQTypeOK /\ [TQNext]_tqVars => TQTypeOK'
  <2> SUFFICES ASSUME TQTypeOK, [TQNext]_tqVars PROVE TQTypeOK'
    OBVIOUS
  <2> USE TaskQueueAssumption DEF TQTypeOK
  <2>1. CASE UNCHANGED tqVars
    BY <2>1 DEF tqVars
  <2>2. ASSUME NEW c \in Thread, NEW j \in Job, InvokePushes(c, j) PROVE TQTypeOK'
    <3>1. UNCHANGED <<stopFlag, worker, task, owner, fault>>
      BY <2>2 DEF InvokePushes
    <3>2. CASE stopFlag
      BY <2>2, <3>1, <3>2 DEF InvokePushes
    <3>3. CASE ~stopFlag
      <4>1. tasks' \in Seq(Job)
        BY <2>2, <3>3 DEF InvokePushes
      <4>2. /\ pc' \in [Thread -> {"idle", "notify"}]
            /\ future' \in [Job -> {"none", "pending", "refused", "ready"}]
        BY <2>2, <3>3 DEF InvokePushes
      <4> QED
        BY <3>1, <4>1, <4>2
    <3> QED
      BY <3>2, <3>3
  <2>3. ASSUME NEW c \in Thread, InvokeNotifies(c) PROVE TQTypeOK'
    BY <2>3 DEF InvokeNotifies, WakeUp
  <2>4. DestructorStops => TQTypeOK'
    BY DEF DestructorStops
  <2>5. DestructorNotifies => TQTypeOK'
    BY DEF DestructorNotifies, WakeUp
  <2>6. DestructorJoins => TQTypeOK'
    BY DEF DestructorJoins
  <2>7. WorkerTests => TQTypeOK'
    BY DEF WorkerTests
  <2>8. SpuriousWakeUp => TQTypeOK'
    BY DEF SpuriousWakeUp
  <2>9. TaskEnds => TQTypeOK'
    BY DEF TaskEnds
  <2> QED
    BY <2>1, <2>2, <2>3, <2>4, <2>5, <2>6, <2>7, <2>8, <2>9 DEF TQNext
<1> QED
  BY <1>1, <1>2, PTL DEF TQSpec

-----------------------------------------------------------------------------
(* A worker that calls Invoke is running a task, so that only other threads *)
(* can owe the waiting worker a notification; and it has left ProcessTasks  *)
(* before the condition variable is destroyed.                              *)
WakeInv ==
  /\ NoLostWakeUp
  /\ owner = "destroyed" => worker = "exited"
  /\ pc[Worker] = "notify" => worker = "run"

(* WakeInv holds of every behaviour.                                        *)
LEMMA WakeAlways == TQSpec => []WakeInv
<1>1. TQInit => WakeInv
  BY DEF TQInit, WakeInv, NoLostWakeUp, Thread
<1>2. TQTypeOK /\ WakeInv /\ [TQNext]_tqVars => WakeInv'
  <2> SUFFICES ASSUME TQTypeOK, WakeInv, [TQNext]_tqVars PROVE WakeInv'
    OBVIOUS
  <2> USE TaskQueueAssumption DEF TQTypeOK, WakeInv, NoLostWakeUp, Thread
  <2>1. CASE UNCHANGED tqVars
    BY <2>1 DEF tqVars
  <2>2. ASSUME NEW c \in Thread, NEW j \in Job, InvokePushes(c, j) PROVE WakeInv'
    <3>1. CASE stopFlag
      BY <2>2, <3>1 DEF InvokePushes
    <3>2. CASE ~stopFlag
      <4>1. pc' = [pc EXCEPT ![c] = "notify"] /\ UNCHANGED <<stopFlag, worker, owner>>
        BY <2>2, <3>2 DEF InvokePushes
      <4>2. c = Worker => worker = "run"
        BY <2>2 DEF InvokePushes
      <4>3. worker' = "waiting" => c \in Caller /\ pc'[c] = "notify"
        BY <4>1, <4>2
      <4>4. pc'[Worker] = "notify" => worker' = "run"
        BY <4>1, <4>2
      <4> QED
        BY <4>1, <4>3, <4>4
    <3> QED
      BY <3>1, <3>2
  <2>3. ASSUME NEW c \in Thread, InvokeNotifies(c) PROVE WakeInv'
    <3>1. pc' = [pc EXCEPT ![c] = "idle"] /\ UNCHANGED <<stopFlag, tasks, owner>>
      BY <2>3 DEF InvokeNotifies
    <3>2. CASE owner # "destroyed"
      <4>1. worker' = (IF worker = "waiting" THEN "test" ELSE worker)
        BY <2>3, <3>2 DEF InvokeNotifies, WakeUp
      <4> QED
        BY <3>1, <4>1
    <3>3. CASE owner = "destroyed"
      <4>1. UNCHANGED worker
        BY <2>3, <3>3 DEF InvokeNotifies
      <4> QED
        BY <3>1, <3>3, <4>1
    <3> QED
      BY <3>2, <3>3
  <2>4. DestructorStops => WakeInv'
    BY DEF DestructorStops
  <2>5. DestructorNotifies => WakeInv'
    BY DEF DestructorNotifies, WakeUp
  <2>6. DestructorJoins => WakeInv'
    BY DEF DestructorJoins
  <2>7. WorkerTests => WakeInv'
    BY DEF WorkerTests
  <2>8. SpuriousWakeUp => WakeInv'
    BY DEF SpuriousWakeUp
  <2>9. TaskEnds => WakeInv'
    BY DEF TaskEnds
  <2> QED
    BY <2>1, <2>2, <2>3, <2>4, <2>5, <2>6, <2>7, <2>8, <2>9 DEF TQNext
<1> QED
  BY <1>1, <1>2, TQTypeCorrect, PTL DEF TQSpec

(* Whoever leaves the worker waiting over a task or the stop flag is about  *)
(* to notify it (Invoke, ~TaskQueue, the predicate of the wait).            *)
THEOREM NoLostWakeUpCorrect == TQSpec => []NoLostWakeUp
<1>1. WakeInv => NoLostWakeUp
  BY DEF WakeInv
<1> QED
  BY <1>1, WakeAlways, PTL

(* No thread but the worker is inside Invoke once the queue is destroyed.   *)
CallersLeft == owner = "destroyed" => \A c \in Caller : pc[c] = "idle"

(* If no other thread is inside Invoke when the queue is destroyed, nothing *)
(* uses the condition variable after that: the worker has ended, and with   *)
(* it every task that might call Invoke (the notify_one of Invoke, join).   *)
THEOREM SafeOnceCallersLeftCorrect == TQSpec => SafeOnceCallersLeft
<1>1. TQInit => ~fault
  BY DEF TQInit
<1>2. TQTypeOK /\ WakeInv /\ CallersLeft /\ ~fault /\ [TQNext]_tqVars => ~fault'
  <2> SUFFICES ASSUME TQTypeOK, WakeInv, CallersLeft, ~fault, [TQNext]_tqVars
               PROVE  ~fault'
    OBVIOUS
  <2>1. ASSUME NEW c \in Thread, InvokeNotifies(c) PROVE ~fault'
    <3>1. pc[c] = "notify" /\ fault' = (owner = "destroyed")
      BY <2>1 DEF InvokeNotifies
    <3>2. c = Worker => owner # "destroyed"
      BY <3>1 DEF WakeInv
    <3>3. c \in Caller => owner # "destroyed"
      BY <3>1 DEF CallersLeft
    <3> QED
      BY <3>1, <3>2, <3>3 DEF Thread
  <2>2. CASE ~\E c \in Thread : InvokeNotifies(c)
    BY <2>2 DEF TQNext, tqVars, InvokePushes, DestructorStops, DestructorNotifies,
                DestructorJoins, WorkerTests, SpuriousWakeUp, TaskEnds
  <2> QED
    BY <2>1, <2>2
<1> QED
  BY <1>1, <1>2, TQTypeCorrect, WakeAlways, PTL DEF TQSpec, SafeOnceCallersLeft, CallersLeft

-----------------------------------------------------------------------------
Queued(j) == \E i \in DOMAIN tasks : tasks[i] = j

(* A call whose future is pending is queued or being run; the worker leaves *)
(* a stopped and empty queue only, to which Invoke then adds nothing.       *)
DrainInv ==
  /\ stopFlag <=> owner # "alive"
  /\ worker = "exited" => stopFlag /\ tasks = <<>>
  /\ owner = "destroyed" => worker = "exited"
  /\ \A j \in Job : future[j] = "pending" => Queued(j) \/ task = j

(* What is taken from the front of the queue is in hand, the rest remains.  *)
LEMMA TakenOrQueued ==
  ASSUME NEW q \in Seq(Job), q # <<>>, NEW i \in DOMAIN q
  PROVE  Head(q) = q[i] \/ \E k \in DOMAIN Tail(q) : Tail(q)[k] = q[i]
<1>1. CASE i = 1
  BY <1>1
<1>2. CASE i # 1
  <2>1. i - 1 \in DOMAIN Tail(q) /\ Tail(q)[i - 1] = q[i]
    BY <1>2
  <2> QED
    BY <2>1
<1> QED
  BY <1>1, <1>2

(* Every accepted call has run, and its future is ready, before the queue   *)
(* is destroyed (ProcessTasks returns on an empty queue only).              *)
THEOREM AllRunCorrect == TQSpec => []AllRunBeforeDestroyed
<1>1. TQInit => DrainInv
  BY DEF TQInit, DrainInv
<1>2. TQTypeOK /\ DrainInv /\ [TQNext]_tqVars => DrainInv'
  <2> SUFFICES ASSUME TQTypeOK, DrainInv, [TQNext]_tqVars PROVE DrainInv'
    OBVIOUS
  <2> USE TaskQueueAssumption DEF TQTypeOK, DrainInv, Queued
  <2>1. CASE UNCHANGED tqVars
    BY <2>1 DEF tqVars
  <2>2. ASSUME NEW c \in Thread, NEW j \in Job, InvokePushes(c, j) PROVE DrainInv'
    <3>1. UNCHANGED <<stopFlag, worker, task, owner>>
      BY <2>2 DEF InvokePushes
    <3>2. CASE stopFlag
      <4>1. future' = [future EXCEPT ![j] = "refused"] /\ UNCHANGED tasks
        BY <2>2, <3>2 DEF InvokePushes
      <4> QED
        BY <3>1, <4>1
    <3>3. CASE ~stopFlag
      <4>1. future' = [future EXCEPT ![j] = "pending"] /\ tasks' = Append(tasks, j)
        BY <2>2, <3>3 DEF InvokePushes
      <4>2. ASSUME NEW k \in Job, future'[k] = "pending"
            PROVE  Queued(k)' \/ task' = k
        <5>1. CASE k = j
          <6>1. Len(tasks) + 1 \in DOMAIN tasks' /\ tasks'[Len(tasks) + 1] = j
            BY <4>1
          <6> QED
            BY <5>1, <6>1
        <5>2. CASE k # j
          <6>1. ASSUME NEW i \in DOMAIN tasks, tasks[i] = k
                PROVE  i \in DOMAIN tasks' /\ tasks'[i] = k
            BY <4>1, <6>1
          <6>2. future[k] = "pending"
            BY <4>1, <4>2, <5>2
          <6> QED
            BY <3>1, <6>1, <6>2
        <5> QED
          BY <5>1, <5>2
      <4> QED
        BY <3>1, <3>3, <4>2
    <3> QED
      BY <3>2, <3>3
  <2>3. ASSUME NEW c \in Thread, InvokeNotifies(c) PROVE DrainInv'
    <3>1. UNCHANGED <<stopFlag, tasks, task, future, owner>>
      BY <2>3 DEF InvokeNotifies
    <3>2. worker' = "exited" <=> worker = "exited"
      BY <2>3 DEF InvokeNotifies, WakeUp
    <3> QED
      BY <3>1, <3>2
  <2>4. DestructorStops => DrainInv'
    BY DEF DestructorStops
  <2>5. DestructorNotifies => DrainInv'
    BY DEF DestructorNotifies, WakeUp
  <2>6. DestructorJoins => DrainInv'
    BY DEF DestructorJoins
  <2>7. ASSUME WorkerTests PROVE DrainInv'
    <3>1. task = Idle /\ UNCHANGED <<stopFlag, future, owner>>
      BY <2>7 DEF WorkerTests
    <3>2. CASE tasks = <<>>
      BY <2>7, <3>1, <3>2 DEF WorkerTests
    <3>3. CASE tasks # <<>>
      <4>1. task' = Head(tasks) /\ tasks' = Tail(tasks) /\ worker' = "run"
        BY <2>7, <3>3 DEF WorkerTests
      <4>2. ASSUME NEW k \in Job, future'[k] = "pending"
            PROVE  Queued(k)' \/ task' = k
        <5>1. PICK i \in DOMAIN tasks : tasks[i] = k
          BY <3>1, <4>2
        <5> QED
          BY <3>3, <4>1, <5>1, TakenOrQueued
      <4>3. worker # "exited"
        BY <2>7 DEF WorkerTests
      <4> QED
        BY <3>1, <4>1, <4>2, <4>3
    <3> QED
      BY <3>2, <3>3
  <2>8. SpuriousWakeUp => DrainInv'
    BY DEF SpuriousWakeUp
  <2>9. TaskEnds => DrainInv'
    BY DEF TaskEnds
  <2> QED
    BY <2>1, <2>2, <2>3, <2>4, <2>5, <2>6, <2>7, <2>8, <2>9 DEF TQNext
<1>3. TQTypeOK /\ DrainInv => AllRunBeforeDestroyed
  <2> SUFFICES ASSUME TQTypeOK, DrainInv, owner = "destroyed", NEW j \in Job
               PROVE  future[j] # "pending"
    BY DEF AllRunBeforeDestroyed
  <2>1. tasks = <<>> /\ task = Idle
    BY DEF TQTypeOK, DrainInv
  <2>2. ~Queued(j)
    BY <2>1 DEF Queued
  <2> QED
    BY <2>1, <2>2, TaskQueueAssumption DEF DrainInv
<1> QED
  BY <1>1, <1>2, <1>3, TQTypeCorrect, PTL DEF TQSpec

-----------------------------------------------------------------------------
(* The queue is a SerialExecutor as far as safety goes: tasks run in the    *)
(* order of their calls, one at a time and once each, and none is dropped.  *)
(* That every one of them comes to run is left to model checking.           *)
THEOREM TaskQueueIsSerial == TQSpec => Executor!SESpec
<1>1. TQInit => Executor!SEInit
  BY DEF TQInit, Executor!SEInit
<1>2. TQTypeOK /\ [TQNext]_tqVars => [Executor!SENext]_(Executor!seVars)
  <2> SUFFICES ASSUME TQTypeOK, [TQNext]_tqVars
               PROVE  Executor!SENext \/ UNCHANGED <<tasks, task>>
    BY DEF Executor!seVars
  <2> USE TaskQueueAssumption DEF TQTypeOK
  <2>1. CASE UNCHANGED tqVars
    BY <2>1 DEF tqVars
  <2>2. ASSUME NEW c \in Thread, NEW j \in Job, InvokePushes(c, j)
        PROVE  Executor!Submit(j) \/ UNCHANGED <<tasks, task>>
    BY <2>2 DEF InvokePushes, Executor!Submit
  <2>3. ASSUME NEW c \in Thread, InvokeNotifies(c) PROVE UNCHANGED <<tasks, task>>
    BY <2>3 DEF InvokeNotifies
  <2>4. DestructorStops \/ DestructorNotifies \/ DestructorJoins \/ SpuriousWakeUp
          => UNCHANGED <<tasks, task>>
    BY DEF DestructorStops, DestructorNotifies, DestructorJoins, SpuriousWakeUp
  <2>5. WorkerTests => Executor!Begin \/ UNCHANGED <<tasks, task>>
    BY DEF WorkerTests, Executor!Begin
  <2>6. TaskEnds => Executor!End
    BY DEF TaskEnds, Executor!End
  <2> QED
    BY <2>1, <2>2, <2>3, <2>4, <2>5, <2>6 DEF TQNext, Executor!SENext
<1> QED
  BY <1>1, <1>2, TQTypeCorrect, PTL DEF TQSpec, Executor!SESpec
=============================================================================
