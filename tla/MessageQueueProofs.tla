------------------------- MODULE MessageQueueProofs -------------------------
(* Theorems about MessageQueue, for any tasks, callers and clock.           *)
EXTENDS MessageQueue, TLAPS

(* The times that a clock bounded by MaxTime shows are natural numbers.     *)
LEMMA TimesAreNat == 0 .. MaxTime \subseteq Nat
  BY MessageQueueAssumption

(* The variables of the queue keep their types, and a task is in hand       *)
(* exactly while the runner runs one (Run).                                 *)
THEOREM MQTypeCorrect == MQSpec => []MQTypeOK
<1>1. MQInit => MQTypeOK
  <2> SUFFICES ASSUME MQInit PROVE MQTypeOK
    OBVIOUS
  <2>1. stop \in BOOLEAN /\ atOnce \in BOOLEAN
    BY DEF MQInit
  <2>2. task \in Job \cup {Idle} /\ (runner = "run" <=> task # Idle)
    BY DEF MQInit
  <2>3. now \in 0 .. MaxTime /\ until \in 0 .. MaxTime
    BY MessageQueueAssumption DEF MQInit
  <2>4. moved \in BOOLEAN /\ fault \in {"none", "freedTime"}
    BY DEF MQInit
  <2> QED
    BY <2>1, <2>2, <2>3, <2>4 DEF MQInit, MQTypeOK
<1>2. MQTypeOK /\ [MQNext]_mqVars => MQTypeOK'
  <2> SUFFICES ASSUME MQTypeOK, [MQNext]_mqVars PROVE MQTypeOK'
    OBVIOUS
  <2> USE MessageQueueAssumption DEF MQTypeOK
  <2>1. CASE UNCHANGED mqVars
    BY <2>1 DEF mqVars
  <2>2. ASSUME NEW c \in Thread, NEW j \in Job, Post(c, j) PROVE MQTypeOK'
    BY <2>2 DEF Post
  <2>3. ASSUME NEW c \in Thread, NEW j \in Job, NEW delay \in 0 .. MaxTime,
               PostDelayed(c, j, delay)
        PROVE  MQTypeOK'
    <3>1. now + delay \in 0 .. MaxTime
      BY <2>3 DEF PostDelayed
    <3>2. delayed' \subseteq DelayedMessage
      BY <2>3, <3>1 DEF PostDelayed, Push, DelayedMessage
    <3>3. moved' \in BOOLEAN /\ UNCHANGED fault
      BY <2>3 DEF PostDelayed, Push
    <3> QED
      BY <2>3, <3>2, <3>3 DEF PostDelayed
  <2>4. ASSUME NEW c \in Thread, Stop(c) PROVE MQTypeOK'
    <3>1. stop' = TRUE /\ pc' \in [Thread -> {"idle", "notify"}]
      BY <2>4 DEF Stop
    <3> QED
      BY <2>4, <3>1 DEF Stop
  <2>5. ASSUME NEW c \in Thread, Notify(c) PROVE MQTypeOK'
    BY <2>5 DEF Notify, Waits, Wake
  <2>6. Tick => MQTypeOK'
    BY DEF Tick
  <2>7. TestStop => MQTypeOK'
    BY DEF TestStop
  <2>8. WaitForTask \/ NothingToRun => MQTypeOK'
    BY DEF WaitForTask, NothingToRun
  <2>9. RunDelayed => MQTypeOK'
    BY DEF RunDelayed, DelayedMessage
  <2>10. WaitUntil => MQTypeOK'
    BY DEF WaitUntil, DelayedMessage
  <2>11. RunAtOnce => MQTypeOK'
    BY DEF RunAtOnce
  <2>12. TaskEnds => MQTypeOK'
    BY DEF TaskEnds
  <2>13. TimeIsUp \/ SpuriousWakeUp => MQTypeOK'
    BY DEF TimeIsUp, SpuriousWakeUp, Waits, Wake
  <2> QED
    BY <2>1, <2>2, <2>3, <2>4, <2>5, <2>6, <2>7, <2>8, <2>9, <2>10, <2>11, <2>12, <2>13
    DEF MQNext, RunStep
<1> QED
  BY <1>1, <1>2, PTL DEF MQSpec

-----------------------------------------------------------------------------
(* A runner that is inside a call is running a task, so that only other     *)
(* threads can owe a waiting runner a notification.                         *)
WaitInv ==
  /\ NoLostPost /\ NoOversleep
  /\ pc[Runner] = "notify" => runner = "run"

(* A step that leaves the queues alone, takes no notification away and      *)
(* does not begin a wait keeps WaitInv.                                     *)
LEMMA NoNewWait ==
  ASSUME MQTypeOK, WaitInv, UNCHANGED <<tasks, delayed, until>>,
         \A c \in Thread : pc[c] = "notify" => pc'[c] = "notify",
         pc'[Runner] = "notify" => runner' = "run",
         runner' \in {"waiting", "timedWait"} => runner' = runner
  PROVE  WaitInv'
  BY DEF WaitInv, NoLostPost, NoOversleep, Notifying, Thread

(* A thread outside the runner that is about to notify it keeps WaitInv.    *)
LEMMA NewNotifier ==
  ASSUME MQTypeOK, WaitInv, NEW c \in Thread, MayCall(c),
         pc' = [pc EXCEPT ![c] = "notify"], UNCHANGED runner
  PROVE  WaitInv'
<1>1. runner \in {"waiting", "timedWait"} => c \in Caller /\ pc'[c] = "notify"
  BY DEF MayCall, Thread, MQTypeOK
<1>2. pc'[Runner] = "notify" => runner' = "run"
  BY DEF MayCall, WaitInv, Thread, MQTypeOK
<1> QED
  BY <1>1, <1>2 DEF WaitInv, NoLostPost, NoOversleep, Notifying

(* Every step keeps WaitInv: who adds a task owes a notification.           *)
LEMMA WaitStep == MQTypeOK /\ WaitInv /\ [MQNext]_mqVars => WaitInv'
<1> SUFFICES ASSUME MQTypeOK, WaitInv, [MQNext]_mqVars PROVE WaitInv'
  OBVIOUS
<1>1. CASE UNCHANGED mqVars
  BY <1>1 DEF mqVars, WaitInv, NoLostPost, NoOversleep, Notifying
<1>2. ASSUME NEW c \in Thread, NEW j \in Job, Post(c, j) PROVE WaitInv'
  BY <1>2, NewNotifier DEF Post
<1>3. ASSUME NEW c \in Thread, NEW j \in Job, NEW delay \in 0 .. MaxTime,
             PostDelayed(c, j, delay)
      PROVE  WaitInv'
  BY <1>3, NewNotifier DEF PostDelayed
<1>4. ASSUME NEW c \in Thread, Stop(c) PROVE WaitInv'
  BY <1>4, NewNotifier DEF Stop
<1>5. ASSUME NEW c \in Thread, Notify(c) PROVE WaitInv'
  <2>1. runner' \notin {"waiting", "timedWait"}
    BY <1>5 DEF Notify, Waits, Wake
  <2>2. pc'[Runner] = "notify" => runner' = "run"
    BY <1>5 DEF Notify, Waits, Wake, WaitInv, MQTypeOK, Thread
  <2> QED
    BY <2>1, <2>2 DEF WaitInv, NoLostPost, NoOversleep
<1>6. Tick => WaitInv'
  BY NoNewWait DEF Tick, WaitInv
<1>7. TestStop \/ NothingToRun \/ TimeIsUp \/ SpuriousWakeUp => WaitInv'
  BY NoNewWait DEF TestStop, NothingToRun, TimeIsUp, SpuriousWakeUp, Waits, Wake, WaitInv
<1>8. TaskEnds => WaitInv'
  BY NoNewWait DEF TaskEnds
<1>9. WaitForTask => WaitInv'
  BY DEF WaitForTask, WaitInv, NoLostPost, NoOversleep
<1>10. ASSUME WaitUntil PROVE WaitInv'
  <2>1. PICK m \in delayed : Top(m) /\ until' = m.at
    BY <1>10 DEF WaitUntil
  <2>2. \A n \in delayed' : ~(n.at < until')
    <3> SUFFICES ASSUME NEW n \in delayed PROVE ~(n.at < m.at)
      BY <1>10, <2>1 DEF WaitUntil
    <3>1. m.at <= n.at /\ m.at \in Nat /\ n.at \in Nat
      BY <2>1, TimesAreNat DEF Top, MQTypeOK, DelayedMessage
    <3> QED
      BY <3>1
  <2>3. runner' = "timedWait" /\ UNCHANGED pc /\ runner = "lock"
    BY <1>10 DEF WaitUntil
  <2> QED
    BY <2>2, <2>3 DEF WaitInv, NoLostPost, NoOversleep
<1>11. RunDelayed \/ RunAtOnce => WaitInv'
  BY DEF RunDelayed, RunAtOnce, WaitInv, NoLostPost, NoOversleep
<1> QED
  BY <1>1, <1>2, <1>3, <1>4, <1>5, <1>6, <1>7, <1>8, <1>9, <1>10, <1>11
  DEF MQNext, RunStep

(* Nobody leaves the runner waiting for ever over a posted task.            *)
THEOREM NoLostPostCorrect == MQSpec => []NoLostPost
<1>1. MQInit => WaitInv
  BY MessageQueueAssumption DEF MQInit, WaitInv, NoLostPost, NoOversleep, Thread
<1> QED
  BY <1>1, WaitStep, MQTypeCorrect, PTL DEF MQSpec, WaitInv

(* The runner does not sleep past the time of a delayed task.               *)
THEOREM NoOversleepCorrect == MQSpec => []NoOversleep
<1>1. MQInit => WaitInv
  BY MessageQueueAssumption DEF MQInit, WaitInv, NoLostPost, NoOversleep, Thread
<1> QED
  BY <1>1, WaitStep, MQTypeCorrect, PTL DEF MQSpec, WaitInv

-----------------------------------------------------------------------------
(* The tasks to run at once go through a SerialExecutor: in order, one at a *)
(* time, once each.                                                         *)
THEOREM PostedInOrderCorrect == MQSpec => PostedInOrder
<1> DEFINE running == IF atOnce THEN task ELSE Idle
<1>1. MQInit => Executor!SEInit
  BY DEF MQInit, Executor!SEInit
<1>2. MQTypeOK /\ [MQNext]_mqVars => [Executor!SENext]_(Executor!seVars)
  <2> SUFFICES ASSUME MQTypeOK, [MQNext]_mqVars
               PROVE  Executor!SENext \/ UNCHANGED <<tasks, running>>
    BY DEF Executor!seVars
  <2> USE MessageQueueAssumption DEF MQTypeOK
  <2>1. CASE UNCHANGED mqVars
    BY <2>1 DEF mqVars
  <2>2. ASSUME NEW c \in Thread, NEW j \in Job, Post(c, j) PROVE Executor!Submit(j)
    BY <2>2 DEF Post, Executor!Submit
  <2>3. ASSUME NEW c \in Thread, NEW j \in Job, NEW delay \in 0 .. MaxTime,
               PostDelayed(c, j, delay)
        PROVE  UNCHANGED <<tasks, running>>
    BY <2>3 DEF PostDelayed
  <2>4. ASSUME NEW c \in Thread, Stop(c) \/ Notify(c)
        PROVE  UNCHANGED <<tasks, running>>
    BY <2>4 DEF Stop, Notify
  <2>5. Tick \/ TestStop \/ WaitForTask \/ WaitUntil \/ NothingToRun
          \/ TimeIsUp \/ SpuriousWakeUp
          => UNCHANGED <<tasks, running>>
    BY DEF Tick, TestStop, WaitForTask, WaitUntil, NothingToRun, TimeIsUp, SpuriousWakeUp
  <2>6. RunDelayed => UNCHANGED <<tasks, running>>
    BY DEF RunDelayed
  <2>7. RunAtOnce => Executor!Begin
    BY DEF RunAtOnce, Executor!Begin
  <2>8. TaskEnds => Executor!End \/ UNCHANGED <<tasks, running>>
    BY DEF TaskEnds, Executor!End
  <2> QED
    BY <2>1, <2>2, <2>3, <2>4, <2>5, <2>6, <2>7, <2>8 DEF MQNext, RunStep, Executor!SENext
<1> QED
  BY <1>1, <1>2, MQTypeCorrect, PTL DEF MQSpec, PostedInOrder, Executor!SESpec
=============================================================================
