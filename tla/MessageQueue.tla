---------------------------- MODULE MessageQueue ----------------------------
(***************************************************************************)
(* MessageQueue (client/include/utils/MessageQueue.h): tasks to run at     *)
(* once and tasks to run at a time, a condition variable, and one thread   *)
(* in Run.                                                                 *)
(*                                                                         *)
(* A critical section is one step.  Run tests m_stop outside of it, and    *)
(* waits without a predicate: "waiting" and "timedWait" are the two waits, *)
(* "woken" is the way from a wait to the lines after it.  wait_until is    *)
(* given a reference to the time inside the queue: it sleeps until the     *)
(* time it read before it released the mutex, and reads again, from what   *)
(* may be freed memory by then, when it returns.                           *)
(***************************************************************************)
EXTENDS Naturals, Sequences

CONSTANTS
  Job,      \* tasks, none of them in the queues twice
  Caller,   \* threads that post
  Runner,   \* the thread in Run, whose tasks may post and stop too
  Idle,     \* no task is running
  MaxTime   \* bound on the clock

ASSUME MessageQueueAssumption ==
  /\ Idle \notin Job /\ Runner \notin Caller
  /\ MaxTime \in Nat

VARIABLES
  stop,     \* m_stop
  tasks,    \* m_tasks
  delayed,  \* m_delayedTasks
  now,      \* std::chrono::steady_clock::now()
  runner,   \* where the runner is in Run
  until,    \* the time its wait_until ends
  task,     \* the local variable task
  atOnce,   \* task came from m_tasks
  pc,       \* where a thread is in Post, PostDelayed or Stop
  moved,    \* a push has moved the storage wait_until refers to
  fault     \* what the read of a freed time came to

mqVars == <<stop, tasks, delayed, now, runner, until, task, atOnce, pc, moved, fault>>

Thread == Caller \cup {Runner}
DelayedMessage == [task : Job, at : 0 .. MaxTime]

MQTypeOK ==
  /\ stop \in BOOLEAN
  /\ tasks \in Seq(Job)
  /\ delayed \subseteq DelayedMessage
  /\ now \in 0 .. MaxTime
  /\ runner \in {"test", "lock", "waiting", "timedWait", "woken", "run", "exited"}
  /\ until \in 0 .. MaxTime
  /\ task \in Job \cup {Idle} /\ (runner = "run" <=> task # Idle)
  /\ atOnce \in BOOLEAN
  /\ pc \in [Thread -> {"idle", "notify"}]
  /\ moved \in BOOLEAN
  /\ fault \in {"none", "freedTime"}

MQInit ==
  /\ stop = FALSE /\ tasks = <<>> /\ delayed = {} /\ now = 0
  /\ runner = "test" /\ until = 0 /\ task = Idle /\ atOnce = FALSE
  /\ pc = [c \in Thread |-> "idle"]
  /\ moved = FALSE /\ fault = "none"

-----------------------------------------------------------------------------
(* Post, PostDelayed and Stop: a critical section, then the notification.  *)

MayCall(c) == pc[c] = "idle" /\ (c = Runner => runner = "run")

Posted(j)  == \E i \in DOMAIN tasks : tasks[i] = j
Delayed(j) == \E m \in delayed : m.task = j
Waiting(j) == Posted(j) \/ Delayed(j)

(* A push to m_delayedTasks may move what is in it.                        *)
Push(m) ==
  /\ delayed' = delayed \cup {m}
  /\ moved' \in {moved, runner = "timedWait"}

(* A slip: the new task is put in front.                                   *)
PostFirst(c, j) ==
  /\ MayCall(c) /\ ~Waiting(j)
  /\ tasks' = <<j>> \o tasks
  /\ pc' = [pc EXCEPT ![c] = "notify"]
  /\ UNCHANGED <<stop, delayed, now, runner, until, task, atOnce, moved, fault>>

(* A slip: the runner is not told.                                         *)
PostSilently(c, j) ==
  /\ MayCall(c) /\ ~Waiting(j)
  /\ tasks' = Append(tasks, j)
  /\ UNCHANGED <<stop, delayed, now, runner, until, task, atOnce, pc, moved, fault>>

Post(c, j) ==
  /\ MayCall(c) /\ ~Waiting(j)
  /\ tasks' = Append(tasks, j)
  /\ pc' = [pc EXCEPT ![c] = "notify"]
  /\ UNCHANGED <<stop, delayed, now, runner, until, task, atOnce, moved, fault>>

(* A slip: the runner is told of the first delayed task only.              *)
PostDelayedOnce(c, j, delay) ==
  /\ MayCall(c) /\ ~Waiting(j)
  /\ now + delay <= MaxTime
  /\ Push([task |-> j, at |-> now + delay])
  /\ pc' = IF delayed = {} THEN [pc EXCEPT ![c] = "notify"] ELSE pc
  /\ UNCHANGED <<stop, tasks, now, runner, until, task, atOnce, fault>>

PostDelayed(c, j, delay) ==
  /\ MayCall(c) /\ ~Waiting(j)
  /\ now + delay <= MaxTime
  /\ Push([task |-> j, at |-> now + delay])
  /\ pc' = [pc EXCEPT ![c] = "notify"]
  /\ UNCHANGED <<stop, tasks, now, runner, until, task, atOnce, fault>>

Stop(c) ==
  /\ MayCall(c) /\ ~stop
  /\ stop' = TRUE
  /\ pc' = [pc EXCEPT ![c] = "notify"]
  /\ UNCHANGED <<tasks, delayed, now, runner, until, task, atOnce, moved, fault>>

Waits == runner \in {"waiting", "timedWait"}

(* wait_until compares the clock with the time it refers to.               *)
Wake ==
  /\ runner' = "woken" /\ moved' = FALSE
  /\ fault' \in IF moved THEN {"none", "freedTime"} ELSE {"none"}

(* notify_one and notify_all: one thread waits at most.                    *)
Notify(c) ==
  /\ pc[c] = "notify"
  /\ pc' = [pc EXCEPT ![c] = "idle"]
  /\ IF Waits THEN Wake ELSE UNCHANGED <<runner, moved, fault>>
  /\ UNCHANGED <<stop, tasks, delayed, now, until, task, atOnce>>

Tick ==
  /\ now < MaxTime
  /\ now' = now + 1
  /\ UNCHANGED <<stop, tasks, delayed, runner, until, task, atOnce, pc, moved, fault>>

-----------------------------------------------------------------------------
(* Run. *)

(* while (!m_stop), without the mutex.                                     *)
TestStop ==
  /\ runner = "test"
  /\ runner' = IF stop THEN "exited" ELSE "lock"
  /\ UNCHANGED <<stop, tasks, delayed, now, until, task, atOnce, pc, moved, fault>>

(* m_delayedTasks.top(): which of several with the same time is not said.  *)
Top(m) == m \in delayed /\ \A n \in delayed : m.at <= n.at

WaitForTask ==
  /\ runner = "lock" /\ delayed = {} /\ tasks = <<>>
  /\ runner' = "waiting"
  /\ UNCHANGED <<stop, tasks, delayed, now, until, task, atOnce, pc, moved, fault>>

(* A slip: the task stays in the queue.                                    *)
RunDelayedUnpopped ==
  /\ runner = "lock"
  /\ \E m \in delayed : Top(m) /\ now >= m.at /\ task' = m.task
  /\ runner' = "run" /\ atOnce' = FALSE
  /\ UNCHANGED <<stop, tasks, delayed, now, until, pc, moved, fault>>

RunDelayed ==
  /\ runner = "lock"
  /\ \E m \in delayed :
       /\ Top(m) /\ now >= m.at
       /\ task' = m.task /\ delayed' = delayed \ {m}
  /\ runner' = "run" /\ atOnce' = FALSE
  /\ UNCHANGED <<stop, tasks, now, until, pc, moved, fault>>

(* A delayed task that is not due is waited for, whether there are tasks   *)
(* to run at once or not.                                                  *)
WaitUntil ==
  /\ runner = "lock"
  /\ \E m \in delayed : Top(m) /\ now < m.at /\ until' = m.at
  /\ runner' = "timedWait"
  /\ UNCHANGED <<stop, tasks, delayed, now, task, atOnce, pc, moved, fault>>

TimeIsUp ==
  /\ runner = "timedWait" /\ now >= until
  /\ Wake
  /\ UNCHANGED <<stop, tasks, delayed, now, until, task, atOnce, pc>>

SpuriousWakeUp ==
  /\ Waits
  /\ Wake
  /\ UNCHANGED <<stop, tasks, delayed, now, until, task, atOnce, pc>>

(* A slip: the queue is not tested for being empty.                        *)
RunAtOnceUntested ==
  /\ runner = "woken" \/ (runner = "lock" /\ delayed = {} /\ tasks # <<>>)
  /\ task' = IF tasks = <<>> THEN Idle ELSE Head(tasks)
  /\ tasks' = IF tasks = <<>> THEN tasks ELSE Tail(tasks)
  /\ runner' = "run" /\ atOnce' = TRUE
  /\ UNCHANGED <<stop, delayed, now, until, pc, moved, fault>>

(* Lines 61 to 66, after a wait or if there is nothing delayed.            *)
RunAtOnce ==
  /\ runner = "woken" \/ (runner = "lock" /\ delayed = {})
  /\ tasks # <<>>
  /\ task' = Head(tasks) /\ tasks' = Tail(tasks)
  /\ runner' = "run" /\ atOnce' = TRUE
  /\ UNCHANGED <<stop, delayed, now, until, pc, moved, fault>>

NothingToRun ==
  /\ runner = "woken" /\ tasks = <<>>
  /\ runner' = "test"
  /\ UNCHANGED <<stop, tasks, delayed, now, until, task, atOnce, pc, moved, fault>>

TaskEnds ==
  /\ runner = "run" /\ pc[Runner] = "idle"
  /\ runner' = "test" /\ task' = Idle
  /\ UNCHANGED <<stop, tasks, delayed, now, until, atOnce, pc, moved, fault>>

RunStep ==
  \/ TestStop \/ WaitForTask \/ RunDelayed \/ WaitUntil \/ RunAtOnce
  \/ NothingToRun \/ TaskEnds

-----------------------------------------------------------------------------
MQNext ==
  /\ fault = "none"
  /\ \/ \E c \in Thread :
          \/ Stop(c) \/ Notify(c)
          \/ \E j \in Job :
               Post(c, j) \/ \E delay \in 0 .. MaxTime : PostDelayed(c, j, delay)
     \/ Tick \/ RunStep \/ TimeIsUp \/ SpuriousWakeUp

MQSpec == MQInit /\ [][MQNext]_mqVars

(* Time passes, a timed wait ends, threads inside a call and the runner    *)
(* keep running, and a task returns.  Nothing is assumed of a thread that  *)
(* makes no call, nor of spurious wake-ups.  The clock of the model stops  *)
(* at MaxTime, and with it two delayed tasks may have the same time for    *)
(* ever; as the clock of the code goes on, what is posted later is then    *)
(* due later, and a task that is due gets its turn among the delayed ones. *)
MQFairSpec ==
  /\ MQSpec
  /\ \A c \in Thread : WF_mqVars(fault = "none" /\ Notify(c))
  /\ WF_mqVars(fault = "none" /\ Tick) /\ WF_mqVars(fault = "none" /\ RunStep)
  /\ WF_mqVars(fault = "none" /\ TimeIsUp)
  /\ \A j \in Job : SF_mqVars(fault = "none" /\ RunDelayed /\ task' = j)

-----------------------------------------------------------------------------
(* Properties that hold. *)

Notifying == \E c \in Caller : pc[c] = "notify"

(* The runner does not wait for ever with a task in a queue: somebody is   *)
(* then about to notify it (Post, PostDelayed, the first wait of Run).     *)
NoLostPost ==
  (runner = "waiting" /\ (tasks # <<>> \/ delayed # {})) => Notifying

(* The runner does not sleep past the time of a delayed task, though one   *)
(* that is due earlier may be posted while it sleeps (wait_until).         *)
NoOversleep ==
  (runner = "timedWait" /\ \E m \in delayed : m.at < until) => Notifying

Executor == INSTANCE SerialExecutor WITH
  queue   <- tasks,
  running <- IF atOnce THEN task ELSE Idle

(* Tasks to run at once run in the order they were posted, one at a time,  *)
(* once each, whatever delayed tasks run between them.                     *)
PostedInOrder == Executor!SESpec

(* A delayed task comes to run however many tasks are posted, unless the   *)
(* queue is stopped.  A task posted to run at once comes to run too, but   *)
(* only if delayed tasks do not keep it from it: Run takes one that is due *)
(* first, every time (continue), and a task may post another.              *)
PostedRuns ==
  \A j \in Job :
    /\ Delayed(j) ~> ~Delayed(j) \/ stop \/ fault # "none"
    /\ \/ Posted(j) ~> ~Posted(j) \/ stop \/ fault # "none"
       \/ []<>(runner = "run" /\ ~atOnce)

-----------------------------------------------------------------------------
(* A comment of the repository that the code does not keep. *)

(* "Stop(); // stop the message loop of the current thread": after Stop    *)
(* the runner leaves Run.                                                  *)
StopEndsRun == stop ~> runner = "exited"
=============================================================================
