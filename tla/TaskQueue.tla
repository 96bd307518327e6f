------------------------------ MODULE TaskQueue ------------------------------
(***************************************************************************)
(* TaskQueue (client/include/utils/MessageQueue.h): a queue of tasks with  *)
(* a worker thread, a mutex and a condition variable.                      *)
(*                                                                         *)
(* All shared data is used under the mutex, so that each critical section  *)
(* is one step; what happens outside of it (notify_one, the task itself,   *)
(* join) is a step of its own.  The wait of the worker is its predicate's  *)
(* test under the mutex (WorkerTests) and the wait set of the condition    *)
(* variable, which has the worker in it while worker = "waiting".          *)
(***************************************************************************)
EXTENDS Naturals, Sequences

CONSTANTS
  Job,      \* calls of Invoke, each made at most once
  Caller,   \* threads that call Invoke
  Worker,   \* worker_thread_, whose tasks may call Invoke too
  Idle      \* no task is running

ASSUME TaskQueueAssumption == Idle \notin Job /\ Worker \notin Caller

VARIABLES
  stopFlag,  \* stop_flag_
  tasks,     \* tasks_
  worker,    \* where worker_thread_ is in ProcessTasks
  task,      \* the local variable task
  pc,        \* where a thread is in Invoke
  future,    \* what has become of the future of a call
  owner,     \* the owner of the queue: alive, then in the destructor, then gone
  fault      \* the condition variable was used after it was destroyed

tqVars == <<stopFlag, tasks, worker, task, pc, future, owner, fault>>

Thread == Caller \cup {Worker}

TQTypeOK ==
  /\ stopFlag \in BOOLEAN
  /\ tasks \in Seq(Job)
  /\ worker \in {"test", "waiting", "run", "exited"}
  /\ task \in Job \cup {Idle} /\ (worker = "run" <=> task # Idle)
  /\ pc \in [Thread -> {"idle", "notify"}]
  /\ future \in [Job -> {"none", "pending", "refused", "ready"}]
  /\ owner \in {"alive", "notify", "joining", "destroyed"}
  /\ fault \in BOOLEAN

TQInit ==
  /\ stopFlag = FALSE /\ tasks = <<>> /\ worker = "test" /\ task = Idle
  /\ pc = [c \in Thread |-> "idle"]
  /\ future = [j \in Job |-> "none"]
  /\ owner = "alive" /\ fault = FALSE

-----------------------------------------------------------------------------
(* Invoke and the destructor. *)

(* notify_one: the worker is the only thread that ever waits.              *)
WakeUp == worker' = IF worker = "waiting" THEN "test" ELSE worker

(* Invoke, up to the end of its critical section: push the task, or throw  *)
(* if the queue has been stopped.  A task may call Invoke itself.          *)
InvokePushes(c, j) ==
  /\ pc[c] = "idle" /\ future[j] = "none" /\ owner # "destroyed"
  /\ c = Worker => worker = "run"
  /\ IF stopFlag
       THEN /\ future' = [future EXCEPT ![j] = "refused"]
            /\ UNCHANGED <<tasks, pc>>
       ELSE /\ future' = [future EXCEPT ![j] = "pending"]
            /\ tasks' = Append(tasks, j)
            /\ pc' = [pc EXCEPT ![c] = "notify"]
  /\ UNCHANGED <<stopFlag, worker, task, owner, fault>>

(* A slip: the waiting thread is told only of the first task in the queue, *)
(* as the queue is by then.                                                *)
InvokeNotifiesFirst(c) ==
  /\ pc[c] = "notify"
  /\ pc' = [pc EXCEPT ![c] = "idle"]
  /\ IF owner # "destroyed" /\ Len(tasks) = 1 THEN WakeUp ELSE UNCHANGED worker
  /\ fault' = (owner = "destroyed")
  /\ UNCHANGED <<stopFlag, tasks, task, future, owner>>

(* cond_var_.notify_one() after the mutex was released: by then the worker *)
(* may have run the task, and the owner destroyed the queue.               *)
InvokeNotifies(c) ==
  /\ pc[c] = "notify"
  /\ pc' = [pc EXCEPT ![c] = "idle"]
  /\ IF owner # "destroyed" THEN WakeUp ELSE UNCHANGED worker
  /\ fault' = (owner = "destroyed")
  /\ UNCHANGED <<stopFlag, tasks, task, future, owner>>

DestructorStops ==
  /\ owner = "alive"
  /\ stopFlag' = TRUE /\ owner' = "notify"
  /\ UNCHANGED <<tasks, worker, task, pc, future, fault>>

(* A slip: the destructor joins without waking the worker.                 *)
DestructorNotifiesNobody ==
  /\ owner = "notify"
  /\ owner' = "joining"
  /\ UNCHANGED <<stopFlag, tasks, worker, task, pc, future, fault>>

DestructorNotifies ==
  /\ owner = "notify"
  /\ owner' = "joining"
  /\ WakeUp
  /\ UNCHANGED <<stopFlag, tasks, task, pc, future, fault>>

(* A slip: the worker is detached, not joined.                             *)
DestructorDetaches ==
  /\ owner = "joining"
  /\ owner' = "destroyed"
  /\ UNCHANGED <<stopFlag, tasks, worker, task, pc, future, fault>>

DestructorJoins ==
  /\ owner = "joining" /\ worker = "exited"
  /\ owner' = "destroyed"
  /\ UNCHANGED <<stopFlag, tasks, worker, task, pc, future, fault>>

-----------------------------------------------------------------------------
(* ProcessTasks. *)

(* A slip: a stopped worker leaves what is queued.                         *)
WorkerTestsStopFirst ==
  /\ worker = "test"
  /\ \/ /\ ~stopFlag /\ tasks = <<>> /\ worker' = "waiting"
        /\ UNCHANGED <<tasks, task>>
     \/ /\ stopFlag /\ worker' = "exited"
        /\ UNCHANGED <<tasks, task>>
     \/ /\ ~stopFlag /\ tasks # <<>>
        /\ task' = Head(tasks) /\ tasks' = Tail(tasks) /\ worker' = "run"
  /\ UNCHANGED <<stopFlag, pc, future, owner, fault>>

(* A slip: the newest task is taken first.                                 *)
WorkerTestsNewest ==
  /\ worker = "test"
  /\ \/ /\ ~stopFlag /\ tasks = <<>> /\ worker' = "waiting"
        /\ UNCHANGED <<tasks, task>>
     \/ /\ stopFlag /\ tasks = <<>> /\ worker' = "exited"
        /\ UNCHANGED <<tasks, task>>
     \/ /\ tasks # <<>> /\ worker' = "run"
        /\ task' = tasks[Len(tasks)] /\ tasks' = SubSeq(tasks, 1, Len(tasks) - 1)
  /\ UNCHANGED <<stopFlag, pc, future, owner, fault>>

(* A slip: a worker that wakes up takes a task without testing for one.    *)
WorkerTestsNothing ==
  /\ worker = "test"
  /\ \/ /\ ~stopFlag /\ tasks = <<>> /\ worker' \in {"waiting", "run"}
        /\ UNCHANGED <<tasks, task>>
     \/ /\ stopFlag /\ tasks = <<>> /\ worker' = "exited"
        /\ UNCHANGED <<tasks, task>>
     \/ /\ tasks # <<>> /\ worker' = "run"
        /\ task' = Head(tasks) /\ tasks' = Tail(tasks)
  /\ UNCHANGED <<stopFlag, pc, future, owner, fault>>

(* The critical section: the predicate of the wait is false, and the       *)
(* worker waits; or it takes a task; or it was stopped and nothing is left. *)
WorkerTests ==
  /\ worker = "test"
  /\ \/ /\ ~stopFlag /\ tasks = <<>> /\ worker' = "waiting"
        /\ UNCHANGED <<tasks, task>>
     \/ /\ stopFlag /\ tasks = <<>> /\ worker' = "exited"
        /\ UNCHANGED <<tasks, task>>
     \/ /\ tasks # <<>> /\ worker' = "run"
        /\ task' = Head(tasks) /\ tasks' = Tail(tasks)
  /\ UNCHANGED <<stopFlag, pc, future, owner, fault>>

(* A wait may end without a notification.                                  *)
SpuriousWakeUp ==
  /\ worker = "waiting"
  /\ worker' = "test"
  /\ UNCHANGED <<stopFlag, tasks, task, pc, future, owner, fault>>

(* task() returns: the packaged task has stored a value or an exception.   *)
TaskEnds ==
  /\ worker = "run" /\ pc[Worker] = "idle"
  /\ worker' = "test" /\ task' = Idle
  /\ future' = [future EXCEPT ![task] = "ready"]
  /\ UNCHANGED <<stopFlag, tasks, pc, owner, fault>>

-----------------------------------------------------------------------------
TQNext ==
  /\ ~fault
  /\ \/ \E c \in Thread : InvokeNotifies(c) \/ \E j \in Job : InvokePushes(c, j)
     \/ DestructorStops \/ DestructorNotifies \/ DestructorJoins
     \/ WorkerTests \/ SpuriousWakeUp \/ TaskEnds

TQSpec == TQInit /\ [][TQNext]_tqVars

(* Threads inside Invoke, the destructor or ProcessTasks keep running, and *)
(* a task returns.  Nothing is assumed of a thread that does not call, nor *)
(* of spurious wake-ups.                                                   *)
TQFairSpec ==
  /\ TQSpec
  /\ \A c \in Thread : WF_tqVars(~fault /\ InvokeNotifies(c))
  /\ WF_tqVars(~fault /\ DestructorNotifies) /\ WF_tqVars(~fault /\ DestructorJoins)
  /\ WF_tqVars(~fault /\ WorkerTests) /\ WF_tqVars(~fault /\ TaskEnds)

-----------------------------------------------------------------------------
(* Properties. *)

(* The worker does not sleep over a task or over the stop flag: somebody   *)
(* is then about to notify it (the predicate of the wait, and the two      *)
(* notify_one calls that come after the mutex is released).                *)
NoLostWakeUp ==
  (worker = "waiting" /\ (tasks # <<>> \/ stopFlag)) =>
    owner = "notify" \/ \E c \in Caller : pc[c] = "notify"

(* Every call that Invoke accepted has its result before the queue is      *)
(* destroyed: the worker drains the queue first, including what tasks add  *)
(* (the return of ProcessTasks, join).                                     *)
AllRunBeforeDestroyed ==
  owner = "destroyed" => \A j \in Job : future[j] # "pending"

Executor == INSTANCE SerialExecutor WITH queue <- tasks, running <- task

(* The mutex and the condition variable implement the executor: tasks run  *)
(* in order, one at a time, once, and none is left lying.                  *)
ImplementsExecutor == Executor!SEFairSpec

(* An owner that lets no other thread be inside Invoke when the queue goes *)
(* needs no more care: nothing else, and no task that the worker still     *)
(* runs, uses the condition variable after it is destroyed.                *)
SafeOnceCallersLeft ==
  [](owner = "destroyed" => \A c \in Caller : pc[c] = "idle") => []~fault

(* The destructor returns: a worker that waits is woken, one that works    *)
(* comes to its end.                                                       *)
TQDestructorReturns == stopFlag ~> owner = "destroyed"
=============================================================================
