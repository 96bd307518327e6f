--------------------------- MODULE SerialExecutor ---------------------------
(***************************************************************************)
(* What a queue with one worker thread promises: the jobs handed to it run *)
(* one at a time, in the order they were handed over, each of them once;   *)
(* and every one of them does run.  There are no locks, conditions or      *)
(* wake-ups here.                                                          *)
(***************************************************************************)
EXTENDS Sequences

CONSTANTS Job, Idle

VARIABLES
  queue,   \* jobs handed over and not begun
  running  \* the job that runs, or Idle

seVars == <<queue, running>>

SEInit == queue = <<>> /\ running = Idle

Submit(j) == queue' = Append(queue, j) /\ UNCHANGED running

Begin ==
  /\ running = Idle /\ queue # <<>>
  /\ running' = Head(queue) /\ queue' = Tail(queue)

End == running # Idle /\ running' = Idle /\ UNCHANGED queue

SENext == (\E j \in Job : Submit(j)) \/ Begin \/ End

SESpec == SEInit /\ [][SENext]_seVars

SEFairSpec == SESpec /\ WF_seVars(Begin) /\ WF_seVars(End)
=============================================================================
