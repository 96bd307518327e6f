------------------------------ MODULE RtmProofs ------------------------------
(* Theorems about Rtm, for any calls, channels, failures and notifications. *)
EXTENDS Rtm, SequenceTheorems, TLAPS

(* The tasks that callbacks queue.                                          *)
LEMMA EventTask ==
  ASSUME NEW e \in Event PROVE [kind |-> e] \in Task
BY DEF Task

(* A task makes at most two requests or publications, and the task of a     *)
(* reconnection a login and a subscription (Script).                        *)
LEMMA ScriptOf ==
  ASSUME NEW t \in Task, channelName \in Channel \cup {NoChannel}
  PROVE  /\ Len(Script(t)) \in 0 .. 2
         /\ \A i \in 1 .. Len(Script(t)) : Script(t)[i] \in Message
         /\ t.kind = "reconnected" =>
              /\ Len(Script(t)) = 2
              /\ Script(t)[1] = Login /\ Script(t)[2] = Do("subscribe", channelName)
         /\ t.kind \in {"message", "publish"} => t.kind # "reconnected"
<1> USE RtmAssumption
<1>1. CASE t.kind \in {"call", "publish"}
  <2>1. t.do \in Message /\ Script(t) = <<t.do>>
    BY <1>1 DEF Task, Event, Script
  <2> QED
    BY <1>1, <2>1
<1>2. CASE t.kind = "connected"
  <2>1. Script(t) = <<Login, Do("subscribe", Lobby)>>
    BY <1>2 DEF Script
  <2>2. Login \in Message /\ Do("subscribe", Lobby) \in Message
    BY DEF Login, Do, Message, Op
  <2> QED
    BY <1>2, <2>1, <2>2
<1>3. CASE t.kind = "reconnected"
  <2>1. Script(t) = <<Login, Do("subscribe", channelName)>>
    BY <1>3 DEF Script
  <2>2. Login \in Message /\ Do("subscribe", channelName) \in Message
    BY DEF Login, Do, Message, Op
  <2> QED
    BY <1>3, <2>1, <2>2
<1>4. CASE t.kind = "message"
  <2>1. Script(t) = <<Do("publish", Lobby)>>
    BY <1>4 DEF Script
  <2>2. Do("publish", Lobby) \in Message
    BY DEF Do, Message, Op
  <2> QED
    BY <1>4, <2>1, <2>2
<1>5. CASE t.kind \in {"closed", "presence"}
  <2>1. Script(t) = <<>>
    BY <1>5 DEF Script
  <2> QED
    BY <1>5, <2>1
<1> QED
  BY <1>1, <1>2, <1>3, <1>4, <1>5 DEF Task, Event

(* Calls queue tasks and ask for what the server knows.                     *)
LEMMA CallTask ==
  ASSUME NEW k \in Call, NEW op \in Op, NEW ch \in Channel \cup {NoChannel}
  PROVE  /\ Do(op, ch) \in Message
         /\ [kind |-> "call", call |-> k, do |-> Do(op, ch)] \in Task
         /\ [kind |-> "publish", do |-> Do(op, ch)] \in Task
BY DEF Task, Do, Message

-----------------------------------------------------------------------------
(* Where the worker, the owner and the connection are, together: the worker *)
(* waits for a request of the task it runs and for nothing else; it ends    *)
(* when it has been told to; a destroyed RTM has no worker and no           *)
(* connection (WorkerFunction, ~RTM).                                       *)
WaitInv ==
  IF worker = "wait"
    THEN step <= Len(Script(current)) /\ Next1.op # "publish" /\ awaiting # "none"
    ELSE awaiting = "none"

OwnerInv ==
  /\ worker = "exited" => ~running
  /\ ~running => owner # "alive"
  /\ owner = "destroyed" => worker = "exited" /\ link = "none"

(* The request or publication the worker is at.                             *)
LEMMA NextOfScript ==
  ASSUME RtmTypeOK, step <= Len(Script(current))
  PROVE  Next1 \in Message
<1>1. step \in 1 .. Len(Script(current))
  BY ScriptOf DEF RtmTypeOK, StateTypeOK
<1> QED
  BY <1>1, ScriptOf DEF RtmTypeOK, StateTypeOK, Next1

(* The queues keep their types.                                             *)
LEMMA QueueStep ==
  ASSUME RtmTypeOK, RtmNext PROVE QueueTypeOK'
<1> USE RtmAssumption DEF RtmTypeOK, QueueTypeOK
<1>1. \A t \in Task : InvokeTask(t) => tasks' \in Seq(Task)
  BY DEF InvokeTask
<1>2. \A e \in Event : Callback(e) => tasks' \in Seq(Task)
  BY <1>1, EventTask DEF Callback
<1>3. ASSUME AppStep PROVE QueueTypeOK'
  <2>1. CASE ConnectBegins \/ ConnectReturns \/ BeginDestructor
    BY <2>1 DEF ConnectBegins, ConnectReturns, BeginDestructor
  <2>4. CASE EndDestructor
    <3>1. tasks' = <<>> /\ outbox' = <<>>
      BY <2>4 DEF EndDestructor
    <3> QED
      BY <3>1
  <2>2. ASSUME NEW k \in Call, NEW op \in Op, NEW ch \in Channel \cup {NoChannel},
               CallRequest(k, op, ch)
        PROVE  QueueTypeOK'
    BY <2>2, <1>1, CallTask DEF CallRequest
  <2>3. ASSUME NEW k \in Call, CallPublish(k) PROVE QueueTypeOK'
    <3>1. "publish" \in Op
      BY DEF Op
    <3> QED
      BY <2>3, <3>1, <1>1, CallTask DEF CallPublish
  <2> QED
    BY <1>3, <2>1, <2>2, <2>3, <2>4 DEF AppStep, Op
<1>4. ASSUME WorkerStep PROVE QueueTypeOK'
  <2>1. CASE TakeTask
    BY <2>1 DEF TakeTask
  <2>2. CASE Sleep \/ Wake \/ EndTask \/ RequestSucceeds \/ RequestFails \/ ListenerThrows
    BY <2>2 DEF Sleep, Wake, EndTask, RequestSucceeds, RequestFails, ListenerThrows
  <2>3. CASE MakeRequest
    BY <2>3, NextOfScript DEF MakeRequest
  <2>4. CASE Publish
    <3>1. Next1 \in Message /\ [kind |-> "publish", do |-> Next1] \in Task
      BY <2>4, NextOfScript DEF Publish, Task
    <3> QED
      BY <2>4, <3>1, <1>1 DEF Publish
  <2> QED
    BY <1>4, <2>1, <2>2, <2>3, <2>4 DEF WorkerStep
<1>5. ASSUME LinkStep PROVE QueueTypeOK'
  BY <1>5, <1>2 DEF LinkStep, Established, AttemptFails, Closed, Delivered, Notified, Event
<1> QED
  BY <1>3, <1>4, <1>5 DEF RtmNext

(* The flags stay flags: only ~RTM clears the first, and only a new         *)
(* connection sets the second.                                              *)
LEMMA FlagStep ==
  ASSUME RtmTypeOK, RtmNext PROVE FlagTypeOK'
<1>1. running' = running \/ running' = FALSE
  <2>1. ASSUME AppStep PROVE running' = running \/ running' = FALSE
    BY <2>1 DEF AppStep, ConnectBegins, ConnectReturns, BeginDestructor, EndDestructor,
                CallRequest, CallPublish, workerVars
  <2>2. ASSUME WorkerStep PROVE running' = running
    BY <2>2 DEF WorkerStep, TakeTask, Sleep, Wake, EndTask, RequestSucceeds, RequestFails,
                ListenerThrows, MakeRequest, Publish, workerVars
  <2>3. ASSUME LinkStep PROVE running' = running
    BY <2>3 DEF LinkStep, Established, AttemptFails, Closed, Delivered, Notified, workerVars
  <2> QED
    BY <2>1, <2>2, <2>3 DEF RtmNext
<1>2. told' = told \/ told' = (hooks = "set")
  <2>1. ASSUME AppStep PROVE told' = told
    BY <2>1 DEF AppStep, ConnectBegins, ConnectReturns, BeginDestructor, EndDestructor,
                CallRequest, CallPublish, linkVars
  <2>2. ASSUME WorkerStep PROVE told' = told
    BY <2>2 DEF WorkerStep, TakeTask, Sleep, Wake, EndTask, RequestSucceeds, RequestFails,
                ListenerThrows, MakeRequest, Publish, linkVars
  <2>3. ASSUME LinkStep PROVE told' = told \/ told' = (hooks = "set")
    BY <2>3 DEF LinkStep, Established, AttemptFails, Closed, Delivered, Notified
  <2> QED
    BY <2>1, <2>2, <2>3 DEF RtmNext
<1> QED
  BY <1>1, <1>2 DEF RtmTypeOK, FlagTypeOK

(* The rest of the state keeps its types, step by step.                     *)
LEMMA AppState ==
  ASSUME RtmTypeOK, AppStep PROVE StateTypeOK'
<1> USE DEF RtmTypeOK, StateTypeOK, workerVars, appVars, linkVars
<1>1. CASE ConnectBegins \/ ConnectReturns \/ BeginDestructor
  BY <1>1 DEF ConnectBegins, ConnectReturns, BeginDestructor
<1>2. CASE EndDestructor
  <2>1. future' \in [Call -> {"none", "waiting", "stored", "ready"}]
    <3> DEFINE gone(k) == \E j \in DOMAIN tasks : tasks[j].kind = "call" /\ tasks[j].call = k
    <3>1. future' = [k \in Call |-> IF gone(k) THEN "ready" ELSE future[k]]
      BY <1>2 DEF EndDestructor
    <3> HIDE DEF gone
    <3> QED
      BY <3>1
  <2>2. /\ owner' = "destroyed" /\ hooks' = "noPeer" /\ link' = "none"
        /\ UNCHANGED <<worker, current, step, awaiting, channelName>>
        /\ UNCHANGED <<failures, did, notifications, fault>>
    BY <1>2 DEF EndDestructor
  <2> QED
    BY <2>1, <2>2
<1>3. ASSUME NEW k \in Call, future' = [future EXCEPT ![k] = "waiting"]
                             \/ future' = [future EXCEPT ![k] = "ready"]
      PROVE  future' \in [Call -> {"none", "waiting", "stored", "ready"}]
  BY <1>3
<1>4. ASSUME NEW k \in Call, NEW op \in Op, NEW ch \in Channel \cup {NoChannel},
             CallRequest(k, op, ch)
      PROVE  StateTypeOK'
  BY <1>4, <1>3 DEF CallRequest
<1>5. ASSUME NEW k \in Call, CallPublish(k) PROVE StateTypeOK'
  BY <1>5, <1>3 DEF CallPublish
<1> QED
  BY <1>1, <1>2, <1>4, <1>5 DEF AppStep, Op

(* A step within a task never goes past its script.                         *)
LEMMA WorkerState ==
  ASSUME RtmTypeOK, WaitInv, WorkerStep PROVE StateTypeOK'
<1> USE DEF RtmTypeOK, StateTypeOK, workerVars, appVars, linkVars
<1>1. CASE TakeTask
  <2>1. Head(tasks) \in Task
    BY <1>1 DEF TakeTask, QueueTypeOK
  <2> QED
    BY <1>1, <2>1 DEF TakeTask
<1>2. CASE Sleep \/ MakeRequest \/ ListenerThrows
  BY <1>2 DEF Sleep, MakeRequest, ListenerThrows
<1>3. CASE Wake
  BY <1>3 DEF Wake
<1>4. step <= Len(Script(current)) => step + 1 \in 1 .. 3
  BY ScriptOf
<1>5. CASE Publish
  BY <1>5, <1>4 DEF Publish
<1>6. Store => future' \in [Call -> {"none", "waiting", "stored", "ready"}]
  BY DEF Store
<1>7. CASE EndTask
  BY <1>6, <1>7 DEF EndTask
<1>8. CASE RequestFails
  BY <1>6, <1>8 DEF RequestFails
<1>9. CASE RequestSucceeds
  <2>1. step \in 1 .. Len(Script(current)) /\ Next1 \in Message
    BY <1>9, NextOfScript, ScriptOf DEF RequestSucceeds, WaitInv
  <2>2. channelName' \in Channel \cup {NoChannel}
    BY <1>9, <2>1 DEF RequestSucceeds, Message
  <2> QED
    BY <1>9, <1>4, <2>1, <2>2 DEF RequestSucceeds
<1> QED
  BY <1>1, <1>2, <1>3, <1>5, <1>7, <1>8, <1>9 DEF WorkerStep

(* The connection, and what the server did over it.                         *)
LEMMA LinkState ==
  ASSUME RtmTypeOK, LinkStep PROVE StateTypeOK'
<1> USE RtmAssumption DEF RtmTypeOK, StateTypeOK, workerVars, appVars, linkVars
<1>1. ASSUME NEW e \in Event, Callback(e)
      PROVE  fault' \in {"none", "terminate", "callbackRace"}
  BY <1>1 DEF Callback
<1>2. CASE Established
  BY <1>1, <1>2 DEF Established, Event
<1>3. CASE AttemptFails
  BY <1>3 DEF AttemptFails
<1>4. CASE Closed
  BY <1>1, <1>4 DEF Closed, Event
<1>5. CASE Delivered
  <2>1. Head(outbox) \in Message
    BY <1>5 DEF Delivered, QueueTypeOK
  <2>2. did' \subseteq Message
    BY <1>5, <2>1 DEF Delivered
  <2>3. awaiting' \in {"none", "queued", "accepted", "refused", "lost"}
    BY <1>5 DEF Delivered
  <2> QED
    BY <1>5, <2>2, <2>3 DEF Delivered
<1>6. CASE Notified
  BY <1>1, <1>6 DEF Notified, Event
<1> QED
  BY <1>2, <1>3, <1>4, <1>5, <1>6 DEF LinkStep

-----------------------------------------------------------------------------
(* A step that leaves the task in hand alone leaves its script alone, and   *)
(* the request in it: what the worker runs changes only when it takes the   *)
(* next task, and the channel a reconnection subscribes to only when a      *)
(* subscription succeeds, which is on the worker too.                       *)
LEMMA ScriptKept ==
  ASSUME UNCHANGED <<current, channelName>>
  PROVE  Script(current)' = Script(current) /\ (step' = step => Next1' = Next1)
BY DEF Script, Next1

(* The worker starts to wait in MakeRequest only.                           *)
LEMMA WaitStep ==
  ASSUME RtmTypeOK, WaitInv, RtmNext PROVE WaitInv'
<1> USE DEF workerVars
<1>1. ASSUME UNCHANGED <<worker, current, step, awaiting, channelName>>
      PROVE  WaitInv'
  BY <1>1, ScriptKept DEF WaitInv
<1>2. CASE AppStep
  BY <1>1, <1>2 DEF AppStep, ConnectBegins, ConnectReturns, BeginDestructor, EndDestructor,
                    CallRequest, CallPublish
<1>3. CASE WorkerStep
  <2>1. CASE MakeRequest
    BY <2>1, ScriptKept DEF MakeRequest, WaitInv
  <2>2. CASE TakeTask \/ Sleep \/ Wake \/ Publish \/ EndTask \/ ListenerThrows
             \/ RequestSucceeds \/ RequestFails
    BY <2>2 DEF TakeTask, Sleep, Wake, Publish, EndTask, ListenerThrows,
                RequestSucceeds, RequestFails, WaitInv
  <2> QED
    BY <1>3, <2>1, <2>2 DEF WorkerStep
<1>4. CASE LinkStep
  <2>1. ASSUME UNCHANGED <<worker, current, step, channelName>>,
               awaiting' = "none" <=> awaiting = "none"
        PROVE  WaitInv'
    BY <2>1, ScriptKept DEF WaitInv
  <2>2. awaiting' = "none" <=> awaiting = "none"
    BY <1>4 DEF LinkStep, Established, AttemptFails, Closed, Delivered, Notified
  <2> QED
    BY <1>4, <2>1, <2>2 DEF LinkStep, Established, AttemptFails, Closed, Delivered, Notified
<1> QED
  BY <1>2, <1>3, <1>4 DEF RtmNext

(* Everything a step leaves alone keeps its type with the rest.             *)
LEMMA TypeStep ==
  ASSUME RtmTypeOK, WaitInv, RtmNext PROVE RtmTypeOK'
BY QueueStep, FlagStep, AppState, WorkerState, LinkState, WaitStep
DEF RtmTypeOK, RtmNext, WaitInv, WaitTypeOK

(* The destructor joins the worker before it ends.                          *)
LEMMA OwnerStep ==
  ASSUME OwnerInv, RtmNext PROVE OwnerInv'
<1> USE DEF OwnerInv, workerVars, appVars, linkVars
<1>1. CASE AppStep
  <2>1. CASE ConnectBegins
    BY <2>1 DEF ConnectBegins
  <2>2. CASE BeginDestructor
    BY <2>2 DEF BeginDestructor
  <2>3. CASE EndDestructor
    BY <2>3 DEF EndDestructor
  <2>4. CASE ~ConnectBegins /\ ~BeginDestructor /\ ~EndDestructor
    <3>1. UNCHANGED <<running, worker, owner, link>>
      BY <1>1, <2>4 DEF AppStep, ConnectReturns, CallRequest, CallPublish
    <3> QED
      BY <3>1
  <2> QED
    BY <2>1, <2>2, <2>3, <2>4
<1>2. CASE WorkerStep
  BY <1>2 DEF WorkerStep, TakeTask, Sleep, Wake, EndTask, RequestSucceeds, RequestFails,
              ListenerThrows, MakeRequest, Publish
<1>3. CASE LinkStep
  BY <1>3 DEF LinkStep, Established, AttemptFails, Closed, Delivered, Notified
<1> QED
  BY <1>1, <1>2, <1>3 DEF RtmNext

(* The part the other invariants rest on.                                   *)
RtmBase == RtmTypeOK /\ WaitInv /\ OwnerInv

(* The parts hold of the first state, and every step keeps them.            *)
LEMMA BaseInit == RtmInit => RtmBase
<1> SUFFICES ASSUME RtmInit PROVE RtmBase
  OBVIOUS
<1> USE RtmAssumption DEF RtmInit
<1>1. StateTypeOK
  BY DEF StateTypeOK, Task, Event
<1>2. QueueTypeOK
  BY DEF QueueTypeOK
<1>3. FlagTypeOK
  BY DEF FlagTypeOK
<1>4. WaitInv
  BY DEF WaitInv
<1>5. OwnerInv
  BY DEF OwnerInv
<1> QED
  BY <1>1, <1>2, <1>3, <1>4, <1>5 DEF RtmBase, RtmTypeOK, WaitInv, WaitTypeOK

(* The same for a step.                                                     *)
LEMMA BaseStep == RtmBase /\ [RtmNext]_rtmVars => RtmBase'
<1> SUFFICES ASSUME RtmBase, [RtmNext]_rtmVars PROVE RtmBase'
  OBVIOUS
<1>1. CASE RtmNext
  BY <1>1, TypeStep, WaitStep, OwnerStep DEF RtmBase
<1>2. CASE UNCHANGED rtmVars
  <2> USE <1>2 DEF RtmBase, rtmVars, workerVars, appVars, linkVars
  <2>1. QueueTypeOK'
    BY DEF RtmTypeOK, QueueTypeOK
  <2>2. FlagTypeOK'
    BY DEF RtmTypeOK, FlagTypeOK
  <2>3. StateTypeOK'
    BY DEF RtmTypeOK, StateTypeOK
  <2>4. WaitInv'
    BY ScriptKept DEF WaitInv
  <2>5. OwnerInv'
    BY DEF OwnerInv
  <2> QED
    BY <2>1, <2>2, <2>3, <2>4, <2>5 DEF RtmTypeOK, WaitInv, WaitTypeOK
<1> QED
  BY <1>1, <1>2

(* Every variable of the RTM has its type, for any calls, channels,         *)
(* failures and notifications (RTM's members, qrtm.cpp).                    *)
THEOREM RtmTypes == RtmSpec => []RtmTypeOK
<1>1. RtmBase => RtmTypeOK
  BY DEF RtmBase
<1> QED
  BY <1>1, BaseInit, BaseStep, PTL DEF RtmSpec

-----------------------------------------------------------------------------
(* One request at a time.  What the worker waits for was put last into the  *)
(* outbox by the worker itself, and only the worker, which waits, puts      *)
(* anything there: calls and callbacks queue tasks.                         *)
LEMMA OneStep ==
  ASSUME RtmBase, OneAtATime, RtmNext PROVE OneAtATime'
<1> USE DEF workerVars, appVars, linkVars
<1>1. ASSUME UNCHANGED <<current, step, channelName, awaiting, outbox>>
      PROVE  OneAtATime'
  BY <1>1, ScriptKept DEF OneAtATime
<1>2. ASSUME awaiting' # "queued" PROVE OneAtATime'
  BY <1>2 DEF OneAtATime
<1>3. CASE AppStep
  <2>1. CASE EndDestructor
    BY <2>1, <1>2 DEF EndDestructor, RtmBase, WaitInv
  <2>2. CASE ~EndDestructor
    BY <1>1, <1>3, <2>2 DEF AppStep, ConnectBegins, ConnectReturns, BeginDestructor,
                            CallRequest, CallPublish
  <2> QED
    BY <2>1, <2>2
<1>4. CASE WorkerStep
  <2>1. CASE MakeRequest
    <3>1. outbox' = Append(outbox, Next1) /\ Next1' = Next1
      BY <2>1, ScriptKept DEF MakeRequest
    <3>2. outbox \in Seq(Message) /\ Next1 \in Message
      BY <2>1, NextOfScript DEF MakeRequest, RtmBase, RtmTypeOK, QueueTypeOK
    <3>3. outbox' # <<>> /\ outbox'[Len(outbox')] = Next1
      BY <3>1, <3>2, AppendProperties
    <3> QED
      BY <3>1, <3>3 DEF OneAtATime
  <2>2. CASE WorkerStep /\ ~MakeRequest
    <3>1. awaiting' # "queued"
      BY <2>2 DEF WorkerStep, TakeTask, Sleep, Wake, EndTask, RequestSucceeds, RequestFails,
                  ListenerThrows, Publish, RtmBase, WaitInv
    <3> QED
      BY <3>1, <1>2
  <2> QED
    BY <1>4, <2>1, <2>2
<1>5. CASE LinkStep
  <2>1. CASE Delivered
    <3>1. CASE awaiting' = "queued"
      <4>1. awaiting = "queued" /\ Len(outbox) # 1 /\ outbox # <<>> /\ outbox' = Tail(outbox)
        BY <2>1, <3>1 DEF Delivered
      <4>2. outbox \in Seq(Message)
        BY DEF RtmBase, RtmTypeOK, QueueTypeOK
      <4>3. Len(outbox) \in Nat /\ Len(outbox) >= 2
        BY <4>1, <4>2, EmptySeq
      <4>5. /\ Len(outbox') = Len(outbox) - 1
            /\ \A i \in 1 .. Len(outbox') : outbox'[i] = outbox[i + 1]
        BY <4>1, <4>2, HeadTailProperties
      <4>6. outbox' # <<>> /\ outbox'[Len(outbox')] = outbox[Len(outbox)]
        <5>1. Len(outbox') \in 1 .. Len(outbox') /\ Len(outbox') + 1 = Len(outbox)
          BY <4>3, <4>5
        <5>2. outbox' # <<>>
          BY <5>1, EmptySeq
        <5> QED
          BY <4>5, <5>1, <5>2
      <4>4. Next1' = Next1
        BY <2>1, ScriptKept DEF Delivered
      <4> QED
        BY <4>1, <4>4, <4>6 DEF OneAtATime
    <3>2. CASE awaiting' # "queued"
      BY <3>2, <1>2
    <3> QED
      BY <3>1, <3>2
  <2>2. CASE Closed
    <3>1. awaiting' = "queued" => awaiting' = awaiting
      BY <2>2 DEF Closed
    <3> QED
      BY <2>2, <3>1, <1>1, <1>2 DEF Closed
  <2>3. CASE Established \/ AttemptFails \/ Notified
    BY <2>3, <1>1 DEF Established, AttemptFails, Notified
  <2> QED
    BY <1>5, <2>1, <2>2, <2>3 DEF LinkStep
<1> QED
  BY <1>3, <1>4, <1>5 DEF RtmNext

(* A request the worker waits for is the last thing sent, for any number of *)
(* calls and members: nothing of a later task overtakes it.                 *)
THEOREM OneAtATimeHolds == RtmSpec => []OneAtATime
<1>1. RtmInit => OneAtATime
  BY DEF RtmInit, OneAtATime
<1>2. RtmBase /\ OneAtATime /\ [RtmNext]_rtmVars => OneAtATime'
  <2> SUFFICES ASSUME RtmBase, OneAtATime, [RtmNext]_rtmVars PROVE OneAtATime'
    OBVIOUS
  <2>1. CASE UNCHANGED rtmVars
    BY <2>1, ScriptKept DEF OneAtATime, rtmVars, workerVars
  <2> QED
    BY <2>1, OneStep
<1> QED
  BY <1>1, <1>2, BaseInit, BaseStep, PTL DEF RtmSpec

-----------------------------------------------------------------------------
(* The queue of tasks.  Everybody appends to it; only the worker takes from *)
(* it, and only the destructor empties it.                                  *)
Grows == tasks' = tasks \/ \E t \in Task : tasks' = Append(tasks, t)

Queued(k) == \E j \in DOMAIN tasks : tasks[j].kind = "call" /\ tasks[j].call = k

ToRestore == \E j \in DOMAIN tasks : tasks[j].kind = "reconnected"

(* What is in the queue stays at its place.                                 *)
LEMMA GrowsKeeps ==
  ASSUME QueueTypeOK, Grows
  PROVE  \A j \in DOMAIN tasks : j \in DOMAIN tasks' /\ tasks'[j] = tasks[j]
<1>1. ASSUME NEW t \in Task, tasks' = Append(tasks, t)
      PROVE  \A j \in DOMAIN tasks : j \in DOMAIN tasks' /\ tasks'[j] = tasks[j]
  <2>1. tasks \in Seq(Task)
    BY DEF QueueTypeOK
  <2>2. /\ Len(tasks) \in Nat /\ Len(tasks') = Len(tasks) + 1
        /\ DOMAIN tasks = 1 .. Len(tasks) /\ DOMAIN tasks' = 1 .. Len(tasks')
        /\ \A i \in 1 .. Len(tasks) : tasks'[i] = tasks[i]
    BY <1>1, <2>1, AppendProperties, LenProperties
  <2> QED
    BY <2>2
<1> QED
  BY <1>1 DEF Grows

(* So a queued call stays queued, and so does a restoration.                *)
LEMMA GrowsQueued ==
  ASSUME QueueTypeOK, Grows
  PROVE  /\ \A k \in Call : Queued(k) => Queued(k)'
         /\ ToRestore => ToRestore'
BY GrowsKeeps DEF Queued, ToRestore

(* What is appended is queued.                                              *)
LEMMA LastQueued ==
  ASSUME QueueTypeOK, NEW t \in Task, tasks' = Append(tasks, t)
  PROVE  /\ \A k \in Call : t.kind = "call" /\ t.call = k => Queued(k)'
         /\ t.kind = "reconnected" => ToRestore'
<1>1. Len(tasks') \in DOMAIN tasks' /\ tasks'[Len(tasks')] = t
  <2>1. tasks \in Seq(Task)
    BY DEF QueueTypeOK
  <2>2. /\ Len(tasks) \in Nat /\ Len(tasks') = Len(tasks) + 1
        /\ DOMAIN tasks' = 1 .. Len(tasks') /\ tasks'[Len(tasks')] = t
    BY <2>1, AppendProperties, LenProperties
  <2> QED
    BY <2>2
<1> QED
  BY <1>1 DEF Queued, ToRestore

(* What is taken is the head, and only the head.                            *)
LEMMA TailQueued ==
  ASSUME QueueTypeOK, tasks # <<>>, tasks' = Tail(tasks)
  PROVE  /\ Head(tasks) \in Task
         /\ \A k \in Call : Queued(k) =>
              Queued(k)' \/ (Head(tasks).kind = "call" /\ Head(tasks).call = k)
         /\ ToRestore => ToRestore' \/ Head(tasks).kind = "reconnected"
         /\ ToRestore' => ToRestore
<1>1. tasks \in Seq(Task)
  BY DEF QueueTypeOK
<1>2. /\ Len(tasks) \in Nat /\ Len(tasks) >= 1 /\ Len(tasks') = Len(tasks) - 1
      /\ DOMAIN tasks = 1 .. Len(tasks) /\ DOMAIN tasks' = 1 .. Len(tasks')
      /\ \A i \in 1 .. Len(tasks') : tasks'[i] = tasks[i + 1]
      /\ Head(tasks) = tasks[1] /\ Head(tasks) \in Task
  BY <1>1, EmptySeq, HeadTailProperties, LenProperties
<1>3. \A j \in DOMAIN tasks :
        j = 1 \/ (j - 1 \in DOMAIN tasks' /\ tasks'[j - 1] = tasks[j])
  BY <1>2
<1>4. \A j \in DOMAIN tasks' : j + 1 \in DOMAIN tasks /\ tasks'[j] = tasks[j + 1]
  BY <1>2
<1>5. ASSUME NEW k \in Call, Queued(k)
      PROVE  Queued(k)' \/ (Head(tasks).kind = "call" /\ Head(tasks).call = k)
  <2>1. PICK j \in DOMAIN tasks : tasks[j].kind = "call" /\ tasks[j].call = k
    BY <1>5 DEF Queued
  <2> QED
    BY <1>2, <1>3, <2>1 DEF Queued
<1>6. ToRestore => ToRestore' \/ Head(tasks).kind = "reconnected"
  BY <1>2, <1>3 DEF ToRestore
<1>7. ToRestore' => ToRestore
  BY <1>4 DEF ToRestore
<1> QED
  BY <1>2, <1>5, <1>6, <1>7

(* Every step but two leaves the queue alone or appends one task.           *)
LEMMA WhoGrows ==
  ASSUME RtmBase, RtmNext, ~TakeTask, ~EndDestructor
  PROVE  Grows
<1>1. \A t \in Task : InvokeTask(t) => Grows
  BY DEF InvokeTask, Grows
<1>2. \A e \in Event : Callback(e) => Grows
  BY <1>1, EventTask DEF Callback, Grows
<1>3. CASE AppStep
  <2>1. CASE ConnectBegins \/ ConnectReturns \/ BeginDestructor
    BY <2>1 DEF ConnectBegins, ConnectReturns, BeginDestructor, Grows
  <2>2. ASSUME NEW k \in Call, NEW op \in Op, NEW ch \in Channel \cup {NoChannel},
               CallRequest(k, op, ch)
        PROVE  Grows
    BY <2>2, <1>1, CallTask DEF CallRequest
  <2>3. ASSUME NEW k \in Call, CallPublish(k) PROVE Grows
    <3>1. "publish" \in Op /\ Lobby \in Channel
      BY RtmAssumption DEF Op
    <3> QED
      BY <2>3, <3>1, <1>1, CallTask DEF CallPublish
  <2> QED
    BY <1>3, <2>1, <2>2, <2>3 DEF AppStep, Op
<1>4. CASE WorkerStep
  <2>1. CASE Publish
    <3>1. Next1 \in Message /\ [kind |-> "publish", do |-> Next1] \in Task
      BY <2>1, NextOfScript DEF Publish, Task, RtmBase
    <3> QED
      BY <2>1, <3>1, <1>1 DEF Publish, Grows
  <2>2. CASE ~Publish
    <3>1. UNCHANGED tasks
      BY <1>4, <2>2 DEF WorkerStep, Sleep, Wake, EndTask, RequestSucceeds, RequestFails,
                        ListenerThrows, MakeRequest
    <3> QED
      BY <3>1 DEF Grows
  <2> QED
    BY <2>1, <2>2
<1>5. CASE LinkStep
  <2>1. CASE Established
    BY <2>1, <1>2 DEF Established, Event
  <2>2. CASE Closed
    BY <2>2, <1>2 DEF Closed, Event
  <2>3. CASE Notified
    BY <2>3, <1>2 DEF Notified, Event, Grows
  <2>4. CASE AttemptFails \/ Delivered
    BY <2>4 DEF AttemptFails, Delivered, Grows
  <2> QED
    BY <1>5, <2>1, <2>2, <2>3, <2>4 DEF LinkStep
<1> QED
  BY <1>3, <1>4, <1>5 DEF RtmNext

-----------------------------------------------------------------------------
(* No future is left.  While a thread may wait for a future, its task is in *)
(* the queue or in the hands of the worker; one that has its result waits   *)
(* for the thread to exit.  So when the worker has exited, what still waits *)
(* is in the queue, which the destructor empties.                           *)
FutureInv ==
  /\ \A k \in Call : future[k] = "waiting" => Queued(k) \/ InHand(k)
  /\ \A k \in Call : future[k] = "stored" => worker # "exited"
  /\ NoFutureLeft

(* The application: calls, the ends of connect and of the destructor.       *)
LEMMA FutureApp ==
  ASSUME RtmBase, FutureInv, RtmNext, AppStep
  PROVE  FutureInv'
<1> USE DEF workerVars, appVars
<1>1. QueueTypeOK /\ future \in [Call -> {"none", "waiting", "stored", "ready"}]
  BY DEF RtmBase, RtmTypeOK, StateTypeOK
<1>2. ~EndDestructor => Grows
  <2>1. ~TakeTask
    BY DEF AppStep, TakeTask, ConnectBegins, ConnectReturns, BeginDestructor, EndDestructor,
           CallRequest, CallPublish
  <2> QED
    BY <2>1, WhoGrows
<1>3. CASE EndDestructor
  <2>1. worker = "exited" /\ worker' = "exited"
    BY <1>3 DEF EndDestructor
  <2>2. \A k \in Call : future'[k] = IF Queued(k) THEN "ready" ELSE future[k]
    BY <1>3 DEF EndDestructor, Queued
  <2>3. \A k \in Call : future'[k] \in {"none", "ready"}
    BY <2>1, <2>2, <1>1 DEF FutureInv, InHand
  <2> QED
    BY <2>3 DEF FutureInv, NoFutureLeft
<1>4. CASE ConnectBegins \/ ConnectReturns \/ BeginDestructor
  <2>1. /\ UNCHANGED <<worker, current, future>>
        /\ owner' = "destroyed" => owner = "destroyed"
    BY <1>4 DEF ConnectBegins, ConnectReturns, BeginDestructor
  <2>2. Grows
    BY <1>4 DEF ConnectBegins, ConnectReturns, BeginDestructor, Grows
  <2>3. \A k \in Call : Queued(k) => Queued(k)'
    BY <1>1, <2>2, GrowsQueued
  <2>4. \A k \in Call : InHand(k) => InHand(k)'
    BY <2>1 DEF InHand
  <2> QED
    BY <2>1, <2>3, <2>4 DEF FutureInv, NoFutureLeft
<1>5. ASSUME NEW k \in Call, NEW t \in Task, tasks' = Append(tasks, t),
             owner = "alive", UNCHANGED <<worker, current, owner>>,
             \/ future' = [future EXCEPT ![k] = "ready"]
             \/ future' = [future EXCEPT ![k] = "waiting"] /\ t.kind = "call" /\ t.call = k
      PROVE  FutureInv'
  <2>1. \A i \in Call : Queued(i) => Queued(i)'
    BY <1>1, <1>5, GrowsQueued DEF Grows
  <2>2. \A i \in Call : InHand(i) => InHand(i)'
    BY <1>5 DEF InHand
  <2>3. t.kind = "call" /\ t.call = k => Queued(k)'
    BY <1>1, <1>5, LastQueued
  <2>4. \A i \in Call : i # k => future'[i] = future[i]
    BY <1>1, <1>5
  <2>5. future'[k] = "ready" \/ (future'[k] = "waiting" /\ Queued(k)')
    BY <1>1, <1>5, <2>3
  <2> QED
    BY <1>5, <2>1, <2>2, <2>4, <2>5 DEF FutureInv, NoFutureLeft
<1>6. ASSUME NEW k \in Call, NEW op \in Op, NEW ch \in Channel \cup {NoChannel},
             CallRequest(k, op, ch)
      PROVE  FutureInv'
  <2> DEFINE t == [kind |-> "call", call |-> k, do |-> Do(op, ch)]
  <2>1. t \in Task /\ t.kind = "call" /\ t.call = k
    BY CallTask
  <2>2. tasks' = Append(tasks, t)
    BY <1>6 DEF CallRequest, InvokeTask
  <2> HIDE DEF t
  <2> QED
    BY <1>5, <1>6, <2>1, <2>2 DEF CallRequest
<1>7. ASSUME NEW k \in Call, CallPublish(k) PROVE FutureInv'
  <2> DEFINE t == [kind |-> "publish", do |-> Do("publish", Lobby)]
  <2>1. t \in Task
    BY CallTask, RtmAssumption DEF Op
  <2>2. tasks' = Append(tasks, t)
    BY <1>7 DEF CallPublish, InvokeTask
  <2> HIDE DEF t
  <2> QED
    BY <1>5, <1>7, <2>1, <2>2 DEF CallPublish
<1> QED
  BY <1>3, <1>4, <1>6, <1>7 DEF AppStep, Op

(* The worker: a call in hand is stored when its task ends.                 *)
LEMMA FutureWorker ==
  ASSUME RtmBase, FutureInv, RtmNext, WorkerStep
  PROVE  FutureInv'
<1> USE DEF workerVars, appVars
<1>1. QueueTypeOK /\ future \in [Call -> {"none", "waiting", "stored", "ready"}]
  BY DEF RtmBase, RtmTypeOK, StateTypeOK
<1>2. /\ worker # "exited" /\ owner' = owner /\ owner # "destroyed"
  BY DEF WorkerStep, TakeTask, Sleep, Wake, EndTask, RequestSucceeds, RequestFails,
         ListenerThrows, MakeRequest, Publish, RtmBase, OwnerInv
<1>3. NoFutureLeft'
  BY <1>2 DEF NoFutureLeft
<1>4. ~TakeTask => \A k \in Call : Queued(k) => Queued(k)'
  <2>1. ~EndDestructor
    BY <1>2 DEF EndDestructor
  <2> QED
    BY <1>1, <2>1, WhoGrows, GrowsQueued
<1>5. CASE TakeTask
  <2>1. \A k \in Call : ~InHand(k)
    BY <1>5 DEF TakeTask, InHand
  <2>2. \A k \in Call : Queued(k) => Queued(k)' \/ InHand(k)'
    BY <1>1, <1>5, TailQueued DEF TakeTask, InHand
  <2> QED
    BY <1>3, <1>5, <2>1, <2>2 DEF FutureInv, TakeTask
<1>6. CASE Sleep
  <2>1. \A k \in Call : ~InHand(k)
    BY <1>6 DEF Sleep, InHand
  <2>2. ~TakeTask
    BY <1>6 DEF Sleep, TakeTask
  <2> QED
    BY <1>3, <1>4, <1>6, <2>1, <2>2 DEF FutureInv, Sleep
<1>7. CASE Wake
  <2>1. \A k \in Call : ~InHand(k)
    BY <1>7 DEF Wake, InHand
  <2>2. ~TakeTask
    BY <1>7 DEF Wake, TakeTask
  <2>3. /\ \A k \in Call : future'[k] = "waiting" => future[k] = "waiting"
        /\ \A k \in Call : future'[k] = "stored" => worker' # "exited"
    BY <1>1, <1>7 DEF Wake
  <2> QED
    BY <1>3, <1>4, <2>1, <2>2, <2>3 DEF FutureInv
<1>8. CASE MakeRequest \/ Publish \/ RequestSucceeds \/ ListenerThrows
  <2>1. /\ UNCHANGED <<future, current>>
        /\ worker' \in {"task", "wait"}
    BY <1>8 DEF MakeRequest, Publish, RequestSucceeds, ListenerThrows
  <2>2. \A k \in Call : InHand(k) => InHand(k)'
    BY <2>1 DEF InHand
  <2>3. CASE ~TakeTask
    BY <1>3, <1>4, <2>1, <2>2, <2>3 DEF FutureInv
  <2> QED
    BY <1>5, <2>3
<1>9. CASE EndTask \/ RequestFails
  <2>1. worker' = "drain" /\ worker \in {"task", "wait"} /\ ~TakeTask
    BY <1>9 DEF EndTask, RequestFails, TakeTask
  <2>2. Store \/ (future' = future /\ current.kind = "reconnected")
    BY <1>9 DEF EndTask, RequestFails
  <2>3. \A k \in Call : future'[k] = "waiting" => future[k] = "waiting" /\ ~InHand(k)
    BY <1>1, <2>2 DEF Store, InHand
  <2> QED
    BY <1>3, <1>4, <2>1, <2>3 DEF FutureInv
<1> QED
  BY <1>5, <1>6, <1>7, <1>8, <1>9 DEF WorkerStep

(* The callbacks touch no future.                                           *)
LEMMA FutureLink ==
  ASSUME RtmBase, FutureInv, RtmNext, LinkStep
  PROVE  FutureInv'
<1>1. UNCHANGED <<future, owner, worker, current>>
  BY DEF LinkStep, Established, AttemptFails, Closed, Delivered, Notified, workerVars, appVars
<1>2. \A k \in Call : Queued(k) => Queued(k)'
  <2>1. ~TakeTask
    BY <1>1 DEF TakeTask
  <2>2. ~EndDestructor
    BY <1>1 DEF EndDestructor
  <2>3. QueueTypeOK
    BY DEF RtmBase, RtmTypeOK
  <2> QED
    BY <2>1, <2>2, <2>3, WhoGrows, GrowsQueued
<1>3. \A k \in Call : InHand(k) => InHand(k)'
  BY <1>1 DEF InHand
<1> QED
  BY <1>1, <1>2, <1>3 DEF FutureInv, NoFutureLeft

(* When the RTM is destroyed every future a call returned is ready, for any *)
(* number of calls and whatever the connection did.                         *)
THEOREM NoFutureLeftHolds == RtmSpec => []NoFutureLeft
<1>1. RtmInit => FutureInv
  BY DEF RtmInit, FutureInv, NoFutureLeft
<1>2. RtmBase /\ FutureInv /\ [RtmNext]_rtmVars => FutureInv'
  <2> SUFFICES ASSUME RtmBase, FutureInv, [RtmNext]_rtmVars PROVE FutureInv'
    OBVIOUS
  <2>1. CASE UNCHANGED rtmVars
    <3>1. UNCHANGED <<future, owner, worker, current, tasks>>
      BY <2>1 DEF rtmVars, workerVars, appVars
    <3> QED
      BY <3>1 DEF FutureInv, NoFutureLeft, Queued, InHand
  <2> QED
    BY <2>1, FutureApp, FutureWorker, FutureLink DEF RtmNext
<1>3. FutureInv => NoFutureLeft
  BY DEF FutureInv
<1> QED
  BY <1>1, <1>2, <1>3, BaseInit, BaseStep, PTL DEF RtmSpec

-----------------------------------------------------------------------------
(* Every promise is in one place.  Only a call queues a closure with a      *)
(* promise, and only that of a call not made before; only the worker takes  *)
(* one out, and ends it by giving it its result.                            *)

(* A task at the end of the queue; its place was nobody's.                  *)
LEMMA PlacePushed ==
  ASSUME QueueTypeOK, NEW t \in Task, tasks' = Append(tasks, t)
  PROVE  \A k \in Call : Places(k)' = Places(k) \cup
           {j \in {Len(tasks) + 1} : t.kind = "call" /\ t.call = k}
<1>1. tasks \in Seq(Task)
  BY DEF QueueTypeOK
<1>2. /\ DOMAIN tasks' = DOMAIN tasks \cup {Len(tasks) + 1}
      /\ tasks'[Len(tasks) + 1] = t
      /\ \A j \in DOMAIN tasks : j # Len(tasks) + 1 /\ tasks'[j] = tasks[j]
  BY <1>1
<1> QED
  BY <1>2 DEF Places

(* The front of the queue is taken, and the places behind it move up.       *)
LEMMA PlacePopped ==
  ASSUME QueueTypeOK, tasks # <<>>, tasks' = Tail(tasks), NEW k \in Call
  PROVE  /\ 1 \in Places(k) <=> Head(tasks).kind = "call" /\ Head(tasks).call = k
         /\ \A j \in Places(k)' : j \in Nat /\ j # 0 /\ j + 1 \in Places(k)
         /\ \A j \in Places(k) : j \in Nat /\ (j # 1 => j - 1 \in Places(k)')
<1>1. tasks \in Seq(Task)
  BY DEF QueueTypeOK
<1>2. /\ 1 \in DOMAIN tasks /\ Head(tasks) = tasks[1]
      /\ \A j \in DOMAIN tasks' :
           j \in Nat /\ j # 0 /\ j + 1 \in DOMAIN tasks /\ tasks'[j] = tasks[j + 1]
      /\ \A j \in DOMAIN tasks :
           j \in Nat /\ (j # 1 => j - 1 \in DOMAIN tasks' /\ tasks'[j - 1] = tasks[j])
  BY <1>1
<1> QED
  BY <1>2 DEF Places

(* Nothing but a call, the worker and the destructor moves a promise.       *)
LEMMA PlacesStay ==
  ASSUME RtmBase, RtmNext, ~TakeTask, ~EndDestructor,
         \A k \in Call, op \in Op, ch \in Channel \cup {NoChannel} : ~CallRequest(k, op, ch)
  PROVE  \A k \in Call : Places(k)' = Places(k)
<1> USE RtmAssumption
<1>1. ASSUME NEW t \in Task, t.kind # "call", InvokeTask(t)
      PROVE  \A k \in Call : Places(k)' = Places(k)
  BY <1>1, PlacePushed DEF InvokeTask, RtmBase, RtmTypeOK
<1>2. ASSUME UNCHANGED tasks PROVE \A k \in Call : Places(k)' = Places(k)
  BY <1>2 DEF Places
<1>3. ASSUME NEW e \in Event, Callback(e) PROVE \A k \in Call : Places(k)' = Places(k)
  BY <1>1, <1>2, <1>3, EventTask DEF Callback, Event
<1>4. CASE AppStep
  <2>1. CASE ConnectBegins \/ ConnectReturns \/ BeginDestructor
    BY <2>1, <1>2 DEF ConnectBegins, ConnectReturns, BeginDestructor
  <2>2. ASSUME NEW k \in Call, CallPublish(k) PROVE \A q \in Call : Places(q)' = Places(q)
    <3>1. [kind |-> "publish", do |-> Do("publish", Lobby)] \in Task
      BY CallTask DEF Op
    <3> QED
      BY <2>2, <3>1, <1>1 DEF CallPublish
  <2> QED
    BY <1>4, <2>1, <2>2 DEF AppStep, Op
<1>5. CASE WorkerStep
  <2>1. CASE Publish /\ current.kind = "message"
    <3>1. [kind |-> "publish", do |-> Next1] \in Task
      BY <2>1, NextOfScript DEF Publish, Task, RtmBase
    <3> QED
      BY <2>1, <3>1, <1>1 DEF Publish
  <2> QED
    BY <1>2, <1>5, <2>1 DEF WorkerStep, Sleep, Wake, EndTask, RequestSucceeds, RequestFails,
                            ListenerThrows, MakeRequest, Publish
<1>6. CASE LinkStep
  BY <1>2, <1>3, <1>6 DEF LinkStep, Established, AttemptFails, Closed, Delivered, Notified, Event
<1> QED
  BY <1>4, <1>5, <1>6 DEF RtmNext

(* PromiseInOnePlace is inductive, relative to RtmBase.                     *)
LEMMA PromiseStep ==
  ASSUME RtmBase, PromiseInOnePlace, RtmNext
  PROVE  PromiseInOnePlace'
<1> USE DEF workerVars, appVars
<1>1. QueueTypeOK /\ future \in [Call -> {"none", "waiting", "stored", "ready"}]
  BY DEF RtmBase, RtmTypeOK, StateTypeOK
<1>2. ASSUME NEW k \in Call, NEW op \in Op, NEW ch \in Channel \cup {NoChannel},
             CallRequest(k, op, ch)
      PROVE  PromiseInOnePlace'
  <2> DEFINE t == [kind |-> "call", call |-> k, do |-> Do(op, ch)]
  <2>1. t \in Task /\ t.kind = "call" /\ t.call = k
    BY CallTask
  <2>2. /\ future[k] = "none" /\ future' = [future EXCEPT ![k] = "waiting"]
        /\ tasks' = Append(tasks, t) /\ UNCHANGED <<worker, current>>
    BY <1>2 DEF CallRequest, InvokeTask
  <2> HIDE DEF t
  <2>3. \A q \in Call : Places(q)' = Places(q) \cup {j \in {Len(tasks) + 1} : q = k}
    BY <1>1, <2>1, <2>2, PlacePushed
  <2>4. ~InHand(k) /\ Places(k) = {}
    BY <2>2 DEF PromiseInOnePlace
  <2>5. \A q \in Call : InHand(q)' <=> InHand(q)
    BY <2>2 DEF InHand
  <2>6. Places(k)' = {Len(tasks) + 1}
    BY <2>3, <2>4
  <2>7. \A q \in Call : q # k => Places(q)' = Places(q) /\ future'[q] = future[q]
    BY <1>1, <2>2, <2>3
  <2>8. future'[k] = "waiting"
    BY <1>1, <2>2
  <2> QED
    BY <2>4, <2>5, <2>6, <2>7, <2>8 DEF PromiseInOnePlace
<1>3. CASE TakeTask
  <2>1. /\ tasks # <<>> /\ tasks' = Tail(tasks) /\ worker = "drain" /\ worker' = "task"
        /\ current' = Head(tasks) /\ UNCHANGED future
    BY <1>3 DEF TakeTask
  <2>2. ASSUME NEW k \in Call
        PROVE  /\ \A i, j \in Places(k)' : i = j
               /\ InHand(k)' => Places(k)' = {}
               /\ future'[k] = "waiting" <=> InHand(k)' \/ Places(k)' # {}
    <3>1. ~InHand(k) /\ (InHand(k)' <=> 1 \in Places(k))
      BY <1>1, <2>1, PlacePopped DEF InHand
    <3>2. \A i, j \in Places(k) : i = j
      BY DEF PromiseInOnePlace
    <3>3. \A j \in Places(k)' : j \in Nat /\ j # 0 /\ j + 1 \in Places(k)
      BY <1>1, <2>1, PlacePopped
    <3>4. \A j \in Places(k) : j = 1 \/ j - 1 \in Places(k)'
      BY <1>1, <2>1, PlacePopped
    <3>5. \A i, j \in Places(k)' : i = j
      <4> SUFFICES ASSUME NEW i \in Places(k)', NEW j \in Places(k)' PROVE i = j
        OBVIOUS
      <4>1. i + 1 = j + 1
        BY <3>2, <3>3
      <4> QED
        BY <3>3, <4>1
    <3>6. 1 \in Places(k) => Places(k)' = {}
      <4> SUFFICES ASSUME 1 \in Places(k), NEW j \in Places(k)' PROVE FALSE
        OBVIOUS
      <4>1. j + 1 = 1
        BY <3>2, <3>3
      <4> QED
        BY <3>3, <4>1
    <3>7. Places(k) # {} <=> 1 \in Places(k) \/ Places(k)' # {}
      BY <3>3, <3>4
    <3> QED
      BY <2>1, <3>1, <3>5, <3>6, <3>7 DEF PromiseInOnePlace
  <2> QED
    BY <2>2 DEF PromiseInOnePlace
<1>4. CASE EndDestructor
  <2>1. worker = "exited" /\ worker' = "exited" /\ tasks' = <<>>
    BY <1>4 DEF EndDestructor
  <2>2. \A k \in Call : Places(k)' = {} /\ ~InHand(k) /\ ~InHand(k)'
    BY <2>1 DEF Places, InHand
  <2>3. \A k \in Call : future'[k] = IF Places(k) # {} THEN "ready" ELSE future[k]
    BY <1>4 DEF EndDestructor, Places
  <2> QED
    BY <2>2, <2>3 DEF PromiseInOnePlace
<1>5. ASSUME \A k \in Call : Places(k)' = Places(k),
             \A k \in Call : InHand(k)' <=> InHand(k),
             \A k \in Call : future'[k] = "waiting" <=> future[k] = "waiting"
      PROVE  PromiseInOnePlace'
  BY <1>5 DEF PromiseInOnePlace
<1>6. CASE ~TakeTask /\ ~EndDestructor /\
           \A k \in Call, op \in Op, ch \in Channel \cup {NoChannel} : ~CallRequest(k, op, ch)
  <2>1. \A k \in Call : Places(k)' = Places(k)
    BY <1>6, PlacesStay
  <2>2. CASE AppStep
    <3>1. UNCHANGED <<worker, current>>
      BY <1>6, <2>2 DEF AppStep, ConnectBegins, ConnectReturns, BeginDestructor, CallRequest,
                        CallPublish
    <3>2. \A k \in Call : future'[k] = "waiting" <=> future[k] = "waiting"
      BY <1>1, <1>6, <2>2 DEF AppStep, ConnectBegins, ConnectReturns, BeginDestructor,
                              CallPublish, Op
    <3> QED
      BY <1>5, <2>1, <3>1, <3>2 DEF InHand
  <2>3. CASE EndTask \/ RequestFails
    <3>1. worker' = "drain" /\ worker \in {"task", "wait"} /\ UNCHANGED current
      BY <2>3 DEF EndTask, RequestFails
    <3>2. Store \/ (future' = future /\ current.kind = "reconnected")
      BY <2>3 DEF EndTask, RequestFails
    <3>3. \A k \in Call : future'[k] = "waiting" <=> future[k] = "waiting" /\ ~InHand(k)
      BY <1>1, <3>1, <3>2 DEF Store, InHand
    <3>4. \A k \in Call : ~InHand(k)'
      BY <3>1 DEF InHand
    <3> QED
      BY <2>1, <3>3, <3>4 DEF PromiseInOnePlace
  <2>4. CASE Sleep \/ Wake
    <3>1. worker \notin {"task", "wait"} /\ worker' \notin {"task", "wait"}
      BY <2>4 DEF Sleep, Wake
    <3>2. \A k \in Call : future'[k] = "waiting" <=> future[k] = "waiting"
      BY <1>1, <2>4 DEF Sleep, Wake
    <3> QED
      BY <1>5, <2>1, <3>1, <3>2 DEF InHand
  <2>5. CASE MakeRequest \/ Publish \/ RequestSucceeds \/ ListenerThrows
    <3>1. /\ UNCHANGED <<future, current>>
          /\ worker \in {"task", "wait"} /\ worker' \in {"task", "wait"}
      BY <2>5 DEF MakeRequest, Publish, RequestSucceeds, ListenerThrows
    <3> QED
      BY <1>5, <2>1, <3>1 DEF InHand
  <2>6. CASE LinkStep
    <3>1. UNCHANGED <<future, worker, current>>
      BY <2>6 DEF LinkStep, Established, AttemptFails, Closed, Delivered, Notified
    <3> QED
      BY <1>5, <2>1, <3>1 DEF InHand
  <2> QED
    BY <1>6, <2>2, <2>3, <2>4, <2>5, <2>6 DEF RtmNext, WorkerStep
<1> QED
  BY <1>2, <1>3, <1>4, <1>6

(* A future that waits has its promise in one closure, queued or running,   *)
(* for any number of calls: no promise is set twice and none is lost        *)
(* (login and the three calls like it, WorkerFunction, ~RTM).               *)
THEOREM PromiseInOnePlaceHolds == RtmSpec => []PromiseInOnePlace
<1>1. RtmInit => PromiseInOnePlace
  <2> SUFFICES ASSUME RtmInit PROVE PromiseInOnePlace
    OBVIOUS
  <2>1. \A k \in Call : Places(k) = {} /\ ~InHand(k) /\ future[k] = "none"
    <3>1. tasks = <<>> /\ worker = "sleep" /\ \A k \in Call : future[k] = "none"
      BY DEF RtmInit
    <3>2. ASSUME NEW k \in Call PROVE Places(k) = {}
      <4>1. DOMAIN tasks = {}
        BY <3>1
      <4>2. \A j : j \notin Places(k)
        BY <4>1 DEF Places
      <4> QED
        BY <4>2
    <3>3. \A k \in Call : ~InHand(k)
      BY <3>1 DEF InHand
    <3> QED
      BY <3>1, <3>2, <3>3
  <2> QED
    BY <2>1 DEF PromiseInOnePlace
<1>2. RtmBase /\ PromiseInOnePlace /\ [RtmNext]_rtmVars => PromiseInOnePlace'
  <2> SUFFICES ASSUME RtmBase, PromiseInOnePlace, [RtmNext]_rtmVars PROVE PromiseInOnePlace'
    OBVIOUS
  <2>1. CASE UNCHANGED rtmVars
    BY <2>1 DEF rtmVars, workerVars, appVars, PromiseInOnePlace, Places, InHand
  <2> QED
    BY <2>1, PromiseStep
<1> QED
  BY <1>1, <1>2, BaseInit, BaseStep, PTL DEF RtmSpec

-----------------------------------------------------------------------------
(* A reconnection is restored.  Over a connection whose reconnection was    *)
(* reported, either the task that restores is still queued, or it is in the *)
(* hands of the worker and has done as much as its step says, or it is      *)
(* done; what is done stays done, because only a subscription that the      *)
(* server accepts over this very connection changes the channel.            *)
Restoring == worker \in {"task", "wait"} /\ current.kind = "reconnected"

Reported == fault = "none" /\ link = "up" /\ failures > 0 /\ told

AcceptedDone ==
  awaiting = "accepted" /\ Next1.op \in {"login", "subscribe"} => Next1 \in did

LoginDone == (Restoring => step > 1) => Login \in did

SubscribeDone == (Restoring => step > 2) => Do("subscribe", channelName) \in did

Done == AcceptedDone /\ LoginDone /\ SubscribeDone

RestoreInv == Reported /\ ~ToRestore => Done

(* Most steps change nothing of this: the queue may grow.                   *)
LEMMA RestoreKept ==
  ASSUME QueueTypeOK, RestoreInv, Grows, Reported' => Reported,
         UNCHANGED <<awaiting, current, step, channelName, did>>,
         Restoring' <=> Restoring
  PROVE  RestoreInv'
<1>1. ToRestore => ToRestore'
  BY GrowsQueued
<1>2. Script(current)' = Script(current) /\ Next1' = Next1
  BY ScriptKept
<1>3. Login' = Login /\ Do("subscribe", channelName)' = Do("subscribe", channelName)
  BY DEF Login, Do
<1>4. Done => Done'
  BY <1>2, <1>3 DEF Done, AcceptedDone, LoginDone, SubscribeDone
<1> QED
  BY <1>1, <1>4 DEF RestoreInv

(* The application has no hand in it.                                       *)
LEMMA RestoreApp ==
  ASSUME RtmBase, RestoreInv, RtmNext, AppStep
  PROVE  RestoreInv'
<1> USE DEF workerVars, linkVars
<1>1. CASE ConnectBegins \/ EndDestructor
  <2>1. link' # "up"
    BY <1>1 DEF ConnectBegins, EndDestructor
  <2> QED
    BY <2>1 DEF RestoreInv, Reported
<1>2. CASE ~ConnectBegins /\ ~EndDestructor
  <2>1. UNCHANGED <<worker, awaiting, current, step, channelName>>
    BY <1>2 DEF AppStep, ConnectReturns, BeginDestructor, CallRequest, CallPublish
  <2>2. UNCHANGED <<link, failures, told, did, fault>>
    BY <1>2 DEF AppStep, ConnectReturns, BeginDestructor, CallRequest, CallPublish
  <2>3. ~TakeTask
    BY <2>1 DEF TakeTask
  <2>4. Grows /\ QueueTypeOK
    BY <1>2, <2>3, WhoGrows DEF RtmBase, RtmTypeOK
  <2>5. Reported' => Reported
    BY <2>2 DEF Reported
  <2>6. Restoring' <=> Restoring
    BY <2>1 DEF Restoring
  <2> QED
    BY <2>1, <2>2, <2>4, <2>5, <2>6, RestoreKept
<1> QED
  BY <1>1, <1>2

(* The worker takes the task, makes its two requests and ends it.           *)
LEMMA RestoreWorker ==
  ASSUME RtmBase, RestoreInv, RtmNext, WorkerStep
  PROVE  RestoreInv'
<1> USE DEF workerVars, linkVars
<1>1. /\ QueueTypeOK /\ current \in Task /\ step \in 1 .. 3
      /\ channelName \in Channel \cup {NoChannel}
  BY DEF RtmBase, RtmTypeOK, StateTypeOK
<1>2. UNCHANGED <<link, failures, told, did>>
  BY DEF WorkerStep, TakeTask, Sleep, Wake, EndTask, RequestSucceeds, RequestFails,
         ListenerThrows, MakeRequest, Publish
<1>3. Reported' => Reported /\ fault' = "none"
  BY <1>2 DEF Reported, RtmNext
<1>4. ~TakeTask => Grows /\ (ToRestore => ToRestore')
  <2>1. owner' = owner
    BY DEF WorkerStep, TakeTask, Sleep, Wake, EndTask, RequestSucceeds, RequestFails,
           ListenerThrows, MakeRequest, Publish, appVars
  <2>2. ~EndDestructor
    BY <2>1 DEF EndDestructor
  <2> QED
    BY <1>1, <2>2, WhoGrows, GrowsQueued
<1>5. worker # "wait" => awaiting = "none"
  BY DEF RtmBase, WaitInv
<1>6. ASSUME Reported', ~ToRestore', ~TakeTask PROVE Done
  BY <1>3, <1>4, <1>6 DEF RestoreInv
<1>7. current.kind = "reconnected" =>
        /\ Len(Script(current)) = 2
        /\ Script(current)[1] = Login
        /\ Script(current)[2] = Do("subscribe", channelName)
  BY <1>1, ScriptOf
<1>8. CASE TakeTask
  <2>1. /\ worker = "drain" /\ worker' = "task" /\ current' = Head(tasks) /\ step' = 1
        /\ awaiting' = "none" /\ channelName' = channelName
        /\ tasks # <<>> /\ tasks' = Tail(tasks)
    BY <1>5, <1>8 DEF TakeTask
  <2>2. ToRestore => ToRestore' \/ Head(tasks).kind = "reconnected"
    BY <1>1, <2>1, TailQueued
  <2>3. ~Restoring
    BY <2>1 DEF Restoring
  <2>4. ASSUME Head(tasks).kind = "reconnected" PROVE Done'
    <3>1. Restoring' /\ ~(step' > 1) /\ ~(step' > 2) /\ awaiting' # "accepted"
      BY <2>1, <2>4 DEF Restoring
    <3> QED
      BY <3>1 DEF Done, AcceptedDone, LoginDone, SubscribeDone
  <2>5. ASSUME Done PROVE Done'
    <3>1. Login \in did /\ Do("subscribe", channelName) \in did
      BY <2>3, <2>5 DEF Done, LoginDone, SubscribeDone
    <3>2. Login' \in did' /\ Do("subscribe", channelName)' \in did' /\ awaiting' # "accepted"
      BY <1>2, <2>1, <3>1 DEF Login, Do
    <3> QED
      BY <3>2 DEF Done, AcceptedDone, LoginDone, SubscribeDone
  <2> QED
    BY <1>3, <2>2, <2>4, <2>5 DEF RestoreInv
<1>9. CASE Sleep \/ Wake
  <2>1. /\ UNCHANGED <<awaiting, current, step, channelName>>
        /\ worker \notin {"task", "wait"} /\ worker' \notin {"task", "wait"}
    BY <1>9 DEF Sleep, Wake
  <2>2. ~TakeTask
    BY <2>1 DEF TakeTask
  <2>3. Restoring' <=> Restoring
    BY <2>1 DEF Restoring
  <2> QED
    BY <1>1, <1>2, <1>3, <1>4, <2>1, <2>2, <2>3, RestoreKept
<1>10. CASE MakeRequest
  <2>1. /\ UNCHANGED <<current, step, channelName>> /\ awaiting' = "queued"
        /\ worker = "task" /\ worker' = "wait"
    BY <1>10 DEF MakeRequest
  <2>2. ~TakeTask
    BY <2>1 DEF TakeTask
  <2>3. Restoring' <=> Restoring
    BY <2>1 DEF Restoring
  <2>4. Login' = Login /\ Do("subscribe", channelName)' = Do("subscribe", channelName)
    BY <2>1 DEF Login, Do
  <2>5. Done => Done'
    BY <1>2, <2>1, <2>3, <2>4 DEF Done, AcceptedDone, LoginDone, SubscribeDone
  <2> QED
    BY <1>6, <2>2, <2>5 DEF RestoreInv
<1>11. CASE Publish
  <2>1. /\ UNCHANGED <<current, channelName>> /\ worker = "task" /\ worker' = "task"
        /\ UNCHANGED awaiting /\ awaiting = "none"
        /\ step <= Len(Script(current)) /\ Next1.op = "publish"
    BY <1>5, <1>11 DEF Publish
  <2>2. current.kind # "reconnected"
    <3>1. Login.op # "publish" /\ Do("subscribe", channelName).op # "publish"
      BY DEF Login, Do
    <3> QED
      BY <1>1, <1>7, <2>1, <3>1 DEF Next1
  <2>3. ~Restoring /\ ~Restoring' /\ ~TakeTask
    BY <2>1, <2>2 DEF Restoring, TakeTask
  <2>4. Login' = Login /\ Do("subscribe", channelName)' = Do("subscribe", channelName)
    BY <2>1 DEF Login, Do
  <2>5. Done => Done'
    BY <1>2, <2>1, <2>3, <2>4 DEF Done, AcceptedDone, LoginDone, SubscribeDone
  <2> QED
    BY <1>6, <2>3, <2>5 DEF RestoreInv
<1>12. CASE EndTask
  <2>1. /\ UNCHANGED <<current, step, channelName, awaiting>> /\ worker = "task"
        /\ worker' = "drain" /\ awaiting = "none"
        /\ step > Len(Script(current)) \/ current.kind = "message"
    BY <1>5, <1>12 DEF EndTask
  <2>2. ASSUME Restoring PROVE step > 1 /\ step > 2
    <3>1. step \in 1 .. 3 /\ Len(Script(current)) = 2 /\ step > Len(Script(current))
      BY <1>1, <1>7, <2>1, <2>2 DEF Restoring
    <3> QED
      BY <3>1
  <2>3. Login' = Login /\ Do("subscribe", channelName)' = Do("subscribe", channelName)
    BY <2>1 DEF Login, Do
  <2>4. Done => Done'
    BY <1>2, <2>1, <2>2, <2>3 DEF Done, AcceptedDone, LoginDone, SubscribeDone
  <2>5. ~TakeTask
    BY <2>1 DEF TakeTask
  <2> QED
    BY <1>6, <2>4, <2>5 DEF RestoreInv
<1>13. CASE RequestSucceeds
  <2>1. /\ UNCHANGED current /\ worker = "wait" /\ worker' = "task" /\ awaiting = "accepted"
        /\ awaiting' = "none" /\ step' = step + 1
        /\ channelName' = IF Next1.op = "subscribe" THEN Next1.ch ELSE channelName
    BY <1>13 DEF RequestSucceeds
  <2>2. (Restoring' <=> Restoring) /\ ~TakeTask
    BY <2>1 DEF Restoring, TakeTask
  <2>3. step <= Len(Script(current)) /\ Next1 \in Message
    BY <2>1, NextOfScript DEF RtmBase, WaitInv
  <2>4. Next1.op = "subscribe" => Next1 = Do("subscribe", channelName')
    BY <2>1, <2>3 DEF Do, Message
  <2>5. Login' = Login
    BY DEF Login, Do
  <2>6. Do("subscribe", channelName)' = Do("subscribe", channelName')
    BY DEF Do
  <2>7. ASSUME Done, Restoring PROVE Done'
    <3>1. /\ step = 1 => Next1 = Login
          /\ step = 2 => Next1 = Do("subscribe", channelName)
          /\ step = 1 \/ step = 2
      <4>1. step \in 1 .. 3 /\ Len(Script(current)) = 2 /\ step <= Len(Script(current))
        BY <1>1, <1>7, <2>3, <2>7 DEF Restoring
      <4>2. step = 1 \/ step = 2
        BY <4>1
      <4> QED
        BY <1>7, <2>7, <4>2 DEF Restoring, Next1
    <3>2. Next1.op \in {"login", "subscribe"} /\ Next1 \in did
      BY <2>1, <2>7, <3>1 DEF Done, AcceptedDone, Login, Do
    <3>3. Login \in did
      BY <2>7, <3>1, <3>2 DEF Done, LoginDone
    <3>4. step = 2 => Do("subscribe", channelName') \in did
      BY <2>4, <3>1, <3>2 DEF Do
    <3>5. step' > 2 => step = 2
      BY <2>1, <3>1
    <3> QED
      BY <1>2, <2>1, <2>2, <2>5, <2>6, <2>7, <3>3, <3>4, <3>5
      DEF Done, AcceptedDone, LoginDone, SubscribeDone
  <2>8. ASSUME Done, ~Restoring PROVE Done'
    <3>1. Login \in did /\ Do("subscribe", channelName) \in did
      BY <2>8 DEF Done, LoginDone, SubscribeDone
    <3>2. Do("subscribe", channelName') \in did
      BY <2>1, <2>4, <2>8, <3>1 DEF Done, AcceptedDone
    <3> QED
      BY <1>2, <2>1, <2>5, <2>6, <3>1, <3>2 DEF Done, AcceptedDone, LoginDone, SubscribeDone
  <2> QED
    BY <1>6, <2>2, <2>7, <2>8 DEF RestoreInv
<1>14. CASE RequestFails
  <2>1. /\ UNCHANGED <<current, step, channelName>>
        /\ worker = "wait" /\ worker' = "drain" /\ awaiting' = "none"
        /\ current.kind = "reconnected" => fault' = "terminate"
    BY <1>14 DEF RequestFails
  <2>2. ~TakeTask
    BY <2>1 DEF TakeTask
  <2>3. Login' = Login /\ Do("subscribe", channelName)' = Do("subscribe", channelName)
    BY <2>1 DEF Login, Do
  <2>4. current.kind # "reconnected" /\ Done => Done'
    BY <1>2, <2>1, <2>3 DEF Done, AcceptedDone, LoginDone, SubscribeDone, Restoring
  <2> QED
    BY <1>3, <1>6, <2>1, <2>2, <2>4 DEF RestoreInv
<1>15. CASE ListenerThrows
  BY <1>3, <1>15 DEF ListenerThrows, RestoreInv
<1> QED
  BY <1>8, <1>9, <1>10, <1>11, <1>12, <1>13, <1>14, <1>15 DEF WorkerStep

(* A new connection starts with nothing done, and its report is a task that *)
(* restores; what the server does over it is only added to what it did.     *)
LEMMA RestoreLink ==
  ASSUME RtmBase, OneAtATime, RestoreInv, RtmNext, LinkStep
  PROVE  RestoreInv'
<1> USE DEF workerVars, linkVars, appVars
<1>1. QueueTypeOK /\ outbox \in Seq(Message)
  BY DEF RtmBase, RtmTypeOK, QueueTypeOK
<1>2. UNCHANGED <<worker, owner, current, step, channelName>>
  BY DEF LinkStep, Established, AttemptFails, Closed, Delivered, Notified
<1>3. Grows
  <2>1. ~TakeTask
    BY <1>2 DEF TakeTask
  <2>2. ~EndDestructor
    BY <1>2 DEF EndDestructor
  <2> QED
    BY <2>1, <2>2, WhoGrows
<1>4. Restoring' <=> Restoring
  BY <1>2 DEF Restoring
<1>5. ASSUME link' # "up" PROVE RestoreInv'
  BY <1>5 DEF RestoreInv, Reported
<1>6. CASE Established
  <2>1. failures' = failures
    BY <1>6 DEF Established
  <2>2. CASE failures > 0 /\ hooks = "set"
    <3>1. tasks' = Append(tasks, [kind |-> "reconnected"])
      BY <1>6, <2>2 DEF Established, Callback, InvokeTask
    <3>2. [kind |-> "reconnected"] \in Task /\ [kind |-> "reconnected"].kind = "reconnected"
      BY EventTask DEF Event
    <3>3. ToRestore'
      BY <1>1, <3>1, <3>2, LastQueued
    <3> QED
      BY <3>3 DEF RestoreInv
  <2>3. CASE ~(failures > 0)
    BY <2>1, <2>3 DEF RestoreInv, Reported
  <2>4. CASE hooks # "set"
    <3>1. ~told'
      BY <1>6, <2>4 DEF Established
    <3> QED
      BY <3>1 DEF RestoreInv, Reported
  <2> QED
    BY <2>2, <2>3, <2>4
<1>7. CASE AttemptFails
  <2>1. link' # "up"
    BY <1>7 DEF AttemptFails
  <2> QED
    BY <1>5, <2>1
<1>8. CASE Closed
  <2>1. link' # "up"
    BY <1>8 DEF Closed
  <2> QED
    BY <1>5, <2>1
<1>9. CASE Delivered
  <2>1. /\ UNCHANGED <<link, failures, told, fault, tasks>>
        /\ did \subseteq did'
    BY <1>9 DEF Delivered
  <2>2. Reported' => Reported
    BY <2>1 DEF Reported
  <2>3. ToRestore' <=> ToRestore
    BY <2>1 DEF ToRestore
  <2>4. Next1' = Next1
    BY <1>2, ScriptKept
  <2>5. ASSUME awaiting' = "accepted", awaiting # "accepted",
               Next1.op \in {"login", "subscribe"}
        PROVE  Next1 \in did'
    <3>1. awaiting = "queued" /\ Len(outbox) = 1
      BY <1>9, <2>5 DEF Delivered
    <3>2. Head(outbox) = Next1
      BY <1>1, <3>1 DEF OneAtATime
    <3>3. PICK ok \in BOOLEAN :
            /\ did' = IF ok /\ Head(outbox).op \in {"login", "subscribe"}
                      THEN did \cup {Head(outbox)} ELSE did
            /\ awaiting' = IF awaiting = "queued" /\ Len(outbox) = 1
                           THEN IF ok THEN "accepted" ELSE "refused"
                           ELSE awaiting
      BY <1>9 DEF Delivered
    <3>4. ok
      BY <2>5, <3>1, <3>3
    <3> QED
      BY <2>5, <3>2, <3>3, <3>4
  <2>6. AcceptedDone => AcceptedDone'
    BY <2>1, <2>4, <2>5 DEF AcceptedDone
  <2>7. Login' = Login /\ Do("subscribe", channelName)' = Do("subscribe", channelName)
    BY <1>2 DEF Login, Do
  <2>8. LoginDone /\ SubscribeDone => LoginDone' /\ SubscribeDone'
    BY <1>2, <1>4, <2>1, <2>7 DEF LoginDone, SubscribeDone
  <2> QED
    BY <2>2, <2>3, <2>6, <2>8 DEF RestoreInv, Done
<1>10. CASE Notified
  <2>1. UNCHANGED <<awaiting, link, failures, told, did>>
    BY <1>10 DEF Notified
  <2>2. Reported' => Reported
    BY <2>1 DEF Reported, RtmNext
  <2> QED
    BY <1>1, <1>2, <1>3, <1>4, <2>1, <2>2, RestoreKept
<1> QED
  BY <1>6, <1>7, <1>8, <1>9, <1>10 DEF LinkStep

(* After a reported reconnection, once the worker has nothing to do, the    *)
(* server has logged the user in and subscribed them to the saved channel   *)
(* over this connection, for any number of failures, losses, calls and      *)
(* channels.                                                                *)
THEOREM ReconnectRestoresHolds == RtmSpec => []ReconnectRestores
<1>1. RtmInit => OneAtATime /\ RestoreInv
  BY DEF RtmInit, OneAtATime, RestoreInv, Reported
<1>2. RtmBase /\ OneAtATime /\ RestoreInv /\ [RtmNext]_rtmVars
        => (OneAtATime /\ RestoreInv)'
  <2> SUFFICES ASSUME RtmBase, OneAtATime, RestoreInv, [RtmNext]_rtmVars
               PROVE  OneAtATime' /\ RestoreInv'
    OBVIOUS
  <2>1. CASE UNCHANGED rtmVars
    <3>1. UNCHANGED <<current, step, channelName, awaiting, outbox, did, tasks, worker>>
      BY <2>1 DEF rtmVars, workerVars, linkVars
    <3>2. UNCHANGED <<link, failures, told, fault>>
      BY <2>1 DEF rtmVars, linkVars
    <3>3. Reported' => Reported
      BY <3>2 DEF Reported
    <3>4. (Restoring' <=> Restoring) /\ Grows
      BY <3>1 DEF Restoring, Grows
    <3>5. OneAtATime'
      BY <3>1, ScriptKept DEF OneAtATime
    <3>6. QueueTypeOK
      BY DEF RtmBase, RtmTypeOK
    <3> QED
      BY <3>1, <3>3, <3>4, <3>5, <3>6, RestoreKept
  <2>2. CASE RtmNext
    BY <2>2, OneStep, RestoreApp, RestoreWorker, RestoreLink DEF RtmNext
  <2> QED
    BY <2>1, <2>2
<1>3. RestoreInv => ReconnectRestores
  <2> SUFFICES ASSUME RestoreInv, Restored
               PROVE  {Login, Do("subscribe", channelName)} \subseteq did
    BY DEF ReconnectRestores
  <2>1. ~ToRestore /\ ~Restoring /\ Reported
    BY DEF Restored, ToRestore, Restoring, Reported
  <2> QED
    BY <2>1 DEF RestoreInv, Done, LoginDone, SubscribeDone
<1> QED
  BY <1>1, <1>2, <1>3, BaseInit, BaseStep, PTL DEF RtmSpec

-----------------------------------------------------------------------------
(* The worker is an executor.  A step of Rtm takes the oldest task, ends    *)
(* the one that runs, or submits at most one task and leaves the one that   *)
(* runs alone.                                                              *)
Running == IF worker \in {"task", "wait"} THEN current ELSE NoTask

(* No task is taken for the absence of one.                                 *)
LEMMA NoTaskIsNone == NoTask \notin Task
<1>1. \A t \in Task : t.kind # "none"
  BY DEF Task, Event
<1>2. NoTask.kind = "none"
  BY DEF NoTask
<1> QED
  BY <1>1, <1>2

(* Each step as a step of the executor.                                     *)
LEMMA ExecutorStep ==
  ASSUME RtmBase, RtmNext
  PROVE  \/ EndDestructor
         \/ \E t \in Task : tasks' = Append(tasks, t) /\ UNCHANGED Running
         \/ /\ Running = NoTask /\ tasks # <<>>
            /\ Running' = Head(tasks) /\ tasks' = Tail(tasks)
         \/ Running # NoTask /\ Running' = NoTask /\ UNCHANGED tasks
         \/ UNCHANGED <<tasks, Running>>
<1> USE DEF workerVars, appVars
<1>1. current # NoTask
  BY NoTaskIsNone DEF RtmBase, RtmTypeOK, StateTypeOK
<1>2. ASSUME Grows, UNCHANGED current,
             worker \in {"task", "wait"} <=> worker' \in {"task", "wait"}
      PROVE  \/ \E t \in Task : tasks' = Append(tasks, t) /\ UNCHANGED Running
             \/ UNCHANGED <<tasks, Running>>
  <2>1. UNCHANGED Running
    BY <1>2 DEF Running
  <2> QED
    BY <1>2, <2>1 DEF Grows
<1>3. ~TakeTask /\ ~EndDestructor => Grows
  BY WhoGrows
<1>4. CASE AppStep
  <2>1. UNCHANGED <<worker, current>>
    BY <1>4 DEF AppStep, ConnectBegins, ConnectReturns, BeginDestructor, EndDestructor,
                CallRequest, CallPublish
  <2>2. ~TakeTask
    BY <2>1 DEF TakeTask
  <2> QED
    BY <1>2, <1>3, <2>1, <2>2
<1>5. CASE LinkStep
  <2>1. UNCHANGED <<worker, current>>
    BY <1>5 DEF LinkStep, Established, AttemptFails, Closed, Delivered, Notified
  <2>2. ~TakeTask
    BY <2>1 DEF TakeTask
  <2> QED
    BY <1>2, <1>3, <2>1, <2>2
<1>6. CASE WorkerStep
  <2>1. CASE TakeTask
    BY <2>1 DEF TakeTask, Running
  <2>2. CASE EndTask \/ RequestFails
    BY <1>1, <2>2 DEF EndTask, RequestFails, Running
  <2>3. CASE Sleep \/ Wake
    BY <2>3 DEF Sleep, Wake, Running
  <2>4. CASE MakeRequest \/ RequestSucceeds \/ ListenerThrows
    BY <2>4 DEF MakeRequest, RequestSucceeds, ListenerThrows, Running
  <2>5. CASE Publish
    <3>1. UNCHANGED <<worker, current>>
      BY <2>5 DEF Publish
    <3>2. ~TakeTask
      BY <3>1 DEF TakeTask
    <3> QED
      BY <1>2, <1>3, <3>1, <3>2
  <2> QED
    BY <1>6, <2>1, <2>2, <2>3, <2>4, <2>5 DEF WorkerStep
<1> QED
  BY <1>4, <1>5, <1>6 DEF RtmNext

(* Until the destructor drops the tasks left, the worker of the RTM is the  *)
(* serial executor, for any tasks.                                          *)
THEOREM TasksInTurnHolds == RtmSpec => TasksInTurn
<1>1. RtmInit => InTurn!SEInit
  BY DEF RtmInit, InTurn!SEInit
<1>2. RtmBase /\ [RtmNext]_rtmVars => [InTurn!SENext \/ EndDestructor]_(InTurn!seVars)
  <2> SUFFICES ASSUME RtmBase, [RtmNext]_rtmVars
               PROVE  InTurn!SENext \/ EndDestructor \/ UNCHANGED <<tasks, Running>>
    BY DEF InTurn!seVars, Running
  <2>1. CASE UNCHANGED rtmVars
    BY <2>1 DEF rtmVars, workerVars, Running
  <2>2. CASE RtmNext
    <3> USE DEF InTurn!SENext, InTurn!Submit, InTurn!Begin, InTurn!End, Running
    <3>1. ASSUME NEW t \in Task, tasks' = Append(tasks, t), UNCHANGED Running
          PROVE  InTurn!SENext
      BY <3>1
    <3>2. ASSUME Running = NoTask, tasks # <<>>, Running' = Head(tasks), tasks' = Tail(tasks)
          PROVE  InTurn!SENext
      BY <3>2
    <3>3. ASSUME Running # NoTask, Running' = NoTask, UNCHANGED tasks
          PROVE  InTurn!SENext
      BY <3>3
    <3> QED
      BY <2>2, <3>1, <3>2, <3>3, ExecutorStep
  <2> QED
    BY <2>1, <2>2
<1> QED
  BY <1>1, <1>2, BaseInit, BaseStep, PTL DEF RtmSpec, TasksInTurn
=============================================================================
