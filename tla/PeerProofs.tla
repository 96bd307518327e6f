----------------------------- MODULE PeerProofs -----------------------------
(***************************************************************************)
(* Proofs about Peer, for any number of requests, ids and callers.         *)
(*                                                                         *)
(* TypeOK alone is not inductive: the id of a response, and the id a timer *)
(* is set for, are ids only because a request is given one before it is    *)
(* queued.  BaseInv adds what each place of a caller, each queue and each  *)
(* place of a handler knows.                                               *)
(***************************************************************************)
EXTENDS Peer, WebSocketTransportProofs

(* A caller inside request, and every queue, holds only requests with ids. *)
Made     == {m \in Message : m \in Request => rid[m] # None}
MadeTask == {t \in Task : t.op = "send" => t.arg \in Made}

CallersInv == \A c \in Caller : pc[c] # "idle" => current[c] \in Request /\ rid[current[c]] # None
QueuesInv  == tasks \in Seq(MadeTask) /\ msgQueue \in Seq(Made)
ServerInv  == \A r \in atServer : rid[r] # None

(* A handler in progress is a callback in progress, with an id to handle.  *)
HandlerInv ==
  /\ upcall # "none" => thread = "callback"
  /\ handler # "idle" => upcall = "timeout" \/ (upcall = "onMessage" /\ rx # None)
  /\ timer \/ upcall = "timeout" => task # None

BaseInv == TypeOK /\ CallersInv /\ QueuesInv /\ ServerInv /\ HandlerInv

(* A sequence over a set is one over any larger set.                       *)
LEMMA SeqGrows ==
  ASSUME NEW S, NEW T, S \subseteq T, NEW s \in Seq(S)
  PROVE  s \in Seq(T)
OBVIOUS

(* A step that keeps the ids, and takes from a queue or puts a made message *)
(* or a timer task into one, keeps the queues made.                        *)
LEMMA QueuesKept ==
  ASSUME TypeOK, QueuesInv, UNCHANGED rid,
         \/ UNCHANGED <<tasks, msgQueue>>
         \/ UNCHANGED msgQueue /\ \E t \in MadeTask : tasks' = Append(tasks, t)
         \/ UNCHANGED tasks /\ msgQueue # <<>> /\ msgQueue' = Tail(msgQueue)
         \/ RunTask
  PROVE  QueuesInv'
<1>1. MadeTask' = MadeTask /\ Made' = Made BY DEF MadeTask, Made
<1>2. CASE UNCHANGED <<tasks, msgQueue>> BY <1>1, <1>2 DEF QueuesInv
<1>3. CASE UNCHANGED msgQueue /\ \E t \in MadeTask : tasks' = Append(tasks, t)
  BY <1>1, <1>3 DEF QueuesInv
<1>4. CASE UNCHANGED tasks /\ msgQueue # <<>> /\ msgQueue' = Tail(msgQueue)
  BY <1>1, <1>4 DEF QueuesInv
<1>5. CASE RunTask
  <2>1. tasks' \in Seq(MadeTask) /\ Head(tasks) \in MadeTask
    BY <1>5 DEF RunTask, QueuesInv
  <2>2. CASE Head(tasks).op = "send" /\ RunSend(Head(tasks).arg)
    <3>1. Head(tasks).arg \in Made BY <2>1, <2>2 DEF MadeTask
    <3>2. msgQueue' \in Seq(Made) BY <2>2, <3>1 DEF RunSend, QueuesInv
    <3>3. QED BY <1>1, <2>1, <3>2 DEF QueuesInv
  <2>3. CASE UNCHANGED msgQueue BY <1>1, <2>1, <2>3 DEF QueuesInv
  <2>4. QED BY <1>5, <2>2, <2>3 DEF RunTask, RunSchedule, RunCancel
<1>6. QED BY <1>2, <1>3, <1>4, <1>5

-----------------------------------------------------------------------------
(* Type correctness. *)

(* A step of the Peer that leaves the transport alone, but for a fault of  *)
(* its own, keeps the transport typed.                                     *)
LEMMA FaultTypeOK ==
  ASSUME TransportTypeOK,
         fault' \in {fault, "promise", "tableRace", "nullTransport"},
         UNCHANGED <<thread, upcall, context, closed, owner, connVars, queueVars, timerVars>>
  PROVE  TransportTypeOK'
<1> USE DEF TransportTypeOK, connVars, queueVars, timerVars
<1>1. LifeTypeOK' BY DEF LifeTypeOK
<1>2. ConnTypeOK' /\ QueueTypeOK' /\ TimerTypeOK'
  BY
  DEF ConnTypeOK, QueueTypeOK, TimerTypeOK
<1>3. QED BY <1>1, <1>2

(* No step disturbs the types of the transport.                            *)
LEMMA NextTransportTypeOK ==
  ASSUME BaseInv, Next
  PROVE  TransportTypeOK'
<1> TransportTypeOK BY DEF BaseInv, TypeOK
<1>1. ASSUME NEW c \in Caller, CallerStep(c) PROVE TransportTypeOK'
  <2>1. ASSUME NEW r \in Request, NEW i \in Id, RequestBegins(c, r, i) PROVE TransportTypeOK'
    BY <2>1, FaultTypeOK DEF RequestBegins
  <2>2. CASE RequestSchedules(c)
    <3>1. rid[current[c]] \in Closure
      BY <2>2, PeerAssumption
      DEF RequestSchedules, BaseInv, TypeOK, PeerTypeOK, CallersInv
    <3>2. QED BY <2>2, <3>1, CallTypeOK DEF RequestSchedules
  <2>3. CASE RequestSends(c)
    <3>1. current[c] \in Message
      BY <2>3, PeerAssumption DEF RequestSends, BaseInv, CallersInv
    <3>2. QED BY <2>3, <3>1, CallTypeOK DEF RequestSends
  <2>4. CASE GetReturns(c) BY <2>4, TransportStutterTypeOK DEF GetReturns
  <2>5. ASSUME NEW n \in Notification, Notify(c, n) PROVE TransportTypeOK'
    BY <2>5, PeerAssumption, CallTypeOK DEF Notify
  <2>6. QED BY <1>1, <2>1, <2>2, <2>3, <2>4, <2>5 DEF CallerStep
<1>2. CASE PeerDestructorBegins \/ PeerDestructorEnds
  BY <1>2, EventTypeOK DEF PeerDestructorBegins, PeerDestructorEnds
<1>3. CASE ListenerStep
  <2>1. CASE OnConnection \/ OnOtherMessage \/ NoEntry \/ EntryHidden \/ EraseEntry
    BY <2>1, EventTypeOK
    DEF OnConnection, OnOtherMessage, NoEntry, EntryHidden, LooksUp, EraseEntry
  <2>2. CASE HandleResponse BY <2>2, FaultTypeOK DEF HandleResponse, Satisfy
  <2>3. CASE HandleTimeout BY <2>3, FaultTypeOK DEF HandleTimeout, Satisfy
  <2>4. CASE CancelTimeout BY <2>4, CallTypeOK DEF CancelTimeout
  <2>5. CASE CancelOnNull BY <2>5, FaultTypeOK DEF CancelOnNull
  <2>6. QED BY <1>3, <2>1, <2>2, <2>3, <2>4, <2>5 DEF ListenerStep
<1>4. CASE RequestReachesServer \/ ConnectionEnds
  BY <1>4, EventTypeOK DEF RequestReachesServer, ConnectionEnds
<1>5. CASE ServerStep BY <1>5, EventTypeOK DEF ServerStep, ServerAnswers, ServerSpeaks
<1>6. CASE ServiceStep BY <1>6, ServiceStepTypeOK
<1>7. QED BY <1>1, <1>2, <1>3, <1>4, <1>5, <1>6 DEF Next

(* No step disturbs the types of the Peer.                                 *)
LEMMA NextPeerTypeOK ==
  ASSUME BaseInv, Next
  PROVE  PeerTypeOK'
<1> USE DEF PeerTypeOK, callVars, tableVars, serverVars, peerVars, Outcome
<1> PeerTypeOK BY DEF BaseInv, TypeOK
<1>1. ASSUME NEW c \in Caller, CallerStep(c) PROVE PeerTypeOK'
  <2>1. ASSUME NEW r \in Request, NEW i \in Id, RequestBegins(c, r, i) PROVE PeerTypeOK'
    <3>1. future' \in [Request -> {"none", "pending"} \cup Outcome]
      BY <2>1 DEF RequestBegins, Break
    <3>2. promises' \in [Id -> Request \cup {None}] /\ leaked' \subseteq Request
      BY <2>1 DEF RequestBegins
    <3>3. QED BY <2>1, <3>1, <3>2 DEF RequestBegins
  <2>2. CASE RequestSchedules(c) BY <2>2 DEF RequestSchedules
  <2>3. CASE RequestSends(c) BY <2>3 DEF RequestSends
  <2>4. CASE GetReturns(c) BY <2>4 DEF GetReturns
  <2>5. ASSUME NEW n \in Notification, Notify(c, n) PROVE PeerTypeOK'
    BY <2>5 DEF Notify
  <2>6. QED BY <1>1, <2>1, <2>2, <2>3, <2>4, <2>5 DEF CallerStep
<1>2. CASE PeerDestructorBegins BY <1>2 DEF PeerDestructorBegins
<1>3. CASE PeerDestructorEnds BY <1>3 DEF PeerDestructorEnds, Break
<1>4. CASE OnConnection BY <1>4 DEF OnConnection
<1>5. CASE OnOtherMessage \/ NoEntry BY <1>5 DEF OnOtherMessage, NoEntry
<1>6. CASE HandleResponse
  BY <1>6, PeerAssumption DEF HandleResponse, Satisfy, Response
<1>7. CASE CancelTimeout BY <1>7 DEF CancelTimeout
<1>8. CASE HandleTimeout
  <2>1. task \in Id
    BY <1>8, PeerAssumption
    DEF HandleTimeout, BaseInv, HandlerInv, TypeOK, TransportTypeOK, TimerTypeOK
  <2>2. QED BY <1>8, <2>1 DEF HandleTimeout, Satisfy
<1>9. CASE EraseEntry BY <1>9 DEF EraseEntry, Break
<1>10. CASE RequestReachesServer BY <1>10 DEF RequestReachesServer
<1>11. CASE ConnectionEnds BY <1>11 DEF ConnectionEnds
<1>12. ASSUME NEW r \in Request, NEW ok \in BOOLEAN, ServerAnswers(r, ok) PROVE PeerTypeOK'
  <2>1. rid[r] \in Id
    BY <1>12, PeerAssumption DEF ServerAnswers, BaseInv, ServerInv
  <2>2. rx' \in Response BY <1>12, <2>1 DEF ServerAnswers, Response
  <2>3. answers' \in [Request -> SUBSET BOOLEAN] BY <1>12 DEF ServerAnswers
  <2>4. QED BY <1>12, <2>2, <2>3 DEF ServerAnswers
<1>13. CASE ServerSpeaks BY <1>13 DEF ServerSpeaks
<1>14. CASE UNCHANGED peerVars BY <1>14
<1>15. CASE CancelOnNull BY <1>15 DEF CancelOnNull
<1>16. CASE EntryHidden
  <2>1. promises[HandledId] \in Request
    BY <1>16, PeerAssumption
    DEF EntryHidden, LooksUp, HandledId, Response, BaseInv, HandlerInv, TypeOK,
        TransportTypeOK, TimerTypeOK
  <2>2. QED BY <1>16, <2>1 DEF EntryHidden
<1>17. QED
  BY <1>1, <1>2, <1>3, <1>4, <1>5, <1>6, <1>7, <1>8, <1>9, <1>10, <1>11, <1>12, <1>13, <1>14,
     <1>15, <1>16
  DEF Next, ListenerStep, ServerStep

(* A caller inside request always has a request with an id.                *)
LEMMA NextCallersInv ==
  ASSUME BaseInv, Next
  PROVE  CallersInv'
<1> USE DEF CallersInv, callVars, peerVars
<1> PeerTypeOK /\ CallersInv BY DEF BaseInv, TypeOK
<1>1. CASE UNCHANGED callVars BY <1>1
<1>2. ASSUME NEW c \in Caller, CallerStep(c) PROVE CallersInv'
  <2>1. ASSUME NEW r \in Request, NEW i \in Id, RequestBegins(c, r, i) PROVE CallersInv'
    BY <2>1, PeerAssumption DEF RequestBegins, PeerTypeOK
  <2>2. CASE RequestSchedules(c) BY <2>2 DEF RequestSchedules, PeerTypeOK
  <2>3. CASE RequestSends(c) BY <2>3 DEF RequestSends, PeerTypeOK
  <2>4. CASE GetReturns(c) BY <2>4 DEF GetReturns, PeerTypeOK
  <2>5. ASSUME NEW n \in Notification, Notify(c, n) PROVE CallersInv'
    BY <2>5 DEF Notify
  <2>6. QED BY <1>2, <2>1, <2>2, <2>3, <2>4, <2>5 DEF CallerStep
<1>3. QED
  BY <1>1, <1>2
  DEF Next, PeerDestructorBegins, PeerDestructorEnds, ListenerStep, OnConnection,
      OnOtherMessage, NoEntry, EntryHidden, LooksUp, HandleResponse, HandleTimeout,
      Satisfy, CancelOnNull, CancelTimeout, EraseEntry, RequestReachesServer,
      ConnectionEnds, ServerStep, ServerAnswers, ServerSpeaks

(* What is queued keeps being what request or notify made: every step that *)
(* touches a queue is one that QueuesKept allows.                          *)
LEMMA NextQueuesInv ==
  ASSUME BaseInv, Next
  PROVE  QueuesInv'
<1> USE DEF callVars, peerVars
<1> TypeOK /\ PeerTypeOK /\ QueuesInv BY DEF BaseInv, TypeOK
<1>1. CASE UNCHANGED <<rid, tasks, msgQueue>> BY <1>1, QueuesKept
<1>2. ASSUME NEW t \in MadeTask, InvokeTask(t), UNCHANGED <<rid, msgQueue>>
      PROVE  QueuesInv'
  BY <1>2, QueuesKept DEF InvokeTask
<1>3. ASSUME NEW c \in Caller, CallerStep(c) PROVE QueuesInv'
  <2>1. ASSUME NEW r \in Request, NEW i \in Id, RequestBegins(c, r, i) PROVE QueuesInv'
    <3>1. \A q \in Request : rid[q] # None => rid'[q] # None
      BY <2>1, PeerAssumption DEF RequestBegins, PeerTypeOK
    <3>2. Made \subseteq Made' BY <3>1 DEF Made
    <3>3. MadeTask \subseteq MadeTask' BY <3>2 DEF MadeTask
    <3>4. UNCHANGED <<tasks, msgQueue>> BY <2>1 DEF RequestBegins, queueVars
    <3>5. QED BY <3>2, <3>3, <3>4, SeqGrows DEF QueuesInv
  <2>2. CASE RequestSchedules(c)
    <3>1. rid[current[c]] \in Closure
      BY <2>2, PeerAssumption DEF RequestSchedules, PeerTypeOK, BaseInv, CallersInv
    <3>2. [op |-> "schedule", arg |-> rid[current[c]]] \in MadeTask
      BY <3>1 DEF MadeTask, Task
    <3>3. QED BY <2>2, <3>2, <1>2 DEF RequestSchedules, ScheduleTask
  <2>3. CASE RequestSends(c)
    <3>1. current[c] \in Made
      BY <2>3, PeerAssumption DEF RequestSends, Made, BaseInv, CallersInv
    <3>2. [op |-> "send", arg |-> current[c]] \in MadeTask
      BY <3>1 DEF MadeTask, Task, Made
    <3>3. QED BY <2>3, <3>2, <1>2 DEF RequestSends, Send
  <2>4. CASE GetReturns(c)
    BY <2>4, <1>1 DEF GetReturns, transportVars, queueVars
  <2>5. ASSUME NEW n \in Notification, Notify(c, n) PROVE QueuesInv'
    <3>1. [op |-> "send", arg |-> n] \in MadeTask
      BY PeerAssumption DEF MadeTask, Task, Made
    <3>2. QED BY <2>5, <3>1, <1>2 DEF Notify, Send
  <2>6. QED BY <1>3, <2>1, <2>2, <2>3, <2>4, <2>5 DEF CallerStep
<1>4. CASE PeerDestructorBegins \/ PeerDestructorEnds
  BY <1>4, <1>1
  DEF PeerDestructorBegins, BeginDestructor, PeerDestructorEnds, EndDestructor, queueVars
<1>5. CASE ListenerStep
  <2>1. CASE CancelTimeout
    <3>1. [op |-> "cancel"] \in MadeTask BY DEF MadeTask, Task
    <3>2. QED BY <2>1, <3>1, <1>2 DEF CancelTimeout, CancelScheduledTask
  <2>2. CASE HandleResponse \/ HandleTimeout \/ CancelOnNull
    BY <2>2, <1>1 DEF HandleResponse, HandleTimeout, Satisfy, CancelOnNull, queueVars
  <2>3. CASE OnConnection \/ OnOtherMessage \/ NoEntry \/ EntryHidden \/ EraseEntry
    BY <2>3, <1>1
    DEF OnConnection, OnOtherMessage, NoEntry, EntryHidden, LooksUp, EraseEntry,
        CallbackReturns, queueVars
  <2>4. QED BY <1>5, <2>1, <2>2, <2>3 DEF ListenerStep
<1>6. CASE RequestReachesServer
  <2>1. UNCHANGED <<rid, tasks>> BY <1>6 DEF RequestReachesServer, ClientWriteable
  <2>2. (msgQueue # <<>> /\ msgQueue' = Tail(msgQueue)) \/ UNCHANGED msgQueue
    BY <1>6 DEF RequestReachesServer, ClientWriteable
  <2>3. QED BY <2>1, <2>2, QueuesKept
<1>7. CASE ConnectionEnds
  BY <1>7, <1>1 DEF ConnectionEnds, ConnectionClosed, DestroyContext, queueVars
<1>8. CASE ServerStep
  BY <1>8, <1>1 DEF ServerStep, ServerAnswers, ServerSpeaks, ReceiveFinal, queueVars
<1>9. CASE ServiceStep /\ UNCHANGED peerVars
  <2>1. CASE RunTask BY <1>9, <2>1, QueuesKept
  <2>2. CASE UNCHANGED <<tasks, msgQueue>> BY <1>9, <2>2, <1>1
  <2>3. QED
    BY <1>9, <2>1, <2>2
    DEF ServiceStep, CreateContext, ServiceReturns, ServiceFails, DumpThrows, TasksDone,
        ConnectSulFires, ConnectClient, ConnectionEstablished, ConnectionError,
        PeerInitiatedClose, ReceiveFragment, TimerFires, queueVars
<1>10. QED BY <1>3, <1>4, <1>5, <1>6, <1>7, <1>8, <1>9 DEF Next

(* The server only ever holds requests that have an id.                    *)
LEMMA NextServerInv ==
  ASSUME BaseInv, Next
  PROVE  ServerInv'
<1> USE DEF ServerInv, callVars, serverVars, peerVars
<1> TypeOK /\ PeerTypeOK /\ ServerInv BY DEF BaseInv, TypeOK
<1>1. CASE UNCHANGED <<rid, atServer>> BY <1>1
<1>2. CASE RequestReachesServer
  <2>1. msgQueue # <<>> => Head(msgQueue) \in Made BY DEF BaseInv, QueuesInv
  <2>2. QED BY <1>2, <2>1 DEF RequestReachesServer, Made
<1>3. CASE ConnectionEnds BY <1>3 DEF ConnectionEnds
<1>4. ASSUME NEW c \in Caller, NEW r \in Request, NEW i \in Id, RequestBegins(c, r, i)
      PROVE  ServerInv'
  BY <1>4, PeerAssumption DEF RequestBegins, PeerTypeOK
<1>5. QED
  BY <1>1, <1>2, <1>3, <1>4
  DEF Next, CallerStep, RequestSchedules, RequestSends, GetReturns, Notify,
      PeerDestructorBegins, PeerDestructorEnds, ListenerStep, OnConnection,
      OnOtherMessage, NoEntry, EntryHidden, LooksUp, HandleResponse, HandleTimeout,
      Satisfy, CancelOnNull, CancelTimeout, EraseEntry, ServerStep, ServerAnswers,
      ServerSpeaks

(* A handler never loses the message or the deadline it handles.           *)
LEMMA NextHandlerInv ==
  ASSUME BaseInv, Next
  PROVE  HandlerInv'
<1> USE DEF HandlerInv, callVars, tableVars, serverVars, peerVars
<1> TypeOK /\ PeerTypeOK /\ HandlerInv BY DEF BaseInv, TypeOK
<1>1. ASSUME UNCHANGED <<upcall, thread, handler, rx, timer, task>> PROVE HandlerInv'
  BY <1>1
<1>2. ASSUME NEW c \in Caller, CallerStep(c) PROVE HandlerInv'
  BY <1>1, <1>2
  DEF CallerStep, RequestBegins, RequestSchedules, RequestSends, GetReturns, Notify,
      ScheduleTask, Send, transportVars, lifeVars, timerVars
<1>3. CASE PeerDestructorBegins \/ PeerDestructorEnds
  BY <1>3, <1>1
  DEF PeerDestructorBegins, BeginDestructor, PeerDestructorEnds, EndDestructor, timerVars
<1>4. CASE ListenerStep
  <2>1. CASE CancelTimeout
    BY <2>1, PeerAssumption DEF CancelTimeout, CancelScheduledTask, timerVars
  <2>2. CASE HandleResponse \/ HandleTimeout \/ CancelOnNull
    BY <2>2 DEF HandleResponse, HandleTimeout, Satisfy, CancelOnNull, timerVars
  <2>3. CASE OnConnection \/ OnOtherMessage \/ NoEntry \/ EntryHidden \/ EraseEntry
    BY <2>3
    DEF OnConnection, OnOtherMessage, NoEntry, EntryHidden, LooksUp, EraseEntry,
        CallbackReturns, timerVars
  <2>4. QED BY <1>4, <2>1, <2>2, <2>3 DEF ListenerStep
<1>5. CASE RequestReachesServer
  BY <1>5, <1>1 DEF RequestReachesServer, ClientWriteable, lifeVars, timerVars
<1>6. CASE ConnectionEnds
  BY <1>6 DEF ConnectionEnds, ConnectionClosed, DestroyContext, Upcall, timerVars
<1>7. CASE ServerStep
  BY <1>7 DEF ServerStep, ServerAnswers, ServerSpeaks, ReceiveFinal, Upcall, timerVars
<1>8. CASE ServiceStep /\ UNCHANGED peerVars
  <2>1. CASE RunTask
    <3>1. Head(tasks) \in Task
      BY <2>1 DEF RunTask, TypeOK, TransportTypeOK, QueueTypeOK
    <3>2. Head(tasks).op = "schedule" => Head(tasks).arg # None
      BY <3>1, PeerAssumption DEF Task
    <3>3. timer' => task' # None
      BY <2>1, <3>2 DEF RunTask, RunSend, RunSchedule, RunCancel, timerVars
    <3>4. QED BY <1>8, <2>1, <3>3 DEF RunTask, Draining
  <2>2. CASE TimerFires BY <1>8, <2>2 DEF TimerFires, Upcall
  <2>3. CASE CreateContext \/ ServiceReturns \/ ServiceFails \/ DumpThrows \/ TasksDone
               \/ ConnectSulFires
    BY <1>8, <2>3
    DEF CreateContext, ServiceReturns, ServiceFails, DumpThrows, TasksDone, Draining,
        ConnectSulFires, timerVars
  <2>4. CASE ConnectClient BY <1>8, <2>4 DEF ConnectClient, Upcall, timerVars
  <2>5. CASE ConnectionEstablished \/ ConnectionError
    <3>1. /\ thread = "service" /\ thread' = "callback"
          /\ upcall' \in {"onConnected", "onReConnected", "onFailed"}
          /\ UNCHANGED <<timer, task>>
      BY <2>5 DEF ConnectionEstablished, ConnectionError, Upcall, timerVars
    <3>2. QED BY <1>8, <3>1
  <2>6. CASE PeerInitiatedClose \/ ReceiveFragment
    BY <1>8, <2>6, <1>1 DEF PeerInitiatedClose, ReceiveFragment, lifeVars, timerVars
  <2>7. QED BY <1>8, <2>1, <2>2, <2>3, <2>4, <2>5, <2>6 DEF ServiceStep
<1>9. QED BY <1>2, <1>3, <1>4, <1>5, <1>6, <1>7, <1>8 DEF Next

(* The initial states satisfy the structural invariant.                    *)
LEMMA BaseInit ==
  ASSUME Init
  PROVE  BaseInv
<1>1. TransportTypeOK BY TransportInitTypeOK DEF Init
<1>2. PeerTypeOK BY DEF Init, PeerTypeOK
<1>3. \A S : <<>> \in Seq(S) OBVIOUS
<1>4. CallersInv /\ QueuesInv /\ ServerInv /\ HandlerInv
  BY <1>3 DEF Init, TransportInit, CallersInv, QueuesInv, ServerInv, HandlerInv
<1>5. QED BY <1>1, <1>2, <1>4 DEF BaseInv, TypeOK

(* A stuttering step keeps it.                                             *)
LEMMA BaseStutter ==
  ASSUME BaseInv, UNCHANGED vars
  PROVE  BaseInv'
<1> USE DEF vars, peerVars, callVars, tableVars, serverVars
<1>1. TransportTypeOK' BY TransportStutterTypeOK DEF BaseInv, TypeOK
<1>2. PeerTypeOK' BY DEF BaseInv, TypeOK, PeerTypeOK
<1>3. CallersInv' /\ ServerInv' /\ HandlerInv'
  BY DEF BaseInv, CallersInv, ServerInv, HandlerInv, transportVars, lifeVars, timerVars
<1>4. QueuesInv' BY QueuesKept DEF BaseInv, transportVars, queueVars
<1>5. QED BY <1>1, <1>2, <1>3, <1>4 DEF BaseInv, TypeOK

(* The structural invariant holds of every behaviour.                      *)
LEMMA BaseAlways == Spec => []BaseInv
<1>1. BaseInv /\ [Next]_vars => BaseInv'
  BY NextTransportTypeOK, NextPeerTypeOK, NextCallersInv, NextQueuesInv, NextServerInv,
     NextHandlerInv, BaseStutter
  DEF BaseInv, TypeOK
<1>2. QED BY BaseInit, <1>1, PTL DEF Spec

(* Every variable of the Peer and of its transport keeps to its type.      *)
THEOREM TypeCorrect == Spec => []TypeOK
<1>1. BaseInv => TypeOK BY DEF BaseInv
<1>2. QED BY <1>1, BaseAlways, PTL

-----------------------------------------------------------------------------
(* The table. *)

(* What TableTracksPending needs to be inductive: an entry is of a request *)
(* that was made, a handler in progress has ended a request with the id it *)
(* handles, a request not yet made has no id, and no entry outlives ~Peer. *)
TableInv ==
  /\ TableTracksPending
  /\ \A i \in Id : promises[i] # None => future[promises[i]] # "none"
  /\ handler # "idle" =>
       \E q \in Request : rid[q] = HandledId /\ future[q] \in {"value", "error", "timeout"}
  /\ fault = "none" => \A r \in Request : future[r] = "none" => rid[r] = None
  /\ \A r \in Request : future[r] # "none" => rid[r] # None
  /\ owner = "destroyed" => \A i \in Id : promises[i] = None

(* The service loop on its own does not change the owner or satisfy a      *)
(* promise, and steps outside callbacks only.                              *)
LEMMA ServiceStepFrame ==
  ASSUME ServiceStep
  PROVE  /\ thread # "callback" /\ UNCHANGED owner
         /\ fault' # "promise" \/ UNCHANGED fault
<1> USE DEF lifeVars, connVars
<1>1. CASE RunTask
  BY <1>1 DEF RunTask, Draining, RunSend, RunSchedule, RunCancel
<1>2. CASE CreateContext \/ ServiceReturns \/ ServiceFails \/ DumpThrows \/ TasksDone
             \/ ConnectSulFires
  BY <1>2
  DEF CreateContext, ServiceReturns, ServiceFails, DumpThrows, TasksDone, Draining,
      ConnectSulFires
<1>3. CASE ConnectClient \/ ConnectionEstablished \/ ConnectionError
             \/ PeerInitiatedClose \/ ReceiveFragment \/ TimerFires
  BY <1>3
  DEF ConnectClient, ConnectionEstablished, ConnectionError, PeerInitiatedClose,
      ReceiveFragment, TimerFires
<1>4. QED BY <1>1, <1>2, <1>3 DEF ServiceStep

(* A step that leaves the table, the futures and the running handler alone, *)
(* but for an entry that is hidden, keeps TableInv.                        *)
LEMMA TableFrame ==
  ASSUME TableInv, fault = "none",
         UNCHANGED <<rid, future, promises, handler>>, leaked \subseteq leaked',
         owner' = owner \/ owner' # "destroyed",
         handler = "idle" \/ UNCHANGED <<upcall, rx, task>>
  PROVE  TableInv'
BY DEF TableInv, TableTracksPending, Pending, HandledId

(* A caller keeps TableInv, also when its insertion replaces an entry or   *)
(* races a handler.                                                        *)
LEMMA CallerKeepsTable ==
  ASSUME BaseInv, TableInv, fault = "none", NEW c \in Caller, CallerStep(c)
  PROVE  TableInv'
<1> USE DEF callVars, tableVars, serverVars, peerVars
<1>1. ASSUME NEW r \in Request, NEW i \in Id, RequestBegins(c, r, i) PROVE TableInv'
  <2> PeerTypeOK BY DEF BaseInv, TypeOK
  <2> USE PeerAssumption DEF PeerTypeOK
  <2>1. /\ future[r] = "none" /\ rid[r] = None /\ owner = "alive"
        /\ rid' = [rid EXCEPT ![r] = i]
        /\ UNCHANGED <<handler, owner, upcall, rx, task>>
    BY <1>1 DEF RequestBegins, TableInv, timerVars
  <2>2. HandledId' = HandledId BY <2>1 DEF HandledId
  <2>3. \A j \in Id : promises[j] # r BY <2>1 DEF TableInv
  <2>4. CASE /\ promises' = [promises EXCEPT ![i] = r]
             /\ future' = [Break({promises[i]}) EXCEPT ![r] = "pending"]
             /\ UNCHANGED <<leaked, fault>>
    <3>1. \A q \in Request : q # r => future'[q] =
            IF q = promises[i] /\ future[q] = "pending" THEN "broken" ELSE future[q]
      BY <2>4 DEF Break
    <3>2. future'[r] = "pending" BY <2>4 DEF Break
    <3>3. \A j \in Id : promises'[j] = IF j = i THEN r ELSE promises[j] BY <2>4
    <3>4. \A q \in Request : rid'[q] = IF q = r THEN i ELSE rid[q] BY <2>1
    <3>5. ASSUME NEW q \in Request, Pending(q)' PROVE q \in leaked' \/ promises'[rid'[q]] = q
      <4>1. CASE q = r BY <4>1, <3>4, <3>3
      <4>2. CASE q # r
        <5>1. Pending(q) /\ q # promises[i] BY <4>2, <3>1, <3>5 DEF Pending
        <5>2. CASE q \in leaked BY <5>2, <2>4
        <5>3. CASE promises[rid[q]] = q
          <6>1. rid[q] \in Id BY <5>1 DEF TableInv, Pending
          <6>2. rid[q] # i BY <5>1, <5>3
          <6>3. QED BY <4>2, <5>3, <6>1, <6>2, <3>4, <3>3
        <5>4. QED BY <5>1, <5>2, <5>3 DEF TableInv, TableTracksPending
      <4>3. QED BY <4>1, <4>2
    <3>6. ASSUME NEW j \in Id, promises'[j] # None
          PROVE  /\ rid'[promises'[j]] = j
                 /\ Pending(promises[j])' \/ j = i \/ (handler # "idle" /\ j = HandledId)
      <4>1. CASE j = i BY <4>1, <3>4, <3>3
      <4>2. CASE j # i
        <5>1. /\ promises'[j] = promises[j] /\ promises[j] \in Request /\ promises[j] # r
              /\ rid[promises[j]] = j
              /\ Pending(promises[j]) \/ (handler # "idle" /\ j = HandledId)
          BY <4>2, <3>6, <3>3, <2>3 DEF TableInv, TableTracksPending
        <5>2. CASE Pending(promises[j])
          <6>1. promises[i] # promises[j] BY <4>2, <5>1 DEF TableInv, TableTracksPending
          <6>2. future'[promises[j]] = "pending" BY <3>1, <5>1, <5>2, <6>1 DEF Pending
          <6>3. QED BY <5>1, <6>2, <3>4 DEF TableInv, TableTracksPending, Pending
        <5>3. QED BY <5>1, <5>2, <3>4
      <4>3. QED BY <4>1, <4>2
    <3>7. TableTracksPending'
      BY <2>1, <2>2, <3>2, <3>5, <3>6, <3>3 DEF TableTracksPending, Pending
    <3>8. handler' # "idle" =>
            \E q \in Request : rid'[q] = HandledId' /\ future'[q] \in {"value", "error", "timeout"}
      BY <2>1, <2>2, <3>1 DEF TableInv
    <3>9. \A j \in Id : promises'[j] # None => future'[promises'[j]] # "none"
      BY <2>3, <3>3, <3>1, <3>2 DEF TableInv
    <3>10. \A q \in Request : future'[q] = "none" <=> rid'[q] = None
      BY <2>1, <3>1, <3>2 DEF TableInv
    <3>11. QED BY <2>1, <3>7, <3>8, <3>9, <3>10 DEF TableInv
  <2>5. CASE /\ future' = [future EXCEPT ![r] = "pending"]
             /\ leaked' = leaked \cup {r}
             /\ UNCHANGED <<promises, fault>>
    <3>1. TableTracksPending'
      BY <2>1, <2>2, <2>3, <2>5 DEF TableInv, TableTracksPending, Pending
    <3>2. handler' # "idle" =>
            \E q \in Request : rid'[q] = HandledId' /\ future'[q] \in {"value", "error", "timeout"}
      BY <2>1, <2>2, <2>5 DEF TableInv
    <3>3. QED BY <2>1, <2>3, <2>5, <3>1, <3>2 DEF TableInv
  <2>6. CASE fault' = "tableRace" /\ UNCHANGED <<future, promises, leaked>>
    <3>1. TableTracksPending'
      BY <2>1, <2>2, <2>3, <2>6 DEF TableInv, TableTracksPending, Pending
    <3>2. handler' # "idle" =>
            \E q \in Request : rid'[q] = HandledId' /\ future'[q] \in {"value", "error", "timeout"}
      BY <2>1, <2>2, <2>6 DEF TableInv
    <3>3. QED BY <2>1, <2>6, <3>1, <3>2 DEF TableInv
  <2>7. QED BY <1>1, <2>4, <2>5, <2>6 DEF RequestBegins
<1>2. CASE RequestSchedules(c)
  BY <1>2, TableFrame DEF RequestSchedules, ScheduleTask, timerVars
<1>3. CASE RequestSends(c)
  BY <1>3, TableFrame DEF RequestSends, Send, timerVars
<1>4. CASE GetReturns(c)
  BY <1>4, TableFrame DEF GetReturns, transportVars, lifeVars, timerVars
<1>5. ASSUME NEW n \in Notification, Notify(c, n) PROVE TableInv'
  BY <1>5, TableFrame DEF Notify, Send, timerVars
<1>6. QED BY <1>1, <1>2, <1>3, <1>4, <1>5 DEF CallerStep

(* A promise a handler finds is one that has not been satisfied.           *)
LEMMA FoundIsPending ==
  ASSUME BaseInv, TableInv, handler = "idle", NEW i \in Id, promises[i] # None
  PROVE  promises[i] \in Request /\ Pending(promises[i]) /\ rid[promises[i]] = i
BY DEF BaseInv, TypeOK, PeerTypeOK, TableInv, TableTracksPending

(* Satisfying the promise a handler has found keeps TableInv and does not  *)
(* throw.                                                                  *)
LEMMA SatisfyKeepsTable ==
  ASSUME BaseInv, TableInv, fault = "none", handler = "idle",
         HandledId \in Id, promises[HandledId] # None,
         NEW o \in {"value", "error", "timeout"}, Satisfy(promises[HandledId], o),
         handler' # "idle"
  PROVE  TableInv' /\ fault' = "none"
<1> DEFINE r == promises[HandledId]
<1> USE PeerAssumption DEF serverVars, callVars, timerVars
<1> PeerTypeOK BY DEF BaseInv, TypeOK
<1>1. r \in Request /\ Pending(r) /\ rid[r] = HandledId BY FoundIsPending
<1>2. future' = [future EXCEPT ![r] = o] /\ fault' = fault
  BY <1>1 DEF Satisfy, Pending
<1>3. UNCHANGED <<rid, promises, leaked, owner, upcall, rx, task>> BY DEF Satisfy
<1>4. HandledId' = HandledId BY <1>3 DEF HandledId
<1> HIDE DEF r
<1>5. TableTracksPending'
  BY <1>1, <1>2, <1>3, <1>4 DEF PeerTypeOK, TableInv, TableTracksPending, Pending, r
<1>6. rid'[r] = HandledId' /\ future'[r] \in {"value", "error", "timeout"}
  BY <1>1, <1>2, <1>3, <1>4 DEF PeerTypeOK
<1>7. QED BY <1>1, <1>2, <1>3, <1>5, <1>6 DEF PeerTypeOK, TableInv

(* The callbacks keep TableInv, and no promise is satisfied twice.         *)
LEMMA ListenerKeepsTable ==
  ASSUME BaseInv, TableInv, fault = "none", ListenerStep
  PROVE  TableInv' /\ fault' # "promise"
<1> USE DEF callVars, tableVars, serverVars, peerVars
<1> PeerTypeOK /\ HandlerInv BY DEF BaseInv, TypeOK
<1> USE PeerAssumption DEF PeerTypeOK, HandlerInv
<1>1. CASE OnConnection \/ OnOtherMessage \/ NoEntry \/ EntryHidden
  <2>1. /\ handler = "idle"
        /\ UNCHANGED <<rid, future, promises, handler, owner, fault>>
        /\ leaked \subseteq leaked'
    BY <1>1
    DEF OnConnection, OnOtherMessage, NoEntry, EntryHidden, LooksUp, CallbackReturns
  <2>2. QED BY <2>1, TableFrame
<1>2. CASE HandleResponse
  <2>1. HandledId = rx.id /\ HandledId \in Id /\ rx.ok \in BOOLEAN
    BY <1>2 DEF HandleResponse, HandledId, Response
  <2>2. QED BY <1>2, <2>1, SatisfyKeepsTable DEF HandleResponse
<1>3. CASE HandleTimeout
  <2>1. HandledId = task /\ HandledId \in Id
    BY <1>3 DEF HandleTimeout, HandledId, BaseInv, TypeOK, TransportTypeOK, TimerTypeOK
  <2>2. QED BY <1>3, <2>1, SatisfyKeepsTable DEF HandleTimeout
<1>4. CASE CancelTimeout
  <2>1. UNCHANGED <<rid, future, promises, leaked, owner, upcall, rx, task>>
    BY <1>4 DEF CancelTimeout, CancelScheduledTask, timerVars
  <2>2. handler # "idle" /\ handler' # "idle" BY <1>4 DEF CancelTimeout
  <2>3. TableInv'
    BY <2>1, <2>2 DEF TableInv, TableTracksPending, Pending, HandledId
  <2>4. fault' # "promise" BY <1>4 DEF CancelTimeout, CancelScheduledTask, InvokeTask
  <2>5. QED BY <2>3, <2>4
<1>5. CASE EraseEntry
  <2>1. /\ promises' = [promises EXCEPT ![HandledId] = None]
        /\ handler # "idle" /\ handler' = "idle"
        /\ UNCHANGED <<rid, leaked, owner, fault>>
    BY <1>5 DEF EraseEntry, CallbackReturns
  <2>2. \A q \in Request : future'[q] =
          IF q = promises[HandledId] /\ future[q] = "pending" THEN "broken" ELSE future[q]
    BY <1>5 DEF EraseEntry, Break
  <2>3. \A i \in Id : promises'[i] # None => promises'[i] = promises[i] /\ i # HandledId
    BY <2>1
  <2>4. HandledId \in Id
    BY <2>1 DEF HandledId, Response, BaseInv, TypeOK, TransportTypeOK, TimerTypeOK
  <2>5. \A q \in Request : Pending(q)' => q \in leaked' \/ promises'[rid'[q]] = q
    BY <2>1, <2>2, <2>4 DEF TableInv, TableTracksPending, Pending
  <2>6. \A i \in Id : promises'[i] # None =>
          rid'[promises'[i]] = i /\ Pending(promises[i]) /\ promises[i] # promises[HandledId]
    BY <2>1, <2>3, <2>4 DEF TableInv, TableTracksPending
  <2>7. TableTracksPending'
    BY <2>2, <2>3, <2>5, <2>6 DEF TableTracksPending, Pending
  <2>8. QED BY <2>1, <2>2, <2>3, <2>6, <2>7 DEF TableInv, Pending
<1>6. CASE CancelOnNull BY <1>6, TableFrame DEF CancelOnNull, timerVars
<1>7. QED BY <1>1, <1>2, <1>3, <1>4, <1>5, <1>6 DEF ListenerStep

(* TableInv is inductive, relative to BaseInv.                             *)
LEMMA NextTableInv ==
  ASSUME BaseInv, TableInv, Next
  PROVE  TableInv'
<1> fault = "none" BY DEF Next
<1> USE DEF callVars, tableVars, serverVars, peerVars
<1> HandlerInv BY DEF BaseInv
<1>1. CASE PeerDestructorBegins
  BY <1>1, TableFrame DEF PeerDestructorBegins, BeginDestructor, timerVars
<1>2. CASE PeerDestructorEnds
  <2>1. /\ promises' = [i \in Id |-> None]
        /\ UNCHANGED <<rid, leaked, handler, upcall, rx, task>>
    BY <1>2 DEF PeerDestructorEnds, EndDestructor, timerVars
  <2>2. \A q \in Request : future'[q] =
          IF (\E i \in Id : q = promises[i]) /\ future[q] = "pending" THEN "broken" ELSE future[q]
    BY <1>2 DEF PeerDestructorEnds, Break
  <2>3. \A q \in Request : Pending(q) => rid[q] \in Id
    BY DEF BaseInv, TypeOK, PeerTypeOK, TableInv, Pending
  <2>4. TableTracksPending'
    BY <2>1, <2>2, <2>3 DEF TableInv, TableTracksPending, Pending
  <2>5. handler' # "idle" =>
          \E q \in Request : rid'[q] = HandledId' /\ future'[q] \in {"value", "error", "timeout"}
    BY <2>1, <2>2 DEF TableInv, HandledId
  <2>6. \A q \in Request : future'[q] = "none" <=> future[q] = "none"
    BY <2>2
  <2>7. QED BY <2>1, <2>4, <2>5, <2>6 DEF TableInv
<1>3. CASE RequestReachesServer
  BY <1>3, TableFrame DEF RequestReachesServer, ClientWriteable, lifeVars, timerVars
<1>4. CASE ConnectionEnds
  <2>1. thread # "callback" BY <1>4 DEF ConnectionEnds, ConnectionClosed, DestroyContext
  <2>2. handler = "idle" BY <2>1 DEF HandlerInv
  <2>3. QED BY <1>4, <2>2, TableFrame DEF ConnectionEnds, ConnectionClosed, DestroyContext
<1>5. CASE ServerStep
  <2>1. thread # "callback"
    BY <1>5 DEF ServerStep, ServerAnswers, ServerSpeaks, ReceiveFinal
  <2>2. handler = "idle" BY <2>1 DEF HandlerInv
  <2>3. UNCHANGED <<rid, future, promises, leaked, handler, owner>>
    BY <1>5 DEF ServerStep, ServerAnswers, ServerSpeaks, ReceiveFinal
  <2>4. QED BY <2>2, <2>3, TableFrame
<1>6. CASE ServiceStep /\ UNCHANGED peerVars
  <2>1. thread # "callback" /\ UNCHANGED owner BY <1>6, ServiceStepFrame
  <2>2. handler = "idle" BY <2>1 DEF HandlerInv
  <2>3. QED BY <1>6, <2>1, <2>2, TableFrame
<1>7. QED
  BY <1>1, <1>2, <1>3, <1>4, <1>5, <1>6, CallerKeepsTable, ListenerKeepsTable DEF Next

(* The empty table satisfies TableInv.                                     *)
LEMMA TableInit ==
  ASSUME Init
  PROVE  TableInv
BY DEF Init, TransportInit, TableInv, TableTracksPending, Pending

(* A stuttering step keeps TableInv.                                       *)
LEMMA TableStutter ==
  ASSUME TableInv, UNCHANGED vars
  PROVE  TableInv'
BY
DEF TableInv, TableTracksPending, Pending, HandledId, vars, transportVars, lifeVars,
    timerVars, peerVars, callVars, tableVars, serverVars

(* TableInv holds of every behaviour.                                      *)
LEMMA TableAlways == Spec => []TableInv
<1>1. BaseInv /\ TableInv /\ [Next]_vars => TableInv' BY NextTableInv, TableStutter
<1>2. QED BY TableInit, <1>1, BaseAlways, PTL DEF Spec

(* The table and the futures agree, however callers and handlers interleave. *)
THEOREM TableCorrect == Spec => []TableTracksPending
<1>1. TableInv => TableTracksPending BY DEF TableInv
<1>2. QED BY <1>1, TableAlways, PTL

(* Once the Peer is destroyed nobody waits for a promise still in memory,  *)
(* whatever the handlers did while the destructor joined and m_pTransport  *)
(* was null (~Peer, handleResponse).                                       *)
THEOREM DestructorCorrect == Spec => []DestructorReleases
<1>1. BaseInv /\ TableInv => DestructorReleases
  BY PeerAssumption
  DEF BaseInv, TypeOK, PeerTypeOK, TableInv, TableTracksPending, DestructorReleases,
      Pending
<1>2. QED BY <1>1, BaseAlways, TableAlways, PTL

(* No promise is satisfied twice.                                          *)
THEOREM SatisfiedOnceCorrect == Spec => []SatisfiedOnce
<1>1. Init => SatisfiedOnce BY DEF Init, TransportInit, SatisfiedOnce
<1>2. BaseInv /\ TableInv /\ SatisfiedOnce /\ [Next]_vars => SatisfiedOnce'
  <2> SUFFICES ASSUME BaseInv, TableInv, SatisfiedOnce, [Next]_vars
               PROVE  fault' # "promise"
    BY DEF SatisfiedOnce
  <2>1. CASE ListenerStep BY <2>1, ListenerKeepsTable
    DEF Next, vars, transportVars, lifeVars, SatisfiedOnce
  <2>2. CASE ServiceStep BY <2>2, ServiceStepFrame DEF SatisfiedOnce
  <2>3. ASSUME NEW c \in Caller, CallerStep(c) PROVE fault' # "promise"
    BY <2>3
    DEF CallerStep, RequestBegins, RequestSchedules, ScheduleTask, RequestSends, Send,
        GetReturns, Notify, InvokeTask, SatisfiedOnce, transportVars, lifeVars
  <2>4. CASE PeerDestructorBegins \/ PeerDestructorEnds
    BY <2>4
    DEF PeerDestructorBegins, BeginDestructor, PeerDestructorEnds, EndDestructor,
        SatisfiedOnce
  <2>5. CASE RequestReachesServer \/ ConnectionEnds
    BY <2>5
    DEF RequestReachesServer, ClientWriteable, ConnectionEnds, ConnectionClosed,
        DestroyContext, SatisfiedOnce, lifeVars
  <2>6. CASE ServerStep
    BY <2>6 DEF ServerStep, ServerAnswers, ServerSpeaks, ReceiveFinal, SatisfiedOnce
  <2>7. CASE UNCHANGED vars BY <2>7 DEF vars, transportVars, lifeVars, SatisfiedOnce
  <2>8. QED BY <2>1, <2>2, <2>3, <2>4, <2>5, <2>6, <2>7 DEF Next
<1>3. QED BY <1>1, <1>2, BaseAlways, TableAlways, PTL DEF Spec

-----------------------------------------------------------------------------
(* The answers. *)

(* A response being dispatched was given to some request with its id, and  *)
(* only a request with an id is answered.                                  *)
AnswerInv ==
  /\ rx # None => \E r \in Request : rid[r] = rx.id /\ rx.ok \in answers[r]
  /\ \A r \in Request : answers[r] # {} => rid[r] # None
  /\ OwnAnswer

(* A step that gives no request a value or an error, and leaves ids and    *)
(* answers alone, keeps AnswerInv.                                         *)
LEMMA AnswerFrame ==
  ASSUME BaseInv, AnswerInv, UNCHANGED <<rid, rx, answers>>,
         \A r \in Request : future'[r] \in {"value", "error"} => future'[r] = future[r]
  PROVE  AnswerInv'
BY DEF AnswerInv, OwnAnswer, DistinctIds

(* AnswerInv is inductive, relative to BaseInv and TableInv.               *)
LEMMA NextAnswerInv ==
  ASSUME BaseInv, TableInv, AnswerInv, Next
  PROVE  AnswerInv'
<1> fault = "none" BY DEF Next
<1> PeerTypeOK /\ HandlerInv BY DEF BaseInv, TypeOK
<1> USE PeerAssumption DEF callVars, tableVars, serverVars, peerVars
<1>1. ASSUME NEW c \in Caller, NEW r \in Request, NEW i \in Id, RequestBegins(c, r, i)
      PROVE  AnswerInv'
  <2>1. future[r] = "none" /\ rid[r] = None /\ rid' = [rid EXCEPT ![r] = i]
    BY <1>1 DEF RequestBegins, TableInv
  <2>2. UNCHANGED <<rx, answers>> BY <1>1 DEF RequestBegins
  <2>3. answers[r] = {} BY <2>1 DEF AnswerInv
  <2>4. \A q \in Request : q # r => rid'[q] = rid[q] BY <2>1
  <2>5. rid'[r] = i BY <2>1 DEF PeerTypeOK
  <2>6. \A q \in Request : answers'[q] # {} => rid'[q] # None
    BY <2>2, <2>4, <2>5 DEF AnswerInv
  <2>7. rx' # None => \E q \in Request : rid'[q] = rx'.id /\ rx'.ok \in answers'[q]
    BY <2>2, <2>3, <2>4 DEF AnswerInv
  <2>8. DistinctIds' => DistinctIds BY <2>1, <2>4 DEF DistinctIds
  <2>9. \A q \in Request : future'[q] \in {"value", "error"} => future'[q] = future[q]
    BY <1>1 DEF RequestBegins, Break, PeerTypeOK
  <2>10. QED BY <2>2, <2>6, <2>7, <2>8, <2>9 DEF AnswerInv, OwnAnswer
<1>2. CASE HandleResponse
  <2>1. rx # None /\ rx \in Response /\ handler = "idle" /\ promises[rx.id] # None
    BY <1>2 DEF HandleResponse, PeerTypeOK
  <2>2. rx.id \in Id /\ rx.ok \in BOOLEAN BY <2>1 DEF Response
  <2>3. PICK q \in Request : q = promises[rx.id] /\ rid[q] = rx.id
    BY <2>1, <2>2, FoundIsPending
  <2>4. PICK r \in Request : rid[r] = rx.id /\ rx.ok \in answers[r]
    BY <2>1 DEF AnswerInv
  <2>5. DistinctIds => r = q BY <2>2, <2>3, <2>4 DEF DistinctIds
  <2>6. /\ UNCHANGED <<rid, rx, answers>>
        /\ future' = [future EXCEPT ![q] = IF rx.ok THEN "value" ELSE "error"]
    BY <1>2, <2>3 DEF HandleResponse, Satisfy
  <2>7. DistinctIds' <=> DistinctIds BY <2>6 DEF DistinctIds
  <2>8. ASSUME DistinctIds, NEW p \in Request
        PROVE  /\ future'[p] = "value" => TRUE \in answers[p]
               /\ future'[p] = "error" => FALSE \in answers[p]
    <3>1. CASE p = q BY <2>2, <2>4, <2>5, <2>6, <2>8, <3>1 DEF PeerTypeOK
    <3>2. CASE p # q BY <2>6, <2>8, <3>2 DEF PeerTypeOK, AnswerInv, OwnAnswer
    <3>3. QED BY <3>1, <3>2
  <2>9. OwnAnswer' BY <2>6, <2>7, <2>8 DEF OwnAnswer
  <2>10. QED BY <2>6, <2>9 DEF AnswerInv
<1>3. CASE HandleTimeout
  BY <1>3, AnswerFrame DEF HandleTimeout, Satisfy, PeerTypeOK
<1>4. CASE CancelTimeout \/ CancelOnNull
  BY <1>4, AnswerFrame DEF CancelTimeout, CancelOnNull
<1>5. CASE EraseEntry BY <1>5, AnswerFrame DEF EraseEntry, Break, PeerTypeOK
<1>6. CASE OnConnection \/ OnOtherMessage \/ NoEntry \/ EntryHidden
  BY <1>6, AnswerFrame DEF OnConnection, OnOtherMessage, NoEntry, EntryHidden, LooksUp
<1>7. CASE PeerDestructorBegins BY <1>7, AnswerFrame DEF PeerDestructorBegins
<1>8. CASE PeerDestructorEnds
  BY <1>8, AnswerFrame DEF PeerDestructorEnds, Break, PeerTypeOK
<1>9. CASE RequestReachesServer \/ ConnectionEnds
  BY <1>9, AnswerFrame DEF RequestReachesServer, ConnectionEnds
<1>10. ASSUME NEW r \in Request, NEW ok \in BOOLEAN, ServerAnswers(r, ok) PROVE AnswerInv'
  <2>1. /\ rid[r] # None /\ rx' = [id |-> rid[r], ok |-> ok]
        /\ answers' = [answers EXCEPT ![r] = @ \cup {ok}]
        /\ UNCHANGED <<rid, future>>
    BY <1>10 DEF ServerAnswers, BaseInv, ServerInv
  <2>2. \A q \in Request : answers[q] \subseteq answers'[q] BY <2>1 DEF PeerTypeOK
  <2>3. ok \in answers'[r] BY <2>1 DEF PeerTypeOK
  <2>4. \A q \in Request : answers'[q] # {} => rid'[q] # None
    BY <2>1 DEF AnswerInv, PeerTypeOK
  <2>5. rx' # None => \E q \in Request : rid'[q] = rx'.id /\ rx'.ok \in answers'[q]
    BY <2>1, <2>3
  <2>6. OwnAnswer' BY <2>1, <2>2 DEF AnswerInv, OwnAnswer, DistinctIds
  <2>7. QED BY <2>4, <2>5, <2>6 DEF AnswerInv
<1>11. CASE ServerSpeaks
  BY <1>11 DEF ServerSpeaks, AnswerInv, OwnAnswer, DistinctIds
<1>12. CASE UNCHANGED <<rid, rx, answers, future>> BY <1>12, AnswerFrame
<1>13. QED
  BY <1>1, <1>2, <1>3, <1>4, <1>5, <1>6, <1>7, <1>8, <1>9, <1>10, <1>11, <1>12
  DEF Next, CallerStep, RequestSchedules, RequestSends, GetReturns, Notify,
      ListenerStep, ServerStep

(* AnswerInv holds of every behaviour.                                     *)
LEMMA AnswerAlways == Spec => []AnswerInv
<1>1. Init => AnswerInv BY DEF Init, AnswerInv, OwnAnswer
<1>2. BaseInv /\ AnswerInv /\ UNCHANGED vars => AnswerInv'
  BY AnswerFrame DEF vars, peerVars, callVars, tableVars, serverVars
<1>3. QED BY <1>1, <1>2, NextAnswerInv, BaseAlways, TableAlways, PTL DEF Spec

(* While ids are distinct, what a caller gets was given to its own request. *)
THEOREM OwnAnswerCorrect == Spec => []OwnAnswer
<1>1. AnswerInv => OwnAnswer BY DEF AnswerInv
<1>2. QED BY <1>1, AnswerAlways, PTL

-----------------------------------------------------------------------------
(* m_connected. *)

(* ConnectedFlag speaks of the places where no callback is delivered; in a *)
(* callback, what the listener is about to set agrees with the connection. *)
ConnectedInv ==
  /\ ConnectedFlag
  /\ thread \in {"start", "connect"} => conn = "idle"
  /\ thread = "callback" =>
       CASE upcall \in {"onConnected", "onReConnected"} -> conn = "open"
         [] upcall \in {"onClosed", "onFailed"}         -> conn = "idle"
         [] OTHER -> connected <=> conn \in {"open", "closing"}

(* RetryInv, shown for the transport alone, is also kept by the transport  *)
(* with the Peer as its listener.                                          *)
LEMMA NextRetryInv ==
  ASSUME BaseInv, RetryInv, Next
  PROVE  RetryInv'
<1> USE DEF connVars
<1> TransportTypeOK BY DEF BaseInv, TypeOK
<1>1. ASSUME NEW c \in Caller, CallerStep(c) PROVE RetryInv'
  BY <1>1, RetryFrame
  DEF CallerStep, RequestBegins, RequestSchedules, ScheduleTask, RequestSends, Send,
      GetReturns, Notify, transportVars, lifeVars
<1>2. CASE PeerDestructorBegins \/ PeerDestructorEnds
  BY <1>2, RetryFrame
  DEF PeerDestructorBegins, BeginDestructor, PeerDestructorEnds, EndDestructor
<1>3. CASE HandleResponse \/ HandleTimeout \/ CancelOnNull \/ CancelTimeout
  BY <1>3, RetryFrame
  DEF HandleResponse, HandleTimeout, Satisfy, CancelOnNull, CancelTimeout,
      CancelScheduledTask
<1>4. QED
  BY <1>1, <1>2, <1>3, RetryStep
  DEF Next, ListenerStep, OnConnection, OnOtherMessage, NoEntry, EntryHidden, LooksUp,
      EraseEntry, RequestReachesServer, ConnectionEnds, ServerStep, ServerAnswers,
      ServerSpeaks

(* RetryInv holds of every behaviour of the Peer.                          *)
LEMMA RetryAlways == Spec => []RetryInv
<1>1. Init => RetryInv BY DEF Init, TransportInit, RetryInv, RetryArmed
<1>2. RetryInv /\ UNCHANGED vars => RetryInv'
  BY RetryFrame DEF vars, transportVars, lifeVars, connVars
<1>3. QED BY <1>1, <1>2, NextRetryInv, BaseAlways, PTL DEF Spec

(* A step that leaves the connection, the callback and the flag alone      *)
(* keeps ConnectedInv.                                                     *)
LEMMA ConnectedFrame ==
  ASSUME ConnectedInv, UNCHANGED <<thread, upcall, conn, connected>>
  PROVE  ConnectedInv'
BY DEF ConnectedInv, ConnectedFlag

(* ConnectedInv is inductive, relative to BaseInv and RetryInv.            *)
LEMMA NextConnectedInv ==
  ASSUME BaseInv, RetryInv, ConnectedInv, Next
  PROVE  ConnectedInv'
<1> USE DEF callVars, tableVars, serverVars, peerVars, lifeVars, connVars
<1> HandlerInv /\ connected \in BOOLEAN BY DEF BaseInv, TypeOK, PeerTypeOK
<1>1. ASSUME NEW c \in Caller, CallerStep(c) PROVE ConnectedInv'
  BY <1>1, ConnectedFrame
  DEF CallerStep, RequestBegins, RequestSchedules, ScheduleTask, RequestSends, Send,
      GetReturns, Notify, transportVars
<1>2. CASE PeerDestructorBegins \/ PeerDestructorEnds
  BY <1>2, ConnectedFrame
  DEF PeerDestructorBegins, BeginDestructor, PeerDestructorEnds, EndDestructor
<1>3. CASE OnConnection
  BY <1>3 DEF OnConnection, CallbackReturns, ConnectedInv, ConnectedFlag
<1>4. CASE OnOtherMessage \/ NoEntry \/ EntryHidden \/ EraseEntry
  <2>1. /\ upcall \in {"onMessage", "timeout"} /\ upcall' = "none"
        /\ thread = "callback" /\ thread' \in {"destroy", "service"}
        /\ UNCHANGED <<conn, connected>>
    BY <1>4
    DEF OnOtherMessage, NoEntry, EntryHidden, LooksUp, EraseEntry, CallbackReturns,
        HandlerInv
  <2>2. QED BY <2>1 DEF ConnectedInv, ConnectedFlag
<1>5. CASE HandleResponse \/ HandleTimeout \/ CancelOnNull \/ CancelTimeout
  BY <1>5, ConnectedFrame
  DEF HandleResponse, HandleTimeout, Satisfy, CancelOnNull, CancelTimeout,
      CancelScheduledTask
<1>6. CASE RequestReachesServer
  BY <1>6, ConnectedFrame DEF RequestReachesServer, ClientWriteable
<1>7. CASE ConnectionEnds
  BY <1>7
  DEF ConnectionEnds, ConnectionClosed, DropConnection, DestroyContext, Upcall,
      ConnectedInv, ConnectedFlag
<1>8. CASE ServerStep
  BY <1>8
  DEF ServerStep, ServerAnswers, ServerSpeaks, ReceiveFinal, Upcall, ConnectedInv,
      ConnectedFlag
<1>9. CASE ServiceStep /\ UNCHANGED peerVars
  <2>1. CASE CreateContext BY <1>9, <2>1 DEF CreateContext, ConnectedInv, ConnectedFlag
  <2>2. CASE ServiceReturns \/ ServiceFails
    BY <1>9, <2>2 DEF ServiceReturns, ServiceFails, ConnectedInv, ConnectedFlag
  <2>3. CASE RunTask \/ DumpThrows BY <1>9, <2>3, ConnectedFrame DEF RunTask, DumpThrows
  <2>4. CASE TasksDone BY <1>9, <2>4 DEF TasksDone, Draining, ConnectedInv, ConnectedFlag
  <2>5. CASE PeerInitiatedClose
    BY <1>9, <2>5 DEF PeerInitiatedClose, ConnectedInv, ConnectedFlag
  <2>6. CASE ReceiveFragment BY <1>9, <2>6, ConnectedFrame DEF ReceiveFragment
  <2>7. CASE ConnectionEstablished
    BY <1>9, <2>7 DEF ConnectionEstablished, Upcall, ConnectedInv, ConnectedFlag
  <2>8. CASE ConnectionError
    BY <1>9, <2>8 DEF ConnectionError, DropConnection, Upcall, ConnectedInv, ConnectedFlag
  <2>9. CASE TimerFires BY <1>9, <2>9 DEF TimerFires, Upcall, ConnectedInv, ConnectedFlag
  <2>10. CASE ConnectClient
    BY <1>9, <2>10 DEF ConnectClient, Upcall, ConnectedInv, ConnectedFlag
  <2>11. CASE ConnectSulFires
    BY <1>9, <2>11 DEF ConnectSulFires, RetryInv, RetryArmed, ConnectedInv, ConnectedFlag
  <2>12. QED
    BY <1>9, <2>1, <2>2, <2>3, <2>4, <2>5, <2>6, <2>7, <2>8, <2>9, <2>10, <2>11
    DEF ServiceStep
<1>10. QED BY <1>1, <1>2, <1>3, <1>4, <1>5, <1>6, <1>7, <1>8, <1>9 DEF Next, ListenerStep

(* m_connected tells whether there is a connection.                        *)
THEOREM ConnectedCorrect == Spec => []ConnectedFlag
<1>1. Init => ConnectedInv BY DEF Init, TransportInit, ConnectedInv, ConnectedFlag
<1>2. ConnectedInv /\ UNCHANGED vars => ConnectedInv'
  BY ConnectedFrame DEF vars, transportVars, lifeVars, connVars, peerVars
<1>3. ConnectedInv => ConnectedFlag BY DEF ConnectedInv
<1>4. QED BY <1>1, <1>2, <1>3, NextConnectedInv, BaseAlways, RetryAlways, PTL DEF Spec

-----------------------------------------------------------------------------
(* The Peer implements RequestService. *)

(* A step that changes no id, future or answer, and does not destroy the   *)
(* Peer, is a stutter of the service.                                      *)
LEMMA ServiceStutter ==
  ASSUME UNCHANGED <<rid, future, answers>>,
         owner' = owner \/ {owner, owner'} = {"alive", "joining"}
  PROVE  UNCHANGED Service!rsVars
BY DEF Service!rsVars, Replied

(* Beginning a request makes it, perhaps abandoning one with the same id,  *)
(* or loses it to a fault.                                                 *)
LEMMA BeginMakes ==
  ASSUME BaseInv, TableInv, AnswerInv, fault = "none",
         NEW c \in Caller, NEW r \in Request, NEW i \in Id, RequestBegins(c, r, i)
  PROVE  Service!Make(r, i) \/ Service!Lose(r, i)
<1> PeerTypeOK BY DEF BaseInv, TypeOK
<1> USE PeerAssumption DEF PeerTypeOK
<1>1. /\ future[r] = "none" /\ rid[r] = None /\ owner = "alive" /\ owner' = owner
      /\ rid' = [rid EXCEPT ![r] = i] /\ answers' = answers
  BY DEF RequestBegins, TableInv, serverVars
<1>2. answers[r] = {} BY <1>1 DEF AnswerInv
<1>3. \A q \in Request, ok \in BOOLEAN :
        ok \in answers[q] => rid'[q] = rid[q]
  BY <1>1, <1>2
<1>4. \A q \in Request, j \in Id, ok \in BOOLEAN :
        (rid'[q] = j /\ ok \in answers'[q]) <=> (rid[q] = j /\ ok \in answers[q])
  BY <1>1, <1>2, <1>3
<1>5. Replied' = Replied BY <1>4 DEF Replied
<1>6. CASE future' = [Break({promises[i]}) EXCEPT ![r] = "pending"]
  <2> DEFINE S == {q \in Request : q = promises[i] /\ future[q] = "pending"}
  <2>1. S \in SUBSET {q \in Request : future[q] = "pending" /\ rid[q] = i}
    BY DEF TableInv, TableTracksPending
  <2>2. future' = [q \in Request |-> CASE q = r   -> "pending"
                                       [] q \in S -> "broken"
                                       [] OTHER   -> future[q]]
    <3>1. future' = [q \in Request |-> IF q = r THEN "pending" ELSE Break({promises[i]})[q]]
      BY <1>6 DEF Break
    <3>2. \A q \in Request : Break({promises[i]})[q] = IF q \in S THEN "broken" ELSE future[q]
      BY DEF Break
    <3>3. \A q \in Request : (IF q = r THEN "pending" ELSE Break({promises[i]})[q])
                               = (CASE q = r   -> "pending"
                                    [] q \in S -> "broken"
                                    [] OTHER   -> future[q])
      <4>1. r \notin S BY <1>1 DEF S
      <4>2. QED BY <3>2, <4>1
    <3>4. QED BY <3>1, <3>3, Zenon
  <2> HIDE DEF S
  <2>3. QED BY <1>1, <1>5, <2>1, <2>2 DEF Service!Make
<1>7. CASE future' = [future EXCEPT ![r] = "pending"]
  <2>1. {} \in SUBSET {q \in Request : future[q] = "pending" /\ rid[q] = i} OBVIOUS
  <2>2. future' = [q \in Request |-> CASE q = r    -> "pending"
                                       [] q \in {} -> "broken"
                                       [] OTHER    -> future[q]]
    BY <1>7
  <2>3. QED BY <1>1, <1>5, <2>1, <2>2 DEF Service!Make
<1>8. CASE UNCHANGED future BY <1>1, <1>5, <1>8 DEF Service!Lose
<1>9. QED BY <1>6, <1>7, <1>8 DEF RequestBegins

(* A handler ends its request with an answer given to it, or the timeout.  *)
LEMMA HandlerEnds ==
  ASSUME BaseInv, TableInv, AnswerInv, fault = "none",
         HandleResponse \/ HandleTimeout
  PROVE  \E r \in Request : Service!Answered(r) \/ Service!TimesOut(r)
<1> PeerTypeOK /\ HandlerInv BY DEF BaseInv, TypeOK
<1> USE PeerAssumption DEF PeerTypeOK
<1>1. ASSUME NEW r \in Request, Pending(r), NEW o, Satisfy(r, o) PROVE Service!End(r, o)
  <2>1. UNCHANGED <<rid, answers, owner>> BY <1>1 DEF Satisfy, callVars, serverVars
  <2>2. QED BY <1>1, <2>1 DEF Satisfy, Service!End, Replied, Pending
<1>2. CASE HandleTimeout
  <2>1. task \in Id /\ promises[task] # None /\ handler = "idle"
    BY <1>2 DEF HandleTimeout, HandlerInv, BaseInv, TypeOK, TransportTypeOK, TimerTypeOK
  <2>2. promises[task] \in Request /\ Pending(promises[task]) BY <2>1, FoundIsPending
  <2>3. QED BY <1>1, <1>2, <2>2 DEF HandleTimeout, Service!TimesOut
<1>3. CASE HandleResponse
  <2>1. rx # None /\ rx \in Response /\ handler = "idle" /\ promises[rx.id] # None
    BY <1>3 DEF HandleResponse
  <2>2. rx.id \in Id /\ rx.ok \in BOOLEAN BY <2>1 DEF Response
  <2>3. PICK q \in Request : q = promises[rx.id] /\ Pending(q) /\ rid[q] = rx.id
    BY <2>1, <2>2, FoundIsPending
  <2>4. <<rx.id, rx.ok>> \in Replied BY <2>1, <2>2 DEF AnswerInv, Replied
  <2>5. Service!End(q, IF rx.ok THEN "value" ELSE "error")
    BY <1>1, <1>3, <2>3 DEF HandleResponse
  <2>6. CASE rx.ok = TRUE BY <2>3, <2>4, <2>5, <2>6 DEF Service!Answered
  <2>7. CASE rx.ok = FALSE BY <2>3, <2>4, <2>5, <2>7 DEF Service!Answered
  <2>8. QED BY <2>2, <2>6, <2>7
<1>4. QED BY <1>2, <1>3

(* Erasing an entry abandons the request that replaced the handled one, if *)
(* any.                                                                    *)
LEMMA EraseAbandons ==
  ASSUME BaseInv, TableInv, fault = "none", EraseEntry
  PROVE  (\E r \in Request : Service!Abandoned(r)) \/ UNCHANGED Service!rsVars
<1> PeerTypeOK /\ HandlerInv BY DEF BaseInv, TypeOK
<1> USE PeerAssumption DEF PeerTypeOK
<1>1. /\ UNCHANGED <<rid, answers, owner>> /\ handler # "idle"
      /\ future' = Break({promises[HandledId]})
  BY DEF EraseEntry, CallbackReturns, callVars, serverVars
<1>2. HandledId \in Id
  BY <1>1
  DEF HandledId, HandlerInv, Response, BaseInv, TypeOK, TransportTypeOK, TimerTypeOK
<1>3. CASE promises[HandledId] # None /\ Pending(promises[HandledId])
  <2>1. PICK r \in Request : r = promises[HandledId] /\ rid[r] = HandledId /\ Pending(r)
    BY <1>2, <1>3 DEF TableInv, TableTracksPending
  <2>2. PICK q \in Request : rid[q] = HandledId /\ future[q] \in {"value", "error", "timeout"}
    BY <1>1 DEF TableInv
  <2>3. q # r BY <2>1, <2>2 DEF Pending
  <2>4. future' = [future EXCEPT ![r] = "broken"]
    BY <1>1, <2>1 DEF Break, Pending
  <2>5. Service!End(r, "broken") BY <1>1, <2>1, <2>4 DEF Service!End, Pending, Replied
  <2>6. QED BY <2>1, <2>2, <2>3, <2>5 DEF Service!Abandoned
<1>4. CASE ~(promises[HandledId] # None /\ Pending(promises[HandledId]))
  <2>1. future' = future BY <1>1, <1>4 DEF Break, Pending
  <2>2. QED BY <1>1, <2>1, ServiceStutter
<1>5. QED BY <1>3, <1>4

(* The destructor closes the service.                                      *)
LEMMA DestructorCloses ==
  ASSUME BaseInv, PeerDestructorEnds
  PROVE  Service!Close
<1> PeerTypeOK BY DEF BaseInv, TypeOK
<1>1. UNCHANGED <<rid, answers>> /\ owner = "joining" /\ owner' = "destroyed"
  BY DEF PeerDestructorEnds, EndDestructor, callVars, serverVars
<1> DEFINE S == {q \in Request : q \in {promises[i] : i \in Id} /\ future[q] = "pending"}
<1>2. S \in SUBSET {q \in Request : future[q] = "pending"} OBVIOUS
<1>3. future' = [q \in Request |-> IF q \in S THEN "broken" ELSE future[q]]
  BY DEF PeerDestructorEnds, Break
<1> HIDE DEF S
<1>4. Replied' = Replied BY <1>1 DEF Replied
<1>5. QED BY <1>1, <1>2, <1>3, <1>4 DEF Service!Close

(* An answer of the server is a reply to the id of the request.            *)
LEMMA AnswerReplies ==
  ASSUME BaseInv, NEW r \in Request, NEW ok \in BOOLEAN, ServerAnswers(r, ok)
  PROVE  Service!Reply(rid[r], ok) /\ rid[r] \in Id
<1> PeerTypeOK BY DEF BaseInv, TypeOK
<1> USE PeerAssumption DEF PeerTypeOK
<1>1. /\ UNCHANGED <<rid, future, owner>> /\ rid[r] \in Id
      /\ answers' = [answers EXCEPT ![r] = @ \cup {ok}]
  BY DEF ServerAnswers, ReceiveFinal, BaseInv, ServerInv, callVars, tableVars
<1>2. \A q \in Request, o \in BOOLEAN :
        o \in answers'[q] <=> o \in answers[q] \/ (q = r /\ o = ok)
  BY <1>1
<1>3. \A p \in Id \X BOOLEAN : p \in Replied' <=> p \in Replied \/ p = <<rid[r], ok>>
  BY <1>1, <1>2 DEF Replied
<1>4. Replied' = Replied \cup {<<rid[r], ok>>} BY <1>1, <1>3 DEF Replied
<1>5. QED BY <1>1, <1>4 DEF Service!Reply

(* Every step of the Peer is a step of the service or a stutter.           *)
LEMMA NextRefines ==
  ASSUME BaseInv, TableInv, AnswerInv, Next
  PROVE  [Service!RSNext]_Service!rsVars
<1> fault = "none" BY DEF Next
<1> USE DEF callVars, tableVars, serverVars, peerVars
<1>1. ASSUME NEW c \in Caller, CallerStep(c) PROVE [Service!RSNext]_Service!rsVars
  <2>1. ASSUME NEW r \in Request, NEW i \in Id, RequestBegins(c, r, i)
        PROVE  Service!RSNext
    BY <2>1, BeginMakes DEF Service!RSNext
  <2>2. CASE RequestSchedules(c) \/ RequestSends(c) \/ GetReturns(c)
               \/ \E n \in Notification : Notify(c, n)
    BY <2>2, ServiceStutter
    DEF RequestSchedules, ScheduleTask, RequestSends, Send, GetReturns, Notify,
        transportVars, lifeVars
  <2>3. QED BY <1>1, <2>1, <2>2 DEF CallerStep
<1>2. CASE PeerDestructorBegins
  BY <1>2, ServiceStutter DEF PeerDestructorBegins, BeginDestructor
<1>3. CASE PeerDestructorEnds BY <1>3, DestructorCloses DEF Service!RSNext
<1>4. CASE HandleResponse \/ HandleTimeout BY <1>4, HandlerEnds DEF Service!RSNext
<1>5. CASE EraseEntry BY <1>5, EraseAbandons DEF Service!RSNext
<1>6. CASE OnConnection \/ OnOtherMessage \/ NoEntry \/ EntryHidden
             \/ CancelTimeout \/ CancelOnNull
  BY <1>6, ServiceStutter
  DEF OnConnection, OnOtherMessage, NoEntry, EntryHidden, CallbackReturns,
      CancelTimeout, CancelScheduledTask, CancelOnNull
<1>7. CASE RequestReachesServer \/ ConnectionEnds \/ ServerSpeaks
  BY <1>7, ServiceStutter
  DEF RequestReachesServer, ClientWriteable, ConnectionEnds, ConnectionClosed,
      DestroyContext, ServerSpeaks, ReceiveFinal, lifeVars
<1>8. ASSUME NEW r \in Request, NEW ok \in BOOLEAN, ServerAnswers(r, ok)
      PROVE  Service!RSNext
  BY <1>8, AnswerReplies DEF Service!RSNext
<1>9. CASE ServiceStep /\ UNCHANGED peerVars
  BY <1>9, ServiceStepFrame, ServiceStutter
<1>10. QED
  BY <1>1, <1>2, <1>3, <1>4, <1>5, <1>6, <1>7, <1>8, <1>9
  DEF Next, ListenerStep, ServerStep

(* The Peer implements RequestService: a request ends once, with an answer *)
(* given to its id or the timeout, and is abandoned only if its id is not  *)
(* its own or the Peer is destroyed.                                       *)
THEOREM PeerImplementsService == Spec => ImplementsService
<1>1. Init => Service!RSInit
  <2>1. Init => Replied = {} BY DEF Init, Replied
  <2>2. QED BY <2>1 DEF Init, TransportInit, Service!RSInit
<1>2. UNCHANGED vars => UNCHANGED Service!rsVars
  BY ServiceStutter
  DEF vars, transportVars, lifeVars, peerVars, callVars, tableVars, serverVars
<1>3. BaseInv /\ TableInv /\ AnswerInv /\ [Next]_vars => [Service!RSNext]_Service!rsVars
  BY <1>2, NextRefines
<1>4. QED
  BY <1>1, <1>3, BaseAlways, TableAlways, AnswerAlways, PTL
  DEF Spec, ImplementsService, Service!RSSpec

(* An outcome is final: a future that has its value, error, timeout or     *)
(* broken promise keeps it, whatever answers, timeouts and destructors     *)
(* follow (promise::set_value, set_exception and ~promise).                *)
THEOREM OutcomesAreFinal ==
  Spec => [][\A r \in Request :
               future[r] \notin {"none", "pending"} => future'[r] = future[r]]_vars
<1> DEFINE Final ==
      \A r \in Request : future[r] \notin {"none", "pending"} => future'[r] = future[r]
<1>1. PeerTypeOK /\ [Service!RSNext]_Service!rsVars => Final
  <2> SUFFICES ASSUME PeerTypeOK, Service!RSNext \/ UNCHANGED Service!rsVars
               PROVE  Final
    OBVIOUS
  <2> USE DEF PeerTypeOK
  <2>1. ASSUME NEW r \in Request, NEW i \in Id, Service!Make(r, i) PROVE Final
    <3>1. future[r] = "none" BY <2>1 DEF Service!Make
    <3>2. PICK S \in SUBSET {q \in Request : future[q] = "pending" /\ rid[q] = i} :
            future' = [q \in Request |-> CASE q = r   -> "pending"
                                            [] q \in S -> "broken"
                                            [] OTHER   -> future[q]]
      BY <2>1 DEF Service!Make
    <3>3. QED BY <3>1, <3>2
  <2>2. ASSUME NEW r \in Request, NEW how, Service!End(r, how) PROVE Final
    BY <2>2 DEF Service!End
  <2>3. CASE Service!Close
    <3>1. PICK S \in SUBSET {q \in Request : future[q] = "pending"} :
            future' = [q \in Request |-> IF q \in S THEN "broken" ELSE future[q]]
      BY <2>3 DEF Service!Close
    <3>2. QED BY <3>1
  <2>4. CASE UNCHANGED future BY <2>4
  <2>5. QED
    BY <2>1, <2>2, <2>3, <2>4
    DEF Service!RSNext, Service!rsVars, Service!Lose, Service!Reply, Service!Answered,
        Service!TimesOut, Service!Abandoned
<1>2. UNCHANGED vars => UNCHANGED Service!rsVars
  BY ServiceStutter
  DEF vars, transportVars, lifeVars, peerVars, callVars, tableVars, serverVars
<1>3. BaseInv /\ TableInv /\ AnswerInv /\ [Next]_vars => [Final]_vars
  BY <1>1, <1>2, NextRefines DEF BaseInv, TypeOK
<1>4. QED BY <1>3, BaseAlways, TableAlways, AnswerAlways, PTL DEF Spec
=============================================================================
