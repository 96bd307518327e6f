--------------------------- MODULE PeerOrderProofs ---------------------------
(***************************************************************************)
(* The order of things between the callers of a Peer and the wire, for any *)
(* number of requests, ids and callers: what the transport guarantees it   *)
(* guarantees with the Peer as its listener too, and what follows from it  *)
(* for requests, their answers and their deadlines.                        *)
(***************************************************************************)
EXTENDS PeerProofs

(* What the service thread does, in its loop or delivering an event, and   *)
(* what other threads call.                                                *)
ServiceEvent ==
  \/ ServiceStep \/ DestroyContext \/ ConnectionClosed \/ ClientWriteable
  \/ (\E parses \in BOOLEAN : ReceiveFinal(parses))
  \/ CallbackReturns

TransportCall ==
  \/ (\E m \in Message : Send(m)) \/ (\E c \in Closure : ScheduleTask(c))
  \/ CancelScheduledTask \/ BeginDestructor \/ EndDestructor

(* The transport does nothing, but perhaps for a fault of the Peer.        *)
TransportRests ==
  UNCHANGED <<thread, upcall, context, closed, owner, connVars, queueVars, timerVars>>

(* Every step of the Peer is, for its transport, an event, a call or none. *)
LEMMA StepOfTransport ==
  ASSUME BaseInv, Next
  PROVE  ServiceEvent \/ TransportCall \/ TransportRests
<1> PeerTypeOK /\ CallersInv BY DEF BaseInv, TypeOK
<1> USE DEF TransportRests
<1>1. ASSUME NEW c \in Caller, CallerStep(c) PROVE TransportCall \/ TransportRests
  <2>1. CASE RequestSchedules(c)
    <3>1. rid[current[c]] \in Closure
      BY <2>1, PeerAssumption DEF RequestSchedules, PeerTypeOK, CallersInv
    <3>2. QED BY <2>1, <3>1 DEF RequestSchedules, TransportCall
  <2>2. CASE RequestSends(c)
    <3>1. current[c] \in Message BY <2>2, PeerAssumption DEF RequestSends, CallersInv
    <3>2. QED BY <2>2, <3>1 DEF RequestSends, TransportCall
  <2>3. CASE \E n \in Notification : Notify(c, n)
    BY <2>3, PeerAssumption DEF Notify, TransportCall
  <2>4. CASE \E r \in Request, i \in Id : RequestBegins(c, r, i)
    BY <2>4 DEF RequestBegins
  <2>5. CASE GetReturns(c) BY <2>5 DEF GetReturns, transportVars, lifeVars
  <2>6. QED BY <1>1, <2>1, <2>2, <2>3, <2>4, <2>5 DEF CallerStep
<1>2. CASE PeerDestructorBegins \/ PeerDestructorEnds
  BY <1>2 DEF PeerDestructorBegins, PeerDestructorEnds, TransportCall
<1>3. CASE HandleResponse \/ HandleTimeout \/ CancelOnNull
  BY <1>3 DEF HandleResponse, HandleTimeout, Satisfy, CancelOnNull
<1>4. CASE CancelTimeout BY <1>4 DEF CancelTimeout, TransportCall
<1>5. CASE OnConnection \/ OnOtherMessage \/ NoEntry \/ EntryHidden \/ EraseEntry
  BY <1>5
  DEF OnConnection, OnOtherMessage, NoEntry, EntryHidden, LooksUp, EraseEntry,
      ServiceEvent
<1>6. CASE RequestReachesServer \/ ConnectionEnds \/ ServerStep
  BY <1>6
  DEF RequestReachesServer, ConnectionEnds, ServerStep, ServerAnswers, ServerSpeaks,
      ServiceEvent
<1>7. CASE ServiceStep BY <1>7 DEF ServiceEvent
<1>8. QED BY <1>1, <1>2, <1>3, <1>4, <1>5, <1>6, <1>7 DEF Next, ListenerStep

-----------------------------------------------------------------------------
(* The transport's guarantees, with the Peer as its listener. *)

(* SendInv is inductive for the Peer too.                                  *)
LEMMA NextSendInv ==
  ASSUME BaseInv, SendInv, Next
  PROVE  SendInv'
<1> TransportTypeOK BY DEF BaseInv, TypeOK
<1>1. CASE TransportRests BY <1>1, SendFrame DEF TransportRests, queueVars
<1>2. CASE TransportCall BY <1>2, SendOrderCalls, SendOrderElsewhere DEF TransportCall
<1>3. CASE ServiceEvent
  <2>1. CASE RunTask BY <2>1, SendOrderRunTask
  <2>2. CASE ClientWriteable BY <2>2, SendOrderCalls
  <2>3. QED BY <1>3, <2>1, <2>2, SendOrderElsewhere DEF ServiceEvent
<1>4. QED BY <1>1, <1>2, <1>3, StepOfTransport

(* SendInv holds of every behaviour of the Peer.                           *)
LEMMA SendAlways == Spec => []SendInv
<1>1. Init => SendInv BY SendInit DEF Init
<1>2. SendInv /\ UNCHANGED vars => SendInv'
  BY SendFrame DEF vars, transportVars, queueVars
<1>3. QED BY <1>1, <1>2, NextSendInv, BaseAlways, PTL DEF Spec

(* What callers of the Peer hand to send() goes out in that order, each    *)
(* message once, whatever the handlers do to the transport meanwhile.      *)
THEOREM PeerSendsInOrder == Spec => []SendOrder
<1>1. BaseInv /\ SendInv => SendOrder BY SendOrderUnfolded DEF BaseInv, TypeOK
<1>2. QED BY <1>1, SendAlways, BaseAlways, PTL

(* Under a Peer, too, a connection attempt is scheduled exactly when there *)
(* is no connection.                                                       *)
THEOREM PeerRetries == Spec => []RetryArmed
<1>1. RetryInv => RetryArmed BY DEF RetryInv
<1>2. QED BY <1>1, RetryAlways, PTL

(* Under a Peer the transport is still an OrderedLink.                     *)
THEOREM PeerKeepsOrderedLink == Spec => ImplementsLink
<1>1. Init => Link!OLInit BY DEF Init, TransportInit, Link!OLInit
<1>2. BaseInv /\ RetryInv /\ SendInv /\ [Next]_vars => [Link!OLNext]_Link!olVars
  <2> SUFFICES ASSUME BaseInv, RetryInv, SendInv, [Next]_vars
               PROVE  [Link!OLNext]_Link!olVars
    OBVIOUS
  <2> TransportTypeOK BY DEF BaseInv, TypeOK
  <2>1. CASE ServiceEvent BY <2>1, ServiceLinkStep DEF ServiceEvent
  <2>2. CASE TransportCall BY <2>2, CallLinkStep DEF TransportCall
  <2>3. CASE TransportRests
    BY <2>3, LinkStutter DEF TransportRests, connVars, queueVars
  <2>4. CASE UNCHANGED vars
    BY <2>4, LinkStutter DEF vars, transportVars, connVars, queueVars
  <2>5. QED BY <2>1, <2>2, <2>3, <2>4, StepOfTransport
<1>3. QED
  BY <1>1, <1>2, BaseAlways, RetryAlways, SendAlways, PTL
  DEF Spec, ImplementsLink, Link!OLSpec
-----------------------------------------------------------------------------
(* What is given to send(). *)

Asked(m) == \E k \in DOMAIN sent : sent[k] = m

(* Nothing is given to send() twice, and nothing before it has an id: a    *)
(* request on its way there is in the hands of one caller.                 *)
AskedInv ==
  /\ \A k \in DOMAIN sent : sent[k] \in Made
  /\ \A j, k \in DOMAIN sent : sent[j] = sent[k] => j = k
  /\ \A c \in Caller : pc[c] \in {"schedule", "send"} => ~Asked(current[c])
  /\ \A c, d \in Caller :
       c # d /\ pc[c] # "idle" /\ pc[d] # "idle" => current[c] # current[d]

(* A message joins the end of what was given to send().                    *)
LEMMA SentAppended ==
  ASSUME TransportTypeOK, NEW m \in Message, Send(m)
  PROVE  /\ DOMAIN sent' = DOMAIN sent \cup {Len(sent) + 1}
         /\ Len(sent) + 1 \notin DOMAIN sent
         /\ \A k \in DOMAIN sent : sent'[k] = sent[k]
         /\ sent'[Len(sent) + 1] = m
<1>1. sent \in Seq(Message) /\ sent' = Append(sent, m)
  BY DEF Send, TransportTypeOK, QueueTypeOK
<1>2. QED BY <1>1

(* A message not given to send() before may be given to it once.           *)
LEMMA AskedOnce ==
  ASSUME TransportTypeOK, AskedInv, NEW m \in Made, ~Asked(m), Send(m), UNCHANGED rid
  PROVE  /\ \A k \in DOMAIN sent' : sent'[k] \in Made'
         /\ \A j, k \in DOMAIN sent' : sent'[j] = sent'[k] => j = k
         /\ \A x : x # m /\ ~Asked(x) => ~Asked(x)'
<1>1. m \in Message /\ Made' = Made BY DEF Made
<1>2. QED BY <1>1, SentAppended DEF AskedInv, Asked

(* AskedInv is inductive, relative to BaseInv and TableInv.                *)
LEMMA NextAskedInv ==
  ASSUME BaseInv, TableInv, AskedInv, Next
  PROVE  AskedInv'
<1> fault = "none" BY DEF Next
<1> TransportTypeOK /\ PeerTypeOK /\ CallersInv BY DEF BaseInv, TypeOK
<1> USE PeerAssumption
<1>1. ASSUME NEW c \in Caller, NEW r \in Request, NEW i \in Id, RequestBegins(c, r, i)
      PROVE  AskedInv'
  <2>1. /\ future[r] = "none" /\ rid[r] = None /\ pc[c] = "idle"
        /\ rid' = [rid EXCEPT ![r] = i]
        /\ current' = [current EXCEPT ![c] = r] /\ pc' = [pc EXCEPT ![c] = "schedule"]
        /\ UNCHANGED sent
    BY <1>1 DEF RequestBegins, TableInv, queueVars
  <2>2. ~Asked(r) BY <2>1 DEF AskedInv, Asked, Made
  <2>3. \A d \in Caller : pc[d] # "idle" => current[d] # r BY <2>1 DEF CallersInv
  <2>4. \A d \in Caller : IF d = c THEN pc'[d] = "schedule" /\ current'[d] = r
                                   ELSE pc'[d] = pc[d] /\ current'[d] = current[d]
    BY <2>1 DEF PeerTypeOK
  <2>5. Made \subseteq Made' BY <2>1 DEF Made, PeerTypeOK
  <2>6. \A k \in DOMAIN sent' : sent'[k] \in Made' BY <2>1, <2>5 DEF AskedInv
  <2>7. \A x : Asked(x)' <=> Asked(x) BY <2>1 DEF Asked
  <2>8. \A d \in Caller : pc'[d] \in {"schedule", "send"} => ~Asked(current[d])'
    BY <2>2, <2>4, <2>7 DEF AskedInv, Asked
  <2>9. \A d, e \in Caller :
          d # e /\ pc'[d] # "idle" /\ pc'[e] # "idle" => current'[d] # current'[e]
    BY <2>3, <2>4 DEF AskedInv
  <2>10. QED BY <2>1, <2>6, <2>8, <2>9 DEF AskedInv
<1>2. ASSUME NEW c \in Caller, RequestSends(c) PROVE AskedInv'
  <2>1. /\ pc[c] = "send" /\ Send(current[c]) /\ UNCHANGED <<rid, current>>
        /\ pc' = [pc EXCEPT ![c] = "get"]
    BY <1>2 DEF RequestSends
  <2>2. current[c] \in Made /\ ~Asked(current[c])
    BY <2>1 DEF AskedInv, CallersInv, Made
  <2>3. \A d \in Caller : d # c => pc'[d] = pc[d] BY <2>1 DEF PeerTypeOK
  <2>4. pc'[c] = "get" BY <2>1 DEF PeerTypeOK
  <2>5. \A d \in Caller : pc'[d] \in {"schedule", "send"} =>
          d # c /\ current[d] # current[c] /\ ~Asked(current[d])
    BY <2>1, <2>3, <2>4 DEF AskedInv
  <2>6. \A d, e \in Caller :
          d # e /\ pc'[d] # "idle" /\ pc'[e] # "idle" => current[d] # current[e]
    BY <2>1, <2>3, <2>4 DEF AskedInv
  <2>7. QED BY <2>1, <2>2, <2>5, <2>6, AskedOnce DEF AskedInv, Asked
<1>3. ASSUME NEW c \in Caller, NEW n \in Notification, Notify(c, n) PROVE AskedInv'
  <2>1. n \in Made /\ ~Asked(n) /\ Send(n) /\ UNCHANGED <<rid, pc, current>>
    BY <1>3 DEF Notify, Asked, Made, peerVars, callVars
  <2>2. \A d \in Caller : pc[d] # "idle" => current[d] # n BY DEF CallersInv
  <2>3. QED BY <2>1, <2>2, AskedOnce DEF AskedInv, Asked
<1>4. ASSUME NEW c \in Caller, RequestSchedules(c) \/ GetReturns(c) PROVE AskedInv'
  <2>1. UNCHANGED <<sent, rid>>
    BY <1>4 DEF RequestSchedules, ScheduleTask, GetReturns, transportVars, queueVars
  <2>2. \A d \in Caller :
          /\ pc'[d] \in {"schedule", "send"} => pc[d] \in {"schedule", "send"}
          /\ pc'[d] # "idle" => pc[d] # "idle" /\ current'[d] = current[d]
    BY <1>4 DEF RequestSchedules, GetReturns, PeerTypeOK
  <2>3. QED BY <2>1, <2>2 DEF AskedInv, Asked, Made
<1>5. CASE UNCHANGED <<sent, callVars>>
  BY <1>5 DEF AskedInv, Asked, Made, callVars
<1>6. CASE ~\E c \in Caller : CallerStep(c)
  <2>1. UNCHANGED callVars
    BY <1>6
    DEF Next, PeerDestructorBegins, PeerDestructorEnds, ListenerStep, OnConnection,
        OnOtherMessage, NoEntry, EntryHidden, LooksUp, HandleResponse, HandleTimeout,
        Satisfy, CancelOnNull, CancelTimeout, EraseEntry, RequestReachesServer,
        ConnectionEnds, ServerStep, ServerAnswers, ServerSpeaks, peerVars
  <2>2. UNCHANGED sent
    BY <1>6
    DEF Next, PeerDestructorBegins, BeginDestructor, PeerDestructorEnds, EndDestructor,
        ListenerStep, OnConnection, OnOtherMessage, NoEntry, EntryHidden, LooksUp,
        CallbackReturns, HandleResponse, HandleTimeout, Satisfy, CancelTimeout,
        CancelScheduledTask, CancelOnNull, EraseEntry, RequestReachesServer,
        ClientWriteable, ConnectionEnds, ConnectionClosed, DestroyContext, ServerStep,
        ServerAnswers, ServerSpeaks, ReceiveFinal, ServiceStep, CreateContext,
        ServiceReturns, ServiceFails, RunTask, DumpThrows, TasksDone, ConnectSulFires,
        ConnectClient, ConnectionEstablished, ConnectionError, PeerInitiatedClose,
        ReceiveFragment, TimerFires, queueVars
  <2>3. QED BY <1>5, <2>1, <2>2
<1>7. QED BY <1>1, <1>2, <1>3, <1>4, <1>6 DEF CallerStep

(* AskedInv holds of every behaviour.                                      *)
LEMMA AskedAlways == Spec => []AskedInv
<1>1. Init => AskedInv BY DEF Init, TransportInit, AskedInv, Asked
<1>2. AskedInv /\ UNCHANGED vars => AskedInv'
  BY DEF AskedInv, Asked, Made, vars, transportVars, queueVars, peerVars, callVars
<1>3. QED BY <1>1, <1>2, NextAskedInv, BaseAlways, TableAlways, PTL DEF Spec
-----------------------------------------------------------------------------
(* What is written. *)

(* What m_msgQueue holds or has let go was given to send().                *)
LEMMA QueuedWasAsked ==
  ASSUME TransportTypeOK, SendInv, NEW m,
         Wired(m) \/ (\E k \in DOMAIN msgQueue : msgQueue[k] = m)
  PROVE  Asked(m)
<1>1. First - 1 <= Len(sent) /\ First - 1 = Len(written) + Len(msgQueue)
  BY QueueFacts DEF SendInv, First
<1>2. CASE Wired(m)
  <2>1. PICK k \in 1 .. Len(written) : written[k] = m BY <1>2, QueueFacts DEF Wired
  <2>2. k \in DOMAIN sent BY <1>1, QueueFacts
  <2>3. QED BY <2>1, <2>2 DEF SendInv, Asked
<1>3. CASE \E k \in DOMAIN msgQueue : msgQueue[k] = m
  <2>1. PICK k \in 1 .. Len(msgQueue) : msgQueue[k] = m BY <1>3, QueueFacts
  <2>2. Len(written) + k \in DOMAIN sent BY <1>1, QueueFacts
  <2>3. QED BY <2>1, <2>2 DEF SendInv, Asked
<1>4. QED BY <1>2, <1>3

(* So was what a task is about to queue.                                   *)
LEMMA WaitingWasAsked ==
  ASSUME TransportTypeOK, SendInv, NEW k \in DOMAIN tasks, tasks[k].op = "send"
  PROVE  Asked(tasks[k].arg)
<1>1. k \in SendPlaces BY DEF SendPlaces
<1>2. PICK at \in [First .. Len(sent) -> SendPlaces] : Waiting(at) BY DEF SendInv
<1>3. PICK i \in First .. Len(sent) : at[i] = k BY <1>1, <1>2 DEF Waiting, First
<1>4. tasks[k].arg = sent[i] BY <1>2, <1>3 DEF Waiting, First
<1>5. i \in DOMAIN sent BY QueueFacts DEF First
<1>6. QED BY <1>4, <1>5 DEF Asked

(* What the server has, or has answered, was written.                      *)
WireInv ==
  /\ \A r \in atServer : Wired(r)
  /\ \A r \in Request : answers[r] # {} => Wired(r)

(* A message that was written stays written; a WRITEABLE callback writes   *)
(* the front of m_msgQueue, if there is one.                               *)
LEMMA WriteFront ==
  ASSUME TransportTypeOK, ClientWriteable
  PROVE  \A m : Wired(m)' <=> Wired(m) \/ (msgQueue # <<>> /\ m = Head(msgQueue))
<1>1. written \in Seq(Message) /\ (msgQueue # <<>> => Head(msgQueue) \in Message)
  BY QueueFacts
<1>2. CASE msgQueue # <<>>
  <2>1. written' = Append(written, Head(msgQueue)) BY <1>2 DEF ClientWriteable
  <2>2. QED BY <1>1, <1>2, <2>1 DEF Wired
<1>3. CASE msgQueue = <<>> BY <1>3 DEF ClientWriteable, Wired
<1>4. QED BY <1>2, <1>3

(* No other step writes.                                                   *)
LEMMA OnlyWriteableWrites ==
  ASSUME BaseInv, Next, ~ClientWriteable
  PROVE  UNCHANGED written
<1>1. CASE ServiceEvent
  BY <1>1
  DEF ServiceEvent, ServiceStep, CreateContext, ServiceReturns, ServiceFails, RunTask,
      DumpThrows, TasksDone, ConnectSulFires, ConnectClient, ConnectionEstablished,
      ConnectionError, PeerInitiatedClose, ReceiveFragment, TimerFires, DestroyContext,
      ConnectionClosed, ReceiveFinal, CallbackReturns, queueVars
<1>2. CASE TransportCall
  BY <1>2
  DEF TransportCall, Send, ScheduleTask, CancelScheduledTask, BeginDestructor,
      EndDestructor, queueVars
<1>3. CASE TransportRests BY <1>3 DEF TransportRests, queueVars
<1>4. QED BY <1>1, <1>2, <1>3, StepOfTransport

(* WireInv is inductive, relative to BaseInv.                              *)
LEMMA NextWireInv ==
  ASSUME BaseInv, WireInv, Next
  PROVE  WireInv'
<1> TransportTypeOK /\ PeerTypeOK BY DEF BaseInv, TypeOK
<1>1. \A m : Wired(m) => Wired(m)' BY WriteFront, OnlyWriteableWrites DEF Wired
<1>2. CASE RequestReachesServer
  <2>1. UNCHANGED answers BY <1>2 DEF RequestReachesServer
  <2>2. ASSUME NEW r \in atServer' PROVE Wired(r)'
    <3>1. CASE r \in atServer BY <1>1, <3>1 DEF WireInv
    <3>2. CASE r \notin atServer
      <4>1. msgQueue # <<>> /\ r = Head(msgQueue) /\ ClientWriteable
        BY <1>2, <2>2, <3>2 DEF RequestReachesServer
      <4>2. QED BY <4>1, WriteFront
    <3>3. QED BY <3>1, <3>2
  <2>3. QED BY <1>1, <2>1, <2>2 DEF WireInv
<1>3. ASSUME NEW r \in Request, NEW ok \in BOOLEAN, ServerAnswers(r, ok) PROVE WireInv'
  BY <1>1, <1>3 DEF ServerAnswers, WireInv, PeerTypeOK
<1>4. CASE atServer' \subseteq atServer /\ UNCHANGED answers BY <1>1, <1>4 DEF WireInv
<1>5. CASE ~RequestReachesServer /\ ~\E r \in Request, ok \in BOOLEAN : ServerAnswers(r, ok)
  BY <1>4, <1>5
  DEF Next, CallerStep, RequestBegins, RequestSchedules, RequestSends, GetReturns,
      Notify, PeerDestructorBegins, PeerDestructorEnds, ListenerStep, OnConnection,
      OnOtherMessage, NoEntry, EntryHidden, HandleResponse, HandleTimeout, Satisfy,
      CancelOnNull, CancelTimeout, EraseEntry, ConnectionEnds, ServerStep, ServerSpeaks,
      peerVars, serverVars
<1>6. QED BY <1>2, <1>3, <1>5

(* WireInv holds of every behaviour.                                       *)
LEMMA WireAlways == Spec => []WireInv
<1>1. Init => WireInv BY DEF Init, WireInv
<1>2. WireInv /\ UNCHANGED vars => WireInv'
  BY DEF WireInv, Wired, vars, transportVars, queueVars, peerVars, serverVars
<1>3. QED BY <1>1, <1>2, NextWireInv, BaseAlways, PTL DEF Spec

(* A message goes out at most once, and no request is answered that did    *)
(* not go out.                                                             *)
THEOREM WiredOnceCorrect == Spec => []WiredOnce
<1>1. BaseInv /\ SendInv /\ AskedInv /\ AnswerInv /\ WireInv => WiredOnce
  <2> SUFFICES ASSUME BaseInv, SendInv, AskedInv, AnswerInv, WireInv
               PROVE  WiredOnce
    OBVIOUS
  <2> TransportTypeOK /\ PeerTypeOK BY DEF BaseInv, TypeOK
  <2>1. ASSUME NEW k \in DOMAIN written PROVE k \in DOMAIN sent /\ written[k] = sent[k]
    <3>1. k \in 1 .. Len(written) BY QueueFacts
    <3>2. Len(written) + Len(msgQueue) <= Len(sent) BY QueueFacts DEF SendInv, First
    <3>3. k \in DOMAIN sent BY <3>1, <3>2, QueueFacts
    <3>4. QED BY <3>1, <3>3 DEF SendInv
  <2>2. \A j, k \in DOMAIN written : written[j] = written[k] => j = k
    BY <2>1 DEF AskedInv
  <2>3. ASSUME DistinctIds, NEW r \in Request, future[r] \in {"value", "error"}
        PROVE  Wired(r)
    BY <2>3 DEF AnswerInv, OwnAnswer, WireInv
  <2>4. QED BY <2>2, <2>3 DEF WiredOnce
<1>2. QED
  BY <1>1, BaseAlways, SendAlways, AskedAlways, AnswerAlways, WireAlways, PTL
-----------------------------------------------------------------------------
(* The deadline of a request. *)

(* Timers are only ever set for ids that requests have.                    *)
TimerIds ==
  /\ \A k \in DOMAIN tasks :
       tasks[k].op = "schedule" => \E q \in Request : rid[q] = tasks[k].arg
  /\ task # None => \E q \in Request : rid[q] = task

Sending(r) == [op |-> "send", arg |-> r]

(* r has come further than the timer task its caller handed over before it. *)
Past(r) ==
  \/ Wired(r) \/ \E k \in DOMAIN msgQueue : msgQueue[k] = r
  \/ task = rid[r] \/ future[r] \in {"value", "error", "timeout"}

(* The two tasks of a request, each handed over once and in this order, and *)
(* the places they lead to.                                                *)
DeadlineOrder(r) ==
  /\ \A j, k \in DOMAIN tasks : tasks[j] = Deadline(r) /\ tasks[k] = Deadline(r) => j = k
  /\ \A j, k \in DOMAIN tasks : tasks[j] = Deadline(r) /\ tasks[k] = Sending(r) => j < k
  /\ \A c \in Caller : pc[c] = "schedule" /\ current[c] = r =>
       \A k \in DOMAIN tasks : tasks[k] # Deadline(r)
  /\ Past(r) => DeadlineRun(r)

DeadlineInv ==
  /\ TimerIds
  /\ DistinctIds => \A r \in Request : rid[r] # None => DeadlineOrder(r)

(* A task joins the end of tasks.                                          *)
LEMMA TasksPushed ==
  ASSUME TransportTypeOK, NEW t \in Task, tasks' = Append(tasks, t)
  PROVE  /\ DOMAIN tasks' = DOMAIN tasks \cup {Len(tasks) + 1}
         /\ tasks'[Len(tasks) + 1] = t
         /\ \A k \in DOMAIN tasks : k \in Nat /\ k < Len(tasks) + 1 /\ tasks'[k] = tasks[k]
BY QueueFacts

(* The first task is taken, the others move one place to the front.        *)
LEMMA TasksPopped ==
  ASSUME TransportTypeOK, tasks # <<>>, tasks' = Tail(tasks)
  PROVE  /\ 1 \in DOMAIN tasks /\ tasks[1] = Head(tasks)
         /\ \A k \in DOMAIN tasks' :
              k \in Nat /\ k >= 1 /\ k + 1 \in DOMAIN tasks /\ tasks'[k] = tasks[k + 1]
BY QueueFacts

(* A step that leaves tasks and ids alone, and takes no request past its   *)
(* deadline, keeps DeadlineInv.                                            *)
LEMMA DeadlineFrame ==
  ASSUME DeadlineInv, UNCHANGED <<tasks, rid>>, task' = task \/ task' = None,
         \A c \in Caller :
           pc'[c] = "schedule" => pc[c] = "schedule" /\ current'[c] = current[c],
         DistinctIds => \A r \in Request : rid[r] # None /\ Past(r)' => Past(r)
  PROVE  DeadlineInv'
<1>1. TimerIds' BY DEF DeadlineInv, TimerIds
<1>2. ASSUME DistinctIds', NEW r \in Request, rid'[r] # None PROVE DeadlineOrder(r)'
  <2>1. DistinctIds BY <1>2 DEF DistinctIds
  <2>2. DeadlineOrder(r) BY <1>2, <2>1 DEF DeadlineInv
  <2>3. Past(r)' => Past(r) BY <1>2, <2>1
  <2>4. DeadlineRun(r) => DeadlineRun(r)' BY DEF DeadlineRun, Deadline
  <2>5. QED BY <2>2, <2>3, <2>4 DEF DeadlineOrder, Deadline, Sending
<1>3. QED BY <1>1, <1>2 DEF DeadlineInv

(* A caller that makes a request gives it an id that no timer is set for.  *)
LEMMA BeginKeepsDeadlines ==
  ASSUME BaseInv, TableInv, SendInv, AskedInv, DeadlineInv, fault = "none",
         NEW c \in Caller, NEW r \in Request, NEW i \in Id, RequestBegins(c, r, i)
  PROVE  DeadlineInv'
<1> USE PeerAssumption
<1> TransportTypeOK /\ PeerTypeOK BY DEF BaseInv, TypeOK
<1>1. /\ rid[r] = None /\ future[r] = "none" /\ pc[c] = "idle"
      /\ rid' = [rid EXCEPT ![r] = i]
      /\ current' = [current EXCEPT ![c] = r] /\ pc' = [pc EXCEPT ![c] = "schedule"]
      /\ UNCHANGED <<tasks, msgQueue, written, task>>
  BY DEF RequestBegins, TableInv, queueVars, timerVars
<1>2. \A q \in Request : rid'[q] = IF q = r THEN i ELSE rid[q] BY <1>1 DEF PeerTypeOK
<1>3. \A d \in Caller : pc'[d] = "schedule" /\ current'[d] # r =>
        pc[d] = "schedule" /\ current'[d] = current[d]
  BY <1>1 DEF PeerTypeOK
<1>4. /\ future'[r] \notin {"value", "error", "timeout"}
      /\ \A q \in Request : future'[q] \in {"value", "error", "timeout"} => future'[q] = future[q]
  <2>1. \/ future' = [Break({promises[i]}) EXCEPT ![r] = "pending"]
        \/ future' = [future EXCEPT ![r] = "pending"]
        \/ UNCHANGED future
    BY <1>1 DEF RequestBegins
  <2>2. \A q \in Request : Break({promises[i]})[q] \in {"broken", future[q]}
    BY DEF Break
  <2>3. DOMAIN Break({promises[i]}) = Request /\ DOMAIN future = Request
    BY DEF Break, PeerTypeOK
  <2>4. \A q \in Request : q # r => future'[q] \in {"broken", future[q]}
    BY <2>1, <2>2, <2>3
  <2>5. future'[r] \in {"none", "pending"} BY <1>1, <2>1, <2>3
  <2>6. QED BY <2>4, <2>5
<1>5. ~Asked(r) BY <1>1 DEF AskedInv, Asked, Made
<1>6. ~Wired(r) /\ \A k \in DOMAIN msgQueue : msgQueue[k] # r
  BY <1>5, QueuedWasAsked
<1>7. TimerIds'
  <2>1. ASSUME NEW q \in Request, rid[q] # None PROVE rid'[q] = rid[q] BY <1>1, <1>2, <2>1
  <2>2. \A k \in DOMAIN tasks : tasks[k].op = "schedule" => tasks[k].arg # None
    BY DEF TransportTypeOK, QueueTypeOK, Task
  <2>3. QED BY <1>1, <2>1, <2>2 DEF DeadlineInv, TimerIds
<1>8. ASSUME DistinctIds' PROVE DistinctIds BY <1>1, <1>2, <1>8 DEF DistinctIds
<1>9. ASSUME DistinctIds', NEW q \in Request, q # r, rid'[q] # None PROVE DeadlineOrder(q)'
  <2>1. DeadlineOrder(q) BY <1>2, <1>8, <1>9 DEF DeadlineInv
  <2>2. rid'[q] = rid[q] BY <1>2, <1>9
  <2>3. Past(q)' => Past(q) BY <1>1, <1>4, <2>2 DEF Past, Wired
  <2>4. DeadlineRun(q) => DeadlineRun(q)' BY <1>1, <1>3, <1>9, <2>2
    DEF DeadlineRun, Deadline
  <2>5. QED BY <1>1, <1>3, <1>9, <2>1, <2>2, <2>3, <2>4
    DEF DeadlineOrder, Deadline, Sending
<1>10. ASSUME DistinctIds' PROVE DeadlineOrder(r)'
  <2>1. \A q \in Request : q # r => rid[q] # i BY <1>1, <1>2, <1>10 DEF DistinctIds
  <2>2. \A q \in Request : rid[q] # i BY <1>1, <2>1
  <2>3. \A k \in DOMAIN tasks : tasks[k] # [op |-> "schedule", arg |-> i]
    BY <2>2 DEF DeadlineInv, TimerIds
  <2>4. \A k \in DOMAIN tasks' : tasks'[k] # Deadline(r)' BY <1>1, <1>2, <2>3 DEF Deadline
  <2>5. task' # rid'[r] BY <1>1, <1>2, <2>2 DEF DeadlineInv, TimerIds
  <2>6. ~Past(r)' BY <1>1, <1>4, <1>6, <2>5 DEF Past, Wired
  <2>7. QED BY <2>4, <2>6 DEF DeadlineOrder
<1>11. QED BY <1>7, <1>9, <1>10 DEF DeadlineInv

(* A task handed over that sets no timer keeps DeadlineInv: a request is   *)
(* handed over after its deadline.                                         *)
LEMMA PushKeepsDeadlines ==
  ASSUME BaseInv, DeadlineInv, NEW t \in Task, t.op # "schedule", tasks' = Append(tasks, t),
         UNCHANGED <<rid, current, future, msgQueue, written, task>>,
         \A c \in Caller : pc'[c] = "schedule" => pc[c] = "schedule"
  PROVE  DeadlineInv'
<1> TransportTypeOK BY DEF BaseInv, TypeOK
<1>1. TimerIds' BY TasksPushed DEF DeadlineInv, TimerIds
<1>2. ASSUME DistinctIds', NEW r \in Request, rid'[r] # None PROVE DeadlineOrder(r)'
  <2>1. DeadlineOrder(r) BY <1>2 DEF DeadlineInv, DistinctIds
  <2>2. Deadline(r)' = Deadline(r) /\ t # Deadline(r) BY DEF Deadline
  <2>3. \A k \in DOMAIN tasks' : tasks'[k] = Deadline(r) =>
          k \in DOMAIN tasks /\ tasks[k] = Deadline(r)
    BY <2>2, TasksPushed
  <2>4. \A j, k \in DOMAIN tasks' : tasks'[j] = Deadline(r) /\ tasks'[k] = Sending(r) => j < k
    BY <2>1, <2>3, TasksPushed DEF DeadlineOrder
  <2>5. Past(r)' => Past(r) BY DEF Past, Wired
  <2>6. DeadlineRun(r) => DeadlineRun(r)' BY <2>2, <2>3 DEF DeadlineRun
  <2>7. QED BY <2>1, <2>2, <2>3, <2>4, <2>5, <2>6 DEF DeadlineOrder, Sending
<1>3. QED BY <1>1, <1>2 DEF DeadlineInv

(* A caller hands over the deadline of its own request, and once.          *)
LEMMA ScheduleKeepsDeadlines ==
  ASSUME BaseInv, SendInv, AskedInv, DeadlineInv, NEW c \in Caller, RequestSchedules(c)
  PROVE  DeadlineInv'
<1> USE PeerAssumption
<1> TransportTypeOK /\ PeerTypeOK BY DEF BaseInv, TypeOK
<1> DEFINE s == current[c]
<1>1. /\ pc[c] = "schedule" /\ s \in Request /\ rid[s] # None
      /\ pc' = [pc EXCEPT ![c] = "send"] /\ tasks' = Append(tasks, Deadline(s))
      /\ UNCHANGED <<rid, current, future, msgQueue, written, task>>
  BY
  DEF RequestSchedules, ScheduleTask, InvokeTask, Deadline, timerVars, tableVars,
      BaseInv, CallersInv
<1>2. Deadline(s) \in Task /\ Deadline(s).op = "schedule" /\ Deadline(s).arg = rid[s]
  BY <1>1 DEF Deadline, Task, PeerTypeOK
<1> HIDE DEF s
<1>3. TimerIds' BY <1>1, <1>2, TasksPushed DEF DeadlineInv, TimerIds
<1>4. \A d \in Caller : pc'[d] = "schedule" => pc[d] = "schedule" /\ d # c
  BY <1>1 DEF PeerTypeOK
<1>5. \A d \in Caller : d # c /\ pc[d] = "schedule" => current[d] # s
  BY <1>1 DEF AskedInv, s
<1>6. ASSUME DistinctIds', NEW r \in Request, rid'[r] # None PROVE DeadlineOrder(r)'
  <2>1. DeadlineOrder(r) BY <1>1, <1>6 DEF DeadlineInv, DistinctIds
  <2>2. Deadline(r)' = Deadline(r) BY <1>1 DEF Deadline
  <2>3. Past(r)' => Past(r) BY <1>1 DEF Past, Wired
  <2>4. CASE r # s
    <3>1. Deadline(s) # Deadline(r) BY <1>1, <1>6, <2>4 DEF DistinctIds, Deadline
    <3>2. \A k \in DOMAIN tasks' : tasks'[k] = Deadline(r) =>
            k \in DOMAIN tasks /\ tasks[k] = Deadline(r)
      BY <1>1, <1>2, <3>1, TasksPushed
    <3>3. \A k \in DOMAIN tasks' : tasks'[k] = Sending(r) =>
            k \in DOMAIN tasks /\ tasks[k] = Sending(r)
      BY <1>1, <1>2, TasksPushed DEF Sending
    <3>4. DeadlineRun(r) => DeadlineRun(r)' BY <1>1, <1>4, <2>2, <3>2 DEF DeadlineRun
    <3>5. QED BY <1>1, <1>4, <2>1, <2>2, <2>3, <3>2, <3>3, <3>4 DEF DeadlineOrder, Sending
  <2>5. CASE r = s
    <3>1. ~Past(r)' BY <1>1, <2>1, <2>3, <2>5 DEF DeadlineOrder, DeadlineRun, s
    <3>2. \A k \in DOMAIN tasks : tasks[k] # Deadline(r)
      BY <1>1, <2>1, <2>5 DEF DeadlineOrder, s
    <3>3. \A k \in DOMAIN tasks : tasks[k] # Sending(r)
      <4>1. ~Asked(r) BY <1>1, <2>5 DEF AskedInv, s
      <4>2. QED BY <4>1, WaitingWasAsked DEF Sending
    <3>4. \A k \in DOMAIN tasks' : tasks'[k] = Deadline(r) => k = Len(tasks) + 1
      BY <1>1, <1>2, <3>2, TasksPushed
    <3>5. \A k \in DOMAIN tasks' : tasks'[k] # Sending(r)
      BY <1>1, <1>2, <3>3, TasksPushed DEF Sending
    <3>6. \A d \in Caller : pc'[d] = "schedule" => current'[d] # r
      BY <1>1, <1>4, <1>5, <2>5
    <3>7. QED BY <2>2, <3>1, <3>4, <3>5, <3>6 DEF DeadlineOrder, Sending
  <2>6. QED BY <2>4, <2>5
<1>7. QED BY <1>3, <1>6 DEF DeadlineInv

(* The loop runs the deadline of a request before it queues the request.   *)
LEMMA RunKeepsDeadlines ==
  ASSUME BaseInv, SendInv, AskedInv, DeadlineInv, RunTask, UNCHANGED peerVars
  PROVE  DeadlineInv'
<1> USE PeerAssumption
<1> TransportTypeOK /\ PeerTypeOK BY DEF BaseInv, TypeOK
<1> DEFINE t == Head(tasks)
<1>1. /\ tasks # <<>> /\ tasks' = Tail(tasks) /\ UNCHANGED <<pc, rid, current, future, written>>
  BY DEF RunTask, peerVars, callVars, tableVars
<1>2. t \in Task /\ t = tasks[1] /\ 1 \in DOMAIN tasks
  BY <1>1, TasksPopped, QueueFacts
<1>3. \/ /\ t.op = "send" /\ msgQueue' = Append(msgQueue, t.arg) /\ UNCHANGED task
      \/ /\ t.op = "schedule" /\ task' = t.arg /\ UNCHANGED msgQueue
      \/ t.op = "cancel" /\ UNCHANGED <<task, msgQueue>>
  BY DEF RunTask, RunSend, RunSchedule, RunCancel, timerVars
<1>4. \A k \in DOMAIN tasks' :
        k \in Nat /\ k >= 1 /\ k + 1 \in DOMAIN tasks /\ tasks'[k] = tasks[k + 1]
  BY <1>1, TasksPopped
<1> HIDE DEF t
<1>5. TimerIds'
  <2>1. task' # None => \E q \in Request : rid'[q] = task'
    BY <1>1, <1>2, <1>3 DEF DeadlineInv, TimerIds
  <2>2. QED BY <1>1, <1>4, <2>1 DEF DeadlineInv, TimerIds
<1>6. ASSUME DistinctIds', NEW r \in Request, rid'[r] # None PROVE DeadlineOrder(r)'
  <2>1. DeadlineOrder(r) BY <1>1, <1>6 DEF DeadlineInv, DistinctIds
  <2>2. Deadline(r)' = Deadline(r) BY <1>1 DEF Deadline
  <2>3. DeadlineRun(r) => DeadlineRun(r)' BY <1>1, <1>4, <2>2 DEF DeadlineRun
  <2>4. Past(r)' => DeadlineRun(r)'
    <3>1. CASE Past(r) BY <2>1, <2>3, <3>1 DEF DeadlineOrder
    <3>2. CASE t = Sending(r)
      <4>1. \A k \in DOMAIN tasks' : tasks'[k] # Deadline(r)
        <5>1. \A k \in DOMAIN tasks : tasks[k] = Deadline(r) => k < 1
          BY <1>2, <2>1, <3>2 DEF DeadlineOrder
        <5>2. QED BY <1>4, <5>1
      <4>2. Asked(r)
        <5>1. tasks[1].op = "send" /\ tasks[1].arg = r BY <1>2, <3>2 DEF Sending
        <5>2. QED BY <1>2, <5>1, WaitingWasAsked
      <4>3. \A c \in Caller : pc[c] = "schedule" => current[c] # r BY <4>2 DEF AskedInv
      <4>4. QED BY <1>1, <2>2, <4>1, <4>3 DEF DeadlineRun
    <3>3. CASE t = Deadline(r)
      <4>1. \A k \in DOMAIN tasks' : tasks'[k] # Deadline(r)
        <5>1. \A k \in DOMAIN tasks : tasks[k] = Deadline(r) => k = 1
          BY <1>2, <2>1, <3>3 DEF DeadlineOrder
        <5>2. QED BY <1>4, <5>1
      <4>2. \A c \in Caller : pc[c] = "schedule" => current[c] # r
        BY <1>2, <2>1, <3>3 DEF DeadlineOrder
      <4>3. QED BY <1>1, <2>2, <4>1, <4>2 DEF DeadlineRun
    <3>4. CASE ~Past(r) /\ t # Sending(r) /\ t # Deadline(r)
      <4>1. task' # rid'[r]
        BY <1>1, <1>2, <1>3, <3>4 DEF Past, Deadline, Task
      <4>2. \A k \in DOMAIN msgQueue' : msgQueue'[k] # r
        <5>1. CASE UNCHANGED msgQueue BY <3>4, <5>1 DEF Past
        <5>2. CASE t.op = "send" /\ msgQueue' = Append(msgQueue, t.arg)
          <6>1. t.arg # r /\ t.arg \in Message BY <1>2, <3>4, <5>2 DEF Sending, Task
          <6>2. msgQueue \in Seq(Message) BY QueueFacts
          <6>3. QED BY <3>4, <5>2, <6>1, <6>2 DEF Past
        <5>3. QED BY <1>3, <5>1, <5>2
      <4>3. QED BY <1>1, <3>4, <4>1, <4>2 DEF Past, Wired
    <3>5. QED BY <3>1, <3>2, <3>3, <3>4
  <2>5. \A j, k \in DOMAIN tasks' :
          /\ tasks'[j] = Deadline(r) /\ tasks'[k] = Deadline(r) => j = k
          /\ tasks'[j] = Deadline(r) /\ tasks'[k] = Sending(r) => j < k
    <3>1. ASSUME NEW j \in DOMAIN tasks', NEW k \in DOMAIN tasks', tasks'[j] = Deadline(r)
          PROVE  /\ tasks'[k] = Deadline(r) => j = k
                 /\ tasks'[k] = Sending(r) => j < k
      <4>1. /\ j \in Nat /\ k \in Nat /\ j + 1 \in DOMAIN tasks /\ k + 1 \in DOMAIN tasks
            /\ tasks'[j] = tasks[j + 1] /\ tasks'[k] = tasks[k + 1]
        BY <1>4
      <4>2. tasks'[k] = Deadline(r) => j + 1 = k + 1 BY <2>1, <3>1, <4>1 DEF DeadlineOrder
      <4>3. tasks'[k] = Sending(r) => j + 1 < k + 1 BY <2>1, <3>1, <4>1 DEF DeadlineOrder
      <4>4. QED BY <4>1, <4>2, <4>3
    <3>2. QED BY <3>1
  <2>6. \A c \in Caller : pc'[c] = "schedule" /\ current'[c] = r =>
          \A k \in DOMAIN tasks' : tasks'[k] # Deadline(r)
    BY <1>1, <1>4, <2>1 DEF DeadlineOrder
  <2>7. Sending(r)' = Sending(r) BY DEF Sending
  <2>8. QED BY <2>2, <2>4, <2>5, <2>6, <2>7 DEF DeadlineOrder
<1>7. QED BY <1>5, <1>6 DEF DeadlineInv

(* DeadlineInv is inductive, relative to what is known of the table, of    *)
(* the queues and of the wire.                                             *)
LEMMA NextDeadlineInv ==
  ASSUME BaseInv, TableInv, SendInv, AskedInv, AnswerInv, WireInv, DeadlineInv, Next
  PROVE  DeadlineInv'
<1> fault = "none" BY DEF Next
<1> TransportTypeOK /\ PeerTypeOK BY DEF BaseInv, TypeOK
<1> USE PeerAssumption
<1>1. ASSUME NEW c \in Caller, CallerStep(c) PROVE DeadlineInv'
  <2>1. ASSUME NEW r \in Request, NEW i \in Id, RequestBegins(c, r, i) PROVE DeadlineInv'
    BY <2>1, BeginKeepsDeadlines
  <2>2. CASE RequestSchedules(c) BY <2>2, ScheduleKeepsDeadlines
  <2>3. CASE RequestSends(c)
    <3>1. current[c] \in Message BY <2>3 DEF RequestSends, BaseInv, CallersInv
    <3>2. Sending(current[c]) \in Task /\ Sending(current[c]).op # "schedule"
      BY <3>1 DEF Sending, Task
    <3>3. /\ tasks' = Append(tasks, Sending(current[c]))
          /\ UNCHANGED <<rid, current, future, msgQueue, written, task>>
          /\ \A d \in Caller : pc'[d] = "schedule" => pc[d] = "schedule"
      BY <2>3
      DEF RequestSends, Send, InvokeTask, Sending, timerVars, tableVars, PeerTypeOK
    <3>4. QED BY <3>2, <3>3, PushKeepsDeadlines
  <2>4. ASSUME NEW n \in Notification, Notify(c, n) PROVE DeadlineInv'
    <3>1. Sending(n) \in Task /\ Sending(n).op # "schedule" BY DEF Sending, Task
    <3>2. /\ tasks' = Append(tasks, Sending(n))
          /\ UNCHANGED <<pc, rid, current, future, msgQueue, written, task>>
      BY <2>4
      DEF Notify, Send, InvokeTask, Sending, timerVars, peerVars, callVars, tableVars
    <3>3. QED BY <3>1, <3>2, PushKeepsDeadlines
  <2>5. CASE GetReturns(c)
    <3>1. /\ UNCHANGED <<tasks, rid, task, future, msgQueue, written>>
          /\ \A d \in Caller :
               pc'[d] = "schedule" => pc[d] = "schedule" /\ current'[d] = current[d]
      BY <2>5
      DEF GetReturns, transportVars, queueVars, timerVars, tableVars, PeerTypeOK
    <3>2. QED BY <3>1, DeadlineFrame DEF Past, Wired
  <2>6. QED BY <1>1, <2>1, <2>2, <2>3, <2>4, <2>5 DEF CallerStep
<1>2. CASE CancelTimeout
  <2>1. [op |-> "cancel"] \in Task BY DEF Task
  <2>2. /\ tasks' = Append(tasks, [op |-> "cancel"])
        /\ UNCHANGED <<pc, rid, current, future, msgQueue, written, task>>
    BY <1>2 DEF CancelTimeout, CancelScheduledTask, InvokeTask, timerVars, callVars
  <2>3. QED BY <2>1, <2>2, PushKeepsDeadlines
<1>3. CASE RunTask /\ UNCHANGED peerVars BY <1>3, RunKeepsDeadlines
<1>4. ASSUME UNCHANGED <<tasks, rid, task, pc, current>>,
             DistinctIds => \A r \in Request : rid[r] # None /\ Past(r)' => Past(r)
      PROVE  DeadlineInv'
  BY <1>4, DeadlineFrame
<1>5. ASSUME UNCHANGED <<tasks, rid, task, pc, current, msgQueue, written>>,
             \A r \in Request : future'[r] = future[r] \/ future'[r] = "broken"
      PROVE  DeadlineInv'
  BY <1>4, <1>5 DEF Past, Wired
<1>6. CASE RequestReachesServer
  <2>1. UNCHANGED <<tasks, rid, task, pc, current, future>>
    BY <1>6
    DEF RequestReachesServer, ClientWriteable, timerVars, callVars, tableVars
  <2>2. ClientWriteable BY <1>6 DEF RequestReachesServer
  <2>3. ASSUME NEW r \in Request, Past(r)' PROVE Past(r)
    <3>1. CASE msgQueue = <<>>
      BY <2>1, <2>2, <2>3, <3>1 DEF ClientWriteable, Past, Wired
    <3>2. CASE msgQueue # <<>>
      <4>1. msgQueue' = Tail(msgQueue) BY <2>2, <3>2 DEF ClientWriteable
      <4>2. \A k \in DOMAIN msgQueue' : k + 1 \in DOMAIN msgQueue /\ msgQueue'[k] = msgQueue[k + 1]
        BY <3>2, <4>1, QueueFacts
      <4>3. 1 \in DOMAIN msgQueue /\ Head(msgQueue) = msgQueue[1] BY <3>2, QueueFacts
      <4>4. Wired(r)' => Wired(r) \/ r = msgQueue[1] BY <2>2, <4>3, WriteFront
      <4>5. QED BY <2>1, <2>3, <4>2, <4>3, <4>4 DEF Past
    <3>3. QED BY <3>1, <3>2
  <2>4. QED BY <1>4, <2>1, <2>3
<1>7. CASE HandleResponse
  <2> DEFINE r == promises[rx.id]
  <2>1. /\ rx.id \in Id /\ r # None /\ r \in Request
        /\ UNCHANGED <<tasks, rid, task, pc, current, msgQueue, written>>
        /\ future' = [future EXCEPT ![r] = IF rx.ok THEN "value" ELSE "error"]
    BY <1>7
    DEF HandleResponse, Satisfy, queueVars, timerVars, callVars, PeerTypeOK, Response
  <2>2. rid[r] = rx.id BY <2>1 DEF TableInv, TableTracksPending
  <2>3. ASSUME DistinctIds PROVE Wired(r)
    <3>1. PICK q \in Request : rid[q] = rx.id /\ rx.ok \in answers[q]
      BY <1>7 DEF HandleResponse, AnswerInv
    <3>2. q = r BY <2>1, <2>2, <2>3, <3>1 DEF DistinctIds
    <3>3. QED BY <3>1, <3>2 DEF WireInv
  <2> HIDE DEF r
  <2>4. ASSUME DistinctIds, NEW q \in Request, Past(q)' PROVE Past(q)
    <3>1. CASE q = r BY <2>3, <2>4, <3>1 DEF Past
    <3>2. CASE q # r
      <4>1. future'[q] = future[q] BY <2>1, <3>2 DEF PeerTypeOK
      <4>2. QED BY <2>1, <2>4, <4>1 DEF Past, Wired
    <3>3. QED BY <3>1, <3>2
  <2>5. QED BY <1>4, <2>1, <2>4
<1>8. CASE HandleTimeout
  <2> DEFINE r == promises[task]
  <2>1. /\ task \in Id /\ r # None /\ r \in Request
        /\ UNCHANGED <<tasks, rid, task, pc, current, msgQueue, written>>
        /\ future' = [future EXCEPT ![r] = "timeout"]
    BY <1>8
    DEF HandleTimeout, Satisfy, queueVars, timerVars, callVars, PeerTypeOK, BaseInv,
        HandlerInv, TransportTypeOK, TimerTypeOK
  <2>2. rid[r] = task BY <2>1 DEF TableInv, TableTracksPending
  <2> HIDE DEF r
  <2>3. ASSUME NEW q \in Request, Past(q)' PROVE Past(q)
    <3>1. CASE q = r BY <2>2, <3>1 DEF Past
    <3>2. CASE q # r
      <4>1. future'[q] = future[q] BY <2>1, <3>2 DEF PeerTypeOK
      <4>2. QED BY <2>1, <2>3, <4>1 DEF Past, Wired
    <3>3. QED BY <3>1, <3>2
  <2>4. QED BY <1>4, <2>1, <2>3
<1>9. CASE EraseEntry \/ PeerDestructorEnds
  BY <1>5, <1>9
  DEF EraseEntry, CallbackReturns, PeerDestructorEnds, EndDestructor, Break, queueVars,
      timerVars, callVars
<1>10. CASE \/ PeerDestructorBegins \/ OnConnection \/ OnOtherMessage \/ NoEntry
            \/ EntryHidden \/ CancelOnNull \/ ConnectionEnds
  BY <1>5, <1>10
  DEF PeerDestructorBegins, BeginDestructor, OnConnection, OnOtherMessage, NoEntry,
      EntryHidden, CancelOnNull, LooksUp, CallbackReturns, ConnectionEnds,
      ConnectionClosed, DestroyContext, queueVars, timerVars, peerVars, callVars,
      tableVars
<1>11. CASE ServerStep
  BY <1>5, <1>11
  DEF ServerStep, ServerAnswers, ServerSpeaks, ReceiveFinal, queueVars, timerVars,
      callVars, tableVars
<1>12. CASE ServiceStep /\ ~RunTask /\ UNCHANGED peerVars
  <2>1. UNCHANGED <<tasks, task, msgQueue, written>>
    BY <1>12
    DEF ServiceStep, CreateContext, ServiceReturns, ServiceFails, DumpThrows, TasksDone,
        ConnectSulFires, ConnectClient, ConnectionEstablished, ConnectionError,
        PeerInitiatedClose, ReceiveFragment, TimerFires, queueVars, timerVars
  <2>2. QED BY <1>5, <1>12, <2>1 DEF peerVars, callVars, tableVars
<1>13. QED
  BY <1>1, <1>2, <1>3, <1>6, <1>7, <1>8, <1>9, <1>10, <1>11, <1>12 DEF Next, ListenerStep

(* DeadlineInv holds of every behaviour.                                   *)
LEMMA DeadlineAlways == Spec => []DeadlineInv
<1>1. Init => DeadlineInv BY DEF Init, TransportInit, DeadlineInv, TimerIds
<1>2. DeadlineInv /\ UNCHANGED vars => DeadlineInv'
  BY DeadlineFrame
  DEF Past, Wired, vars, transportVars, queueVars, timerVars, peerVars, callVars,
      tableVars
<1>3. QED
  BY <1>1, <1>2, NextDeadlineInv, BaseAlways, TableAlways, SendAlways, AskedAlways,
     AnswerAlways, WireAlways, PTL
  DEF Spec

(* No request goes out before its deadline was set, and none is set for a  *)
(* request that has ended.                                                 *)
THEOREM DeadlineFirstCorrect == Spec => []DeadlineFirst
<1>1. BaseInv /\ TableInv /\ SendInv /\ AskedInv /\ DeadlineInv => DeadlineFirst
  <2> SUFFICES ASSUME BaseInv, TableInv, SendInv, AskedInv, DeadlineInv, DistinctIds,
                      NEW r \in Request, Wired(r) \/ future[r] \in {"value", "error", "timeout"}
               PROVE  DeadlineRun(r)
    BY DEF DeadlineFirst
  <2> TransportTypeOK BY DEF BaseInv, TypeOK
  <2>1. CASE Wired(r)
    <3>1. Asked(r) BY <2>1, QueuedWasAsked
    <3>2. rid[r] # None BY <3>1 DEF AskedInv, Asked, Made
    <3>3. QED BY <2>1, <3>2 DEF DeadlineInv, DeadlineOrder, Past
  <2>2. CASE future[r] \in {"value", "error", "timeout"}
    BY <2>2 DEF TableInv, DeadlineInv, DeadlineOrder, Past
  <2>3. QED BY <2>1, <2>2
<1>2. QED
  BY <1>1, BaseAlways, TableAlways, SendAlways, AskedAlways, DeadlineAlways, PTL
-----------------------------------------------------------------------------
(* What may take a deadline away. *)

(* A task handed over leaves a deadline in force, or takes its place.      *)
LEMMA CoverPushed ==
  ASSUME TransportTypeOK, NEW t \in Task, tasks' = Append(tasks, t),
         UNCHANGED <<rid, timer, task>>, NEW r \in Request, Covered(r)
  PROVE  Covered(r)' \/ Overridden(r)'
<1>1. Deadline(r)' = Deadline(r) BY DEF Deadline
<1>2. \A k : k \in TimerTasks' <=>
        k \in TimerTasks \/ (k = Len(tasks) + 1 /\ t.op # "send")
  BY TasksPushed DEF TimerTasks
<1>3. \A k \in TimerTasks : k \in Nat /\ k < Len(tasks) + 1 /\ tasks'[k] = tasks[k]
  BY TasksPushed DEF TimerTasks
<1>4. CASE t.op = "send"
  <2>1. TimerTasks' = TimerTasks BY <1>2, <1>4
  <2>2. QED BY <1>1, <1>3, <2>1 DEF Covered, Last
<1>5. CASE t.op # "send"
  <2>1. PICK n \in Nat : n = Len(tasks) + 1 BY QueueFacts
  <2>2. n \in TimerTasks' BY <1>2, <1>5, <2>1
  <2>3. \A j \in TimerTasks' : j <= n BY <1>2, <1>3, <2>1
  <2>4. Last(n)' BY <2>2, <2>3 DEF Last
  <2>5. QED BY <2>2, <2>4 DEF Covered, Overridden
<1>6. QED BY <1>4, <1>5

(* A task that runs leaves it in force; its own sets the timer.            *)
LEMMA CoverPopped ==
  ASSUME TransportTypeOK, RunTask, UNCHANGED rid, NEW r \in Request, Covered(r)
  PROVE  Covered(r)'
<1> DEFINE t == Head(tasks)
<1>1. tasks # <<>> /\ tasks' = Tail(tasks) BY DEF RunTask
<1>2. 1 \in DOMAIN tasks /\ tasks[1] = t BY <1>1, TasksPopped
<1>3. \/ t.op = "send" /\ UNCHANGED <<timer, task>>
      \/ t.op = "schedule" /\ timer' = TRUE /\ task' = t.arg
      \/ t.op = "cancel"
  BY DEF RunTask, RunSend, RunSchedule, RunCancel, timerVars
<1>4. \A k \in DOMAIN tasks' :
        k \in Nat /\ k >= 1 /\ k + 1 \in DOMAIN tasks /\ tasks'[k] = tasks[k + 1]
  BY <1>1, TasksPopped
<1>5. \A k \in DOMAIN tasks : k # 1 => k - 1 \in DOMAIN tasks' /\ k \in Nat
  BY <1>1, QueueFacts
<1>6. Deadline(r)' = Deadline(r) BY DEF Deadline
<1> HIDE DEF t
<1>7. \A k \in TimerTasks' : k \in Nat /\ k >= 1 /\ k + 1 \in TimerTasks BY <1>4
  DEF TimerTasks
<1>8. \A k \in TimerTasks : k # 1 =>
        k \in Nat /\ k - 1 \in TimerTasks' /\ tasks'[k - 1] = tasks[k]
  BY <1>4, <1>5 DEF TimerTasks
<1>9. CASE TimerTasks = {} /\ timer /\ task = rid[r]
  <2>1. t.op = "send" BY <1>2, <1>9 DEF TimerTasks
  <2>2. TimerTasks' = {} BY <1>7, <1>9
  <2>3. QED BY <1>3, <1>9, <2>1, <2>2 DEF Covered
<1>10. ASSUME NEW k \in TimerTasks, Last(k), tasks[k] = Deadline(r) PROVE Covered(r)'
  <2>1. CASE k = 1
    <3>1. t = Deadline(r) BY <1>2, <1>10, <2>1
    <3>2. timer' /\ task' = rid'[r] BY <1>3, <3>1 DEF Deadline
    <3>3. TimerTasks' = {} BY <1>7, <1>10, <2>1 DEF Last
    <3>4. QED BY <3>2, <3>3 DEF Covered
  <2>2. CASE k # 1
    <3>1. k \in Nat /\ k - 1 \in TimerTasks' /\ tasks'[k - 1] = Deadline(r)'
      BY <1>6, <1>8, <1>10, <2>2
    <3>2. \A j \in TimerTasks' : j + 1 <= k BY <1>7, <1>10 DEF Last
    <3>3. \A j \in TimerTasks' : j <= k - 1 BY <1>7, <3>1, <3>2
    <3>4. Last(k - 1)' BY <3>1, <3>3 DEF Last
    <3>5. QED BY <3>1, <3>4 DEF Covered
  <2>3. QED BY <2>1, <2>2
<1>11. QED BY <1>9, <1>10 DEF Covered

(* The closure that runs the deadline of a request ends the request.       *)
LEMMA DueEnds ==
  ASSUME BaseInv, TableInv, Next, NEW r \in Request, Pending(r), r \notin leaked, Due(r)
  PROVE  ~Pending(r)' \/ Due(r)' \/ (r \in leaked)'
<1> USE PeerAssumption
<1> PeerTypeOK /\ HandlerInv BY DEF BaseInv, TypeOK
<1>1. thread = "callback" /\ upcall = "timeout" /\ handler = "idle" /\ task = rid[r]
  BY DEF Due, HandlerInv
<1>2. promises[task] = r BY <1>1 DEF TableInv, TableTracksPending
<1>3. ASSUME NEW c \in Caller, CallerStep(c) PROVE Due(r)'
  <2>1. UNCHANGED <<upcall, handler, task>>
    BY <1>3
    DEF CallerStep, RequestBegins, RequestSchedules, ScheduleTask, RequestSends, Send,
        GetReturns, Notify, timerVars, tableVars, peerVars, transportVars, lifeVars
  <2>2. rid'[r] = rid[r]
    BY <1>3
    DEF CallerStep, RequestBegins, RequestSchedules, RequestSends, GetReturns, Notify,
        peerVars, callVars, Pending, PeerTypeOK
  <2>3. QED BY <2>1, <2>2 DEF Due
<1>4. CASE HandleTimeout
  BY <1>2, <1>4 DEF HandleTimeout, Satisfy, Pending, PeerTypeOK
<1>5. CASE PeerDestructorBegins
  BY <1>5
  DEF PeerDestructorBegins, BeginDestructor, Due, timerVars, peerVars, callVars,
      tableVars
<1>6. ~OnConnection /\ ~OnOtherMessage /\ ~NoEntry /\ ~HandleResponse /\ ~CancelTimeout
      /\ ~EraseEntry
  BY <1>1, <1>2
  DEF OnConnection, OnOtherMessage, NoEntry, HandledId, HandleResponse, CancelTimeout,
      EraseEntry
<1>7. ~PeerDestructorEnds /\ ~RequestReachesServer /\ ~ConnectionEnds /\ ~ServerStep
      /\ ~ServiceStep
  BY <1>1, ServiceStepFrame
  DEF PeerDestructorEnds, EndDestructor, RequestReachesServer, ClientWriteable,
      ConnectionEnds, ConnectionClosed, DestroyContext, ServerStep, ServerAnswers,
      ServerSpeaks, ReceiveFinal
<1>8. CASE EntryHidden
  BY <1>1, <1>2, <1>8 DEF EntryHidden, HandledId
<1>9. ~CancelOnNull BY <1>1 DEF CancelOnNull
<1>10. QED BY <1>3, <1>4, <1>5, <1>6, <1>7, <1>8, <1>9 DEF Next, ListenerStep

(* A deadline that is set, or on its way, stays so until its closure runs  *)
(* or another timer task comes.                                            *)
LEMMA CoverStands ==
  ASSUME BaseInv, Next, NEW r \in Request, Pending(r), Covered(r)
  PROVE  Covered(r)' \/ Due(r)' \/ Overridden(r)'
<1> USE PeerAssumption
<1> TransportTypeOK /\ PeerTypeOK /\ HandlerInv BY DEF BaseInv, TypeOK
<1>1. ASSUME UNCHANGED <<tasks, timer, task>>, rid'[r] = rid[r] PROVE Covered(r)'
  BY <1>1 DEF Covered, TimerTasks, Last, Deadline
<1>2. ASSUME NEW c \in Caller, CallerStep(c) PROVE Covered(r)' \/ Overridden(r)'
  <2>1. CASE \E q \in Request, i \in Id : RequestBegins(c, q, i)
    BY <1>1, <2>1 DEF RequestBegins, Pending, PeerTypeOK, queueVars, timerVars
  <2>2. CASE RequestSchedules(c)
    <3>1. rid[current[c]] \in Closure BY <2>2
      DEF RequestSchedules, BaseInv, CallersInv, PeerTypeOK
    <3>2. Deadline(current[c]) \in Task BY <3>1 DEF Deadline, Task
    <3>3. tasks' = Append(tasks, Deadline(current[c])) /\ UNCHANGED <<rid, timer, task>>
      BY <2>2 DEF RequestSchedules, ScheduleTask, InvokeTask, Deadline, timerVars
    <3>4. QED BY <3>2, <3>3, CoverPushed
  <2>3. CASE RequestSends(c)
    <3>1. Sending(current[c]) \in Task
      BY <2>3 DEF RequestSends, BaseInv, CallersInv, Sending, Task
    <3>2. tasks' = Append(tasks, Sending(current[c])) /\ UNCHANGED <<rid, timer, task>>
      BY <2>3 DEF RequestSends, Send, InvokeTask, Sending, timerVars
    <3>3. QED BY <3>1, <3>2, CoverPushed
  <2>4. ASSUME NEW n \in Notification, Notify(c, n) PROVE Covered(r)' \/ Overridden(r)'
    <3>1. Sending(n) \in Task BY DEF Sending, Task
    <3>2. tasks' = Append(tasks, Sending(n)) /\ UNCHANGED <<rid, timer, task>>
      BY <2>4 DEF Notify, Send, InvokeTask, Sending, timerVars, peerVars, callVars
    <3>3. QED BY <3>1, <3>2, CoverPushed
  <2>5. CASE GetReturns(c)
    BY <1>1, <2>5 DEF GetReturns, transportVars, queueVars, timerVars
  <2>6. QED BY <1>2, <2>1, <2>2, <2>3, <2>4, <2>5 DEF CallerStep
<1>3. CASE CancelTimeout
  <2>1. [op |-> "cancel"] \in Task BY DEF Task
  <2>2. tasks' = Append(tasks, [op |-> "cancel"]) /\ UNCHANGED <<rid, timer, task>>
    BY <1>3 DEF CancelTimeout, CancelScheduledTask, InvokeTask, timerVars, callVars
  <2>3. QED BY <2>1, <2>2, CoverPushed
<1>4. CASE ServiceStep /\ UNCHANGED peerVars
  <2>1. UNCHANGED <<rid, handler>> BY <1>4 DEF peerVars, callVars, tableVars
  <2>2. CASE RunTask BY <2>1, <2>2, CoverPopped
  <2>3. CASE TimerFires
    <3>1. upcall' = "timeout" /\ UNCHANGED <<tasks, task>> /\ handler = "idle"
      BY <2>3 DEF TimerFires, Upcall, queueVars, HandlerInv
    <3>2. QED BY <2>1, <3>1 DEF Covered, Due, TimerTasks, Last, Deadline
  <2>4. CASE ~RunTask /\ ~TimerFires
    <3>1. UNCHANGED <<tasks, timer, task>>
      BY <1>4, <2>4
      DEF ServiceStep, CreateContext, ServiceReturns, ServiceFails, DumpThrows,
          TasksDone, ConnectSulFires, ConnectClient, ConnectionEstablished,
          ConnectionError, PeerInitiatedClose, ReceiveFragment, queueVars, timerVars
    <3>2. QED BY <1>1, <2>1, <3>1
  <2>5. QED BY <2>2, <2>3, <2>4
<1>5. CASE PeerDestructorBegins \/ PeerDestructorEnds
  BY <1>1, <1>5
  DEF PeerDestructorBegins, BeginDestructor, PeerDestructorEnds, EndDestructor,
      queueVars, timerVars, peerVars, callVars
<1>6. CASE ListenerStep /\ ~CancelTimeout
  BY <1>1, <1>6
  DEF ListenerStep, OnConnection, OnOtherMessage, NoEntry, EntryHidden, LooksUp,
      CallbackReturns, HandleResponse, HandleTimeout, Satisfy, CancelOnNull, EraseEntry,
      queueVars, timerVars, peerVars, callVars
<1>7. CASE RequestReachesServer \/ ConnectionEnds \/ ServerStep
  BY <1>1, <1>7
  DEF RequestReachesServer, ClientWriteable, ConnectionEnds, ConnectionClosed,
      DestroyContext, ServerStep, ServerAnswers, ServerSpeaks, ReceiveFinal, queueVars,
      timerVars, callVars
<1>8. QED BY <1>2, <1>3, <1>4, <1>5, <1>6, <1>7 DEF Next

(* Nothing but another timer task takes the deadline from a request that   *)
(* waits, for any number of requests and callers: the safety that          *)
(* TimeoutWorks rests on.                                                  *)
THEOREM DeadlineStandsCorrect == Spec => DeadlineStands
<1> DEFINE Stands ==
      \A r \in Request :
        Pending(r) /\ r \notin leaked /\ (Covered(r) \/ Due(r)) =>
          ~Pending(r)' \/ Covered(r)' \/ Due(r)' \/ Overridden(r)' \/ (r \in leaked)'
<1>1. BaseInv /\ TableInv /\ [Next]_vars => [Stands]_vars BY DueEnds, CoverStands
<1>2. QED BY <1>1, BaseAlways, TableAlways, PTL DEF Spec, DeadlineStands
=============================================================================
