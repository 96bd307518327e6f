---------------------- MODULE WebSocketTransportProofs ----------------------
(***************************************************************************)
(* Proofs about WebSocketTransport, for any set of messages and closures,  *)
(* any bound on pending tasks and any bound on retry_count.                *)
(***************************************************************************)
EXTENDS WebSocketTransport, SequenceTheorems, TLAPS

(* do_retry keeps the counter within its bound.                            *)
LEMMA RetryCountBounded ==
  ASSUME TransportTypeOK, ScheduleRetry
  PROVE  connectSul' \in BOOLEAN /\ retryCount' \in 0 .. MaxRetry
BY MaxRetryAssumption DEF TransportTypeOK, ConnTypeOK, ScheduleRetry

(* Steps of the service thread that no listener takes part in.             *)
LEMMA ServiceStepTypeOK ==
  ASSUME TransportTypeOK, ServiceStep
  PROVE  TransportTypeOK'
<1> USE DEF TransportTypeOK, lifeVars, connVars, queueVars, timerVars
<1>1. CASE CreateContext
  <2>1. LifeTypeOK' BY <1>1 DEF CreateContext, LifeTypeOK
  <2>2. ConnTypeOK' BY <1>1 DEF CreateContext, ConnTypeOK
  <2>3. QueueTypeOK' BY <1>1 DEF CreateContext, QueueTypeOK
  <2>4. TimerTypeOK' BY <1>1 DEF CreateContext, TimerTypeOK
  <2>5. QED BY <2>1, <2>2, <2>3, <2>4
<1>2. CASE ServiceReturns
  <2>1. LifeTypeOK' BY <1>2 DEF ServiceReturns, LifeTypeOK
  <2>2. ConnTypeOK' BY <1>2 DEF ServiceReturns, ConnTypeOK
  <2>3. QueueTypeOK' BY <1>2 DEF ServiceReturns, QueueTypeOK
  <2>4. TimerTypeOK' BY <1>2 DEF ServiceReturns, TimerTypeOK
  <2>5. QED BY <2>1, <2>2, <2>3, <2>4
<1>3. CASE ServiceFails
  <2>1. LifeTypeOK' BY <1>3 DEF ServiceFails, LifeTypeOK
  <2>2. ConnTypeOK' BY <1>3 DEF ServiceFails, ConnTypeOK
  <2>3. QueueTypeOK' BY <1>3 DEF ServiceFails, QueueTypeOK
  <2>4. TimerTypeOK' BY <1>3 DEF ServiceFails, TimerTypeOK
  <2>5. QED BY <2>1, <2>2, <2>3, <2>4
<1>4. CASE RunTask
  <2>1. /\ tasks' \in Seq(Task)
        /\ Head(tasks) \in Task
        /\ UNCHANGED <<thread, upcall, context, closed, owner, connVars, sent, written>>
    BY <1>4 DEF RunTask, QueueTypeOK
  <2>2. ConnTypeOK' BY <2>1 DEF ConnTypeOK
  <2>3. ASSUME NEW t \in Task, t = Head(tasks), t.op = "send", RunSend(t.arg)
        PROVE  LifeTypeOK' /\ QueueTypeOK' /\ TimerTypeOK'
    <3>1. t.arg \in Message BY <2>3 DEF Task
    <3>2. LifeTypeOK' BY <2>1, <2>3 DEF RunSend, LifeTypeOK
    <3>3. writable' \in BOOLEAN /\ msgQueue' \in Seq(Message)
      BY <2>3, <3>1 DEF RunSend, QueueTypeOK
    <3>4. QED BY <2>1, <2>3, <3>2, <3>3 DEF RunSend, QueueTypeOK, TimerTypeOK
  <2>4. ASSUME NEW t \in Task, t = Head(tasks), t.op = "schedule", RunSchedule(t.arg)
        PROVE  LifeTypeOK' /\ QueueTypeOK' /\ TimerTypeOK'
    <3>1. t.arg \in Closure BY <2>4 DEF Task
    <3>2. LifeTypeOK' BY <2>1, <2>4 DEF RunSchedule, LifeTypeOK
    <3>3. QED BY <2>1, <2>4, <3>1, <3>2 DEF RunSchedule, QueueTypeOK, TimerTypeOK
  <2>5. ASSUME RunCancel PROVE LifeTypeOK' /\ QueueTypeOK' /\ TimerTypeOK'
    <3>1. LifeTypeOK' BY <2>1, <2>5 DEF RunCancel, LifeTypeOK
    <3>2. QED BY <2>1, <2>5, <3>1 DEF RunCancel, QueueTypeOK, TimerTypeOK
  <2>6. QED BY <1>4, <2>1, <2>2, <2>3, <2>4, <2>5 DEF RunTask
<1>5. CASE TasksDone
  <2>1. LifeTypeOK' BY <1>5 DEF TasksDone, LifeTypeOK
  <2>2. ConnTypeOK' BY <1>5 DEF TasksDone, ConnTypeOK
  <2>3. QueueTypeOK' BY <1>5 DEF TasksDone, QueueTypeOK
  <2>4. TimerTypeOK' BY <1>5 DEF TasksDone, TimerTypeOK
  <2>5. QED BY <2>1, <2>2, <2>3, <2>4
<1>6. CASE ConnectSulFires
  <2>1. LifeTypeOK' BY <1>6 DEF ConnectSulFires, LifeTypeOK
  <2>2. ConnTypeOK' BY <1>6 DEF ConnectSulFires, ConnTypeOK
  <2>3. QueueTypeOK' BY <1>6 DEF ConnectSulFires, QueueTypeOK
  <2>4. TimerTypeOK' BY <1>6 DEF ConnectSulFires, TimerTypeOK
  <2>5. QED BY <2>1, <2>2, <2>3, <2>4
<1>7. CASE ConnectClient
  <2>1. LifeTypeOK' BY <1>7 DEF ConnectClient, Upcall, LifeTypeOK
  <2>2. CASE ScheduleRetry
    <3>1. connectSul' \in BOOLEAN /\ retryCount' \in 0 .. MaxRetry
      BY <2>2, RetryCountBounded
    <3>2. QED BY <3>1, <1>7, <2>1 DEF ConnectClient, Upcall, ConnTypeOK, QueueTypeOK, TimerTypeOK
  <2>3. CASE UNCHANGED <<connectSul, retryCount>>
    BY <2>3, <1>7, <2>1 DEF ConnectClient, Upcall, ConnTypeOK, QueueTypeOK, TimerTypeOK
  <2>4. QED BY <1>7, <2>2, <2>3 DEF ConnectClient
<1>8. CASE ConnectionEstablished
  <2>1. LifeTypeOK' BY <1>8 DEF ConnectionEstablished, Upcall, LifeTypeOK
  <2>2. ConnTypeOK' BY <1>8 DEF ConnectionEstablished, Upcall, ConnTypeOK
  <2>3. QueueTypeOK' BY <1>8 DEF ConnectionEstablished, Upcall, QueueTypeOK
  <2>4. TimerTypeOK' BY <1>8 DEF ConnectionEstablished, Upcall, TimerTypeOK
  <2>5. QED BY <2>1, <2>2, <2>3, <2>4
<1>9. CASE ConnectionError
  <2>1. LifeTypeOK' BY <1>9 DEF ConnectionError, DropConnection, Upcall, LifeTypeOK
  <2>2. ConnTypeOK' BY <1>9 DEF ConnectionError, DropConnection, Upcall, ConnTypeOK
  <2>3. QueueTypeOK' BY <1>9 DEF ConnectionError, DropConnection, Upcall, QueueTypeOK
  <2>4. TimerTypeOK' BY <1>9 DEF ConnectionError, DropConnection, Upcall, TimerTypeOK
  <2>5. QED BY <2>1, <2>2, <2>3, <2>4
<1>10. CASE PeerInitiatedClose
  <2>1. LifeTypeOK' BY <1>10 DEF PeerInitiatedClose, LifeTypeOK
  <2>2. ConnTypeOK' BY <1>10 DEF PeerInitiatedClose, ConnTypeOK
  <2>3. QueueTypeOK' BY <1>10 DEF PeerInitiatedClose, QueueTypeOK
  <2>4. TimerTypeOK' BY <1>10 DEF PeerInitiatedClose, TimerTypeOK
  <2>5. QED BY <2>1, <2>2, <2>3, <2>4
<1>11. CASE ReceiveFragment
  <2>1. LifeTypeOK' BY <1>11 DEF ReceiveFragment, LifeTypeOK
  <2>2. ConnTypeOK' BY <1>11 DEF ReceiveFragment, ConnTypeOK
  <2>3. QueueTypeOK' BY <1>11 DEF ReceiveFragment, QueueTypeOK
  <2>4. TimerTypeOK' BY <1>11 DEF ReceiveFragment, TimerTypeOK
  <2>5. QED BY <2>1, <2>2, <2>3, <2>4
<1>12. CASE TimerFires
  <2>1. LifeTypeOK' BY <1>12 DEF TimerFires, Upcall, LifeTypeOK
  <2>2. ConnTypeOK' BY <1>12 DEF TimerFires, Upcall, ConnTypeOK
  <2>3. QueueTypeOK' BY <1>12 DEF TimerFires, Upcall, QueueTypeOK
  <2>4. TimerTypeOK' BY <1>12 DEF TimerFires, Upcall, TimerTypeOK
  <2>5. QED BY <2>1, <2>2, <2>3, <2>4
<1>13. CASE DumpThrows
  <2>1. LifeTypeOK' BY <1>13 DEF DumpThrows, LifeTypeOK
  <2>2. ConnTypeOK' BY <1>13 DEF DumpThrows, ConnTypeOK
  <2>3. QueueTypeOK' BY <1>13 DEF DumpThrows, QueueTypeOK
  <2>4. TimerTypeOK' BY <1>13 DEF DumpThrows, TimerTypeOK
  <2>5. QED BY <2>1, <2>2, <2>3, <2>4
<1>14. QED
  BY <1>1, <1>2, <1>3, <1>4, <1>5, <1>6, <1>7, <1>8, <1>9, <1>10, <1>11, <1>12, <1>13
  DEF ServiceStep

(* Steps that a listener, the server or the owner has a part in.           *)
LEMMA EventTypeOK ==
  ASSUME TransportTypeOK,
         DestroyContext \/ ConnectionClosed \/ ClientWriteable
           \/ (\E parses \in BOOLEAN : ReceiveFinal(parses))
           \/ CallbackReturns \/ BeginDestructor \/ EndDestructor
  PROVE  TransportTypeOK'
<1> USE DEF TransportTypeOK, lifeVars, connVars, queueVars, timerVars
<1>1. CASE DestroyContext
  <2>1. LifeTypeOK' BY <1>1 DEF DestroyContext, LifeTypeOK
  <2>2. ConnTypeOK' BY <1>1 DEF DestroyContext, ConnTypeOK
  <2>3. QueueTypeOK' BY <1>1 DEF DestroyContext, QueueTypeOK
  <2>4. TimerTypeOK' BY <1>1 DEF DestroyContext, TimerTypeOK
  <2>5. QED BY <2>1, <2>2, <2>3, <2>4
<1>2. CASE ConnectionClosed
  <2>1. LifeTypeOK' BY <1>2 DEF ConnectionClosed, DropConnection, Upcall, LifeTypeOK
  <2>2. ConnTypeOK' BY <1>2 DEF ConnectionClosed, DropConnection, Upcall, ConnTypeOK
  <2>3. QueueTypeOK' BY <1>2 DEF ConnectionClosed, DropConnection, Upcall, QueueTypeOK
  <2>4. TimerTypeOK' BY <1>2 DEF ConnectionClosed, DropConnection, Upcall, TimerTypeOK
  <2>5. QED BY <2>1, <2>2, <2>3, <2>4
<1>3. CASE ClientWriteable
  <2>1. LifeTypeOK' BY <1>3 DEF ClientWriteable, LifeTypeOK
  <2>2. ConnTypeOK' BY <1>3 DEF ClientWriteable, ConnTypeOK
  <2>3. QueueTypeOK'
    <3>1. msgQueue' \in Seq(Message) /\ written' \in Seq(Message)
      <4>1. CASE msgQueue # <<>>
        <5>1. Head(msgQueue) \in Message /\ Tail(msgQueue) \in Seq(Message)
          BY <4>1 DEF QueueTypeOK
        <5>2. /\ msgQueue' = Tail(msgQueue)
              /\ written' = Append(written, Head(msgQueue))
          BY <1>3, <4>1 DEF ClientWriteable
        <5>3. QED BY <5>1, <5>2 DEF QueueTypeOK
      <4>2. QED BY <1>3, <4>1 DEF ClientWriteable, QueueTypeOK
    <3>2. QED BY <1>3, <3>1 DEF ClientWriteable, QueueTypeOK
  <2>4. TimerTypeOK' BY <1>3 DEF ClientWriteable, TimerTypeOK
  <2>5. QED BY <2>1, <2>2, <2>3, <2>4
<1>4. CASE \E parses \in BOOLEAN : ReceiveFinal(parses)
  <2>1. LifeTypeOK' BY <1>4 DEF ReceiveFinal, Upcall, LifeTypeOK
  <2>2. ConnTypeOK' BY <1>4 DEF ReceiveFinal, Upcall, ConnTypeOK
  <2>3. QueueTypeOK' BY <1>4 DEF ReceiveFinal, Upcall, QueueTypeOK
  <2>4. TimerTypeOK' BY <1>4 DEF ReceiveFinal, Upcall, TimerTypeOK
  <2>5. QED BY <2>1, <2>2, <2>3, <2>4
<1>5. CASE CallbackReturns
  <2>1. LifeTypeOK' BY <1>5 DEF CallbackReturns, LifeTypeOK
  <2>2. CASE ScheduleRetry
    <3>1. connectSul' \in BOOLEAN /\ retryCount' \in 0 .. MaxRetry
      BY <2>2, RetryCountBounded
    <3>2. QED BY <3>1, <1>5, <2>1 DEF CallbackReturns, ConnTypeOK, QueueTypeOK, TimerTypeOK
  <2>3. CASE UNCHANGED <<connectSul, retryCount>>
    BY <2>3, <1>5, <2>1 DEF CallbackReturns, ConnTypeOK, QueueTypeOK, TimerTypeOK
  <2>4. QED BY <1>5, <2>2, <2>3 DEF CallbackReturns
<1>6. CASE BeginDestructor
  <2>1. LifeTypeOK' BY <1>6 DEF BeginDestructor, LifeTypeOK
  <2>2. ConnTypeOK' BY <1>6 DEF BeginDestructor, ConnTypeOK
  <2>3. QueueTypeOK' BY <1>6 DEF BeginDestructor, QueueTypeOK
  <2>4. TimerTypeOK' BY <1>6 DEF BeginDestructor, TimerTypeOK
  <2>5. QED BY <2>1, <2>2, <2>3, <2>4
<1>7. CASE EndDestructor
  <2>1. LifeTypeOK' BY <1>7 DEF EndDestructor, LifeTypeOK
  <2>2. ConnTypeOK' BY <1>7 DEF EndDestructor, ConnTypeOK
  <2>3. QueueTypeOK' BY <1>7 DEF EndDestructor, QueueTypeOK
  <2>4. TimerTypeOK' BY <1>7 DEF EndDestructor, TimerTypeOK
  <2>5. QED BY <2>1, <2>2, <2>3, <2>4
<1>8. QED BY <1>1, <1>2, <1>3, <1>4, <1>5, <1>6, <1>7

(* Handing over a task keeps the types.                                    *)
LEMMA InvokeTaskTypeOK ==
  ASSUME TransportTypeOK, NEW t \in Task, InvokeTask(t),
         UNCHANGED <<thread, upcall, context, closed, owner, connVars,
                     msgQueue, writable, written, timerVars>>,
         sent' \in Seq(Message)
  PROVE  TransportTypeOK'
<1> USE DEF TransportTypeOK, InvokeTask, connVars, timerVars
<1>1. LifeTypeOK' BY DEF LifeTypeOK
<1>2. ConnTypeOK' BY DEF ConnTypeOK
<1>3. QueueTypeOK' BY DEF QueueTypeOK
<1>4. TimerTypeOK' BY DEF TimerTypeOK
<1>5. QED BY <1>1, <1>2, <1>3, <1>4

(* The calls of other threads keep the types.                              *)
LEMMA CallTypeOK ==
  ASSUME TransportTypeOK,
         \/ \E m \in Message : Send(m)
         \/ \E c \in Closure : ScheduleTask(c)
         \/ CancelScheduledTask
  PROVE  TransportTypeOK'
<1>1. ASSUME NEW m \in Message, Send(m) PROVE TransportTypeOK'
  <2>1. [op |-> "send", arg |-> m] \in Task BY DEF Task
  <2>2. sent' \in Seq(Message) BY <1>1 DEF Send, TransportTypeOK, QueueTypeOK
  <2>3. QED BY <1>1, <2>1, <2>2, InvokeTaskTypeOK DEF Send
<1>2. ASSUME NEW c \in Closure, ScheduleTask(c) PROVE TransportTypeOK'
  <2>1. [op |-> "schedule", arg |-> c] \in Task BY DEF Task
  <2>2. sent' \in Seq(Message) BY <1>2 DEF ScheduleTask, TransportTypeOK, QueueTypeOK
  <2>3. QED BY <1>2, <2>1, <2>2, InvokeTaskTypeOK DEF ScheduleTask
<1>3. CASE CancelScheduledTask
  <2>1. [op |-> "cancel"] \in Task BY DEF Task
  <2>2. sent' \in Seq(Message) BY <1>3 DEF CancelScheduledTask, TransportTypeOK, QueueTypeOK
  <2>3. QED BY <1>3, <2>1, <2>2, InvokeTaskTypeOK DEF CancelScheduledTask
<1>4. QED BY <1>1, <1>2, <1>3

(* The initial states are typed.                                           *)
LEMMA TransportInitTypeOK ==
  ASSUME TransportInit
  PROVE  TransportTypeOK
<1> USE DEF TransportInit
<1>1. LifeTypeOK BY DEF LifeTypeOK
<1>2. ConnTypeOK
  <2>1. 0 \in 0 .. MaxRetry BY MaxRetryAssumption
  <2>2. QED BY <2>1 DEF ConnTypeOK
<1>3. QueueTypeOK
  <2>1. \A S : <<>> \in Seq(S) OBVIOUS
  <2>2. QED BY <2>1 DEF QueueTypeOK
<1>4. TimerTypeOK BY DEF TimerTypeOK
<1>5. QED BY <1>1, <1>2, <1>3, <1>4 DEF TransportTypeOK

(* A stuttering step keeps the types.                                      *)
LEMMA TransportStutterTypeOK ==
  ASSUME TransportTypeOK, UNCHANGED transportVars
  PROVE  TransportTypeOK'
<1> USE DEF TransportTypeOK, transportVars, lifeVars, connVars, queueVars, timerVars
<1>1. LifeTypeOK' BY DEF LifeTypeOK
<1>2. ConnTypeOK' BY DEF ConnTypeOK
<1>3. QueueTypeOK' BY DEF QueueTypeOK
<1>4. TimerTypeOK' BY DEF TimerTypeOK
<1>5. QED BY <1>1, <1>2, <1>3, <1>4

(* Every variable of the transport keeps to its type (the module alone).   *)
THEOREM TransportTypeCorrect == TransportSpec => []TransportTypeOK
<1>1. TransportInit => TransportTypeOK BY TransportInitTypeOK
<1>2. TransportTypeOK /\ [TransportNext]_transportVars => TransportTypeOK'
  <2> SUFFICES ASSUME TransportTypeOK, [TransportNext]_transportVars
               PROVE  TransportTypeOK'
    OBVIOUS
  <2>1. CASE ServiceStep BY <2>1, ServiceStepTypeOK
  <2>2. CASE ClientCall BY <2>2, CallTypeOK DEF ClientCall
  <2>3. CASE UNCHANGED transportVars BY <2>3, TransportStutterTypeOK
  <2>4. QED BY <2>1, <2>2, <2>3, EventTypeOK DEF TransportNext
<1>3. QED BY <1>1, <1>2, PTL DEF TransportSpec
-----------------------------------------------------------------------------
(* RetryArmed is about the service loop only; what a step into the loop    *)
(* needs is known in the other places of the service thread.               *)
RetryInv ==
  /\ RetryArmed
  /\ thread \in {"start", "connect"} => conn = "idle" /\ ~connectSul
  /\ (thread = "callback" /\ context # "destroying") =>
       IF upcall \in {"onClosed", "onFailed"} THEN conn = "idle"
                                              ELSE connectSul <=> conn = "idle"

(* What the steps of the service thread do to it, whoever the listener is. *)
LEMMA RetryStep ==
  ASSUME TransportTypeOK, RetryInv,
         ServiceStep \/ DestroyContext \/ ConnectionClosed \/ ClientWriteable
           \/ (\E parses \in BOOLEAN : ReceiveFinal(parses))
           \/ CallbackReturns
  PROVE  RetryInv'
<1> USE DEF TransportTypeOK, RetryInv, RetryArmed, lifeVars, connVars, Upcall
<1>1. CASE CreateContext BY <1>1 DEF CreateContext
<1>2. CASE ServiceReturns BY <1>2 DEF ServiceReturns
<1>3. CASE ServiceFails BY <1>3 DEF ServiceFails
<1>4. CASE RunTask BY <1>4 DEF RunTask
<1>5. CASE TasksDone BY <1>5 DEF TasksDone, Draining
<1>6. CASE ConnectSulFires BY <1>6 DEF ConnectSulFires
<1>7. CASE ConnectClient BY <1>7 DEF ConnectClient, ScheduleRetry
<1>8. CASE ConnectionEstablished BY <1>8 DEF ConnectionEstablished
<1>9. CASE ConnectionError BY <1>9 DEF ConnectionError, DropConnection
<1>10. CASE PeerInitiatedClose BY <1>10 DEF PeerInitiatedClose
<1>11. CASE ReceiveFragment BY <1>11 DEF ReceiveFragment
<1>12. CASE TimerFires BY <1>12 DEF TimerFires
<1>13. CASE DestroyContext BY <1>13 DEF DestroyContext
<1>14. CASE ConnectionClosed BY <1>14 DEF ConnectionClosed, DropConnection
<1>15. CASE ClientWriteable BY <1>15 DEF ClientWriteable
<1>16. CASE \E parses \in BOOLEAN : ReceiveFinal(parses)
  BY <1>16 DEF ReceiveFinal
<1>17. CASE CallbackReturns BY <1>17 DEF CallbackReturns, ScheduleRetry
<1>18. CASE DumpThrows BY <1>18 DEF DumpThrows
<1>19. QED
  BY <1>1, <1>2, <1>3, <1>4, <1>5, <1>6, <1>7, <1>8, <1>9, <1>10, <1>11, <1>12,
     <1>13, <1>14, <1>15, <1>16, <1>17, <1>18 DEF ServiceStep

(* A step that leaves thread, callback, connection and retry alone keeps   *)
(* RetryInv.                                                               *)
LEMMA RetryFrame ==
  ASSUME RetryInv, UNCHANGED <<thread, upcall, context, conn, connectSul>>
  PROVE  RetryInv'
BY DEF RetryInv, RetryArmed

(* RetryInv holds of every behaviour of the transport.                     *)
LEMMA TransportRetries == TransportSpec => []RetryInv
<1>1. TransportInit => RetryInv BY DEF TransportInit, RetryInv, RetryArmed
<1>2. TransportTypeOK /\ RetryInv /\ [TransportNext]_transportVars => RetryInv'
  <2> SUFFICES ASSUME TransportTypeOK, RetryInv, [TransportNext]_transportVars
               PROVE  RetryInv'
    OBVIOUS
  <2>1. CASE ClientCall
    BY <2>1, RetryFrame
    DEF ClientCall, Send, ScheduleTask, CancelScheduledTask, connVars
  <2>2. CASE BeginDestructor BY <2>2, RetryFrame DEF BeginDestructor, connVars
  <2>3. CASE EndDestructor BY <2>3, RetryFrame DEF EndDestructor, connVars
  <2>4. CASE UNCHANGED transportVars
    BY <2>4, RetryFrame DEF transportVars, lifeVars, connVars
  <2>5. QED BY <2>1, <2>2, <2>3, <2>4, RetryStep DEF TransportNext
<1>3. QED BY <1>1, <1>2, TransportTypeCorrect, PTL DEF TransportSpec

(* A connection attempt is scheduled exactly when there is no connection.  *)
THEOREM RetryAlwaysArmed == TransportSpec => []RetryArmed
<1>1. RetryInv => RetryArmed BY DEF RetryInv
<1>2. QED BY <1>1, TransportRetries, PTL
-----------------------------------------------------------------------------
(* The first place at which a message given to send() waits in tasks.      *)
First == Len(written) + Len(msgQueue) + 1

(* SendOrder, place by place.                                              *)
SendInv ==
  /\ First <= Len(sent) + 1
  /\ \A i \in 1 .. Len(written) : sent[i] = written[i]
  /\ \A i \in 1 .. Len(msgQueue) : sent[Len(written) + i] = msgQueue[i]
  /\ \E at \in [First .. Len(sent) -> SendPlaces] : Waiting(at)

(* The two say the same.                                                   *)
LEMMA SendOrderUnfolded ==
  ASSUME TransportTypeOK
  PROVE  SendOrder <=> SendInv
<1> DEFINE accepted == written \o msgQueue
<1>1. written \in Seq(Message) /\ msgQueue \in Seq(Message) /\ sent \in Seq(Message)
  BY DEF TransportTypeOK, QueueTypeOK
<1>2. /\ Len(accepted) = Len(written) + Len(msgQueue)
      /\ \A i \in 1 .. Len(accepted) :
           accepted[i] = IF i <= Len(written) THEN written[i]
                                              ELSE msgQueue[i - Len(written)]
  BY <1>1, ConcatProperties
<1>3. (\A i \in 1 .. Len(accepted) : sent[i] = accepted[i]) <=>
        /\ \A i \in 1 .. Len(written) : sent[i] = written[i]
        /\ \A i \in 1 .. Len(msgQueue) : sent[Len(written) + i] = msgQueue[i]
  <2>1. Len(written) \in Nat /\ Len(msgQueue) \in Nat BY <1>1
  <2>2. ASSUME \A i \in 1 .. Len(accepted) : sent[i] = accepted[i],
               NEW j \in 1 .. Len(msgQueue)
        PROVE  sent[Len(written) + j] = msgQueue[j]
    <3>1. Len(written) + j \in 1 .. Len(accepted) BY <1>2, <2>1
    <3>2. accepted[Len(written) + j] = msgQueue[Len(written) + j - Len(written)]
      BY <1>2, <2>1, <3>1
    <3>3. Len(written) + j - Len(written) = j BY <2>1
    <3>4. QED BY <2>2, <3>1, <3>2, <3>3
  <2>3. ASSUME \A i \in 1 .. Len(written) : sent[i] = written[i],
               \A i \in 1 .. Len(msgQueue) : sent[Len(written) + i] = msgQueue[i],
               NEW j \in 1 .. Len(accepted), j > Len(written)
        PROVE  sent[j] = accepted[j]
    <3>1. j - Len(written) \in 1 .. Len(msgQueue) BY <1>2, <2>1, <2>3
    <3>2. Len(written) + (j - Len(written)) = j BY <2>1
    <3>3. accepted[j] = msgQueue[j - Len(written)] BY <1>2, <2>1, <2>3
    <3>4. QED BY <2>3, <3>1, <3>2, <3>3
  <2>4. ASSUME \A i \in 1 .. Len(accepted) : sent[i] = accepted[i],
               NEW j \in 1 .. Len(written)
        PROVE  sent[j] = written[j]
    <3>1. j \in 1 .. Len(accepted) /\ j <= Len(written) BY <1>2, <2>1
    <3>2. accepted[j] = written[j] BY <1>2, <3>1
    <3>3. QED BY <2>4, <3>1, <3>2
  <2>5. ASSUME \A i \in 1 .. Len(written) : sent[i] = written[i],
               NEW j \in 1 .. Len(accepted), j <= Len(written)
        PROVE  sent[j] = accepted[j]
    <3>1. j \in 1 .. Len(written) BY <1>2, <2>1, <2>5
    <3>2. accepted[j] = written[j] BY <1>2, <2>5
    <3>3. QED BY <2>5, <3>1, <3>2
  <2>6. \A j \in 1 .. Len(accepted) : j <= Len(written) \/ j > Len(written)
    BY <1>2, <2>1
  <2> HIDE DEF accepted
  <2>7. QED BY <2>2, <2>3, <2>4, <2>5, <2>6
<1>4. Len(sent) \in Nat /\ Len(written) \in Nat /\ Len(msgQueue) \in Nat BY <1>1
<1>5. Len(accepted) + 1 = First BY <1>2 DEF First
<1>6. Len(accepted) <= Len(sent) <=> First <= Len(sent) + 1 BY <1>2, <1>4 DEF First
<1> HIDE DEF accepted
<1>7. SendOrder <=>
        /\ Len(accepted) <= Len(sent)
        /\ \A i \in 1 .. Len(accepted) : sent[i] = accepted[i]
        /\ \E at \in [Len(accepted) + 1 .. Len(sent) -> SendPlaces] : Waiting(at)
  BY DEF SendOrder, accepted
<1>8. QED BY <1>3, <1>5, <1>6, <1>7 DEF SendInv

(* A step that leaves the queues and the histories alone keeps SendInv.    *)
LEMMA SendFrame ==
  ASSUME SendInv, UNCHANGED <<tasks, msgQueue, sent, written>>
  PROVE  SendInv'
BY DEF SendInv, Waiting, First, SendPlaces

(* The state of the queues as numbers and functions.                       *)
LEMMA QueueFacts ==
  ASSUME TransportTypeOK
  PROVE  /\ tasks \in Seq(Task) /\ DOMAIN tasks = 1 .. Len(tasks)
         /\ msgQueue \in Seq(Message) /\ sent \in Seq(Message)
         /\ written \in Seq(Message)
         /\ Len(tasks) \in Nat /\ Len(msgQueue) \in Nat
         /\ Len(sent) \in Nat /\ Len(written) \in Nat
         /\ First \in Nat
         /\ \A k \in SendPlaces : k \in 1 .. Len(tasks)
BY DEF TransportTypeOK, QueueTypeOK, First, SendPlaces

(* A task that is not a send joins the end of tasks.                       *)
LEMMA SendOrderOther ==
  ASSUME TransportTypeOK, SendInv, NEW t \in Task, t.op # "send",
         tasks' = Append(tasks, t), UNCHANGED <<msgQueue, sent, written>>
  PROVE  SendInv'
<1>1. PICK at \in [First .. Len(sent) -> SendPlaces] : Waiting(at)
  BY DEF SendInv
<1>2. /\ DOMAIN tasks' = 1 .. Len(tasks) + 1
      /\ \A k \in 1 .. Len(tasks) : tasks'[k] = tasks[k]
      /\ tasks'[Len(tasks) + 1] = t
  BY QueueFacts
<1>3. SendPlaces' = SendPlaces
  BY <1>2, QueueFacts DEF SendPlaces
<1>4. \A i \in First .. Len(sent) : tasks'[at[i]] = tasks[at[i]]
  BY <1>2, QueueFacts
<1>5. First' = First BY DEF First
<1>6. Waiting(at)'
  BY <1>1, <1>3, <1>4, <1>5 DEF Waiting, First
<1>7. QED BY <1>3, <1>5, <1>6 DEF SendInv

(* send() puts its message last in sent and last in tasks.                 *)
LEMMA SendOrderSend ==
  ASSUME TransportTypeOK, SendInv, NEW m \in Message, Send(m)
  PROVE  SendInv'
<1> DEFINE t == [op |-> "send", arg |-> m]
<1>1. PICK at \in [First .. Len(sent) -> SendPlaces] : Waiting(at)
  BY DEF SendInv
<1>2. /\ tasks' = Append(tasks, t) /\ sent' = Append(sent, m)
      /\ UNCHANGED <<msgQueue, written>>
  BY DEF Send, InvokeTask
<1>3. t \in Task BY DEF Task
<1>4. /\ DOMAIN tasks' = 1 .. Len(tasks) + 1
      /\ \A k \in 1 .. Len(tasks) : tasks'[k] = tasks[k]
      /\ tasks'[Len(tasks) + 1] = t
  BY <1>2, <1>3, QueueFacts
<1>5. /\ Len(sent') = Len(sent) + 1
      /\ \A i \in 1 .. Len(sent) : sent'[i] = sent[i]
      /\ sent'[Len(sent) + 1] = m
  BY <1>2, QueueFacts
<1> HIDE DEF t
<1>6. t.op = "send" /\ t.arg = m BY DEF t
<1>7. SendPlaces' = SendPlaces \cup {Len(tasks) + 1}
  BY <1>4, <1>6, QueueFacts DEF SendPlaces
<1>8. First' = First BY <1>2 DEF First
<1>9. PICK new : new = [i \in First .. Len(sent) + 1 |->
                          IF i = Len(sent) + 1 THEN Len(tasks) + 1 ELSE at[i]]
  OBVIOUS
<1>10. new \in [First .. Len(sent') -> SendPlaces']
  BY <1>9, <1>5, <1>7, QueueFacts
<1>11. \A i \in First .. Len(sent) :
         new[i] = at[i] /\ at[i] \in SendPlaces /\ at[i] \in 1 .. Len(tasks)
  BY <1>9, QueueFacts
<1>12. First <= Len(sent) + 1 BY DEF SendInv
<1>13. new[Len(sent) + 1] = Len(tasks) + 1 BY <1>9, <1>12, QueueFacts
<1>14. \A i \in First .. Len(sent') :
         i = Len(sent) + 1 \/ i \in First .. Len(sent)
  BY <1>5, QueueFacts
<1>15. ASSUME NEW i \in First .. Len(sent'), NEW j \in First .. Len(sent'), i < j
       PROVE  new[i] < new[j]
  <2>1. i \in First .. Len(sent) BY <1>5, <1>15, QueueFacts
  <2>2. CASE j \in First .. Len(sent)
    <3>1. at[i] < at[j] BY <1>1, <1>15, <2>1, <2>2 DEF Waiting, First
    <3>2. QED BY <1>11, <2>1, <2>2, <3>1
  <2>3. CASE j = Len(sent) + 1
    BY <1>11, <1>13, <2>1, <2>3, QueueFacts
  <2>4. QED BY <1>14, <2>2, <2>3
<1>16. \A k \in SendPlaces' : \E i \in First .. Len(sent') : new[i] = k
  <2>1. First .. Len(sent) \subseteq First .. Len(sent')
    BY <1>5, QueueFacts
  <2>2. Len(sent) + 1 \in First .. Len(sent') BY <1>5, <1>12, QueueFacts
  <2>3. QED BY <1>1, <1>7, <1>11, <1>13, <2>1, <2>2 DEF Waiting, First
<1>17. \A i \in First .. Len(sent') : tasks'[new[i]].arg = sent'[i]
  <2>1. ASSUME NEW i \in First .. Len(sent) PROVE tasks'[new[i]].arg = sent'[i]
    <3>1. tasks'[new[i]] = tasks[at[i]] BY <1>4, <1>11
    <3>2. i \in 1 .. Len(sent) BY QueueFacts DEF First
    <3>3. tasks[at[i]].arg = sent[i] BY <1>1 DEF Waiting, First
    <3>4. QED BY <1>5, <3>1, <3>2, <3>3
  <2>2. QED BY <1>4, <1>5, <1>6, <1>13, <1>14, <2>1
<1>18. Waiting(new)'
  BY <1>8, <1>10, <1>15, <1>16, <1>17 DEF Waiting, First
<1>19. First' <= Len(sent') + 1 BY <1>5, <1>8, <1>12, QueueFacts
<1>20. \A i \in 1 .. Len(written) : sent'[i] = written[i]
  <2>1. \A i \in 1 .. Len(written) : i \in 1 .. Len(sent)
    BY <1>12, QueueFacts DEF First
  <2>2. QED BY <1>5, <2>1 DEF SendInv
<1>21. \A i \in 1 .. Len(msgQueue) : sent'[Len(written) + i] = msgQueue[i]
  <2>1. \A i \in 1 .. Len(msgQueue) : Len(written) + i \in 1 .. Len(sent)
    BY <1>12, QueueFacts DEF First
  <2>2. QED BY <1>5, <2>1 DEF SendInv
<1>22. QED BY <1>2, <1>8, <1>10, <1>18, <1>19, <1>20, <1>21 DEF SendInv

(* The loop runs the task of a send: it leaves tasks for the end of m_msgQueue. *)
LEMMA SendOrderRunSend ==
  ASSUME TransportTypeOK, SendInv, tasks # <<>>, Head(tasks).op = "send",
         tasks' = Tail(tasks), msgQueue' = Append(msgQueue, Head(tasks).arg),
         UNCHANGED <<sent, written>>
  PROVE  SendInv'
<1>1. PICK at \in [First .. Len(sent) -> SendPlaces] : Waiting(at)
  BY DEF SendInv
<1>2. /\ tasks[1] = Head(tasks) /\ Len(tasks) > 0
      /\ DOMAIN tasks' = 1 .. Len(tasks) - 1
      /\ \A k \in 1 .. Len(tasks) - 1 : tasks'[k] = tasks[k + 1]
  BY QueueFacts
<1>3. Head(tasks).arg \in Message
  <2>1. PICK t \in Task : t = Head(tasks) BY QueueFacts
  <2>2. t.op = "send" => t.arg \in Message BY DEF Task
  <2>3. QED BY <2>1, <2>2
<1>4. /\ Len(msgQueue') = Len(msgQueue) + 1
      /\ \A i \in 1 .. Len(msgQueue) : msgQueue'[i] = msgQueue[i]
      /\ msgQueue'[Len(msgQueue) + 1] = Head(tasks).arg
  BY <1>3, QueueFacts
<1>5. First' = First + 1 BY <1>4, QueueFacts DEF First
<1>6. 1 \in SendPlaces BY <1>2, QueueFacts DEF SendPlaces
<1>7. \A i \in First .. Len(sent) : at[i] \in SendPlaces /\ at[i] \in 1 .. Len(tasks)
  BY QueueFacts
<1>8. First \in First .. Len(sent) /\ at[First] = 1
  <2>1. PICK i \in First .. Len(sent) : at[i] = 1
    BY <1>1, <1>6 DEF Waiting, First
  <2>2. First \in First .. Len(sent) BY QueueFacts
  <2>3. First < i => at[First] < at[i] BY <1>1, <2>2 DEF Waiting, First
  <2>4. i = First BY <1>7, <2>1, <2>2, <2>3, QueueFacts
  <2>5. QED BY <2>1, <2>2, <2>4
<1>9. tasks[1].arg = sent[First] BY <1>1, <1>8 DEF Waiting, First
<1>10. PICK new : new = [i \in First + 1 .. Len(sent) |-> at[i] - 1]
  OBVIOUS
<1>11. \A k : k \in SendPlaces' <=> k \in 1 .. Len(tasks) - 1 /\ k + 1 \in SendPlaces
  BY <1>2, QueueFacts DEF SendPlaces
<1>12. \A i \in First' .. Len(sent') :
         /\ i \in First .. Len(sent) /\ First < i /\ new[i] = at[i] - 1
         /\ new[i] \in 1 .. Len(tasks) - 1 /\ new[i] + 1 = at[i]
  <2>1. ASSUME NEW i \in First' .. Len(sent')
        PROVE  i \in First .. Len(sent) /\ First < i /\ new[i] = at[i] - 1
    BY <1>5, <1>10, QueueFacts
  <2>2. ASSUME NEW i \in First' .. Len(sent') PROVE at[First] < at[i]
    BY <1>1, <1>8, <2>1 DEF Waiting, First
  <2>3. ASSUME NEW i \in First' .. Len(sent')
        PROVE  new[i] \in 1 .. Len(tasks) - 1 /\ new[i] + 1 = at[i]
    <3>1. at[i] \in 1 .. Len(tasks) /\ 1 < at[i] BY <1>7, <1>8, <2>1, <2>2
    <3>2. new[i] = at[i] - 1 BY <2>1
    <3>3. Len(tasks) \in Nat BY QueueFacts
    <3>4. QED BY <3>1, <3>2, <3>3
  <2>4. QED BY <2>1, <2>3
<1>13. new \in [First' .. Len(sent') -> SendPlaces']
  BY <1>5, <1>7, <1>10, <1>11, <1>12
<1>14. ASSUME NEW i \in First' .. Len(sent'), NEW j \in First' .. Len(sent'), i < j
       PROVE  new[i] < new[j]
  <2>1. at[i] < at[j] BY <1>1, <1>12, <1>14 DEF Waiting, First
  <2>2. QED BY <1>7, <1>12, <2>1, QueueFacts
<1>15. ASSUME NEW k \in SendPlaces' PROVE \E i \in First' .. Len(sent') : new[i] = k
  <2>1. k \in Nat /\ k >= 1 /\ k + 1 \in SendPlaces BY <1>11, QueueFacts
  <2>2. PICK i \in First .. Len(sent) : at[i] = k + 1
    BY <1>1, <2>1 DEF Waiting, First
  <2>3. i # First BY <1>8, <2>1, <2>2
  <2>4. i \in First' .. Len(sent') BY <1>5, <2>2, <2>3, QueueFacts
  <2>5. new[i] = k BY <1>12, <2>1, <2>2, <2>4
  <2>6. QED BY <2>4, <2>5
<1>16. ASSUME NEW i \in First' .. Len(sent') PROVE tasks'[new[i]].arg = sent'[i]
  <2>1. tasks'[new[i]] = tasks[at[i]] BY <1>2, <1>12
  <2>2. tasks[at[i]].arg = sent[i] BY <1>1, <1>12 DEF Waiting, First
  <2>3. QED BY <2>1, <2>2
<1>17. Waiting(new)'
  BY <1>13, <1>14, <1>15, <1>16 DEF Waiting, First
<1>18. First' <= Len(sent') + 1 BY <1>5, <1>8, QueueFacts
<1>19. \A i \in 1 .. Len(written) : sent'[i] = written'[i]
  BY DEF SendInv
<1>20. ASSUME NEW i \in 1 .. Len(msgQueue') PROVE sent'[Len(written') + i] = msgQueue'[i]
  <2>1. CASE i \in 1 .. Len(msgQueue) BY <1>4, <2>1 DEF SendInv
  <2>2. CASE i = Len(msgQueue) + 1
    <3>1. Len(written) + i = First BY <2>2, QueueFacts DEF First
    <3>2. msgQueue'[i] = tasks[1].arg BY <1>2, <1>4, <2>2
    <3>3. sent'[Len(written') + i] = sent[First] BY <3>1
    <3>4. QED BY <1>9, <3>2, <3>3
  <2>3. i \in 1 .. Len(msgQueue) \/ i = Len(msgQueue) + 1 BY <1>4, QueueFacts
  <2>4. QED BY <2>1, <2>2, <2>3
<1>21. QED BY <1>13, <1>17, <1>18, <1>19, <1>20 DEF SendInv

(* The loop runs another task: what waits moves one place to the front.    *)
LEMMA SendOrderRunOther ==
  ASSUME TransportTypeOK, SendInv, tasks # <<>>, Head(tasks).op # "send",
         tasks' = Tail(tasks), UNCHANGED <<msgQueue, sent, written>>
  PROVE  SendInv'
<1>1. PICK at \in [First .. Len(sent) -> SendPlaces] : Waiting(at)
  BY DEF SendInv
<1>2. /\ tasks[1] = Head(tasks) /\ Len(tasks) > 0
      /\ DOMAIN tasks' = 1 .. Len(tasks) - 1
      /\ \A k \in 1 .. Len(tasks) - 1 : tasks'[k] = tasks[k + 1]
  BY QueueFacts
<1>3. First' = First BY DEF First
<1>4. 1 \notin SendPlaces BY <1>2 DEF SendPlaces
<1>5. PICK new : new = [i \in First .. Len(sent) |-> at[i] - 1]
  OBVIOUS
<1>6. \A k : k \in SendPlaces' <=> k \in 1 .. Len(tasks) - 1 /\ k + 1 \in SendPlaces
  BY <1>2, QueueFacts DEF SendPlaces
<1>7. \A i \in First .. Len(sent) :
        /\ at[i] \in SendPlaces /\ at[i] \in 1 .. Len(tasks)
        /\ new[i] = at[i] - 1
        /\ new[i] \in 1 .. Len(tasks) - 1 /\ new[i] + 1 = at[i]
  <2>1. \A i \in First .. Len(sent) :
          at[i] \in SendPlaces /\ at[i] \in 1 .. Len(tasks) /\ at[i] # 1
    BY <1>4, QueueFacts
  <2>2. ASSUME NEW i \in First .. Len(sent)
        PROVE  new[i] = at[i] - 1 /\ new[i] \in 1 .. Len(tasks) - 1 /\ new[i] + 1 = at[i]
    <3>1. new[i] = at[i] - 1 BY <1>5
    <3>2. at[i] \in 1 .. Len(tasks) /\ at[i] # 1 BY <2>1
    <3>3. Len(tasks) \in Nat BY QueueFacts
    <3>4. QED BY <3>1, <3>2, <3>3
  <2>3. QED BY <2>1, <2>2
<1>8. new \in [First .. Len(sent) -> SendPlaces']
  BY <1>5, <1>6, <1>7
<1>9. ASSUME NEW i \in First .. Len(sent), NEW j \in First .. Len(sent), i < j
      PROVE  new[i] < new[j]
  <2>1. at[i] < at[j] BY <1>1, <1>9 DEF Waiting, First
  <2>2. QED BY <1>7, <2>1, QueueFacts
<1>10. ASSUME NEW k \in SendPlaces' PROVE \E i \in First .. Len(sent) : new[i] = k
  <2>1. k \in Nat /\ k + 1 \in SendPlaces BY <1>6, QueueFacts
  <2>2. PICK i \in First .. Len(sent) : at[i] = k + 1
    BY <1>1, <2>1 DEF Waiting, First
  <2>3. QED BY <1>7, <2>1, <2>2
<1>11. ASSUME NEW i \in First .. Len(sent) PROVE tasks'[new[i]].arg = sent[i]
  <2>1. tasks'[new[i]] = tasks[at[i]] BY <1>2, <1>7
  <2>2. tasks[at[i]].arg = sent[i] BY <1>1 DEF Waiting, First
  <2>3. QED BY <2>1, <2>2
<1>12. Waiting(new)'
  BY <1>3, <1>8, <1>9, <1>10, <1>11 DEF Waiting, First
<1>13. QED BY <1>3, <1>8, <1>12 DEF SendInv

(* A WRITEABLE callback moves the front of m_msgQueue to what is written.  *)
LEMMA SendOrderWrite ==
  ASSUME TransportTypeOK, SendInv, msgQueue # <<>>,
         msgQueue' = Tail(msgQueue), written' = Append(written, Head(msgQueue)),
         UNCHANGED <<tasks, sent>>
  PROVE  SendInv'
<1>1. /\ Len(msgQueue) > 0 /\ Head(msgQueue) = msgQueue[1]
      /\ Len(msgQueue') = Len(msgQueue) - 1
      /\ \A i \in 1 .. Len(msgQueue) - 1 : msgQueue'[i] = msgQueue[i + 1]
  BY QueueFacts
<1>2. Head(msgQueue) \in Message BY QueueFacts
<1>3. /\ Len(written') = Len(written) + 1
      /\ \A i \in 1 .. Len(written) : written'[i] = written[i]
      /\ written'[Len(written) + 1] = Head(msgQueue)
  BY <1>2, QueueFacts
<1>4. Len(written') + Len(msgQueue') + 1 = Len(written) + Len(msgQueue) + 1
  BY <1>1, <1>3, QueueFacts
<1>5. First' = First BY <1>4 DEF First
<1>6. SendPlaces' = SendPlaces BY DEF SendPlaces
<1>7. PICK at \in [First .. Len(sent) -> SendPlaces] : Waiting(at)
  BY DEF SendInv
<1>8. Waiting(at)' BY <1>4, <1>6, <1>7 DEF Waiting
<1>9. ASSUME NEW i \in 1 .. Len(written') PROVE sent'[i] = written'[i]
  <2>1. CASE i \in 1 .. Len(written) BY <1>3, <2>1 DEF SendInv
  <2>2. CASE i = Len(written) + 1 BY <1>1, <1>3, <2>2, QueueFacts DEF SendInv
  <2>3. i \in 1 .. Len(written) \/ i = Len(written) + 1 BY <1>3, QueueFacts
  <2>4. QED BY <2>1, <2>2, <2>3
<1>10. ASSUME NEW i \in 1 .. Len(msgQueue') PROVE sent'[Len(written') + i] = msgQueue'[i]
  <2>1. i + 1 \in 1 .. Len(msgQueue) BY <1>1, QueueFacts
  <2>2. Len(written') + i = Len(written) + (i + 1) BY <1>1, <1>3, QueueFacts
  <2>3. sent[Len(written) + (i + 1)] = msgQueue[i + 1] BY <2>1 DEF SendInv
  <2>4. QED BY <1>1, <2>2, <2>3
<1>11. QED BY <1>5, <1>6, <1>7, <1>8, <1>9, <1>10 DEF SendInv

(* Running a task keeps what send() was given on its way.                  *)
LEMMA SendOrderRunTask ==
  ASSUME TransportTypeOK, SendInv, RunTask
  PROVE  SendInv'
<1>1. tasks # <<>> /\ tasks' = Tail(tasks) /\ UNCHANGED <<sent, written>>
  BY DEF RunTask
<1>2. CASE Head(tasks).op = "send" /\ RunSend(Head(tasks).arg)
  BY <1>1, <1>2, SendOrderRunSend DEF RunSend
<1>3. CASE Head(tasks).op = "schedule" /\ RunSchedule(Head(tasks).arg)
  BY <1>1, <1>3, SendOrderRunOther DEF RunSchedule
<1>4. CASE Head(tasks).op = "cancel" /\ RunCancel
  BY <1>1, <1>4, SendOrderRunOther DEF RunCancel
<1>5. QED BY <1>2, <1>3, <1>4 DEF RunTask

(* So does a WRITEABLE callback, and the calls that hand over a task.      *)
LEMMA SendOrderCalls ==
  ASSUME TransportTypeOK, SendInv,
         \/ ClientWriteable \/ CancelScheduledTask
         \/ \E m \in Message : Send(m)
         \/ \E c \in Closure : ScheduleTask(c)
  PROVE  SendInv'
<1>1. CASE ClientWriteable
  <2>1. CASE msgQueue # <<>>
    BY <1>1, <2>1, SendOrderWrite DEF ClientWriteable
  <2>2. CASE msgQueue = <<>>
    BY <1>1, <2>2, SendFrame DEF ClientWriteable
  <2>3. QED BY <2>1, <2>2
<1>2. CASE CancelScheduledTask
  <2>1. [op |-> "cancel"] \in Task BY DEF Task
  <2>2. QED BY <1>2, <2>1, SendOrderOther DEF CancelScheduledTask, InvokeTask
<1>3. ASSUME NEW m \in Message, Send(m) PROVE SendInv'
  BY <1>3, SendOrderSend
<1>4. ASSUME NEW c \in Closure, ScheduleTask(c) PROVE SendInv'
  <2>1. [op |-> "schedule", arg |-> c] \in Task BY DEF Task
  <2>2. QED BY <1>4, <2>1, SendOrderOther DEF ScheduleTask, InvokeTask
<1>5. QED BY <1>1, <1>2, <1>3, <1>4

(* No other step touches the queues or the histories.                      *)
LEMMA SendOrderElsewhere ==
  ASSUME SendInv,
         \/ ServiceStep /\ ~RunTask
         \/ DestroyContext \/ ConnectionClosed \/ CallbackReturns
         \/ \E parses \in BOOLEAN : ReceiveFinal(parses)
         \/ BeginDestructor \/ EndDestructor \/ UNCHANGED transportVars
  PROVE  SendInv'
<1>1. UNCHANGED <<tasks, msgQueue, sent, written>>
  <2> USE DEF queueVars
  <2>1. CASE ServiceStep /\ ~RunTask
    BY <2>1 DEF ServiceStep, CreateContext, ServiceReturns, ServiceFails,
       DumpThrows, TasksDone, ConnectSulFires, ConnectClient, ConnectionEstablished,
       ConnectionError, PeerInitiatedClose, ReceiveFragment, TimerFires
  <2>2. CASE DestroyContext \/ ConnectionClosed \/ CallbackReturns
    BY <2>2 DEF DestroyContext, ConnectionClosed, CallbackReturns
  <2>3. CASE \E parses \in BOOLEAN : ReceiveFinal(parses)
    BY <2>3 DEF ReceiveFinal
  <2>4. CASE BeginDestructor \/ EndDestructor \/ UNCHANGED transportVars
    BY <2>4 DEF BeginDestructor, EndDestructor, transportVars
  <2>5. QED BY <2>1, <2>2, <2>3, <2>4
<1>2. QED BY <1>1, SendFrame

(* The empty queues satisfy SendInv.                                       *)
LEMMA SendInit ==
  ASSUME TransportInit
  PROVE  SendInv
<1>1. /\ tasks = <<>> /\ msgQueue = <<>> /\ sent = <<>> /\ written = <<>>
      /\ First = 1 /\ SendPlaces = {}
  BY DEF TransportInit, First, SendPlaces
<1>2. PICK at : at = [i \in {} |-> 0] OBVIOUS
<1>3. at \in [1 .. 0 -> {}] BY <1>2
<1>4. Waiting(at) BY <1>1, <1>3 DEF Waiting
<1>5. Len(sent) = 0 /\ Len(written) = 0 /\ Len(msgQueue) = 0 BY <1>1
<1>6. at \in [First .. Len(sent) -> SendPlaces] BY <1>1, <1>3, <1>5
<1>7. \E f \in [First .. Len(sent) -> SendPlaces] : Waiting(f) BY <1>4, <1>6
<1>8. First <= Len(sent) + 1 BY <1>1, <1>5
<1>9. 1 .. Len(written) = {} /\ 1 .. Len(msgQueue) = {} BY <1>5
<1>10. QED BY <1>7, <1>8, <1>9 DEF SendInv

(* SendInv holds of every behaviour of the transport.                      *)
LEMMA TransportSends == TransportSpec => []SendInv
<1>1. TransportTypeOK /\ SendInv /\ [TransportNext]_transportVars => SendInv'
  <2> SUFFICES ASSUME TransportTypeOK, SendInv, [TransportNext]_transportVars
               PROVE  SendInv'
    OBVIOUS
  <2>1. CASE RunTask BY <2>1, SendOrderRunTask
  <2>2. CASE ClientCall BY <2>2, SendOrderCalls DEF ClientCall
  <2>3. CASE ClientWriteable BY <2>3, SendOrderCalls
  <2>4. QED BY <2>1, <2>2, <2>3, SendOrderElsewhere DEF TransportNext
<1>2. QED BY SendInit, <1>1, TransportTypeCorrect, PTL DEF TransportSpec

(* Between send() and lws_write nothing is dropped, repeated or overtaken, *)
(* for any messages, callers and reconnections.                            *)
THEOREM SendOrderHolds == TransportSpec => []SendOrder
<1>1. TransportTypeOK /\ SendInv => SendOrder BY SendOrderUnfolded
<1>2. QED BY <1>1, TransportTypeCorrect, TransportSends, PTL
-----------------------------------------------------------------------------
(* The transport implements OrderedLink. *)

(* A step that leaves the connection and the histories alone is a stutter. *)
LEMMA LinkStutter ==
  ASSUME UNCHANGED <<conn, sent, written>>
  PROVE  UNCHANGED Link!olVars
BY DEF Link!olVars

(* What SendOrder says of the next message to be written.                  *)
LEMMA NextIsHead ==
  ASSUME TransportTypeOK, SendInv, msgQueue # <<>>
  PROVE  Len(written) < Len(sent) /\ Head(msgQueue) = sent[Len(written) + 1]
<1>1. /\ Len(msgQueue) \in Nat /\ Len(written) \in Nat /\ Len(sent) \in Nat
      /\ Len(msgQueue) > 0 /\ Head(msgQueue) = msgQueue[1]
  BY QueueFacts
<1>2. Len(written) + Len(msgQueue) + 1 <= Len(sent) + 1 BY DEF SendInv, First
<1>3. 1 \in 1 .. Len(msgQueue) BY <1>1
<1>4. sent[Len(written) + 1] = msgQueue[1] BY <1>3 DEF SendInv
<1>5. QED BY <1>1, <1>2, <1>4

(* A WRITEABLE callback carries the next message, or nothing.              *)
LEMMA WriteCarries ==
  ASSUME TransportTypeOK, SendInv, ClientWriteable
  PROVE  Link!Carry \/ UNCHANGED Link!olVars
<1>1. UNCHANGED <<conn, sent>> /\ conn = "open" BY DEF ClientWriteable, connVars
<1>2. CASE msgQueue # <<>>
  BY <1>1, <1>2, NextIsHead DEF ClientWriteable, Link!Carry
<1>3. CASE msgQueue = <<>> BY <1>1, <1>3, LinkStutter DEF ClientWriteable
<1>4. QED BY <1>2, <1>3

(* What the steps of the service thread do to the link, whoever the        *)
(* listener is: a connection is attempted only from none.                  *)
LEMMA ServiceLinkStep ==
  ASSUME TransportTypeOK, RetryInv, SendInv,
         ServiceStep \/ DestroyContext \/ ConnectionClosed \/ ClientWriteable
           \/ (\E parses \in BOOLEAN : ReceiveFinal(parses))
           \/ CallbackReturns
  PROVE  [Link!OLNext]_Link!olVars
<1> USE DEF lifeVars, connVars, queueVars
<1>1. CASE CreateContext \/ ServiceReturns \/ ServiceFails \/ RunTask \/ TasksDone
             \/ ConnectSulFires \/ ReceiveFragment \/ TimerFires \/ DumpThrows
  BY <1>1, LinkStutter
  DEF CreateContext, ServiceReturns, ServiceFails, RunTask, TasksDone, ConnectSulFires,
      ReceiveFragment, TimerFires, DumpThrows
<1>2. CASE (\E parses \in BOOLEAN : ReceiveFinal(parses)) \/ CallbackReturns
  BY <1>2, LinkStutter DEF ReceiveFinal, CallbackReturns
<1>3. CASE ConnectClient
  <2>1. conn = "idle" BY <1>3 DEF ConnectClient, RetryInv
  <2>2. UNCHANGED <<sent, written>> /\ conn' \in {"connecting", conn}
    BY <1>3 DEF ConnectClient
  <2>3. QED
    BY <2>1, <2>2, LinkStutter DEF Link!OLNext, Link!LinkStep, Link!Moves
<1>4. CASE ConnectionEstablished
  BY <1>4 DEF ConnectionEstablished, Link!OLNext, Link!LinkStep, Link!Moves
<1>5. CASE PeerInitiatedClose
  BY <1>5 DEF PeerInitiatedClose, Link!OLNext, Link!LinkStep, Link!Moves
<1>6. CASE ConnectionError \/ ConnectionClosed
  <2>1. /\ conn \in {"connecting", "open", "closing"} /\ conn' = "idle"
        /\ UNCHANGED <<sent, written>>
    BY <1>6 DEF ConnectionError, ConnectionClosed, DropConnection
  <2>2. QED BY <2>1 DEF Link!OLNext, Link!LinkStep, Link!Moves
<1>7. CASE DestroyContext
  <2>1. UNCHANGED <<sent, written>> /\ (conn' = "idle" \/ UNCHANGED conn)
    BY <1>7 DEF DestroyContext
  <2>2. conn \in {"idle", "connecting", "open", "closing"}
    BY DEF TransportTypeOK, ConnTypeOK
  <2>3. QED
    BY <2>1, <2>2, LinkStutter DEF Link!OLNext, Link!LinkStep, Link!Moves
<1>8. CASE ClientWriteable BY <1>8, WriteCarries DEF Link!OLNext
<1>9. QED
  BY <1>1, <1>2, <1>3, <1>4, <1>5, <1>6, <1>7, <1>8 DEF ServiceStep

(* What a call of another thread does to it: send() hands a message over.  *)
LEMMA CallLinkStep ==
  ASSUME (\E m \in Message : Send(m)) \/ (\E c \in Closure : ScheduleTask(c))
           \/ CancelScheduledTask \/ BeginDestructor \/ EndDestructor
  PROVE  [Link!OLNext]_Link!olVars
<1> USE DEF connVars, queueVars
<1>1. ASSUME NEW m \in Message, Send(m) PROVE Link!Hand(m)
  BY <1>1 DEF Send, Link!Hand
<1>2. CASE (\E c \in Closure : ScheduleTask(c)) \/ CancelScheduledTask
  BY <1>2, LinkStutter DEF ScheduleTask, CancelScheduledTask
<1>3. CASE BeginDestructor \/ EndDestructor
  BY <1>3, LinkStutter DEF BeginDestructor, EndDestructor
<1>4. QED BY <1>1, <1>2, <1>3 DEF Link!OLNext

(* The transport is an OrderedLink, for any messages and callers: one link *)
(* at a time, and one order of messages over all of them.                  *)
THEOREM TransportIsOrderedLink == TransportSpec => ImplementsLink
<1>1. TransportInit => Link!OLInit BY DEF TransportInit, Link!OLInit
<1>2. TransportTypeOK /\ RetryInv /\ SendInv /\ [TransportNext]_transportVars
        => [Link!OLNext]_Link!olVars
  <2> SUFFICES ASSUME TransportTypeOK, RetryInv, SendInv, [TransportNext]_transportVars
               PROVE  [Link!OLNext]_Link!olVars
    OBVIOUS
  <2>1. CASE ClientCall BY <2>1, CallLinkStep DEF ClientCall
  <2>2. CASE UNCHANGED transportVars
    BY <2>2, LinkStutter DEF transportVars, connVars, queueVars
  <2>3. QED BY <2>1, <2>2, CallLinkStep, ServiceLinkStep DEF TransportNext
<1>3. QED
  BY <1>1, <1>2, TransportTypeCorrect, TransportRetries, TransportSends, PTL
  DEF TransportSpec, ImplementsLink, Link!OLSpec
=============================================================================
