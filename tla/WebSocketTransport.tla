------------------------- MODULE WebSocketTransport -------------------------
(***************************************************************************)
(* WebSocketTransport (client/src/transports/WebsocketTransport.cpp): one  *)
(* websocket connection kept up by one service thread.  Any thread may     *)
(* hand the service thread a task (InvokeTask); the service thread         *)
(* alternates between lws_service, which delivers the callbacks of         *)
(* libwebsockets, and draining the tasks.                                  *)
(*                                                                         *)
(* A callback that calls the listener is a state of its own (thread =      *)
(* "callback"), so that other threads interleave with the listener.  The   *)
(* module checked alone has a listener that only returns; module Peer      *)
(* supplies the real one.                                                  *)
(***************************************************************************)
EXTENDS Naturals, Sequences

CONSTANTS
  Message,   \* what send() may be given
  Closure,   \* what scheduleTask() may be given, by the value it captures
  MaxRetry,  \* retry_count is followed up to here: the code compares it with 0
  MaxTasks,  \* bound on pending tasks when the module is checked alone
  None       \* no closure saved yet

ASSUME MaxRetryAssumption == MaxRetry \in Nat \ {0}

VARIABLES
  thread,       \* where the service thread is in runWebSocket
  upcall,       \* the listener method the service thread is in, or "none"
  context,      \* m_context
  closed,       \* m_closed
  owner,        \* the owner of the object: alive, in the destructor, gone
  fault,        \* what ended the process (undefined behaviour, an exception)
  conn,         \* the current connection, as libwebsockets sees it
  wsi,          \* m_connectionInfo.wsi: null, the connection's, or freed
  connectSul,   \* m_connectionInfo.sul is armed
  retryCount,   \* m_connectionInfo.retry_count
  receivedMsg,  \* m_receivedMsg: empty, pieces of this message, or of another
  tasks,        \* tasks
  msgQueue,     \* m_msgQueue
  writable,     \* a WRITEABLE callback has been asked for on the connection
  timer,        \* m_sul is armed
  task,         \* m_task
  sent,         \* history: what send() was given, in order
  written       \* history: what lws_write was given, in order

lifeVars  == <<thread, upcall, context, closed, owner, fault>>
connVars  == <<conn, wsi, connectSul, retryCount, receivedMsg>>
queueVars == <<tasks, msgQueue, writable, sent, written>>
timerVars == <<timer, task>>
transportVars == <<lifeVars, connVars, queueVars, timerVars>>

Task == [op : {"send"}, arg : Message] \cup [op : {"schedule"}, arg : Closure]
        \cup {[op |-> "cancel"]}

LifeTypeOK ==
  /\ thread \in {"start", "service", "connect", "callback", "drain",
                 "lastDrain", "destroy", "exited"}
  /\ upcall \in {"none", "onConnected", "onReConnected", "onClosed",
                 "onFailed", "onMessage", "timeout"}
  /\ context \in {"null", "live", "destroying", "destroyed"}
  /\ closed \in BOOLEAN
  /\ owner \in {"alive", "joining", "destroyed"}
  /\ fault \in {"none", "nullContext", "freedContext", "freedWsi",
                "doubleDestroy", "parse", "dump", "promise", "tableRace",
                "nullTransport"}

ConnTypeOK ==
  /\ conn \in {"idle", "connecting", "open", "closing"}
  /\ wsi \in {"null", "live", "stale"}
  /\ connectSul \in BOOLEAN
  /\ retryCount \in 0 .. MaxRetry
  /\ receivedMsg \in {"empty", "partial", "stale"}

QueueTypeOK ==
  /\ tasks \in Seq(Task)
  /\ msgQueue \in Seq(Message)
  /\ writable \in BOOLEAN
  /\ sent \in Seq(Message)
  /\ written \in Seq(Message)

TimerTypeOK ==
  /\ timer \in BOOLEAN
  /\ task \in Closure \cup {None}
  /\ timer => task \in Closure

TransportTypeOK == LifeTypeOK /\ ConnTypeOK /\ QueueTypeOK /\ TimerTypeOK

TransportInit ==
  /\ thread = "start" /\ upcall = "none" /\ context = "null"
  /\ closed = FALSE /\ owner = "alive" /\ fault = "none"
  /\ conn = "idle" /\ wsi = "null" /\ connectSul = FALSE /\ retryCount = 0
  /\ receivedMsg = "empty"
  /\ tasks = <<>> /\ msgQueue = <<>> /\ writable = FALSE
  /\ timer = FALSE /\ task = None
  /\ sent = <<>> /\ written = <<>>

-----------------------------------------------------------------------------
(* Calls made by other threads. *)

(* InvokeTask: push under the mutex, then lws_cancel_service(m_context).    *)
(* The wake-up is not a variable: lws_service always returns (ServiceReturns). *)
(* A null context is dereferenced; a freed one may or may not bring the     *)
(* process down.                                                            *)
InvokeTask(t) ==
  /\ tasks' = Append(tasks, t)
  /\ fault' \in CASE context = "null"      -> {"nullContext"}
                  [] context = "destroyed" -> {fault, "freedContext"}
                  [] OTHER                 -> {fault}

Send(m) ==
  /\ InvokeTask([op |-> "send", arg |-> m])
  /\ sent' = Append(sent, m)
  /\ UNCHANGED <<thread, upcall, context, closed, owner, connVars,
                 msgQueue, writable, written, timerVars>>

ScheduleTask(c) ==
  /\ InvokeTask([op |-> "schedule", arg |-> c])
  /\ UNCHANGED <<thread, upcall, context, closed, owner, connVars,
                 msgQueue, writable, sent, written, timerVars>>

CancelScheduledTask ==
  /\ InvokeTask([op |-> "cancel"])
  /\ UNCHANGED <<thread, upcall, context, closed, owner, connVars,
                 msgQueue, writable, sent, written, timerVars>>

(* A slip of the one below: m_closed is not set before the join.           *)
BeginDestructorUnannounced ==
  /\ owner = "alive"
  /\ owner' = "joining"
  /\ UNCHANGED <<thread, upcall, context, closed, fault, connVars, queueVars, timerVars>>

(* ~WebSocketTransport: stop the service thread, join it, destroy the      *)
(* context.  The thread destroyed a context it created before it exited,   *)
(* and left m_context set.                                                 *)
BeginDestructor ==
  /\ owner = "alive"
  /\ owner' = "joining" /\ closed' = TRUE
  /\ UNCHANGED <<thread, upcall, context, fault, connVars, queueVars, timerVars>>

EndDestructor ==
  /\ owner = "joining" /\ thread = "exited"
  /\ owner' = "destroyed"
  /\ fault' \in IF context = "null" THEN {fault} ELSE {fault, "doubleDestroy"}
  /\ UNCHANGED <<thread, upcall, context, closed, connVars, queueVars, timerVars>>

-----------------------------------------------------------------------------
(* The service thread, outside lws_service. *)

(* lws_create_context may fail, and the thread then returns.               *)
CreateContext ==
  /\ thread = "start"
  /\ \/ /\ context' = "live" /\ connectSul' = TRUE
        /\ thread' = IF closed THEN "destroy" ELSE "service"
     \/ thread' = "exited" /\ UNCHANGED <<context, connectSul>>
  /\ UNCHANGED <<upcall, closed, owner, fault, conn, wsi, retryCount,
                 receivedMsg, queueVars, timerVars>>

(* lws_service returns: after events, after a wake-up, or with an error.   *)
ServiceReturns ==
  /\ thread = "service"
  /\ thread' = "drain"
  /\ UNCHANGED <<upcall, context, closed, owner, fault, connVars, queueVars, timerVars>>

ServiceFails ==
  /\ thread = "service"
  /\ thread' = "lastDrain"
  /\ UNCHANGED <<upcall, context, closed, owner, fault, connVars, queueVars, timerVars>>

Draining == thread \in {"drain", "lastDrain"}

(* A slip: without a wsi the text is dropped instead of queued.            *)
RunSendDropping(m) ==
  /\ msgQueue' = IF wsi = "live" THEN Append(msgQueue, m) ELSE msgQueue
  /\ writable' = (writable \/ wsi = "live")
  /\ fault' \in IF wsi = "stale" THEN {fault, "freedWsi"} ELSE {fault}
  /\ UNCHANGED timerVars

(* The task of send: queue the text, ask for a WRITEABLE callback if there *)
(* is a wsi.  The wsi of a lost connection has been freed.                 *)
RunSend(m) ==
  /\ msgQueue' = Append(msgQueue, m)
  /\ writable' = (writable \/ wsi = "live")
  /\ fault' \in IF wsi = "stale" THEN {fault, "freedWsi"} ELSE {fault}
  /\ UNCHANGED timerVars

(* A slip: the timer is armed only if there is a wsi.                      *)
RunScheduleOnWsi(c) ==
  /\ timer' = (wsi = "live") /\ task' = c
  /\ UNCHANGED <<msgQueue, writable, fault>>

(* A slip: the timer is armed, and m_task is not saved.                    *)
RunScheduleUnsaved(c) ==
  /\ timer' = TRUE
  /\ UNCHANGED <<task, msgQueue, writable, fault>>

RunSchedule(c) ==
  /\ timer' = TRUE /\ task' = c
  /\ UNCHANGED <<msgQueue, writable, fault>>

RunCancel ==
  /\ timer' = FALSE
  /\ UNCHANGED <<task, msgQueue, writable, fault>>

(* The task of send: message.dump() throws on a text that is not UTF-8.    *)
DumpThrows ==
  /\ Draining /\ tasks # <<>> /\ Head(tasks).op = "send"
  /\ fault' = "dump"
  /\ UNCHANGED <<thread, upcall, context, closed, owner, connVars, queueVars, timerVars>>

RunTask ==
  /\ Draining /\ tasks # <<>>
  /\ LET t == Head(tasks) IN
       \/ t.op = "send" /\ RunSend(t.arg)
       \/ t.op = "schedule" /\ RunSchedule(t.arg)
       \/ t.op = "cancel" /\ RunCancel
  /\ tasks' = Tail(tasks)
  /\ UNCHANGED <<thread, upcall, context, closed, owner, connVars, sent, written>>

(* The loop condition, read when the tasks have run.                       *)
TasksDone ==
  /\ Draining /\ tasks = <<>>
  /\ IF closed \/ thread = "lastDrain"
       THEN thread' = "destroy" /\ context' = "destroying"
       ELSE thread' = "service" /\ UNCHANGED context
  /\ UNCHANGED <<upcall, closed, owner, fault, connVars, queueVars, timerVars>>

(* lws_context_destroy closes the connection, with its callback, and frees *)
(* the context.                                                            *)
DestroyContext ==
  /\ thread = "destroy"
  /\ IF conn = "idle"
       THEN /\ thread' = "exited" /\ context' = "destroyed"
            /\ UNCHANGED <<upcall, conn, wsi>>
       ELSE /\ thread' = "callback"
            /\ upcall' = IF conn = "connecting" THEN "onFailed" ELSE "onClosed"
            /\ conn' = "idle" /\ wsi' = "stale"
            /\ context' = "destroying"
  /\ writable' = FALSE
  /\ UNCHANGED <<closed, owner, fault, connectSul, retryCount, receivedMsg,
                 tasks, msgQueue, sent, written, timerVars>>

-----------------------------------------------------------------------------
(* The service thread in lws_service: libwebsockets delivers an event.     *)

Upcall(method) == thread' = "callback" /\ upcall' = method

(* The end of the connection: the unfinished message stays in m_receivedMsg, *)
(* the wsi is freed and the pointer kept.                                  *)
DropConnection ==
  /\ conn' = "idle" /\ wsi' = "stale" /\ writable' = FALSE
  /\ receivedMsg' = IF receivedMsg = "empty" THEN "empty" ELSE "stale"

(* do_retry, and the retry of connectClient: the table never gives up      *)
(* (LWS_RETRY_CONCEAL_ALWAYS), so the attempt is always scheduled.         *)
ScheduleRetry ==
  /\ connectSul' = TRUE
  /\ retryCount' = IF retryCount < MaxRetry THEN retryCount + 1 ELSE MaxRetry

ConnectSulFires ==
  /\ thread = "service" /\ connectSul
  /\ connectSul' = FALSE /\ thread' = "connect"
  /\ UNCHANGED <<upcall, context, closed, owner, fault, conn, wsi, retryCount,
                 receivedMsg, queueVars, timerVars>>

(* A slip: a NULL from lws_client_connect_via_info is not retried.         *)
ConnectClientGivesUp ==
  /\ thread = "connect"
  /\ \/ /\ conn' = "connecting" /\ wsi' = "live" /\ thread' = "service"
        /\ UNCHANGED upcall
     \/ /\ wsi' = "null" /\ thread' = "service"
        /\ UNCHANGED <<upcall, conn>>
     \/ /\ wsi' = "null" /\ Upcall("onFailed")
        /\ UNCHANGED conn
  /\ UNCHANGED <<context, closed, owner, fault, connectSul, retryCount,
                 receivedMsg, queueVars, timerVars>>

(* connectClient: lws_client_connect_via_info starts a connection, returns *)
(* NULL, or returns NULL after a CONNECTION_ERROR callback (whose retry    *)
(* and the one for NULL arm the same sul).                                 *)
ConnectClient ==
  /\ thread = "connect"
  /\ \/ /\ conn' = "connecting" /\ wsi' = "live" /\ thread' = "service"
        /\ UNCHANGED <<upcall, connectSul, retryCount>>
     \/ /\ wsi' = "null" /\ thread' = "service" /\ ScheduleRetry
        /\ UNCHANGED <<upcall, conn>>
     \/ /\ wsi' = "null" /\ Upcall("onFailed")
        /\ UNCHANGED <<conn, connectSul, retryCount>>
  /\ UNCHANGED <<context, closed, owner, fault, receivedMsg, queueVars, timerVars>>

(* A WRITEABLE asked for while connecting may be absorbed by the handshake. *)
ConnectionEstablished ==
  /\ thread = "service" /\ conn = "connecting"
  /\ conn' = "open"
  /\ writable' \in {writable, FALSE}
  /\ Upcall(IF retryCount > 0 THEN "onReConnected" ELSE "onConnected")
  /\ UNCHANGED <<context, closed, owner, fault, wsi, connectSul, retryCount,
                 receivedMsg, tasks, msgQueue, sent, written, timerVars>>

ConnectionError ==
  /\ thread = "service" /\ conn = "connecting"
  /\ DropConnection
  /\ Upcall("onFailed")
  /\ UNCHANGED <<context, closed, owner, fault, connectSul, retryCount,
                 tasks, msgQueue, sent, written, timerVars>>

(* CLIENT_CLOSED: a loss, a hangup after 10 s without a sign of life, or   *)
(* the end of a close handshake.                                           *)
ConnectionClosed ==
  /\ thread = "service" /\ conn \in {"open", "closing"}
  /\ DropConnection
  /\ Upcall("onClosed")
  /\ UNCHANGED <<context, closed, owner, fault, connectSul, retryCount,
                 tasks, msgQueue, sent, written, timerVars>>

(* WS_PEER_INITIATED_CLOSE: the server sent a close frame.                 *)
PeerInitiatedClose ==
  /\ thread = "service" /\ conn = "open"
  /\ conn' = "closing" /\ closed' = TRUE
  /\ UNCHANGED <<thread, upcall, context, owner, fault, wsi, connectSul,
                 retryCount, receivedMsg, queueVars, timerVars>>

(* A slip: a message that was written stays in m_msgQueue.                 *)
ClientWriteableKeeping ==
  /\ thread = "service" /\ conn = "open" /\ writable
  /\ writable' = FALSE
  /\ written' = written \o SubSeq(msgQueue, 1, 1)
  /\ UNCHANGED <<lifeVars, connVars, tasks, msgQueue, sent, timerVars>>

(* CLIENT_WRITEABLE: one message is written, and no other callback asked for. *)
ClientWriteable ==
  /\ thread = "service" /\ conn = "open" /\ writable
  /\ writable' = FALSE
  /\ IF msgQueue # <<>>
       THEN /\ msgQueue' = Tail(msgQueue)
            /\ written' = Append(written, Head(msgQueue))
       ELSE UNCHANGED <<msgQueue, written>>
  /\ UNCHANGED <<lifeVars, connVars, tasks, sent, timerVars>>

(* CLIENT_RECEIVE of a fragment that is not the last one of its message, or *)
(* of a last one that is empty: the code skips it (len > 0), and the pieces *)
(* it ended stay in front of the next message.                             *)
ReceiveFragment ==
  /\ thread = "service" /\ conn = "open"
  /\ \/ receivedMsg' = IF receivedMsg = "stale" THEN "stale" ELSE "partial"
     \/ receivedMsg # "empty" /\ receivedMsg' = "stale"
  /\ UNCHANGED <<lifeVars, conn, wsi, connectSul, retryCount, queueVars, timerVars>>

(* CLIENT_RECEIVE of the last fragment: parse m_receivedMsg, onMessage.    *)
(* Message::parse throws on what is not of the protocol (ProtooMessage),   *)
(* and on the pieces of a lost message in front of another; nothing on the *)
(* service thread catches.                                                 *)
ReceiveFinal(parses) ==
  /\ thread = "service" /\ conn = "open"
  /\ IF parses /\ receivedMsg # "stale"
       THEN Upcall("onMessage") /\ receivedMsg' = "empty" /\ UNCHANGED fault
       ELSE fault' = "parse" /\ UNCHANGED <<thread, upcall, receivedMsg>>
  /\ UNCHANGED <<context, closed, owner, conn, wsi, connectSul, retryCount,
                 queueVars, timerVars>>

(* The sul callback of scheduleTask: run the closure saved last.           *)
TimerFires ==
  /\ thread = "service" /\ timer
  /\ timer' = FALSE
  /\ Upcall("timeout")
  /\ UNCHANGED <<context, closed, owner, fault, connVars, queueVars, task>>

(* A slip: a connection that was lost, not refused, is not retried.        *)
CallbackReturnsNoRetry ==
  /\ thread = "callback"
  /\ thread' = IF context = "destroying" THEN "destroy" ELSE "service"
  /\ upcall' = "none"
  /\ IF upcall = "onFailed"
       THEN ScheduleRetry
       ELSE UNCHANGED <<connectSul, retryCount>>
  /\ UNCHANGED <<context, closed, owner, fault, conn, wsi, receivedMsg,
                 queueVars, timerVars>>

(* A slip: every callback about the connection is followed by a retry.     *)
CallbackReturnsRetrying ==
  /\ thread = "callback"
  /\ thread' = IF context = "destroying" THEN "destroy" ELSE "service"
  /\ upcall' = "none"
  /\ IF upcall \in {"onConnected", "onReConnected", "onClosed", "onFailed"}
       THEN ScheduleRetry
       ELSE UNCHANGED <<connectSul, retryCount>>
  /\ UNCHANGED <<context, closed, owner, fault, conn, wsi, receivedMsg,
                 queueVars, timerVars>>

(* The listener method, or the closure, returns; onClosed and onFailed are *)
(* followed by do_retry.                                                   *)
CallbackReturns ==
  /\ thread = "callback"
  /\ thread' = IF context = "destroying" THEN "destroy" ELSE "service"
  /\ upcall' = "none"
  /\ IF upcall \in {"onClosed", "onFailed"}
       THEN ScheduleRetry
       ELSE UNCHANGED <<connectSul, retryCount>>
  /\ UNCHANGED <<context, closed, owner, fault, conn, wsi, receivedMsg,
                 queueVars, timerVars>>

-----------------------------------------------------------------------------
(* Steps of the service thread that a listener has no part in.             *)
ServiceStep ==
  \/ CreateContext \/ ServiceReturns \/ ServiceFails \/ RunTask \/ DumpThrows
  \/ TasksDone
  \/ ConnectSulFires \/ ConnectClient
  \/ ConnectionEstablished \/ ConnectionError \/ PeerInitiatedClose
  \/ ReceiveFragment \/ TimerFires

(* The module alone: every message is sent at most once; timers are set    *)
(* and cancelled while fewer than MaxTasks tasks are pending.              *)
ClientCall ==
  /\ owner = "alive"
  /\ \/ \E m \in Message : (\A i \in DOMAIN sent : sent[i] # m) /\ Send(m)
     \/ /\ Len(tasks) < MaxTasks
        /\ CancelScheduledTask \/ \E c \in Closure : ScheduleTask(c)

TransportNext ==
  /\ fault = "none"
  /\ \/ ServiceStep \/ DestroyContext \/ ConnectionClosed \/ ClientWriteable
     \/ \E parses \in BOOLEAN : ReceiveFinal(parses)
     \/ CallbackReturns
     \/ ClientCall \/ BeginDestructor \/ EndDestructor

TransportSpec == TransportInit /\ [][TransportNext]_transportVars
-----------------------------------------------------------------------------
(* Fairness.  lws_service handles what one poll reported and returns, and   *)
(* its scheduler runs a sul that is due on every pass, however many passes  *)
(* are spent on other events: strong fairness.  The other steps are the    *)
(* service thread running.  Nothing is assumed of the network, of the      *)
(* server or of the callers.                                               *)
Alive(A) == fault = "none" /\ A

ServiceFairness ==
  /\ WF_transportVars(Alive(CreateContext)) /\ SF_transportVars(Alive(ServiceReturns))
  /\ WF_transportVars(Alive(RunTask)) /\ WF_transportVars(Alive(TasksDone))
  /\ WF_transportVars(Alive(DestroyContext))
  /\ SF_transportVars(Alive(ConnectSulFires)) /\ WF_transportVars(Alive(ConnectClient))

TransportFairSpec ==
  /\ TransportSpec /\ ServiceFairness
  /\ WF_transportVars(Alive(CallbackReturns)) /\ WF_transportVars(Alive(EndDestructor))

-----------------------------------------------------------------------------
(* Properties that hold. *)

(* While the service loop runs, a connection attempt is scheduled exactly  *)
(* when there is no connection: a loss or a failed attempt is always       *)
(* followed by a retry, and no retry opens a second connection beside a    *)
(* live one (do_retry, connectClient).                                     *)
RetryArmed ==
  thread \in {"service", "drain", "lastDrain"} => (connectSul <=> conn = "idle")

(* The places in tasks of what send() was given and the loop has not run.  *)
SendPlaces == {k \in DOMAIN tasks : tasks[k].op = "send"}

(* The send() calls still in tasks: at tells, in order and one to one, at  *)
(* which place of tasks the i-th message given to send() waits.            *)
Waiting(at) ==
  LET waiting == Len(written) + Len(msgQueue) + 1 .. Len(sent) IN
  /\ at \in [waiting -> SendPlaces]
  /\ \A i, j \in waiting : i < j => at[i] < at[j]
  /\ \A k \in SendPlaces : \E i \in waiting : at[i] = k
  /\ \A i \in waiting : tasks[at[i]].arg = sent[i]

(* What send() was given is, in order, what has been written, then what    *)
(* waits in m_msgQueue, then what waits in tasks: across two queues, two   *)
(* threads and any number of reconnections nothing is dropped, duplicated  *)
(* or overtaken (send, LWS_CALLBACK_CLIENT_WRITEABLE).                     *)
SendOrder ==
  LET accepted == written \o msgQueue
      waiting  == Len(accepted) + 1 .. Len(sent)
  IN  /\ Len(accepted) <= Len(sent)
      /\ \A i \in 1 .. Len(accepted) : sent[i] = accepted[i]
      /\ \E at \in [waiting -> SendPlaces] : Waiting(at)

Link == INSTANCE OrderedLink WITH link <- conn, handed <- sent, carried <- written

(* The transport is an OrderedLink: a connection is attempted only when    *)
(* there is none, carries messages only while it is open, and goes on with *)
(* the order where the connection before it was lost (connectClient,       *)
(* do_retry, LWS_CALLBACK_CLIENT_WRITEABLE).                               *)
ImplementsLink == Link!OLSpec

(* Callers that push tasks as fast as they run keep the service thread in  *)
(* the drain loop for ever: it tests tasks, not m_closed (line 380).       *)
Starved == <>[](fault = "none" /\ thread \in {"drain", "lastDrain"})

(* A client without a connection always comes to the next attempt, unless  *)
(* the service loop ends ("endless try"); only callers that never let the  *)
(* queue run empty can prevent it.                                         *)
RetriesForever ==
  \/ Starved
  \/ (thread = "service" /\ conn = "idle")
       ~> (thread \in {"connect", "destroy", "exited"} \/ fault # "none")

(* The destructor returns: the join does not wait for ever, whatever the   *)
(* service thread was doing and whatever tasks were pending.  Nobody calls *)
(* the object any more, so nobody can starve it.                           *)
DestructorReturns == (owner = "joining") ~> (owner = "destroyed" \/ fault # "none")

-----------------------------------------------------------------------------
(* Properties that comments of the repository state and the code does not  *)
(* keep, each checked by a run that expects its violation.                 *)

(* "if there are messages in the send queue, lws_callback_on_writable must *)
(* be called" (the comment at the head of the service loop).               *)
QueuedMeansWritable ==
  (thread = "service" /\ conn = "open" /\ msgQueue # <<>>) => writable

(* "Thread exit flag stop && noMsg", "noMsg is used to ensure that          *)
(* messages [...] are sent out before the thread exits" (m_closed and       *)
(* m_noMsg in WebsocketTransport.h): the loop does not end over a message  *)
(* which the connection could still carry.                                 *)
FlushedBeforeExit == thread = "destroy" /\ conn = "open" => msgQueue = <<>>
=============================================================================
