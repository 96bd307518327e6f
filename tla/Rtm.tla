-------------------------------- MODULE Rtm --------------------------------
(***************************************************************************)
(* RTM (qrtm.cpp) with the listener of main.cpp: one worker thread runs,   *)
(* in order, the calls of the application and the events of the Peer.      *)
(*                                                                         *)
(* The Peer is used through what RequestService promises of it: a request  *)
(* waits until it is answered or times out.  The connection and the server *)
(* are modelled as far as the worker can tell: what was sent is delivered  *)
(* in order while there is a connection, and a new connection starts with  *)
(* nobody logged in.                                                       *)
(***************************************************************************)
EXTENDS Naturals, Sequences

CONSTANTS
  Call,             \* calls of the application thread, each made at most once
  Channel,          \* channel names
  NoChannel,        \* the empty string m_channelName starts with
  Lobby,            \* the channel the listener subscribes to
  MaxFailures,      \* bound: failed attempts and losses of a connection
  MaxNotifications  \* bound: messages of other members

ASSUME RtmAssumption ==
  /\ Lobby \in Channel /\ NoChannel \notin Channel
  /\ MaxFailures \in Nat /\ MaxNotifications \in Nat

VARIABLES
  running,        \* m_bRunning
  worker,         \* where the worker thread is in WorkerFunction
  tasks,          \* tasks
  current,        \* the task the worker runs
  step,           \* how far it is in it
  awaiting,       \* what has become of the request the worker waits for
  channelName,    \* m_channelName
  future,         \* the future a call returned: none, waiting, stored, ready
  owner,          \* the application's RTM object
  hooks,          \* the Peer exists; connect has set its callbacks
  link,           \* the connection of the Peer
  failures,       \* retry_count of the transport
  told,           \* the callback for this connection has queued its task
  outbox,         \* what the Peer has still to deliver, in order
  did,            \* the logins and subscriptions the server did over it
  notifications,  \* messages of other members so far
  fault           \* what ended the process

workerVars == <<running, worker, current, step, awaiting, channelName>>
appVars    == <<future, owner>>
linkVars   == <<link, failures, told, did, notifications>>
rtmVars    == <<workerVars, appVars, linkVars, tasks, hooks, outbox, fault>>

Op      == {"login", "logout", "subscribe", "unsubscribe", "publish"}
Message == [op : Op, ch : Channel \cup {NoChannel}]
Event   == {"connected", "reconnected", "closed", "message", "presence"}
Task    == [kind : {"call"}, call : Call, do : Message]
           \cup [kind : {"publish"}, do : Message] \cup [kind : Event]

Do(op, ch) == [op |-> op, ch |-> ch]
Login == Do("login", NoChannel)

(* A slip of the one below: a reconnection subscribes without logging in.  *)
ScriptWithoutLogin(t) ==
  CASE t.kind \in {"call", "publish"} -> <<t.do>>
    [] t.kind = "connected"           -> <<Login, Do("subscribe", Lobby)>>
    [] t.kind = "reconnected"         -> <<Do("subscribe", channelName)>>
    [] t.kind = "message"             -> <<Do("publish", Lobby)>>
    [] OTHER                          -> <<>>

(* The requests and publications a task makes, one after another.  The     *)
(* listener: onConnected logs in and subscribes, onReceiveMessage may      *)
(* answer with a publication, the others do nothing.                       *)
Script(t) ==
  CASE t.kind \in {"call", "publish"} -> <<t.do>>
    [] t.kind = "connected"           -> <<Login, Do("subscribe", Lobby)>>
    [] t.kind = "reconnected"         -> <<Login, Do("subscribe", channelName)>>
    [] t.kind = "message"             -> <<Do("publish", Lobby)>>
    [] OTHER                          -> <<>>

QueueTypeOK == tasks \in Seq(Task) /\ outbox \in Seq(Message)

FlagTypeOK == running \in BOOLEAN /\ told \in BOOLEAN

StateTypeOK ==
  /\ worker \in {"drain", "task", "wait", "sleep", "exited"}
  /\ current \in Task
  /\ step \in 1 .. 3
  /\ awaiting \in {"none", "queued", "accepted", "refused", "lost"}
  /\ channelName \in Channel \cup {NoChannel}
  /\ future \in [Call -> {"none", "waiting", "stored", "ready"}]
  /\ owner \in {"alive", "joining", "destroyed"}
  /\ hooks \in {"noPeer", "unset", "set"}
  /\ link \in {"none", "down", "up"}
  /\ failures \in 0 .. MaxFailures
  /\ did \subseteq Message
  /\ notifications \in 0 .. MaxNotifications
  /\ fault \in {"none", "terminate", "callbackRace"}

(* The worker waits exactly for a request it has made.                     *)
WaitTypeOK == worker = "wait" <=> awaiting # "none"

RtmTypeOK == QueueTypeOK /\ FlagTypeOK /\ StateTypeOK /\ WaitTypeOK

RtmInit ==
  /\ running = TRUE /\ worker = "sleep" /\ tasks = <<>>
  /\ current = [kind |-> "closed"] /\ step = 1 /\ awaiting = "none"
  /\ channelName = NoChannel
  /\ future = [k \in Call |-> "none"] /\ owner = "alive" /\ hooks = "noPeer"
  /\ link = "none" /\ failures = 0 /\ told = FALSE /\ outbox = <<>>
  /\ did = {} /\ notifications = 0 /\ fault = "none"

-----------------------------------------------------------------------------
(* The application thread. *)

InvokeTask(t) == tasks' = Append(tasks, t)

(* connect: the Peer starts its thread when it is constructed, before the  *)
(* callbacks are assigned.                                                 *)
ConnectBegins ==
  /\ owner = "alive" /\ hooks = "noPeer"
  /\ hooks' = "unset" /\ link' = "down"
  /\ UNCHANGED <<workerVars, appVars, failures, told, did, notifications,
                 tasks, outbox, fault>>

ConnectReturns ==
  /\ hooks = "unset"
  /\ hooks' = "set"
  /\ UNCHANGED <<workerVars, appVars, linkVars, tasks, outbox, fault>>

(* login, logout, subscribe and unsubscribe off the worker thread: queue   *)
(* the internal call, return the future of its promise.                    *)
CallRequest(k, op, ch) ==
  /\ owner = "alive" /\ hooks = "set" /\ future[k] = "none"
  /\ InvokeTask([kind |-> "call", call |-> k, do |-> Do(op, ch)])
  /\ future' = [future EXCEPT ![k] = "waiting"]
  /\ UNCHANGED <<workerVars, owner, linkVars, hooks, outbox, fault>>

(* A slip: publish runs on the thread of its caller.                       *)
CallPublishDirectly(k) ==
  /\ owner = "alive" /\ hooks = "set" /\ future[k] = "none"
  /\ outbox' = Append(outbox, Do("publish", Lobby))
  /\ future' = [future EXCEPT ![k] = "ready"]
  /\ UNCHANGED <<workerVars, owner, linkVars, tasks, hooks, fault>>

(* publish off the worker thread returns nothing.                          *)
CallPublish(k) ==
  /\ owner = "alive" /\ hooks = "set" /\ future[k] = "none"
  /\ InvokeTask([kind |-> "publish", do |-> Do("publish", Lobby)])
  /\ future' = [future EXCEPT ![k] = "ready"]
  /\ UNCHANGED <<workerVars, owner, linkVars, hooks, outbox, fault>>

(* A slip: m_bRunning is not cleared before the join.                      *)
BeginDestructorUnannounced ==
  /\ owner = "alive" /\ hooks # "unset"
  /\ owner' = "joining"
  /\ UNCHANGED <<workerVars, future, linkVars, tasks, hooks, outbox, fault>>

(* ~RTM: stop the worker and join it; the tasks left are destroyed with    *)
(* their promises, and the Peer goes.                                      *)
BeginDestructor ==
  /\ owner = "alive" /\ hooks # "unset"
  /\ owner' = "joining" /\ running' = FALSE
  /\ UNCHANGED <<worker, current, step, awaiting, channelName, future, linkVars,
                 tasks, hooks, outbox, fault>>

(* A slip: the tasks left keep their promises.                             *)
EndDestructorForgets ==
  /\ owner = "joining" /\ worker = "exited"
  /\ owner' = "destroyed" /\ hooks' = "noPeer" /\ link' = "none"
  /\ tasks' = <<>> /\ outbox' = <<>>
  /\ UNCHANGED <<workerVars, future, failures, told, did, notifications, fault>>

EndDestructor ==
  /\ owner = "joining" /\ worker = "exited"
  /\ owner' = "destroyed" /\ hooks' = "noPeer" /\ link' = "none"
  /\ tasks' = <<>> /\ outbox' = <<>>
  /\ future' = [k \in Call |->
       IF \E j \in DOMAIN tasks : tasks[j].kind = "call" /\ tasks[j].call = k
       THEN "ready" ELSE future[k]]
  /\ UNCHANGED <<workerVars, failures, told, did, notifications, fault>>

AppStep ==
  \/ ConnectBegins \/ ConnectReturns \/ BeginDestructor \/ EndDestructor
  \/ \E k \in Call :
       \/ \E op \in {"login", "logout"} : CallRequest(k, op, NoChannel)
       \/ \E op \in {"subscribe", "unsubscribe"}, ch \in Channel : CallRequest(k, op, ch)
       \/ CallPublish(k)

-----------------------------------------------------------------------------
(* The worker thread. *)

(* A slip: the newest task is taken first.                                 *)
TakeTaskNewest ==
  /\ worker = "drain" /\ tasks # <<>>
  /\ worker' = "task" /\ current' = tasks[Len(tasks)] /\ step' = 1
  /\ tasks' = SubSeq(tasks, 1, Len(tasks) - 1)
  /\ UNCHANGED <<running, awaiting, channelName, appVars, linkVars, hooks,
                 outbox, fault>>

TakeTask ==
  /\ worker = "drain" /\ tasks # <<>>
  /\ worker' = "task" /\ current' = Head(tasks) /\ step' = 1
  /\ tasks' = Tail(tasks)
  /\ UNCHANGED <<running, awaiting, channelName, appVars, linkVars, hooks,
                 outbox, fault>>

(* tasks.empty() is read without the lock: what is pushed at that moment   *)
(* may be missed until the next round.                                     *)
Sleep ==
  /\ worker = "drain"
  /\ worker' = "sleep"
  /\ UNCHANGED <<running, current, step, awaiting, channelName, appVars, linkVars,
                 tasks, hooks, outbox, fault>>

(* m_bRunning is read between two rounds only; what the promises were      *)
(* given with ..._at_thread_exit becomes ready when the thread exits.      *)
Wake ==
  /\ worker = "sleep"
  /\ IF running
       THEN worker' = "drain" /\ UNCHANGED future
       ELSE /\ worker' = "exited"
            /\ future' = [k \in Call |-> IF future[k] = "stored" THEN "ready" ELSE future[k]]
  /\ UNCHANGED <<running, current, step, awaiting, channelName, owner, linkVars,
                 tasks, hooks, outbox, fault>>

Next1 == Script(current)[step]

(* A slip: the worker waits for a promise it did not give to a request.    *)
MakeRequestUnkept ==
  /\ worker = "task" /\ step <= Len(Script(current)) /\ Next1.op # "publish"
  /\ outbox' = Append(outbox, Next1)
  /\ worker' = "wait"
  /\ UNCHANGED <<running, current, step, awaiting, channelName, appVars, linkVars,
                 tasks, hooks, fault>>

(* loginInternal and the other three: Peer::request, then wait for it.     *)
MakeRequest ==
  /\ worker = "task" /\ step <= Len(Script(current)) /\ Next1.op # "publish"
  /\ outbox' = Append(outbox, Next1)
  /\ awaiting' = "queued" /\ worker' = "wait"
  /\ UNCHANGED <<running, current, step, channelName, appVars, linkVars, tasks,
                 hooks, fault>>

(* publishInternal.  RTM::publish on the worker thread, which the listener *)
(* calls, publishes and then queues a task that publishes again.           *)
Publish ==
  /\ worker = "task" /\ step <= Len(Script(current)) /\ Next1.op = "publish"
  /\ outbox' = Append(outbox, Next1)
  /\ IF current.kind = "message"
       THEN InvokeTask([kind |-> "publish", do |-> Next1])
       ELSE UNCHANGED tasks
  /\ step' = step + 1
  /\ UNCHANGED <<running, worker, current, awaiting, channelName, appVars, linkVars,
                 hooks, fault>>

(* The future of a call is given its result when its task ends.            *)
Store ==
  future' = IF current.kind = "call"
            THEN [future EXCEPT ![current.call] = "stored"] ELSE future

EndTask ==
  /\ worker = "task"
  /\ step > Len(Script(current)) \/ current.kind = "message"
  /\ Store
  /\ worker' = "drain"
  /\ UNCHANGED <<running, current, step, awaiting, channelName, owner, linkVars,
                 tasks, hooks, outbox, fault>>

(* A response came: only subscribeInternal keeps something of it.          *)
RequestSucceeds ==
  /\ worker = "wait" /\ awaiting = "accepted"
  /\ awaiting' = "none" /\ worker' = "task" /\ step' = step + 1
  /\ channelName' = IF Next1.op = "subscribe" THEN Next1.ch ELSE channelName
  /\ UNCHANGED <<running, current, appVars, linkVars, tasks, hooks, outbox, fault>>

(* A slip: the exception of a call is not set on its promise.              *)
RequestFailsUnset ==
  /\ worker = "wait" /\ awaiting # "none"
  /\ awaiting' = "none" /\ worker' = "drain"
  /\ fault' = IF current.kind = "reconnected" THEN "terminate" ELSE fault
  /\ UNCHANGED <<running, current, step, channelName, appVars, linkVars, tasks, hooks,
                 outbox>>

(* A slip: a call that failed is queued again.                             *)
RequestFailsRequeueing ==
  /\ worker = "wait" /\ awaiting # "none"
  /\ awaiting' = "none" /\ worker' = "drain"
  /\ IF current.kind = "reconnected"
       THEN fault' = "terminate" /\ UNCHANGED future
       ELSE Store /\ UNCHANGED fault
  /\ tasks' = tasks \o SelectSeq(<<current>>, LAMBDA t : t.kind = "call")
  /\ UNCHANGED <<running, current, step, channelName, owner, linkVars, hooks, outbox>>

(* An error response or the timeout: get() throws.  A call stores the      *)
(* exception, the listener's onConnected catches it, and nothing catches   *)
(* it in the task that follows a reconnection.                             *)
RequestFails ==
  /\ worker = "wait" /\ awaiting # "none"
  /\ awaiting' = "none" /\ worker' = "drain"
  /\ IF current.kind = "reconnected"
       THEN fault' = "terminate" /\ UNCHANGED future
       ELSE Store /\ UNCHANGED fault
  /\ UNCHANGED <<running, current, step, channelName, owner, linkVars, tasks, hooks,
                 outbox>>

(* onReceiveMessage parses the text of the member, outside any handler.    *)
ListenerThrows ==
  /\ worker = "task" /\ current.kind = "message" /\ step = 1
  /\ fault' = "terminate"
  /\ UNCHANGED <<workerVars, appVars, linkVars, tasks, hooks, outbox>>

WorkerStep ==
  \/ TakeTask \/ Sleep \/ Wake \/ MakeRequest \/ Publish \/ EndTask
  \/ RequestSucceeds \/ RequestFails \/ ListenerThrows

-----------------------------------------------------------------------------
(* The Peer's callbacks, on its own thread, the connection and the server. *)

(* A callback called while connect assigns it is a data race; one not yet  *)
(* assigned is not called.                                                 *)
Callback(event) ==
  IF hooks = "set"
    THEN InvokeTask([kind |-> event]) /\ UNCHANGED fault
    ELSE fault' \in {"none", "callbackRace"} /\ UNCHANGED tasks

Established ==
  /\ link = "down"
  /\ link' = "up" /\ did' = {}
  /\ Callback(IF failures > 0 THEN "reconnected" ELSE "connected")
  /\ told' = (hooks = "set")
  /\ UNCHANGED <<workerVars, appVars, failures, notifications, hooks, outbox>>

(* onPeerFailed does nothing.                                              *)
AttemptFails ==
  /\ link = "down" /\ failures < MaxFailures
  /\ failures' = failures + 1
  /\ UNCHANGED <<workerVars, appVars, link, told, did, notifications, tasks, hooks,
                 outbox, fault>>

(* onPeerClosed.  A request the server had received stays without answer,  *)
(* unless its response had come before.                                    *)
Closed ==
  /\ link = "up" /\ failures < MaxFailures
  /\ link' = "down" /\ failures' = failures + 1
  /\ Callback("closed")
  /\ awaiting' \in {awaiting, IF awaiting \in {"accepted", "refused"} THEN "lost" ELSE awaiting}
  /\ UNCHANGED <<running, worker, current, step, channelName, appVars, told, did,
                 notifications, hooks, outbox>>

(* The server handles what was sent first.  The request the worker waits   *)
(* for, if it is still to be delivered, is the last one.                   *)
Delivered ==
  /\ link = "up" /\ outbox # <<>>
  /\ outbox' = Tail(outbox)
  /\ \E ok \in BOOLEAN :
       /\ did' = IF ok /\ Head(outbox).op \in {"login", "subscribe"}
                 THEN did \cup {Head(outbox)} ELSE did
       /\ awaiting' = IF awaiting = "queued" /\ Len(outbox) = 1
                      THEN IF ok THEN "accepted" ELSE "refused"
                      ELSE awaiting
  /\ UNCHANGED <<running, worker, current, step, channelName, appVars, link, failures,
                 told, notifications, tasks, hooks, fault>>

(* onServerNotification: a channel message or the coming or going of a     *)
(* member is handed to the worker, another method is ignored, and a        *)
(* notification without its fields throws on the Peer's thread             *)
(* (ProtooMessage).                                                        *)
Notified ==
  /\ link = "up" /\ notifications < MaxNotifications
  /\ notifications' = notifications + 1
  /\ \/ \E event \in {"message", "presence"} : Callback(event)
     \/ UNCHANGED <<tasks, fault>>
     \/ hooks = "set" /\ fault' = "terminate" /\ UNCHANGED tasks
  /\ UNCHANGED <<workerVars, appVars, link, failures, told, did, hooks, outbox>>

LinkStep == Established \/ AttemptFails \/ Closed \/ Delivered \/ Notified

-----------------------------------------------------------------------------
RtmNext == fault = "none" /\ (AppStep \/ WorkerStep \/ LinkStep)

RtmSpec == RtmInit /\ [][RtmNext]_rtmVars

(* The listener has asked the user whether to take a call (std::cin).      *)
AsksUser == worker = "task" /\ current.kind = "message"

(* The worker is in get(), and no answer has come.                         *)
Unanswered == worker = "wait" /\ awaiting \in {"queued", "lost"}

Blocked == AsksUser \/ Unanswered

(* The worker thread runs, except that nothing is assumed of the user, nor *)
(* of a request without an answer: the connection or the server may leave  *)
(* it alone for ever, its text may stay unsent (QueuedMeansWritable) and   *)
(* its deadline may be lost (TimeoutCovers).  The worker does not find the *)
(* queue empty for ever while a task is there (the read without the lock   *)
(* can only miss what is being pushed); a destructor that has begun goes   *)
(* on.                                                                     *)
RtmFairSpec ==
  /\ RtmSpec
  /\ WF_rtmVars(fault = "none" /\ ~Blocked /\ WorkerStep)
  /\ SF_rtmVars(fault = "none" /\ TakeTask)
  /\ WF_rtmVars(fault = "none" /\ EndDestructor)

-----------------------------------------------------------------------------
(* Properties that hold. *)

(* The worker has nothing to do, and the connection is one that the        *)
(* callback for a reconnection has reported.                               *)
Restored ==
  /\ fault = "none"
  /\ worker \in {"drain", "sleep"} /\ tasks = <<>>
  /\ link = "up" /\ failures > 0 /\ told

(* After a reconnection the server has logged the user in and subscribed   *)
(* them to the channel saved last over this very connection, whatever was  *)
(* lost, delivered late or called meanwhile (onPeerReConnected).           *)
ReconnectRestores ==
  Restored => {Login, Do("subscribe", channelName)} \subseteq did

(* Once the RTM is destroyed no thread waits for one of its futures.       *)
NoFutureLeft == owner = "destroyed" => \A k \in Call : future[k] \in {"none", "ready"}

(* Where the promise of a call is: in the closures that wait, or in the    *)
(* one that runs.                                                          *)
Places(k) == {j \in DOMAIN tasks : tasks[j].kind = "call" /\ tasks[j].call = k}
InHand(k) == worker \in {"task", "wait"} /\ current.kind = "call" /\ current.call = k

(* A future that waits has its promise in one closure, which is queued or  *)
(* runs, and a closure that is queued or runs has a promise to set: none   *)
(* is set a second time, which would throw where nothing catches, and none *)
(* is lost, however a call ends and whatever is queued about it (login,    *)
(* WorkerFunction).                                                        *)
PromiseInOnePlace ==
  \A k \in Call :
    /\ \A i, j \in Places(k) : i = j
    /\ InHand(k) => Places(k) = {}
    /\ future[k] = "waiting" <=> InHand(k) \/ Places(k) # {}

(* A request the worker waits for is the last thing sent: nothing of a     *)
(* later task overtakes it (all calls run on the worker thread).           *)
OneAtATime ==
  awaiting = "queued" => outbox # <<>> /\ outbox[Len(outbox)] = Next1

NoTask == [kind |-> "none"]
InTurn == INSTANCE SerialExecutor WITH
  Job <- Task, Idle <- NoTask, queue <- tasks,
  running <- IF worker \in {"task", "wait"} THEN current ELSE NoTask

(* The thread, its deque and its 10 ms sleep implement the executor, until *)
(* the destructor drops the tasks left: calls, events and what tasks queue *)
(* run one at a time in the order they came, the waits for answers         *)
(* included (WorkerFunction, InvokeTask).                                  *)
TasksInTurn == InTurn!SEInit /\ [][InTurn!SENext \/ EndDestructor]_(InTurn!seVars)

(* ~RTM returns, whatever is queued and whatever has been lost, unless the *)
(* worker stays for ever with the user or with a request that is neither   *)
(* answered nor timed out: the join has no way to end such a wait.         *)
RtmDestructorReturns ==
  \/ (owner = "joining") ~> (owner = "destroyed" \/ fault # "none")
  \/ <>[]Blocked

(* A call that was queued is carried out, however many tasks the Peer's    *)
(* callbacks put before it, or its promise is destroyed with the RTM,      *)
(* unless the one before it keeps the worker for ever, with the user or    *)
(* with a request that is neither answered nor timed out (InvokeTask,      *)
(* WorkerFunction).                                                        *)
CallsServed ==
  \/ \A k \in Call :
       (future[k] = "waiting") ~> (future[k] \in {"stored", "ready"} \/ fault # "none")
  \/ <>[]Blocked

-----------------------------------------------------------------------------
(* Comments of the repository that the code does not keep. *)

(* "wait for the future returned by loginInternal to complete, and set the *)
(* result on the promise": when the worker has run a call, its future has  *)
(* the result.                                                             *)
ResultSet == worker = "sleep" => \A k \in Call : future[k] # "stored"
=============================================================================
