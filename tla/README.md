# Protoo RTM client: models and proofs

TLA+ models of the client in this repository: the websocket transport
(`client/src/transports/WebsocketTransport.cpp`), the request/response layer
(`client/src/Peer.cpp`), the messages (`client/src/Message.cpp`), the RTM facade
with the demo's listener (`qrtm.cpp`, `main.cpp`), and the two queues of
`client/include/utils/MessageQueue.h`. TLC checks them on small instances, the
liveness properties included; TLAPS proves the invariants of all of them, and
the safety part of every refinement, for every instance.

## The system

| part | state | operations | runs on |
|---|---|---|---|
| `WebSocketTransport` | `m_context`, `m_closed`, `m_connectionInfo` (wsi, retry timer, retry count), `m_receivedMsg`, `tasks`, `m_msgQueue`, one timer (`m_sul`, `m_task`) | `send`, `scheduleTask`, `cancelScheduledTask`, `InvokeTask` (any thread); the service loop and the libwebsockets callbacks; the destructor | its service thread |
| `Peer` | `m_promises` (id to promise), `m_connected` | `request`, `notify` (any thread); `onConnected`, `onReConnected`, `onClosed`, `onFailed`, `onMessage` (callbacks) | callers, service thread |
| `RTM` | `m_bRunning`, `tasks`, `m_channelName`, the Peer and its callbacks | `connect`, `login`, `logout`, `subscribe`, `unsubscribe`, `publish` (any thread); the worker loop; the Peer's callbacks; the destructor | application, worker thread, service thread |
| listener and menu (`main.cpp`) | none | `onConnected` logs in and subscribes, `onReceiveMessage` may publish | worker thread |
| `Message`, `utils` | none | build and parse JSON, draw a five-digit id | callers, service thread |
| `TaskQueue` | `tasks_`, `stop_flag_`, a condition variable | `Invoke` (any thread), `ProcessTasks`, the destructor | its worker |
| `MessageQueue` | `m_tasks`, `m_delayedTasks`, `m_stop`, a condition variable | `Post`, `PostDelayed`, `Stop` (any thread), `Run` | the thread in `Run` |
| `HTTPTransport` | a context, a file-level flag | `sendPostRequest`, which is never called | its caller |
| `server/` | none | a copy of `Message`; the other sources are empty | none |

How they interact. An application call on `RTM` becomes a task of the worker
thread. The worker runs `Peer::request` and waits for its future. `request`
stores a promise, then gives the transport two tasks: arm the timer, queue the
text. The service thread of the transport runs those tasks between two rounds
of `lws_service`, writes queued messages in WRITEABLE callbacks, and calls the
Peer when a connection is made, fails, ends, or carries a message, and when the
timer expires. The Peer completes promises there, and its callbacks hand the
RTM further tasks for the worker. After a reconnection such a task logs in and
subscribes again.

What is hard about it:

- three threads share state, some of it without a lock (`m_promises`,
  `m_closed`, `m_context`, the Peer's callbacks, `tasks.empty()`);
- the connection is lost and made again under queued messages, waiting
  requests, half-received messages and an armed timer;
- one timer serves every request;
- ids are random and may collide;
- destructors join threads that may be waiting themselves;
- an exception on the service thread or in a task of the worker ends the process,
  and every read of a JSON value as another type is one;
- the queues notify after they have released the mutex, and one of them waits
  without a predicate.

What makes each part correct:

- the transport always retries, never holds two connections, loses and reorders
  nothing between `send` and `lws_write`, and its destructor returns;
- in the Peer, table and futures agree, nothing is satisfied twice, an answer
  reaches its own request, a deadline ends its request, and nobody waits on a
  destroyed Peer;
- what `parse` accepts its readers can read, each end understands what the other
  creates, and an answer comes back under the id that was asked with;
- the RTM restores login and subscription after a reconnection, runs its tasks
  one at a time in the order they came, carries out every call, and can be
  destroyed at any moment;
- the queues run what they accepted, in order, and no thread sleeps over it.

Every hazard found in the code is listed, at its line, in `PROJECT.json`.

## Modules

| module | what it is |
|---|---|
| `WebSocketTransport` | the transport; checked alone it has a listener that only returns |
| `Peer` | extends it: callers, `m_promises`, the real listener, the server's answers |
| `OrderedLink` | abstract specification of the transport, with no threads, tasks, queues or timers |
| `RequestService` | abstract specification of `Peer::request`, with no threads, tables or timers |
| `ProtooMessage` | a text on its way through `Message::parse` to the handler that reads it |
| `Rtm` | the RTM and the demo's listener over an abstraction of the Peer |
| `SerialExecutor` | abstract specification of a queue with one worker; `Rtm`, `TaskQueue` and `MessageQueue` implement it |
| `TaskQueue`, `MessageQueue` | the two queues with their mutexes and condition variables |
| `MCTransport`, `MCPeer`, `MCProtooMessage`, `MCRtm`, `MCTaskQueue`, `MCMessageQueue` | constants, symmetry and bounds for TLC |
| `WebSocketTransportProofs`, `PeerProofs`, `PeerOrderProofs`, `ProtooMessageProofs`, `RtmProofs`, `TaskQueueProofs`, `MessageQueueProofs` | theorems and their proofs |

### WebSocketTransport

`thread` is where the service thread is in `runWebSocket`: `start` (context not
created), `service` (in `lws_service`, between callbacks), `connect` (in
`connectClient`), `callback` (in a listener method, which `upcall` names, or in
the timer's closure), `drain` and `lastDrain` (running tasks, the latter after
`lws_service` returned an error), `destroy` (in the `lws_context_destroy` at the
end of the thread) and `exited`. `conn` is the connection as libwebsockets sees
it, `wsi` what the program's pointer to it is worth: `stale` is a pointer to a
freed wsi. `connectSul` and `timer` say that a sorted-usec-list entry is armed.
Other variables carry the code's names without `m_`.

Each callback reason is an action (`ConnectionEstablished`, `ConnectionError`,
`ConnectionClosed`, `PeerInitiatedClose`, `ClientWriteable`, `ReceiveFragment`,
`ReceiveFinal`). A callback that calls the listener ends with
`CallbackReturns`, which also performs `do_retry`; other threads may step in
between. Tasks are records (`send`, `schedule`, `cancel`) and run one per step.

`m_noMsg` is left out, because nothing reads it. So are the URL, the ports and
the handling of binary frames, which only prints. `onDisconnected` is left out,
since the transport never calls it.

**Undefined behaviour** and uncaught exceptions end the process: they set
`fault`, after which nothing happens. Where the build may survive, both outcomes
are allowed. The faults are a null context (`nullContext`), a freed one
(`freedContext`), a freed wsi (`freedWsi`), a context destroyed twice
(`doubleDestroy`), an exception of the JSON parser (`parse`) or of `dump`, which
rejects text that is not UTF-8 (`dump`), a promise satisfied twice (`promise`), a
race on the table (`tableRace`) and a response handled while `~Peer` joins
(`nullTransport`). `MessageQueue` has a fault of its own (`freedTime`).

### OrderedLink

There is at most one link to the server at a time; it is attempted when there is
none, opens, may begin to close, and may be lost in any state. Messages are
handed over at any time and carried one by one in the order they were handed
over, only while a link is open, and each over one link only. `WebSocketTransport`
maps `link`, `handed` and `carried` to `conn`, `sent` and `written`;
`ImplementsLink` states the refinement, and it holds of the transport under the
`Peer` too.

### Peer

A caller (`pc`) goes through `request` in three steps: insert the promise
(`RequestBegins`, with any id of `Id`), hand over the deadline
(`RequestSchedules`), hand over the text (`RequestSends`). It then waits in
`get` until its future is no longer pending. The service thread handles a
response in three steps (`HandleResponse`, `CancelTimeout`, `EraseEntry`) and an
expired timer in two (`HandleTimeout`, `EraseEntry`). `handler` says how far it
is. A promise that is destroyed unsatisfied breaks its future (`Break`).

`m_promises` has no lock. An insertion while the service thread searches or
erases, or while another caller inserts, is a data race, and `RequestBegins` has
its outcomes as disjuncts: it works, it is lost (`leaked` remembers the request,
for the properties to except), or it ends the process. The search, for its part,
may miss an entry that is there (`EntryHidden`).

`~Peer` calls `unique_ptr::reset`, which makes `m_pTransport` null and then deletes
the transport, whose destructor joins the service thread. Handlers still run
meanwhile; one that has satisfied a promise then calls `cancelScheduledTask` on
null, and the process ends (`CancelOnNull`). The handler of a timeout does not
use `m_pTransport` and goes on. Callers are assumed to be out of `request`, or in
`get`, when the destructor begins.

The server is the environment. It may answer any request it received over the
current connection, any number of times, in any order, with either result
(`ServerAnswers`), or send something else (`ServerSpeaks`), a text that `parse`
rejects included, which ends the process. What makes a text one of these is in
`ProtooMessage`, with `accept` and `reject` of a server request, which no code of
the repository calls.

### RequestService

A request is made with an id, waits, and ends once: with an answer the server
gave to its id, with the timeout, or abandoned. It may be abandoned only if
another request drew the same id, or when the service closes. `Peer` maps
`ids`, `outcome`, `replied` and `open` to `rid`, `future`, the answers given and
`owner # "destroyed"`; `ImplementsService` states the refinement.

### ProtooMessage

One text goes from the wire (`place = "wire"`) through `Parse` to the Peer
(`HandleRequest`, `HandleResponse`, `HandleOther`) and, if it is a notification,
to the handler of `RTM::connect` (`ServerNotification`). A JSON value is its type
and a value. A field of the message that is absent is null, as `operator[]` reads
it. Among the fields of `data` an absent one is told from one that is null, as
`find` does: the handler of `RTM` returns if `channelId` or `peerId` is absent, and
throws if it is there and null (`InData`).
The text is one that `Message` creates, any object that can be made of the
fields the code reads, or no object at all. A read of the wrong type ends in
`threw`, and `outcome` names the function that threw. `get<int>` keeps a number
modulo `IntRange`. A request may be answered with `accept` or `reject`, whose
text then travels the same way at the other end; the server's copy of `Message`
is the same code.

Left out: wording and layout of texts, binary frames, and the fields the code
never reads.

### TaskQueue and MessageQueue

A critical section is one step, because the mutex makes it one; what happens
outside of it is a step of its own: `notify_one` after the lock is released
(`InvokeNotifies`, `Notify`), the running task, `join`, and in `MessageQueue` the
unlocked test of `m_stop` (`TestStop`). The wait set of the condition variable is
the worker being in a wait. Waits also end by themselves (`SpuriousWakeUp`).
Tasks may call the queue that runs them: `Worker` and `Runner` are threads that
may call while they run a task. `MessageQueue` has a clock (`Tick`), and which of
two tasks with the same deadline is the top of the heap is left open (`Top`).
`Run` gives `wait_until` a reference to the time inside the heap. The sleep ends at
the time read before the mutex was released (`until`), but the library compares
that time with the clock again when it returns, and a `PostDelayed` meanwhile may
have moved the storage (`moved`): the read of freed memory does no harm or ends the
process (`Wake`). Delays are not negative.

`SerialExecutor` is what both promise: jobs run one at a time, in order, once
each, and each comes to run. `TaskQueue` implements it with its fairness,
`MessageQueue` for the tasks posted to run at once, and `Rtm` for its worker
until the destructor drops the tasks left.

The client that is built uses neither queue: `qrtm.cpp` and
`WebsocketTransport.cpp` have queues of their own, which `Rtm` and
`WebSocketTransport` model.

### Rtm

`worker` is where the worker thread is: between two tasks (`drain`), in a task
(`task`), waiting for the future of a request (`wait`), at the end of a round
(`sleep`), `exited`. `Script(t)` is the sequence of requests and publications a
task makes, among them those of the listener of `main.cpp` and of the task that
follows a reconnection. The Peer is abstracted to what it promises: a request
waits (`awaiting`) until it is answered or fails, messages are delivered in
order while there is a connection, and a new connection starts with nobody
logged in (`did` is empty). `connect` is two steps, because the Peer's thread
starts before the callbacks are assigned. A call's future is `stored` when its
result was given with `set_value_at_thread_exit` and `ready` when the thread has
ended.

`AsksUser` is the listener waiting on `std::cin` for an answer to a call, on the
worker thread. `ListenerThrows` is the text of a channel message that is not
JSON, which the listener parses outside any handler. A notification may be a
message, the coming or going of a member, one that is ignored, or one whose
fields have the wrong type (`Notified`).

## Runs

Sets are sets of model values. `CHECK_DEADLOCK FALSE` stands in every
configuration because the system does stop: the process ends at a fault, or its
owner destroys the object.

| run | question | result |
|---|---|---|
| `transport` | `TransportTypeOK`, `RetryArmed`, `SendOrder`, `ImplementsLink`, `RetriesForever`, `DestructorReturns` | hold |
| `peer_one_caller` | `TypeOK`, `ConnectedFlag`, `DestructorReleases`, `TimeoutWorks` | hold |
| `peer_two_callers` | `TableTracksPending`, `SatisfiedOnce`, `OwnAnswer`, `WiredOnce`, `DeadlineFirst`, `DeadlineStands`, `ImplementsService` | hold |
| `rtm` | `RtmTypeOK`, `ReconnectRestores`, `NoFutureLeft`, `PromiseInOnePlace`, `OneAtATime`, `TasksInTurn`, `RtmDestructorReturns`, `CallsServed` | hold |
| `message` | `MessageTypeOK`, `PeerNeverThrows`, `OwnTextsUnderstood`, `AnswerComesBack` | hold |
| `task_queue` | `TQTypeOK`, `NoLostWakeUp`, `AllRunBeforeDestroyed`, `ImplementsExecutor`, `SafeOnceCallersLeft`, `TQDestructorReturns` | hold |
| `message_queue` | `MQTypeOK`, `NoLostPost`, `NoOversleep`, `PostedInOrder`, `PostedRuns` | hold |
| `transport_queued_writable` | is a WRITEABLE callback pending for queued messages? | no |
| `transport_flushed` | are queued messages sent before the thread exits? | no |
| `peer_timeout_covers` | has every waiting request a deadline? | no |
| `rtm_result_set` | has a finished call its result? | no |
| `message_queue_stop` | does the runner leave `Run` after `Stop`? | no |

The runs answered "no" check a statement of a comment of the repository that the
code does not keep; `PROJECT.json` quotes each.

What the properties that hold say, and why it could be otherwise:

- `SendOrder`: a message passes two queues and two threads, and waits through
  any number of losses; what `send` was given is what was written, what waits in
  `m_msgQueue` and what waits in `tasks`, in this order.
- `RetryArmed`, `RetriesForever`: two places of the code arm the retry, and a
  callback may run inside the attempt; nevertheless one is armed exactly while
  there is no connection, and it comes about.
- `ImplementsLink`: a connection that ends while messages wait, or are still
  tasks, must neither bring a second connection about nor change the order in
  which the next one goes on.
- `TableTracksPending`, `SatisfiedOnce`, `OwnAnswer`: callers insert into the
  table while the service thread completes and erases entries, ids may collide,
  answers come late, twice and out of order.
- `WiredOnce`: a message leaves `m_msgQueue` when it is written and not when it
  is acknowledged, so that no loss brings it out twice; and an answer is never
  taken for that of a request still in a queue.
- `DeadlineFirst`: `request` hands over the deadline before the text, and the text
  passes a second queue; the answer can therefore not come before the deadline is
  set, nor leave a deadline behind that is set after it.
- `DeadlineStands`, `TimeoutWorks`: one timer serves all; a deadline is taken away
  by another timer task only, and one nobody overrides ends its request.
- `ReconnectRestores`: the task after a reconnection may be behind calls whose
  requests were lost, and be interrupted by the next loss.
- `TasksInTurn`, `OneAtATime`: the deque is read without its lock, tasks queue
  tasks, and the worker waits for answers inside a task.
- `PromiseInOnePlace`: a call's promise travels in the closure that carries it out;
  a closure queued twice would set it twice, which throws on the worker, and one
  dropped would leave the caller waiting.
- `CallsServed`, `RtmDestructorReturns`: a call may stand behind the tasks of any
  number of callbacks, and the destructor joins a worker that may be inside a task.
  Only a wait for ever stops them (see the exceptions below).
- `PeerNeverThrows`: the checks of `parse` are the only guard of the reads in
  `handleResponse`, in another file.
- `AnswerComesBack`: the id passes `get<int>` at each end.
- `NoLostWakeUp`, `NoLostPost`, `NoOversleep`: the notification follows the
  release of the mutex, and `MessageQueue` waits without a predicate.
- `SafeOnceCallersLeft`: the destructor holds no lock when it joins, and tasks call
  the queue from its worker; an owner that keeps the other threads out of
  `Invoke` need not care for either.
- `AllRunBeforeDestroyed`: a stopped worker drains first, and tasks add tasks.
- `PostedRuns`: tasks posted at once wait behind the deadlines of delayed ones.

Each property that holds was also tried against a plausible fault of the code:
definitions whose comment begins with "A slip" are those faulty variants, and
`PROJECT.json` says which property refutes which. No specification uses them.

The models contain further outcomes that no run singles out, because nothing in
the repository states the contrary:

- The process can end because a freed wsi is used, the context is woken before
  it exists or after it is gone, the context is destroyed twice, the pieces of a
  message are parsed in front of the next, a text is not of the protocol, a
  message to send is not UTF-8, `m_promises` is used by two threads, a response is
  handled while `~Peer` joins, `wait_until` reads a time that was moved, a request
  fails in the task after a reconnection, or a notification or a channel text does
  not read as expected.
- A close frame of the server ends the loop for good.
- A connection made on the second attempt counts as a reconnection and subscribes
  to the empty channel name. A connection made while `connect` assigns its
  callbacks goes unreported. After a reconnection only the channel saved last is
  restored, even if it was unsubscribed from. `publish` on the worker thread
  publishes twice.
- In `TaskQueue`, a caller between the release of the mutex and `notify_one` may
  meet a queue that has been destroyed.

Some properties that hold carry an exception or a condition, and what is excepted
does happen:

- `RtmDestructorReturns` and `CallsServed` except a worker that stays for ever with
  the user or in `get()` (`Blocked`). The second is no mere formality: the deadline of
  a request can be lost (`peer_timeout_covers`), its text can stay unsent
  (`transport_queued_writable`), and then `~RTM` joins a worker that never returns.
- `PostedRuns` asks nothing of a queue that was stopped. A task posted at once is
  excepted while delayed tasks run again and again: `Run` takes a delayed task that
  is due before it looks at `m_tasks`, and goes round (`continue`), so that a
  delayed task which posts another one that is due starves all that were posted
  at once. Nothing is excepted for delayed tasks.
- `RetriesForever` excepts callers that keep the loop in its tasks (`Starved`).
- `OwnAnswer`, `DeadlineFirst` and the second half of `WiredOnce` speak of requests
  with distinct ids, since a request with the id of another can get its answer.
- `TableTracksPending`, `DestructorReleases`, `TimeoutWorks` and `DeadlineStands` except
  a request that a race on the table hid (`leaked`); `TimeoutWorks` and
  `DeadlineStands` a deadline that another timer task overrides
  (`peer_timeout_covers`).
- `DestructorReleases` speaks of a destructor that has ended, and so of none that
  met `CancelOnNull`. `NoFutureLeft` speaks of a destroyed RTM only
  (`rtm_result_set`).
- `SafeOnceCallersLeft` has the condition that the last item above calls for.
- `AnswerComesBack` asks for the id only of requests whose id fits an int.

### Bounds

- `MaxRetry` caps the retry counter: the code only compares it with zero, and
  the table never runs out. `MaxTasks` caps the timer tasks pending when the
  transport is checked alone. `MaxFailures` (losses and failed attempts) and
  `MaxNotifications` bound `Rtm`. Two losses are enough for a second one to
  interrupt the recovery from the first.
- Every message is sent at most once and every request made at most once, so
  that histories are finite. Two messages suffice for an overtaking, and two
  requests for a collision of ids, a stale timeout or a stale cancellation.
- `transport`: two messages, one closure, two timer tasks pending.
- `OneFragment` (Peer runs): messages come in one fragment. Fragments are
  covered by the transport's run, and the Peer sees only whole messages.
- `OwnerCloses` (`peer_two_callers`): the loop ends by the destructor or a fault,
  not by a close frame or an error of `lws_service`; `peer_one_caller` has both.
- `InOrder` (`peer_one_caller`): the first request is `r1` and draws `i1`, which only
  names them (the liveness property forbids symmetry), and the server answers
  with values, which the Peer treats as it does errors but for the outcome. The
  second request draws either id: its deadline may override the first one's, and
  a late or repeated answer to the first may meet it.
- `rtm` has one call of the application, two channels, two failures and
  one notification, interleaved with the tasks of connections and losses.
- `message` has three numbers and an int that tells two apart, so that one id
  wraps around; every combination of the fields' types is an initial state.
- `task_queue` and `message_queue` have two callers beside the worker and three
  tasks: one running, one queued, one being handed over. `MaxTime = 2` lets a
  task that is due earlier be posted while the runner waits for a later one. In
  `message_queue` a task is in the queues at most once, but may be posted again as
  soon as it has been taken, so that posts, and delayed tasks that post themselves,
  go on for ever.

### Fairness

- `ServiceReturns` and `ConnectSulFires` (strong): `lws_service` handles what one
  poll reported and returns, and its scheduler runs an entry that is due on
  every pass, however many passes other events take.
- `CreateContext`, `RunTask`, `TasksDone`, `DestroyContext`, `ConnectClient`,
  `CallbackReturns`, `EndDestructor` (weak): the service thread and the thread
  that destroys it run. `RetriesForever` excepts callers that push tasks as fast
  as the loop runs them (`Starved`): the loop drains until the queue is empty
  before it serves the socket.
- `TimerFires` (strong), as for `ConnectSulFires`; `ListenerStep`,
  `RequestSchedules` (weak): handlers and callers are code that runs on.
- `Rtm`: the worker runs (weak fairness of `WorkerStep`), except while it waits for
  the user on `std::cin` or for a request without an answer (`Blocked`): nothing is
  assumed of either, since neither an answer nor a timeout need come. `TakeTask` is strongly fair: a read of the deque
  without its lock can miss what is being pushed, not what lies there.
  `EndDestructor` is weakly fair.
- The queues: threads inside a call, a notification that is due and the worker
  run on (weak), and a task returns. In `MessageQueue` time passes and a timed
  wait ends; among the delayed tasks that are due each gets its turn (strong
  fairness of `RunDelayed` for each task). That stands for a clock that goes on:
  the clock of the model stops at `MaxTime`, where a task posted later may have the
  same time for ever. Nothing is assumed of spurious wake-ups.

Nothing is assumed of the network, of the server, or of a caller that makes no
call. Fairness of an action is stated with `Alive`, so that it asks nothing of a
process that has ended.

## Proofs

From `MaxRetryAssumption` (the bound is positive), `PeerAssumption` (messages are
requests or notifications, closures capture ids, `None` is neither),
`RtmAssumption` (the listener's channel is a channel, the empty name is none, the
bounds are numbers), `MessageAssumption` (ids are numbers, an int tells at least
one apart), `TaskQueueAssumption` and `MessageQueueAssumption` (the worker is no
caller, no task is "no task", the bound on time is a number):

| module | theorems | establish |
|---|---|---|
| `WebSocketTransportProofs` | `TransportTypeCorrect`, `RetryAlwaysArmed`, `SendOrderHolds`, `TransportIsOrderedLink` | `TransportTypeOK`, `RetryArmed`, `SendOrder`, `ImplementsLink` |
| `PeerProofs` | `TypeCorrect`, `TableCorrect`, `SatisfiedOnceCorrect`, `OwnAnswerCorrect`, `ConnectedCorrect`, `DestructorCorrect`, `PeerImplementsService`, `OutcomesAreFinal` | `TypeOK`, `TableTracksPending`, `SatisfiedOnce`, `OwnAnswer`, `ConnectedFlag`, `DestructorReleases`, `ImplementsService`, and that a future keeps its outcome |
| `PeerOrderProofs` | `PeerSendsInOrder`, `PeerRetries`, `PeerKeepsOrderedLink`, `WiredOnceCorrect`, `DeadlineFirstCorrect`, `DeadlineStandsCorrect` | `SendOrder`, `RetryArmed` and `ImplementsLink` of the transport under the Peer, `WiredOnce`, `DeadlineFirst`, `DeadlineStands` |
| `ProtooMessageProofs` | `MessageTypes`, `PeerNeverThrowsHolds`, `OwnTextsHolds`, `AnswerComesBackHolds` | `MessageTypeOK`, `PeerNeverThrows`, `OwnTextsUnderstood`, `AnswerComesBack` |
| `RtmProofs` | `RtmTypes`, `OneAtATimeHolds`, `NoFutureLeftHolds`, `PromiseInOnePlaceHolds`, `ReconnectRestoresHolds`, `TasksInTurnHolds` | `RtmTypeOK`, `OneAtATime`, `NoFutureLeft`, `PromiseInOnePlace`, `ReconnectRestores`, `TasksInTurn` |
| `TaskQueueProofs` | `TQTypeCorrect`, `NoLostWakeUpCorrect`, `AllRunCorrect`, `SafeOnceCallersLeftCorrect`, `TaskQueueIsSerial` | `TQTypeOK`, `NoLostWakeUp`, `AllRunBeforeDestroyed`, `SafeOnceCallersLeft`, the safety part of `ImplementsExecutor` |
| `MessageQueueProofs` | `MQTypeCorrect`, `NoLostPostCorrect`, `NoOversleepCorrect`, `PostedInOrderCorrect` | `MQTypeOK`, `NoLostPost`, `NoOversleep`, `PostedInOrder` |

The arguments, transport and Peer:

- `RetryInv` strengthens `RetryArmed` to the states in between. In `connect`
  nothing is armed and nothing connected. In
  `onClosed` and `onFailed` there is no connection, and the retry is about to be
  armed. In any other callback it is armed exactly if there is no connection.
- `SendInv` is `SendOrder` place by place, and inductive. It names the sends
  among the tasks by an increasing enumeration of their places, because the
  sequence operator that filters them is recursive and out of the prover's
  reach. A call of `send` extends the enumeration by the last place, running a
  task shifts it, and running a send also takes its first element away, which
  must be place one.
- `ImplementsLink` has one step per action of the transport. `conn` moves only in
  `ConnectClient` and in the callbacks, and `RetryInv` says that there is no
  connection when an attempt begins. `SendInv` says that what is carried is the
  next of what was handed over, since `written` and `msgQueue` together are the
  beginning of `sent`.
- `BaseInv` has the types and the control structure of `Peer`: a caller inside
  `request` has a current request with an id (`CallersInv`); what
  is queued was given to `request` (`QueuesInv`); the server answers what has an
  id (`ServerInv`); a handler in the middle is in a callback that has an id to
  handle (`HandlerInv`).
- `TableInv` adds to `TableTracksPending` what makes it inductive: an entry is
  for a request that was made; a request has an id exactly from then on; while a
  handler is between satisfying a promise and erasing its entry, a request with
  the handled id has ended; a destroyed Peer has an empty table. The window in the
  middle is the hard part, because a request with the same id may replace the
  entry there. `SatisfiedOnce` follows: a handler looks an entry up only when
  `handler` is idle, and then the entry's request is pending.
- `AnswerInv` relates the response being dispatched to the answers given to its
  id; with distinct ids that is the request itself.
- `ConnectedInv` strengthens `ConnectedFlag` with what each callback is about to
  do to the flag.
- `DestructorReleases` follows from `TableInv`: what waits is in the table, and the
  table is empty once the Peer is destroyed. Between the two the handlers run
  beside a null `m_pTransport`; `CancelOnNull` ends the process there, and every
  step that does not keeps the table in line with the futures.
- The refinement has one step per action of `Peer`. Only `RequestBegins`,
  `HandleResponse`, `HandleTimeout`, `EraseEntry`, `ServerAnswers` and
  `PeerDestructorEnds` change a variable of `RequestService`; all others stutter. `OutcomesAreFinal` is read off it.

The order of things, for the transport and the Peer together:

- `StepOfTransport`: every step of the Peer is, for the transport, an event, a call
  or no step, except perhaps for a fault. What was proved of each of these for the
  transport alone thus holds with the Peer as its listener.
- `AskedInv`: nothing is given to `send` twice. A request in the hands of one
  caller is in those of no other, has an id, and has not been given to `send` as
  long as its caller is before `RequestSends`. `WireInv`: what the server has or has answered was
  written. `WiredOnce` follows from both and from the order of messages.
- `DeadlineInv`: of each request the deadline is in `tasks` at most once and before
  its text, and is in no queue any more once the text has left `tasks`, the timer
  has been set for it, or it has ended. The id of a deadline is that of a request
  that was made (`TimerIds`). The enumeration in `SendInv` is not needed for this:
  places are compared directly.
- `DeadlineStands` has one step for what joins the tasks, one for the task that
  runs and one for the closure of the deadline, which finds its entry because the
  table tracks what waits (`TableInv`). All other steps leave tasks, timer and id
  alone. It is the safety half of `TimeoutWorks`, whose other half is fairness.

Messages:

- `Readable` is what `parse` leaves for the Peer: a response has an id that reads
  as an int, and an `ok` that is a boolean or absent. It follows from each branch
  of `parse`, whatever the text.
- `AnswerText` is what `accept` and `reject` create and `parse` keeps; `IdInv`
  says that an id that fits an int is still the one asked with.

RTM:

- `RtmBase` adds to the types that the worker waits only at a request of the task
  it runs (`WaitInv`) and that the flags follow the destructor (`OwnerInv`).
- `FutureInv`: a future that waits belongs to a call that is queued or in the
  worker's hand, and no result is left stored once the worker has exited.
- `PromiseInOnePlace` is inductive as it stands, given `RtmBase`. `PlacePushed` and
  `PlacePopped` say what a task that joins or leaves the queue does to the places
  of a promise.
- `RestoreInv` is the invariant behind `ReconnectRestores`, which speaks of an
  idle worker only. While a reconnection has been reported and its task is no
  longer queued, every request whose answer is in is done over this connection (an
  answer from before the loss is used up before the worker takes that task), login is done
  once the restoring task is past its first request, and the channel saved last
  once it is past its second. A task queued later, a second loss and a late
  answer must each keep this.
- `TasksInTurn` has one step per action; `Running` is the job in hand, and every
  other action lets the queue grow at most (`Grows`).

Queues:

- `WakeInv`: whoever leaves the worker waiting over a task or the stop flag is
  about to notify; a worker inside `Invoke` is running a task, so it is not the
  one that waits. `WaitInv` says the same of `MessageQueue`, for both waits.
- `DrainInv`: a pending future is queued or in hand, and the worker exits from a
  stopped and empty queue, to which `Invoke` adds nothing any more.
- `SafeOnceCallersLeft` assumes something of the callers at every moment and
  concludes something of the queue at every moment: the invariant is `~fault`,
  preserved by each step from a state where the assumption holds. A task that
  runs on the worker cannot be the one that meets the destroyed queue, because
  the worker is joined before it is destroyed (`WakeInv`).

Model-checked only: the liveness properties and the fairness in
`ImplementsExecutor` (both beyond the prover), and the violations. Of
`TimeoutWorks`, `DeadlineStands` is proved.

## Order of the work

The transport and the Peer came first, since everything rests on them, then the
RTM, then the messages and the queues, each with its runs before its proofs. What
could follow:

1. A composition of `Rtm` with `RequestService` instead of its own `awaiting`. As
   it stands, `Rtm` assumes that a request ends as `RequestService` says, or never.
2. Two calls of the application in `rtm`: the states are then beyond a few
   minutes, and the theorems cover any number for the safety properties.
3. `HTTPTransport`, if the program comes to use it.

## Not modelled

- `HTTPTransport` is compiled and never used; its calls in `main.cpp` (177 to
  182) are commented out. Its control is one loop over `lws_service` in
  `sendPostRequest`, on the caller's thread. An error of `lws_service` or
  the file-level flag `interrupted` ends the loop. The flag is reset by each post, shared by all
  instances, and set when the connection has closed or failed, not when
  the response is complete.
- libwebsockets and the other vendored libraries: the callbacks libwebsockets may
  deliver are modelled, in any order its documentation and the program's use
  allow. The vendored headers are most of the lines of the repository.
- The server: its `Peer`, `Room` and transport sources are empty files. It is
  modelled by what the client may see of it.
- The console and its menu (any order of calls stands for it), URL parsing, and
  the text of JSON.
