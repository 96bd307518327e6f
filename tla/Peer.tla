-------------------------------- MODULE Peer --------------------------------
(***************************************************************************)
(* protoo::Peer (client/src/Peer.cpp) over its WebSocketTransport: request *)
(* and response matching.                                                  *)
(*                                                                         *)
(* Callers run Peer::request and wait on the future it returns; the        *)
(* service thread of the transport, in its callbacks, completes futures    *)
(* and erases table entries.  Nothing protects m_promises: each access is  *)
(* a step, and the steps of callers and service thread interleave.         *)
(***************************************************************************)
EXTENDS WebSocketTransport

CONSTANTS
  Request,       \* calls of Peer::request, each made at most once
  Notification,  \* calls of Peer::notify, each made at most once
  Id,            \* values generateRandomNumber(5) may return
  Caller         \* threads that call the Peer

ASSUME PeerAssumption ==
  /\ Message = Request \cup Notification /\ Request \cap Notification = {}
  /\ Closure = Id
  /\ None \notin Request /\ None \notin Id

VARIABLES
  pc,         \* where a caller is in Peer::request
  current,    \* the request a caller is making
  rid,        \* the id createRequest drew for a request
  future,     \* the state of the future Peer::request returns
  promises,   \* m_promises: the request whose promise is stored under an id
  leaked,     \* requests whose entry a race lost, or hid from its timeout
  handler,    \* how far the service thread is in a handler that found an entry
  rx,         \* the response being dispatched, None for any other message
  connected,  \* m_connected
  atServer,   \* requests the server has received over this connection
  answers     \* history: the answers the server gave to each request

callVars   == <<pc, current, rid>>
tableVars  == <<future, promises, leaked, handler>>
serverVars == <<rx, atServer, answers>>
peerVars   == <<callVars, tableVars, serverVars, connected>>
vars       == <<transportVars, peerVars>>

Outcome  == {"value", "error", "timeout", "broken"}
Response == [id : Id, ok : BOOLEAN]

PeerTypeOK ==
  /\ pc \in [Caller -> {"idle", "schedule", "send", "get"}]
  /\ current \in [Caller -> Request \cup {None}]
  /\ rid \in [Request -> Id \cup {None}]
  /\ future \in [Request -> {"none", "pending"} \cup Outcome]
  /\ promises \in [Id -> Request \cup {None}]
  /\ leaked \subseteq Request
  /\ handler \in {"idle", "cancel", "erase"}
  /\ rx \in Response \cup {None}
  /\ connected \in BOOLEAN
  /\ atServer \subseteq Request
  /\ answers \in [Request -> SUBSET BOOLEAN]

TypeOK == TransportTypeOK /\ PeerTypeOK

Init ==
  /\ TransportInit
  /\ pc = [c \in Caller |-> "idle"]
  /\ current = [c \in Caller |-> None]
  /\ rid = [r \in Request |-> None]
  /\ future = [r \in Request |-> "none"]
  /\ promises = [i \in Id |-> None]
  /\ leaked = {} /\ handler = "idle" /\ rx = None /\ connected = FALSE
  /\ atServer = {} /\ answers = [r \in Request |-> {}]

-----------------------------------------------------------------------------
(* The callers. *)

(* A promise destroyed before it is satisfied breaks its future.           *)
Break(S) == [r \in Request |-> IF r \in S /\ future[r] = "pending"
                               THEN "broken" ELSE future[r]]

(* The service thread is about to look an id up in the table.              *)
LooksUp ==
  /\ handler = "idle"
  /\ upcall = "timeout" \/ (upcall = "onMessage" /\ rx # None)

(* A slip of the one below: insert, which keeps an entry with the same id. *)
RequestBeginsKeeping(c, r, i) ==
  /\ pc[c] = "idle" /\ future[r] = "none" /\ owner = "alive"
  /\ rid' = [rid EXCEPT ![r] = i]
  /\ current' = [current EXCEPT ![c] = r]
  /\ pc' = [pc EXCEPT ![c] = "schedule"]
  /\ future' = [future EXCEPT ![r] = "pending"]
  /\ promises' = [promises EXCEPT ![i] = IF @ = None THEN r ELSE @]
  /\ UNCHANGED <<lifeVars, connVars, queueVars, timerVars, leaked, handler,
                 serverVars, connected>>

(* A slip: the deadline captures the id before it is drawn.                *)
RequestBeginsUndrawn(c, r, i) ==
  /\ pc[c] = "idle" /\ future[r] = "none" /\ owner = "alive"
  /\ current' = [current EXCEPT ![c] = r]
  /\ pc' = [pc EXCEPT ![c] = "schedule"]
  /\ future' = [future EXCEPT ![r] = "pending"]
  /\ promises' = [promises EXCEPT ![i] = r]
  /\ UNCHANGED <<lifeVars, connVars, queueVars, timerVars, rid, leaked, handler,
                 serverVars, connected>>

(* Another caller may be inside m_promises[id] = promise: it has begun and *)
(* not come to scheduleTask.                                               *)
Inserting == \E c \in Caller : pc[c] = "schedule"

(* Peer::request, up to m_promises[id] = promise: an entry with the same   *)
(* id is overwritten.  Beside a find or an erase on the service thread, or *)
(* the insertion of another caller, the insertion is a data race: it may   *)
(* do what it should, be lost, or corrupt the table, which ends the model. *)
(* size(), read beside them, only lengthens the deadline.                  *)
RequestBegins(c, r, i) ==
  /\ pc[c] = "idle" /\ future[r] = "none" /\ owner = "alive"
  /\ rid' = [rid EXCEPT ![r] = i]
  /\ current' = [current EXCEPT ![c] = r]
  /\ pc' = [pc EXCEPT ![c] = "schedule"]
  /\ \/ /\ promises' = [promises EXCEPT ![i] = r]
        /\ future' = [Break({promises[i]}) EXCEPT ![r] = "pending"]
        /\ UNCHANGED <<leaked, fault>>
     \/ /\ handler = "erase" \/ Inserting
        /\ future' = [future EXCEPT ![r] = "pending"]
        /\ leaked' = leaked \cup {r}
        /\ UNCHANGED <<promises, fault>>
     \/ /\ handler = "erase" \/ LooksUp \/ Inserting
        /\ fault' = "tableRace"
        /\ UNCHANGED <<future, promises, leaked>>
  /\ UNCHANGED <<thread, upcall, context, closed, owner, connVars, queueVars,
                 timerVars, handler, serverVars, connected>>

(* m_pTransport->scheduleTask(timeout_ms, ...)                             *)
RequestSchedules(c) ==
  /\ pc[c] = "schedule"
  /\ ScheduleTask(rid[current[c]])
  /\ pc' = [pc EXCEPT ![c] = "send"]
  /\ UNCHANGED <<current, rid, tableVars, serverVars, connected>>

(* A slip of the one below: the request is handed over first, and then its *)
(* deadline.                                                               *)
RequestSendsFirst(c) ==
  \/ /\ pc[c] = "schedule"
     /\ \A k \in DOMAIN sent : sent[k] # current[c]
     /\ Send(current[c])
     /\ UNCHANGED peerVars
  \/ /\ pc[c] = "send"
     /\ \E k \in DOMAIN sent : sent[k] = current[c]
     /\ pc' = [pc EXCEPT ![c] = "get"]
     /\ UNCHANGED <<transportVars, current, rid, tableVars, serverVars, connected>>

(* m_pTransport->send(request); the caller then waits on the future.       *)
RequestSends(c) ==
  /\ pc[c] = "send"
  /\ Send(current[c])
  /\ pc' = [pc EXCEPT ![c] = "get"]
  /\ UNCHANGED <<current, rid, tableVars, serverVars, connected>>

GetReturns(c) ==
  /\ pc[c] = "get" /\ future[current[c]] # "pending"
  /\ pc' = [pc EXCEPT ![c] = "idle"]
  /\ current' = [current EXCEPT ![c] = None]
  /\ UNCHANGED <<transportVars, rid, tableVars, serverVars, connected>>

Notify(c, n) ==
  /\ pc[c] = "idle" /\ owner = "alive"
  /\ \A k \in DOMAIN sent : sent[k] # n
  /\ Send(n)
  /\ UNCHANGED peerVars

CallerStep(c) ==
  \/ \E r \in Request, i \in Id : RequestBegins(c, r, i)
  \/ RequestSchedules(c) \/ RequestSends(c) \/ GetReturns(c)
  \/ \E n \in Notification : Notify(c, n)

(* ~Peer, run by an owner that lets no thread be inside a call: reset()     *)
(* makes m_pTransport null and then deletes the transport, which joins;     *)
(* the promises that are still in the table go last.                       *)
PeerDestructorBegins ==
  /\ \A c \in Caller : pc[c] \in {"idle", "get"}
  /\ BeginDestructor
  /\ UNCHANGED peerVars

(* A slip: the promises in the table are not destroyed with it.            *)
PeerDestructorForgets ==
  /\ EndDestructor
  /\ promises' = [i \in Id |-> None]
  /\ UNCHANGED <<callVars, future, leaked, handler, serverVars, connected>>

PeerDestructorEnds ==
  /\ EndDestructor
  /\ future' = Break({promises[i] : i \in Id})
  /\ promises' = [i \in Id |-> None]
  /\ UNCHANGED <<callVars, leaked, handler, serverVars, connected>>

-----------------------------------------------------------------------------
(* The listener: what the service thread does in a callback. *)

(* A slip: the end of a connection leaves m_connected set.                 *)
OnConnectionSticky ==
  /\ upcall \in {"onConnected", "onReConnected", "onClosed", "onFailed"}
  /\ CallbackReturns
  /\ connected' = (connected \/ upcall \in {"onConnected", "onReConnected"})
  /\ UNCHANGED <<callVars, tableVars, serverVars>>

(* onConnected and onReConnected; onClosed and onFailed (Peer::m_closed,   *)
(* which those two test, is never set).                                    *)
OnConnection ==
  /\ upcall \in {"onConnected", "onReConnected", "onClosed", "onFailed"}
  /\ CallbackReturns
  /\ connected' = (upcall \in {"onConnected", "onReConnected"})
  /\ UNCHANGED <<callVars, tableVars, serverVars>>

(* handleRequest and handleNotification, or no dispatch at all.            *)
OnOtherMessage ==
  /\ upcall = "onMessage" /\ rx = None
  /\ CallbackReturns
  /\ UNCHANGED peerVars

(* The entry a handler looks up: by the id of the response, or by the id   *)
(* the expired closure captured.                                           *)
HandledId == IF upcall = "onMessage" THEN rx.id ELSE task

NoEntry ==
  /\ LooksUp /\ promises[HandledId] = None
  /\ CallbackReturns
  /\ UNCHANGED peerVars

(* An insertion that runs beside the find may hide an entry from it: the   *)
(* handler returns, and the request is left without an end if this was its *)
(* timeout.                                                                *)
EntryHidden ==
  /\ LooksUp /\ Inserting /\ promises[HandledId] # None
  /\ CallbackReturns
  /\ leaked' = leaked \cup (IF upcall = "timeout" THEN {promises[HandledId]} ELSE {})
  /\ UNCHANGED <<callVars, future, promises, handler, serverVars, connected>>

(* set_value or set_exception; on a promise satisfied before it throws.    *)
Satisfy(r, outcome) ==
  /\ future' = [future EXCEPT ![r] = outcome]
  /\ fault' = IF future[r] = "pending" THEN fault ELSE "promise"
  /\ UNCHANGED <<thread, upcall, context, closed, owner, connVars, queueVars,
                 timerVars, callVars, promises, leaked, serverVars, connected>>

(* A slip: an entry is taken without regard to the id.                     *)
HandleResponseAnyEntry ==
  /\ upcall = "onMessage" /\ rx # None /\ handler = "idle"
  /\ \E i \in Id : /\ promises[i] # None
                   /\ Satisfy(promises[i], IF rx.ok THEN "value" ELSE "error")
  /\ handler' = "cancel"

(* handleResponse finds the entry and satisfies its promise.               *)
HandleResponse ==
  /\ upcall = "onMessage" /\ rx # None /\ handler = "idle"
  /\ promises[rx.id] # None
  /\ Satisfy(promises[rx.id], IF rx.ok THEN "value" ELSE "error")
  /\ handler' = "cancel"

(* handleResponse: m_pTransport->cancelScheduledTask()                     *)
CancelTimeout ==
  /\ handler = "cancel" /\ owner = "alive"
  /\ CancelScheduledTask
  /\ handler' = "erase"
  /\ UNCHANGED <<callVars, future, promises, leaked, serverVars, connected>>

(* The same while the destructor joins: m_pTransport is null.              *)
CancelOnNull ==
  /\ handler = "cancel" /\ owner # "alive"
  /\ fault' = "nullTransport"
  /\ UNCHANGED <<thread, upcall, context, closed, owner, connVars, queueVars,
                 timerVars, peerVars>>

(* A slip: the timeout sets a value.                                       *)
HandleTimeoutAsSuccess ==
  /\ upcall = "timeout" /\ handler = "idle"
  /\ promises[task] # None
  /\ Satisfy(promises[task], "value")
  /\ handler' = "erase"

(* The closure of Peer::request finds the entry and sets the exception.    *)
HandleTimeout ==
  /\ upcall = "timeout" /\ handler = "idle"
  /\ promises[task] # None
  /\ Satisfy(promises[task], "timeout")
  /\ handler' = "erase"

(* A slip: the entry stays in the table.                                   *)
EraseEntryForgotten ==
  /\ handler = "erase"
  /\ CallbackReturns
  /\ handler' = "idle"
  /\ UNCHANGED <<callVars, future, promises, leaked, serverVars, connected>>

(* m_promises.erase(it), whatever promise the entry holds by now.          *)
EraseEntry ==
  /\ handler = "erase"
  /\ CallbackReturns
  /\ future' = Break({promises[HandledId]})
  /\ promises' = [promises EXCEPT ![HandledId] = None]
  /\ handler' = "idle"
  /\ UNCHANGED <<callVars, leaked, serverVars, connected>>

ListenerStep ==
  \/ OnConnection \/ OnOtherMessage \/ NoEntry \/ EntryHidden
  \/ HandleResponse \/ CancelTimeout \/ CancelOnNull
  \/ HandleTimeout \/ EraseEntry

-----------------------------------------------------------------------------
(* The connection and the server at its other end. *)

RequestReachesServer ==
  /\ ClientWriteable
  /\ atServer' = atServer \cup (IF msgQueue = <<>> THEN {}
                                ELSE {Head(msgQueue)} \cap Request)
  /\ UNCHANGED <<callVars, tableVars, rx, answers, connected>>

ConnectionEnds ==
  /\ ConnectionClosed \/ DestroyContext
  /\ atServer' = {}
  /\ UNCHANGED <<callVars, tableVars, rx, answers, connected>>

(* The server answers a request it has received, perhaps more than once,   *)
(* in any order, over the connection that carried the request.             *)
ServerAnswers(r, ok) ==
  /\ r \in atServer
  /\ ReceiveFinal(TRUE)
  /\ rx' = [id |-> rid[r], ok |-> ok]
  /\ answers' = [answers EXCEPT ![r] = @ \cup {ok}]
  /\ UNCHANGED <<callVars, tableVars, atServer, connected>>

(* A notification or a request of the server, a message that is neither,   *)
(* or a text that Message::parse rejects.                                  *)
ServerSpeaks ==
  /\ \E parses \in BOOLEAN : ReceiveFinal(parses)
  /\ rx' = None
  /\ UNCHANGED <<callVars, tableVars, atServer, answers, connected>>

ServerStep ==
  \/ \E r \in Request, ok \in BOOLEAN : ServerAnswers(r, ok)
  \/ ServerSpeaks

-----------------------------------------------------------------------------
Next ==
  /\ fault = "none"
  /\ \/ \E c \in Caller : CallerStep(c)
     \/ PeerDestructorBegins \/ PeerDestructorEnds
     \/ ListenerStep \/ RequestReachesServer \/ ConnectionEnds \/ ServerStep
     \/ ServiceStep /\ UNCHANGED peerVars

Spec == Init /\ [][Next]_vars

(* The transport's fairness; a timer that is due is run on a later pass of *)
(* the scheduler; handlers and callers keep running.  Nothing is assumed   *)
(* of the network, of the server, or of a caller that makes no call.       *)
FairSpec ==
  /\ Spec /\ ServiceFairness
  /\ SF_transportVars(Alive(TimerFires))
  /\ WF_vars(Alive(ListenerStep))
  /\ \A c \in Caller : WF_vars(Alive(RequestSchedules(c)))

-----------------------------------------------------------------------------
(* Properties that hold. *)

Pending(r) == future[r] = "pending"

(* The table and the futures agree: a request that waits has its promise   *)
(* under its own id, unless a race lost it, and an entry                   *)
(* belongs to a request that waits, or is the one a handler has satisfied  *)
(* and is about to erase (m_promises, in request and both handlers).       *)
TableTracksPending ==
  /\ \A r \in Request : Pending(r) => r \in leaked \/ promises[rid[r]] = r
  /\ \A i \in Id : promises[i] # None =>
       /\ rid[promises[i]] = i
       /\ Pending(promises[i]) \/ (handler # "idle" /\ i = HandledId)

(* No promise is satisfied twice, which would throw on the service thread, *)
(* where nothing catches: not by a duplicated response, a response after   *)
(* the timeout or a timeout after the response.                            *)
SatisfiedOnce == fault # "promise"

DistinctIds == \A q, r \in Request : q # r /\ rid[q] # None => rid[q] # rid[r]

(* While no two requests drew the same id, the value or error a caller     *)
(* gets is one the server gave to that very request (handleResponse).      *)
OwnAnswer ==
  DistinctIds =>
    \A r \in Request :
      /\ future[r] = "value" => TRUE \in answers[r]
      /\ future[r] = "error" => FALSE \in answers[r]

(* m_connected tells whether there is a connection, whenever no callback   *)
(* is being delivered: no end of a connection goes unreported.             *)
ConnectedFlag == thread # "callback" => (connected <=> conn \in {"open", "closing"})

(* Once the Peer is destroyed no thread waits for a promise that is still  *)
(* in memory: the futures of the table are broken (~Peer).                 *)
DestructorReleases == owner = "destroyed" => \A r \in Request : Pending(r) => r \in leaked

(* The tasks that wait and set or cancel the timer, and the last of them.  *)
TimerTasks == {k \in DOMAIN tasks : tasks[k].op # "send"}
Last(k) == k \in TimerTasks /\ \A j \in TimerTasks : j <= k
Deadline(r) == [op |-> "schedule", arg |-> rid[r]]

(* The timer is set for r, or will be when the tasks have run.             *)
Covered(r) ==
  \/ TimerTasks = {} /\ timer /\ task = rid[r]
  \/ \E k \in TimerTasks : Last(k) /\ tasks[k] = Deadline(r)

(* A cancellation, or another deadline, is about to take the timer over.   *)
Overridden(r) == \E k \in TimerTasks : Last(k) /\ tasks[k] # Deadline(r)

(* The closure of the deadline runs, and has not looked the id up yet.     *)
Due(r) == upcall = "timeout" /\ handler = "idle" /\ task = rid[r]

(* A request that waits loses its deadline to another timer task only: no  *)
(* loss of a connection, no response to another request as such and no     *)
(* handler that runs meanwhile takes it away, and the closure that runs it *)
(* finds the request, unless a race on the table hides it (scheduleTask,   *)
(* handleResponse).                                                        *)
DeadlineStands ==
  [][\A r \in Request :
       Pending(r) /\ r \notin leaked /\ (Covered(r) \/ Due(r)) =>
         ~Pending(r)' \/ Covered(r)' \/ Due(r)' \/ Overridden(r)'
           \/ (r \in leaked)']_vars

(* A deadline that nothing cancels or replaces ends the request: it is     *)
(* answered or timed out, while the service loop runs (the closure that    *)
(* request schedules).                                                     *)
TimeoutWorks ==
  \A r \in Request :
    (Pending(r) /\ Covered(r)) ~>
      \/ ~Pending(r) \/ Overridden(r) \/ r \in leaked
      \/ fault # "none" \/ thread \in {"lastDrain", "destroy", "exited"}

(* m has been given to lws_write.                                          *)
Wired(m) == \E k \in DOMAIN written : written[k] = m

(* A request or notification goes out at most once, however many           *)
(* connections come and go, and a request that gets a value or an error    *)
(* did go out: no answer is made up, and none is taken for that of a       *)
(* request which still waits in a queue (send, handleResponse).            *)
WiredOnce ==
  /\ \A j, k \in DOMAIN written : written[j] = written[k] => j = k
  /\ DistinctIds => \A r \in Request : future[r] \in {"value", "error"} => Wired(r)

(* The loop has run the task that sets the timer for r: it is not to come. *)
DeadlineRun(r) ==
  /\ \A c \in Caller : pc[c] = "schedule" => current[c] # r
  /\ \A k \in DOMAIN tasks : tasks[k] # Deadline(r)

(* A request does not go out before its deadline was set, nor is a         *)
(* deadline set for a request that has ended: its timer would replace that *)
(* of a request that still waits.  The caller's two tasks, its connection  *)
(* and the answer race only as far as the two queues let them (request).   *)
DeadlineFirst ==
  DistinctIds =>
    \A r \in Request :
      Wired(r) \/ future[r] \in {"value", "error", "timeout"} => DeadlineRun(r)

(* What the server has answered, by the ids it was asked with.             *)
Replied == {p \in Id \X BOOLEAN :
              \E r \in Request : rid[r] = p[1] /\ p[2] \in answers[r]}

Service == INSTANCE RequestService WITH
  ids     <- rid,
  outcome <- future,
  replied <- Replied,
  open    <- owner # "destroyed"

(* The Peer is a RequestService: see there what its callers may rely on.   *)
ImplementsService == Service!RSSpec

-----------------------------------------------------------------------------
(* Comments of the repository that the code does not keep. *)

(* "set up a scheduled task, to handle the timeout": a caller that waits   *)
(* for its answer has a deadline, even if no id is used twice and no       *)
(* insertion is lost.                                                      *)
TimeoutCovers ==
  \A c \in Caller :
    (/\ DistinctIds /\ leaked = {}
     /\ pc[c] = "get" /\ Pending(current[c]) /\ thread = "service")
      => Covered(current[c])
=============================================================================
