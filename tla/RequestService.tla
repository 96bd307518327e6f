--------------------------- MODULE RequestService ---------------------------
(***************************************************************************)
(* What protoo::Peer promises the caller of Peer::request, without threads, *)
(* connections, tables or timers: a request is given an id and waits; the  *)
(* server answers ids; a request ends once, with an answer given to its id *)
(* or with the timeout.  It may be abandoned, its promise broken, only if  *)
(* another request drew the same id or the service is closed.              *)
(***************************************************************************)
CONSTANTS Request, Id, None

VARIABLES
  ids,      \* the id each request was given, None before it is made
  outcome,  \* what has become of each request
  replied,  \* the answers the server has given: <<id, ok>>
  open      \* the service has not been closed

rsVars == <<ids, outcome, replied, open>>

RSInit ==
  /\ ids = [r \in Request |-> None]
  /\ outcome = [r \in Request |-> "none"]
  /\ replied = {}
  /\ open = TRUE

(* A request with the id of this one may be abandoned by this one.         *)
Make(r, i) ==
  /\ open /\ outcome[r] = "none"
  /\ ids' = [ids EXCEPT ![r] = i]
  /\ \E S \in SUBSET {q \in Request : outcome[q] = "pending" /\ ids[q] = i} :
       outcome' = [q \in Request |-> CASE q = r   -> "pending"
                                       [] q \in S -> "broken"
                                       [] OTHER   -> outcome[q]]
  /\ UNCHANGED <<replied, open>>

(* A request that fails before it waits: the caller gets no future.        *)
Lose(r, i) ==
  /\ open /\ outcome[r] = "none"
  /\ ids' = [ids EXCEPT ![r] = i]
  /\ UNCHANGED <<outcome, replied, open>>

Reply(i, ok) ==
  /\ replied' = replied \cup {<<i, ok>>}
  /\ UNCHANGED <<ids, outcome, open>>

End(r, how) ==
  /\ outcome[r] = "pending"
  /\ outcome' = [outcome EXCEPT ![r] = how]
  /\ UNCHANGED <<ids, replied, open>>

Answered(r) ==
  \/ <<ids[r], TRUE>> \in replied /\ End(r, "value")
  \/ <<ids[r], FALSE>> \in replied /\ End(r, "error")

TimesOut(r) == End(r, "timeout")

Abandoned(r) ==
  /\ \E q \in Request : q # r /\ ids[q] = ids[r]
  /\ End(r, "broken")

Close ==
  /\ open /\ open' = FALSE
  /\ \E S \in SUBSET {q \in Request : outcome[q] = "pending"} :
       outcome' = [q \in Request |-> IF q \in S THEN "broken" ELSE outcome[q]]
  /\ UNCHANGED <<ids, replied>>

RSNext ==
  \/ \E r \in Request, i \in Id : Make(r, i) \/ Lose(r, i)
  \/ \E i \in Id, ok \in BOOLEAN : Reply(i, ok)
  \/ \E r \in Request : Answered(r) \/ TimesOut(r) \/ Abandoned(r)
  \/ Close

RSSpec == RSInit /\ [][RSNext]_rsVars
=============================================================================
