------------------------------- MODULE MCPeer -------------------------------
(* Peer for model checking: values for its constants.                      *)
EXTENDS Peer, TLC

CONSTANTS r1, r2, r3, n1, i1, i2, i3, a, b, none

(* Requests, ids and callers are interchangeable.                          *)
Symmetry == Permutations(Request) \cup Permutations(Id) \cup Permutations(Caller)

(* A bound: every message comes in one fragment.                           *)
OneFragment == receivedMsg = "empty"

(* Requests and ids are interchangeable here too, but TLC's symmetry is not *)
(* sound for liveness: r1 is made before r2, and draws i1.  A bound: the   *)
(* server answers with values.                                             *)
InOrder ==
  /\ OneFragment /\ \A r \in Request : FALSE \notin answers[r]
  /\ rid[r1] \in {None, i1} /\ (rid[r2] # None => rid[r1] # None)

(* A bound for two callers: only the owner ends the loop, neither a close  *)
(* frame of the server nor an error of lws_service.                        *)
OwnerCloses ==
  OneFragment /\ (closed => owner # "alive") /\ thread # "lastDrain"
=============================================================================
