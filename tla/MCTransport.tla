---------------------------- MODULE MCTransport -----------------------------
(* WebSocketTransport on its own, with a listener that only returns.       *)
EXTENDS WebSocketTransport

CONSTANTS m1, m2, m3, c1, c2, none
=============================================================================
