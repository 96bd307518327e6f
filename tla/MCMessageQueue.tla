--------------------------- MODULE MCMessageQueue ---------------------------
(* MessageQueue for model checking: values for its constants.              *)
EXTENDS MessageQueue

CONSTANTS j1, j2, j3, a, b, r, idle
=============================================================================
