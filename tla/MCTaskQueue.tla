---------------------------- MODULE MCTaskQueue -----------------------------
(* TaskQueue for model checking: values for its constants.                 *)
EXTENDS TaskQueue

CONSTANTS j1, j2, j3, a, b, w, idle
=============================================================================
