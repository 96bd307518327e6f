-------------------------- MODULE MCProtooMessage ---------------------------
(* ProtooMessage for model checking: three numbers, of which an int tells  *)
(* two apart, so that one id wraps around.                                 *)
EXTENDS ProtooMessage
=============================================================================
