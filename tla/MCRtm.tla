------------------------------- MODULE MCRtm -------------------------------
(* Rtm for model checking: values for its constants.                       *)
EXTENDS Rtm

CONSTANTS k1, lobby, room, empty
=============================================================================
