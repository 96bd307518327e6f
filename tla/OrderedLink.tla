---------------------------- MODULE OrderedLink -----------------------------
(***************************************************************************)
(* What a WebSocketTransport promises the threads that call send(), without *)
(* threads, tasks, queues or timers: one link to the server at a time,     *)
(* tried again whenever it is gone; and one order, over all the links there *)
(* ever are, in which messages are handed over and carried.  A message is  *)
(* carried once, by an open link, after all that were handed over before.  *)
(***************************************************************************)
EXTENDS Naturals, Sequences

CONSTANT Message

VARIABLES
  link,    \* the link to the server: idle, connecting, open or closing
  handed,  \* the messages handed over, in order
  carried  \* the messages carried, in order

olVars == <<link, handed, carried>>

OLInit == link = "idle" /\ handed = <<>> /\ carried = <<>>

Hand(m) == handed' = Append(handed, m) /\ UNCHANGED <<link, carried>>

Carry ==
  /\ link = "open" /\ Len(carried) < Len(handed)
  /\ carried' = Append(carried, handed[Len(carried) + 1])
  /\ UNCHANGED <<link, handed>>

(* The life of a link; it may be lost in any state.                        *)
Moves(from, to) == link = from /\ link' = to /\ UNCHANGED <<handed, carried>>

LinkStep ==
  \/ Moves("idle", "connecting") \/ Moves("connecting", "open") \/ Moves("open", "closing")
  \/ \E from \in {"connecting", "open", "closing"} : Moves(from, "idle")

OLNext == (\E m \in Message : Hand(m)) \/ Carry \/ LinkStep

OLSpec == OLInit /\ [][OLNext]_olVars
=============================================================================
