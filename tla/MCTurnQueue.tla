--------------------------- MODULE MCTurnQueue ---------------------------
(***************************************************************************)
(* TurnQueue for TLC: a few calls of enqueue_turn on one conversation.     *)
(***************************************************************************)
EXTENDS TurnQueue

CONSTANTS u1, u2, w, c   \* two USER turns, a WAKE turn, a CHILD_AGENT turn
=============================================================================
