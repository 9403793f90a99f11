-------------------------- MODULE MCScheduledWakes --------------------------
(***************************************************************************)
(* ScheduledWakes for TLC: two wakes of one conversation.                  *)
(***************************************************************************)
EXTENDS ScheduledWakes

CONSTANTS w1, w2

MCWakes == {w1, w2}
=============================================================================
