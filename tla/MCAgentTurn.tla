---------------------------- MODULE MCAgentTurn ----------------------------
(***************************************************************************)
(* AgentTurn for TLC: a few turns of one conversation.                     *)
(***************************************************************************)
EXTENDS AgentTurn

ShortThenLong == <<1, 2>>   \* iterations of the first and of the second turn
=============================================================================
