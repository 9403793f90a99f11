--------------------------- MODULE MCConfirmations ---------------------------
(***************************************************************************)
(* Confirmations for TLC: a few requests on one conversation.              *)
(***************************************************************************)
EXTENDS Confirmations

CONSTANTS r1, r2, p1   \* two requests with a waiter, a workflow's post
=============================================================================
