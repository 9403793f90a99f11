----------------------------- MODULE MCWorkflow -----------------------------
EXTENDS Workflow

(* A question, a fan of two branches and a second question: the shape of   *)
(* workflows/research.py and interview.py with one call of each kind.      *)
MCScript == << [kind |-> "ask",  width |-> << >>],
               [kind |-> "fan",  width |-> <<2, 1>>],
               [kind |-> "ask",  width |-> << >>],
               [kind |-> "call", width |-> << >>] >>
=============================================================================
