---------------------------- MODULE TurnService ----------------------------
(***************************************************************************)
(* What a conversation promises about its turns, without the machinery: a  *)
(* server with one slot and a queue that survives the process.  A message  *)
(* that finds the slot empty takes it; any other waits, and when the slot  *)
(* empties a prefix of the queue takes it.  Nothing is served twice.       *)
(***************************************************************************)
EXTENDS Naturals, Sequences

CONSTANTS Submissions

VARIABLES
    waiting,  \* accepted, not served yet, in order of acceptance
    serving,  \* what the slot holds
    served    \* everything that ever took the slot

svars == <<waiting, serving, served>>

Elements(seq) == {seq[i] : i \in 1..Len(seq)}

Fresh(s) == s \notin served /\ s \notin Elements(waiting)

Init == waiting = <<>> /\ serving = {} /\ served = {}

Accept(s) ==
    /\ Fresh(s) /\ serving # {}
    /\ waiting' = Append(waiting, s)
    /\ UNCHANGED <<serving, served>>

Occupy(subs) ==
    /\ serving = {}
    /\ serving' = subs
    /\ served' = served \cup subs

ServeNow(s) == Fresh(s) /\ Occupy({s}) /\ UNCHANGED waiting

ServeNext ==
    \E n \in 1..Len(waiting) :
        /\ Occupy(Elements(SubSeq(waiting, 1, n)))
        /\ waiting' = SubSeq(waiting, n + 1, Len(waiting))

\* the turn is over, or the process died under it
Vacate == serving # {} /\ serving' = {} /\ UNCHANGED <<waiting, served>>

Next == (\E s \in Submissions : Accept(s) \/ ServeNow(s)) \/ ServeNext \/ Vacate

Spec == Init /\ [][Next]_svars
=============================================================================
