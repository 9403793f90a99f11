------------------------------ MODULE Delegate ------------------------------
(***************************************************************************)
(* Child agents (tools/delegate.py, tools/subagent_tools.py,               *)
(* session_messaging.py): a batch of subtasks that run side by side under  *)
(* a semaphore while the call waits for them, a subtask in the background  *)
(* that nobody waits for, and messages between a conversation and its      *)
(* children.  A child runs in a turn of its own, on the cancel event of    *)
(* the turn that started it.                                               *)
(***************************************************************************)
EXTENDS Integers, FiniteSets

CONSTANTS
    Children,     \* child conversations
    MaxTurns,     \* turns of the parent
    MaxParallel,  \* max_parallel_delegates
    MaxRounds,    \* rounds of one child's turn
    MaxMessages   \* messages to a child

VARIABLES
    turn,      \* the parent's turn
    live,      \* whether it runs
    stopped,   \* turns whose cancel event is set
    batch,     \* the subtasks of the delegate_tasks call that waits
    permits,   \* its semaphore
    entry,     \* what the call has of a subtask
    does,      \* where a child is
    event,     \* the turn whose cancel event it looks at, 0 for its own
    starter,   \* the turn that started it
    rounds,    \* rounds of its turn
    mail,      \* messages that wait for it
    awaited,   \* children whose future somebody waits for
    overdue,   \* children that were given up on
    late,      \* children that began a round after their starter was stopped
    unfenced   \* children that ran a turn without the limits of their setup

callVars == <<batch, permits, entry>>
childVars == <<does, event, starter, rounds, mail>>
ghostVars == <<overdue, late, unfenced>>
delegateVars == <<turn, live, stopped, callVars, childVars, awaited, ghostVars>>

Running == {"thinking", "working"}

TypeOK ==
    /\ turn \in 0..MaxTurns /\ live \in BOOLEAN /\ stopped \subseteq 1..turn
    /\ batch \subseteq Children /\ permits \in 0..MaxParallel
    /\ batch # {} => live
    /\ entry \in [Children -> {"none", "ok", "error"}]
    /\ does \in [Children -> {"none", "waiting", "ended"} \cup Running]
    /\ \A c \in Children : does[c] = "waiting" => c \in batch /\ entry[c] = "none"
    /\ event \in [Children -> 0..turn] /\ starter \in [Children -> 0..turn]
    /\ rounds \in [Children -> 0..MaxRounds] /\ mail \in [Children -> 0..MaxMessages]
    /\ awaited \subseteq batch
    /\ overdue \cup late \cup unfenced \subseteq Children

Init ==
    /\ turn = 0 /\ live = FALSE /\ stopped = {} /\ batch = {} /\ permits = MaxParallel
    /\ entry = [c \in Children |-> "none"] /\ does = [c \in Children |-> "none"]
    /\ event = [c \in Children |-> 0] /\ starter = [c \in Children |-> 0]
    /\ rounds = [c \in Children |-> 0] /\ mail = [c \in Children |-> 0] /\ awaited = {}
    /\ overdue = {} /\ late = {} /\ unfenced = {}

-----------------------------------------------------------------------------
(* The parent. *)

StartTurn ==
    /\ ~live /\ turn < MaxTurns /\ turn' = turn + 1 /\ live' = TRUE
    /\ UNCHANGED <<stopped, callVars, childVars, awaited, ghostVars>>

\* delegate_tasks creates its semaphore and a coroutine for every subtask
DelegateTasks(tasks) ==
    /\ live /\ batch = {} /\ tasks # {} /\ \A c \in tasks : does[c] = "none"
    /\ batch' = tasks /\ permits' = MaxParallel
    /\ does' = [c \in Children |-> IF c \in tasks THEN "waiting" ELSE does[c]]
    /\ UNCHANGED <<turn, live, stopped, entry, event, starter, rounds, mail, awaited, ghostVars>>

\* mutant: the child keeps the cancel event of its own turn
SetupOwnEvent(c) ==
    /\ does' = [does EXCEPT ![c] = "thinking"] /\ starter' = [starter EXCEPT ![c] = turn]
    /\ event' = [event EXCEPT ![c] = 0]

\* run_child_turn: the child's turn starts, and its setup puts the parent's
\* cancel event in the place of the child's
Setup(c) ==
    /\ does' = [does EXCEPT ![c] = "thinking"] /\ starter' = [starter EXCEPT ![c] = turn]
    /\ event' = [event EXCEPT ![c] = turn]

\* mutant: every subtask has a semaphore of its own
TakePermitOwn(c) ==
    /\ does[c] = "waiting" /\ UNCHANGED permits
    /\ Setup(c) /\ awaited' = awaited \cup {c}
    /\ UNCHANGED <<turn, live, stopped, batch, entry, rounds, mail, ghostVars>>

TakePermit(c) ==
    /\ does[c] = "waiting" /\ permits > 0 /\ permits' = permits - 1
    /\ Setup(c) /\ awaited' = awaited \cup {c}
    /\ UNCHANGED <<turn, live, stopped, batch, entry, rounds, mail, ghostVars>>

\* background = true: nobody waits for the child
SpawnChild(c) ==
    /\ live /\ does[c] = "none"
    /\ Setup(c)
    /\ UNCHANGED <<turn, live, stopped, callVars, rounds, mail, awaited, ghostVars>>

\* mutant: a permit comes back with every entry, and with every end of a child
EnterTwice(c, outcome) ==
    /\ entry' = IF c \in awaited THEN [entry EXCEPT ![c] = outcome] ELSE entry
    /\ awaited' = awaited \ {c}
    /\ permits' = IF c \in batch THEN permits + 1 ELSE permits

\* the coroutine of a subtask leaves the semaphore with its entry
Enter(c, outcome) ==
    IF c \in awaited
    THEN /\ entry' = [entry EXCEPT ![c] = outcome] /\ awaited' = awaited \ {c}
         /\ permits' = permits + 1
    ELSE UNCHANGED <<entry, awaited, permits>>

\* wait_for gives up; the child's turn goes on
ChildTimesOut(c) ==
    /\ c \in awaited /\ Enter(c, "error") /\ overdue' = overdue \cup {c}
    /\ UNCHANGED <<turn, live, stopped, batch, childVars, late, unfenced>>

BatchReturns ==
    /\ batch # {} /\ \A c \in batch : entry[c] # "none"
    /\ batch' = {}
    /\ UNCHANGED <<turn, live, stopped, permits, entry, childVars, awaited, ghostVars>>

EndTurn ==
    /\ live /\ batch = {} /\ live' = FALSE
    /\ UNCHANGED <<turn, stopped, callVars, childVars, awaited, ghostVars>>

\* cancel_turn of the parent: the event is set, and the task unwinds the gather
CancelParent ==
    /\ live /\ live' = FALSE /\ stopped' = stopped \cup {turn}
    /\ batch' = {} /\ awaited' = {} /\ permits' = MaxParallel
    /\ does' = [c \in Children |-> IF does[c] = "waiting" THEN "ended" ELSE does[c]]
    /\ UNCHANGED <<turn, entry, event, starter, rounds, mail, ghostVars>>

-----------------------------------------------------------------------------
(* The children. *)

BeginRound(c) ==
    /\ does[c] = "thinking" /\ event[c] \notin stopped /\ rounds[c] < MaxRounds
    /\ does' = [does EXCEPT ![c] = "working"] /\ rounds' = [rounds EXCEPT ![c] = @ + 1]
    /\ late' = IF starter[c] \in stopped THEN late \cup {c} ELSE late
    /\ UNCHANGED <<turn, live, stopped, callVars, event, starter, mail, awaited, overdue, unfenced>>

RoundEnds(c) ==
    /\ does[c] = "working" /\ does' = [does EXCEPT ![c] = "thinking"]
    /\ UNCHANGED <<turn, live, stopped, callVars, event, starter, rounds, mail, awaited, ghostVars>>

\* the turn ends with an answer, with an error, or at the cancel event; the text
\* of a cancelled turn is no error to whoever waits
ChildEnds(c, failed) ==
    /\ does[c] \in Running
    /\ does[c] = "thinking" => failed \/ rounds[c] > 0 \/ event[c] \in stopped
    /\ does' = [does EXCEPT ![c] = "ended"]
    /\ Enter(c, IF failed THEN "error" ELSE "ok")
    /\ UNCHANGED <<turn, live, stopped, batch, event, starter, rounds, mail, ghostVars>>

\* subagent_cancel, and the Stop button of the child's own page
SubagentCancel(c) ==
    /\ does[c] \in Running /\ does' = [does EXCEPT ![c] = "ended"]
    /\ Enter(c, "ok")
    /\ UNCHANGED <<turn, live, stopped, batch, event, starter, rounds, mail, ghostVars>>

\* session_send, of the parent or another child: a wake turn of the child, after
\* the one it is in
SessionSend(c) ==
    /\ live \/ \E d \in Children \ {c} : does[d] \in Running
    /\ does[c] \in Running \cup {"ended"}
    /\ mail[c] < MaxMessages /\ mail' = [mail EXCEPT ![c] = @ + 1]
    /\ UNCHANGED <<turn, live, stopped, callVars, does, event, starter, rounds, awaited, ghostVars>>

\* that turn has its own cancel event, and no setup
WakeChild(c) ==
    /\ does[c] = "ended" /\ mail[c] > 0
    /\ mail' = [mail EXCEPT ![c] = 0] /\ does' = [does EXCEPT ![c] = "thinking"]
    /\ event' = [event EXCEPT ![c] = 0] /\ starter' = [starter EXCEPT ![c] = 0]
    /\ rounds' = [rounds EXCEPT ![c] = 0] /\ unfenced' = unfenced \cup {c}
    /\ UNCHANGED <<turn, live, stopped, callVars, awaited, overdue, late>>

Next ==
    \/ StartTurn \/ BatchReturns \/ EndTurn \/ CancelParent
    \/ \E tasks \in SUBSET Children : DelegateTasks(tasks)
    \/ \E c \in Children :
        \/ TakePermit(c) \/ SpawnChild(c) \/ ChildTimesOut(c) \/ BeginRound(c) \/ RoundEnds(c)
        \/ \E failed \in BOOLEAN : ChildEnds(c, failed)
        \/ SubagentCancel(c) \/ SessionSend(c) \/ WakeChild(c)

Spec == Init /\ [][Next]_delegateVars

-----------------------------------------------------------------------------
(* Properties. *)

\* Of the children of one call no more run at a time than the semaphore admits,
\* apart from those the call gave up on or a message woke; and the call has an entry of each that
\* tells an answer from a failure, apart from those that were cancelled.
ChildrenAreCapped ==
    /\ Cardinality({c \in batch : does[c] \in Running} \ (overdue \cup unfenced)) <= MaxParallel
    /\ \A c \in batch : does[c] = "ended" /\ c \notin overdue => entry[c] # "none"

\* Nothing that was started for a turn begins a round after that turn was
\* stopped, in the call or in the background, however late it got its permit.
CancelReachesChildren == late = {}
=============================================================================
