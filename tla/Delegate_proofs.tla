---------------------------- MODULE Delegate_proofs ----------------------------
(***************************************************************************)
(* Proofs about two things a turn does: Delegate, for any set of children, *)
(* finite or not, and any bounds (its types, the cap on the children of a  *)
(* call, the reach of a cancellation); and LlmCalls, an instance, for any  *)
(* models and any bounds (what is shown, said, collected and kept).        *)
(***************************************************************************)
EXTENDS Delegate, FiniteSetTheorems, SequenceTheorems, TLAPS

CONSTANTS Compat, Responses, Vertex, Streaming, MaxRequests, MaxPieces, MaxAtOnce, MaxAttempts,
    MaxStops
VARIABLES phase, call, said, got, shown, cancelled, empties, outcome, history, sent, requests,
    stops, mishaps
Llm == INSTANCE LlmCalls WITH MaxParallel <- MaxAtOnce, MaxRetries <- MaxAttempts

Bounds == {MaxTurns, MaxParallel, MaxRounds, MaxMessages} \subseteq Nat

-----------------------------------------------------------------------------
(* The invariant, in parts *)

\* The semaphore counts the children whose future is awaited.
PermitsCount ==
    /\ IsFiniteSet(awaited)
    /\ permits + Cardinality(awaited) = MaxParallel

\* A child whose future is awaited runs and has no entry yet; a child of the
\* batch that had its turn has an entry, unless it is awaited or was given up.
EntriesKept ==
    /\ \A c \in awaited : does[c] \in Running /\ entry[c] = "none"
    /\ \A c \in batch : does[c] # "none"
    /\ \A c \in batch :
         does[c] \in Running \cup {"ended"} /\ c \notin awaited /\ c \notin overdue => entry[c] # "none"
    /\ \A c \in Children : does[c] = "none" => entry[c] = "none"

\* Who runs in the batch is awaited, given up, or was woken by a message.
RunnersAwaited ==
    \A c \in batch : does[c] \in Running /\ c \notin overdue \cup unfenced => c \in awaited

\* A child looks at the event of the turn that started it.
EventOfStarter == \A c \in Children : event[c] = starter[c]

\* Only a turn that was started runs.
LiveIsStarted == live => turn > 0

IInv ==
    /\ TypeOK /\ PermitsCount /\ EntriesKept /\ RunnersAwaited /\ EventOfStarter /\ LiveIsStarted
    /\ late = {}

LEMMA InvInit == Bounds /\ Init => IInv
<1> SUFFICES ASSUME Bounds, Init  PROVE IInv
  OBVIOUS
<1>1. IsFiniteSet({}) /\ Cardinality({}) = 0  BY FS_EmptySet
<1>2. TypeOK
  <2>1. turn \in 0..MaxTurns /\ permits \in 0..MaxParallel /\ stopped \subseteq 1..turn
    BY DEF Bounds, Init
  <2>2. /\ entry \in [Children -> {"none", "ok", "error"}]
        /\ does \in [Children -> {"none", "waiting", "ended"} \cup Running]
        /\ \A c \in Children : does[c] # "waiting"
    BY DEF Init
  <2>3. /\ event \in [Children -> 0..turn] /\ starter \in [Children -> 0..turn]
        /\ rounds \in [Children -> 0..MaxRounds] /\ mail \in [Children -> 0..MaxMessages]
    BY DEF Bounds, Init
  <2> QED  BY <2>1, <2>2, <2>3 DEF Init, TypeOK
<1>3. PermitsCount  BY <1>1 DEF Bounds, Init, PermitsCount
<1>4. EntriesKept /\ RunnersAwaited
  BY DEF Init, EntriesKept, RunnersAwaited, Running
<1>5. EventOfStarter /\ LiveIsStarted /\ late = {}
  BY DEF Init, EventOfStarter, LiveIsStarted
<1> QED
  BY <1>2, <1>3, <1>4, <1>5 DEF IInv

-----------------------------------------------------------------------------
(* The semaphore *)

LEMMA PermitTaken ==
    ASSUME PermitsCount, NEW c, c \notin awaited, permits \in Nat, MaxParallel \in Nat,
           permits > 0, permits' = permits - 1, awaited' = awaited \cup {c}
    PROVE  PermitsCount' /\ permits' \in 0..MaxParallel
<1>1. Cardinality(awaited) \in Nat  BY FS_CardinalityType DEF PermitsCount
<1>2. IsFiniteSet(awaited') /\ Cardinality(awaited') = Cardinality(awaited) + 1
  BY FS_AddElement DEF PermitsCount
<1> QED  BY <1>1, <1>2 DEF PermitsCount

LEMMA PermitReturned ==
    ASSUME PermitsCount, NEW c \in awaited, permits \in Nat, MaxParallel \in Nat,
           permits' = permits + 1, awaited' = awaited \ {c}
    PROVE  PermitsCount' /\ permits' \in 0..MaxParallel
<1>1. IsFiniteSet(awaited') /\ Cardinality(awaited') = Cardinality(awaited) - 1
  BY FS_RemoveElement DEF PermitsCount
<1>2. Cardinality(awaited) \in Nat /\ Cardinality(awaited') \in Nat
  BY <1>1, FS_CardinalityType DEF PermitsCount
<1> QED  BY <1>1, <1>2 DEF PermitsCount

\* The coroutine of an awaited subtask leaves; for any other child nothing of
\* the call changes.
LEMMA EnterKeeps ==
    ASSUME IInv, Bounds, NEW c \in Children, NEW ends \in {"ok", "error"}, Enter(c, ends)
    PROVE  /\ PermitsCount' /\ permits' \in 0..MaxParallel
           /\ entry' \in [Children -> {"none", "ok", "error"}]
           /\ awaited' = awaited \ {c}
           /\ \A d \in Children : d # c => entry'[d] = entry[d]
           /\ c \in awaited => entry'[c] # "none"
           /\ c \notin awaited => entry'[c] = entry[c]
<1>1. permits \in Nat /\ MaxParallel \in Nat /\ PermitsCount  BY DEF IInv, TypeOK, Bounds
<1>2. CASE c \in awaited
  BY <1>1, <1>2, PermitReturned DEF Enter, IInv, TypeOK
<1>3. CASE c \notin awaited
  <2>1. awaited' = awaited /\ permits' = permits /\ entry' = entry  BY <1>3 DEF Enter
  <2> QED  BY <1>1, <1>3, <2>1 DEF PermitsCount, IInv, TypeOK
<1> QED  BY <1>2, <1>3

-----------------------------------------------------------------------------
(* The steps *)

\* The turn of a child ends: with an answer, an error or a cancellation.
LEMMA EndingKeeps ==
    ASSUME IInv, Bounds, NEW c \in Children, NEW ends \in {"ok", "error"}, does[c] \in Running,
           does' = [does EXCEPT ![c] = "ended"], Enter(c, ends),
           UNCHANGED <<turn, live, stopped, batch, event, starter, rounds, mail, ghostVars>>
    PROVE  IInv'
<1>1. /\ PermitsCount' /\ permits' \in 0..MaxParallel
      /\ entry' \in [Children -> {"none", "ok", "error"}]
      /\ awaited' = awaited \ {c}
      /\ \A d \in Children : d # c => entry'[d] = entry[d]
      /\ c \in awaited => entry'[c] # "none"
      /\ c \notin awaited => entry'[c] = entry[c]
  BY EnterKeeps
<1>2. /\ does'[c] = "ended" /\ \A d \in Children : d # c => does'[d] = does[d]
      /\ does' \in [Children -> {"none", "waiting", "ended"} \cup Running]
      /\ batch \subseteq Children
  BY DEF IInv, TypeOK
<1>3. TypeOK'
  BY <1>1, <1>2 DEF IInv, TypeOK, ghostVars
<1>4. EntriesKept'
  BY <1>1, <1>2 DEF IInv, TypeOK, EntriesKept, Running, ghostVars
<1>5. RunnersAwaited' /\ EventOfStarter'
  BY <1>1, <1>2 DEF IInv, RunnersAwaited, EventOfStarter, Running, ghostVars
<1> QED  BY <1>1, <1>3, <1>4, <1>5 DEF IInv, LiveIsStarted, ghostVars

LEMMA InvStep == Bounds /\ IInv /\ [Next]_delegateVars => IInv'
<1> SUFFICES ASSUME Bounds, IInv, [Next]_delegateVars  PROVE IInv'
  OBVIOUS
<1> USE DEF Running, LiveIsStarted
<1>1. CASE StartTurn
  BY <1>1 DEF StartTurn, IInv, TypeOK, Bounds, PermitsCount, EntriesKept, RunnersAwaited, EventOfStarter,
     callVars, childVars, ghostVars
<1>2. CASE BatchReturns
  <2>1. awaited = {}
    BY <1>2 DEF BatchReturns, IInv, TypeOK, EntriesKept
  <2> QED
    BY <1>2, <2>1 DEF BatchReturns, IInv, TypeOK, PermitsCount, EntriesKept, RunnersAwaited, EventOfStarter,
       childVars, ghostVars
<1>3. CASE EndTurn
  BY <1>3 DEF EndTurn, IInv, TypeOK, PermitsCount, EntriesKept, RunnersAwaited, EventOfStarter,
     callVars, childVars, ghostVars
<1>4. CASE CancelParent
  <2>1. PermitsCount' /\ permits' \in 0..MaxParallel
    BY <1>4, FS_EmptySet DEF CancelParent, PermitsCount, Bounds
  <2>2. /\ does' \in [Children -> {"none", "waiting", "ended"} \cup Running]
        /\ \A c \in Children : does'[c] = IF does[c] = "waiting" THEN "ended" ELSE does[c]
    BY <1>4 DEF CancelParent, IInv, TypeOK
  <2>3. TypeOK'
    <3>1. turn' = turn /\ turn \in 0..MaxTurns /\ stopped' \subseteq 1..turn'
      <4>1. turn \in Nat /\ turn > 0 /\ turn \in 0..MaxTurns /\ stopped \subseteq 1..turn
        BY <1>4 DEF CancelParent, IInv, TypeOK, Bounds
      <4>2. turn \in 1..turn  BY <4>1
      <4>3. turn' = turn /\ stopped' = stopped \cup {turn}  BY <1>4 DEF CancelParent
      <4> QED  BY <4>1, <4>2, <4>3
    <3>2. \A c \in Children : does'[c] # "waiting"
      BY <2>2
    <3> QED
      BY <1>4, <2>1, <2>2, <3>1, <3>2 DEF CancelParent, IInv, TypeOK, ghostVars
  <2>4. EntriesKept' /\ RunnersAwaited' /\ EventOfStarter'
    BY <1>4, <2>2 DEF CancelParent, IInv, EntriesKept, RunnersAwaited, EventOfStarter
  <2> QED  BY <1>4, <2>1, <2>3, <2>4 DEF CancelParent, IInv, ghostVars
<1>5. ASSUME NEW tasks \in SUBSET Children, DelegateTasks(tasks)  PROVE IInv'
  <2>1. awaited = {} /\ awaited' = {}
    BY <1>5 DEF DelegateTasks, IInv, TypeOK
  <2>2. PermitsCount' /\ permits' \in 0..MaxParallel
    BY <1>5, <2>1, FS_EmptySet DEF DelegateTasks, PermitsCount, Bounds
  <2>3. /\ does' \in [Children -> {"none", "waiting", "ended"} \cup Running]
        /\ \A c \in Children : does'[c] = IF c \in tasks THEN "waiting" ELSE does[c]
        /\ \A c \in tasks : entry[c] = "none"
    BY <1>5 DEF DelegateTasks, IInv, TypeOK, EntriesKept
  <2>4. TypeOK'
    BY <1>5, <2>1, <2>2, <2>3 DEF DelegateTasks, IInv, TypeOK, ghostVars
  <2>5. EntriesKept' /\ RunnersAwaited' /\ EventOfStarter'
    BY <1>5, <2>1, <2>3 DEF DelegateTasks, IInv, EntriesKept, RunnersAwaited, EventOfStarter
  <2> QED  BY <1>5, <2>2, <2>4, <2>5 DEF DelegateTasks, IInv, ghostVars
<1>6. ASSUME NEW c \in Children, TakePermit(c)  PROVE IInv'
  <2>1. c \notin awaited /\ c \in batch /\ entry[c] = "none"
    BY <1>6 DEF TakePermit, IInv, TypeOK, EntriesKept
  <2>2. PermitsCount' /\ permits' \in 0..MaxParallel
    <3>1. permits \in Nat /\ MaxParallel \in Nat /\ PermitsCount  BY DEF IInv, TypeOK, Bounds
    <3> QED  BY <1>6, <2>1, <3>1, PermitTaken DEF TakePermit
  <2>3. /\ does' = [does EXCEPT ![c] = "thinking"] /\ starter' = [starter EXCEPT ![c] = turn]
        /\ event' = [event EXCEPT ![c] = turn] /\ awaited' = awaited \cup {c}
        /\ UNCHANGED <<turn, live, stopped, batch, entry, rounds, mail, overdue, late, unfenced>>
    BY <1>6 DEF TakePermit, Setup, ghostVars
  <2>4. TypeOK'  BY <2>1, <2>2, <2>3 DEF IInv, TypeOK
  <2>5. EntriesKept' /\ RunnersAwaited' /\ EventOfStarter'
    BY <2>1, <2>3 DEF IInv, TypeOK, EntriesKept, RunnersAwaited, EventOfStarter
  <2> QED  BY <2>2, <2>3, <2>4, <2>5 DEF IInv
<1>7. ASSUME NEW c \in Children, SpawnChild(c)  PROVE IInv'
  <2>1. /\ does' = [does EXCEPT ![c] = "thinking"] /\ starter' = [starter EXCEPT ![c] = turn]
        /\ event' = [event EXCEPT ![c] = turn] /\ does[c] = "none"
        /\ UNCHANGED <<turn, live, stopped, batch, permits, entry, rounds, mail, awaited, overdue, late, unfenced>>
    BY <1>7 DEF SpawnChild, Setup, callVars, ghostVars
  <2>2. c \notin batch  BY <2>1 DEF IInv, EntriesKept
  <2>3. TypeOK'  BY <2>1 DEF IInv, TypeOK
  <2>4. PermitsCount' /\ EntriesKept' /\ RunnersAwaited' /\ EventOfStarter'
    BY <2>1, <2>2 DEF IInv, TypeOK, PermitsCount, EntriesKept, RunnersAwaited, EventOfStarter
  <2> QED  BY <2>1, <2>3, <2>4 DEF IInv
<1>8. ASSUME NEW c \in Children, ChildTimesOut(c)  PROVE IInv'
  <2>1. /\ c \in awaited /\ Enter(c, "error") /\ overdue' = overdue \cup {c}
        /\ UNCHANGED <<turn, live, stopped, batch, does, event, starter, rounds, mail, late, unfenced>>
    BY <1>8 DEF ChildTimesOut, childVars
  <2>2. /\ PermitsCount' /\ permits' \in 0..MaxParallel
        /\ entry' \in [Children -> {"none", "ok", "error"}]
        /\ awaited' = awaited \ {c}
        /\ \A d \in Children : d # c => entry'[d] = entry[d]
        /\ entry'[c] # "none"
    BY <2>1, EnterKeeps
  <2>3. does[c] \in Running /\ batch \subseteq Children  BY <2>1 DEF IInv, EntriesKept, TypeOK
  <2>4. TypeOK'  BY <2>1, <2>2, <2>3 DEF IInv, TypeOK
  <2>5. EntriesKept' /\ RunnersAwaited' /\ EventOfStarter'
    BY <2>1, <2>2, <2>3 DEF IInv, TypeOK, EntriesKept, RunnersAwaited, EventOfStarter
  <2> QED  BY <2>1, <2>2, <2>4, <2>5 DEF IInv
<1>9. ASSUME NEW c \in Children, BeginRound(c)  PROVE IInv'
  <2>1. /\ does[c] = "thinking" /\ event[c] \notin stopped
        /\ does' = [does EXCEPT ![c] = "working"] /\ rounds' \in [Children -> 0..MaxRounds]
        /\ late' = IF starter[c] \in stopped THEN late \cup {c} ELSE late
        /\ UNCHANGED <<turn, live, stopped, batch, permits, entry, event, starter, mail, awaited, overdue, unfenced>>
    BY <1>9 DEF BeginRound, callVars, IInv, TypeOK, Bounds
  <2>2. late' = late  BY <2>1 DEF IInv, EventOfStarter
  <2>3. TypeOK'  BY <2>1, <2>2 DEF IInv, TypeOK
  <2>4. PermitsCount' /\ EntriesKept' /\ RunnersAwaited' /\ EventOfStarter'
    BY <2>1 DEF IInv, TypeOK, PermitsCount, EntriesKept, RunnersAwaited, EventOfStarter
  <2> QED  BY <2>1, <2>2, <2>3, <2>4 DEF IInv
<1>10. ASSUME NEW c \in Children, RoundEnds(c)  PROVE IInv'
  <2>1. /\ does[c] = "working" /\ does' = [does EXCEPT ![c] = "thinking"]
        /\ UNCHANGED <<turn, live, stopped, batch, permits, entry, event, starter, rounds, mail, awaited,
                       overdue, late, unfenced>>
    BY <1>10 DEF RoundEnds, callVars, ghostVars
  <2>2. TypeOK'  BY <2>1 DEF IInv, TypeOK
  <2>3. PermitsCount' /\ EntriesKept' /\ RunnersAwaited' /\ EventOfStarter'
    BY <2>1 DEF IInv, TypeOK, PermitsCount, EntriesKept, RunnersAwaited, EventOfStarter
  <2> QED  BY <2>1, <2>2, <2>3 DEF IInv
<1>11. ASSUME NEW c \in Children, SubagentCancel(c) \/ \E failed \in BOOLEAN : ChildEnds(c, failed)
       PROVE  IInv'
  <2>1. PICK ends \in {"ok", "error"} :
          /\ does[c] \in Running /\ does' = [does EXCEPT ![c] = "ended"] /\ Enter(c, ends)
          /\ UNCHANGED <<turn, live, stopped, batch, event, starter, rounds, mail, ghostVars>>
    BY <1>11 DEF SubagentCancel, ChildEnds
  <2> QED  BY <2>1, EndingKeeps
<1>12. ASSUME NEW c \in Children, SessionSend(c)  PROVE IInv'
  <2>1. mail' \in [Children -> 0..MaxMessages]
    BY <1>12 DEF SessionSend, IInv, TypeOK, Bounds
  <2> QED
    BY <1>12, <2>1 DEF SessionSend, IInv, TypeOK, PermitsCount, EntriesKept, RunnersAwaited, EventOfStarter,
       callVars, ghostVars
<1>13. ASSUME NEW c \in Children, WakeChild(c)  PROVE IInv'
  <2>1. /\ does[c] = "ended" /\ does' = [does EXCEPT ![c] = "thinking"]
        /\ event' = [event EXCEPT ![c] = 0] /\ starter' = [starter EXCEPT ![c] = 0]
        /\ rounds' = [rounds EXCEPT ![c] = 0] /\ mail' = [mail EXCEPT ![c] = 0]
        /\ unfenced' = unfenced \cup {c}
        /\ UNCHANGED <<turn, live, stopped, batch, permits, entry, awaited, overdue, late>>
    BY <1>13 DEF WakeChild, callVars
  <2>2. c \notin awaited  BY <2>1 DEF IInv, EntriesKept
  <2>3. TypeOK'  BY <2>1, <2>2 DEF IInv, TypeOK, Bounds
  <2>4. PermitsCount' /\ EntriesKept' /\ RunnersAwaited' /\ EventOfStarter'
    BY <2>1, <2>2 DEF IInv, TypeOK, PermitsCount, EntriesKept, RunnersAwaited, EventOfStarter
  <2> QED  BY <2>1, <2>3, <2>4 DEF IInv
<1>14. CASE UNCHANGED delegateVars
  BY <1>14 DEF delegateVars, callVars, childVars, ghostVars, IInv, TypeOK, PermitsCount, EntriesKept,
     RunnersAwaited, EventOfStarter
<1> QED
  BY <1>1, <1>2, <1>3, <1>4, <1>5, <1>6, <1>7, <1>8, <1>9, <1>10, <1>11, <1>12, <1>13, <1>14 DEF Next

LEMMA InvCorrect ==
    ASSUME Bounds
    PROVE  Spec => []IInv
<1>1. Init => IInv  BY InvInit
<1>2. IInv /\ [Next]_delegateVars => IInv'  BY InvStep
<1> QED  BY <1>1, <1>2, PTL DEF Spec

\* The variables keep their types; in particular the semaphore never holds more
\* permits than it was created with, however its subtasks time out or end.
THEOREM TypeCorrect ==
    ASSUME Bounds
    PROVE  Spec => []TypeOK
<1>1. IInv => TypeOK  BY DEF IInv
<1> QED  BY <1>1, InvCorrect, PTL

\* No more children of one call run at a time than its semaphore admits, apart
\* from those the call gave up on or a message woke; and the call has an entry
\* of every child that ended for it.
THEOREM Capped ==
    ASSUME Bounds
    PROVE  Spec => []ChildrenAreCapped
<1>1. Bounds /\ IInv => ChildrenAreCapped
  <2> SUFFICES ASSUME Bounds, IInv  PROVE ChildrenAreCapped
    OBVIOUS
  <2> DEFINE runners == {c \in batch : does[c] \in Running} \ (overdue \cup unfenced)
  <2>1. runners \subseteq awaited /\ IsFiniteSet(awaited)
    BY DEF IInv, RunnersAwaited, PermitsCount
  <2>2. Cardinality(runners) <= Cardinality(awaited)
        /\ Cardinality(runners) \in Nat /\ Cardinality(awaited) \in Nat
    <3> HIDE DEF runners
    <3> QED  BY <2>1, FS_Subset, FS_CardinalityType
  <2>3. Cardinality(awaited) <= MaxParallel
    BY <2>2 DEF IInv, TypeOK, PermitsCount, Bounds
  <2>4. Cardinality(runners) <= MaxParallel
    <3> HIDE DEF runners
    <3> QED  BY <2>2, <2>3 DEF Bounds
  <2>5. ASSUME NEW c \in batch, does[c] = "ended", c \notin overdue  PROVE entry[c] # "none"
    <3>1. c \notin awaited  BY <2>5 DEF IInv, EntriesKept, Running
    <3> QED  BY <2>5, <3>1 DEF IInv, EntriesKept
  <2> QED  BY <2>4, <2>5 DEF ChildrenAreCapped
<1>2. IInv => ChildrenAreCapped  BY <1>1
<1> QED  BY <1>2, InvCorrect, PTL

\* Nothing that was started for a turn begins a round after that turn was
\* stopped: a child looks at the cancel event of its starter.
THEOREM CancelReaches ==
    ASSUME Bounds
    PROVE  Spec => []CancelReachesChildren
<1>1. IInv => CancelReachesChildren  BY DEF IInv, CancelReachesChildren
<1> QED  BY <1>1, InvCorrect, PTL

-----------------------------------------------------------------------------
(***************************************************************************)
(* LlmCalls: the requests of a turn and what is collected of the answers.  *)
(***************************************************************************)
\* The bounds are numbers; a model has one provider.
LlmBounds ==
    /\ Llm!Bounds
    /\ Compat \cap Responses = {} /\ Compat \cap Vertex = {} /\ Responses \cap Vertex = {}

Dones == {"none", "answered", "cancelled", "failed"}
Stages == {"over", "ready", "starting", "asking", "waiting", "reading", "answered"}

CallTyped ==
    /\ phase \in Stages
    /\ call \in [model : Llm!Models, streaming : BOOLEAN, attempt : 0..MaxAttempts]
    /\ cancelled \in BOOLEAN /\ empties \in 0..1 /\ outcome \in Dones
    /\ requests \in 0..MaxRequests /\ stops \in 0..MaxStops
    /\ mishaps \subseteq {"merged", "cut", "filtered", "dropped"}

LEMMA CallTypedStep ==
    ASSUME LlmBounds, CallTyped, [Llm!Next]_(Llm!vars)
    PROVE  CallTyped'
<1> USE DEF CallTyped, LlmBounds, Llm!Bounds, Stages, Dones
<1>1. CASE Llm!NewTurn
  <2>1. call' \in [model : Llm!Models, streaming : BOOLEAN, attempt : 0..MaxAttempts]
    <3>1. PICK m \in Llm!Models, s \in Streaming :
            call' = [model |-> m, streaming |-> s, attempt |-> 0]
      BY <1>1 DEF Llm!NewTurn
    <3> QED  BY <3>1
  <2>2. /\ phase' = "ready" /\ outcome' = "none" /\ cancelled' = FALSE /\ empties' = 0
        /\ UNCHANGED <<requests, stops, mishaps>>
    BY <1>1 DEF Llm!NewTurn, Llm!boundVars
  <2>3. cancelled' \in BOOLEAN  BY <2>2, Zenon
  <2>4. phase' \in Stages /\ empties' \in 0..1 /\ outcome' \in Dones  BY <2>2
  <2>5. requests' \in 0..MaxRequests /\ stops' \in 0..MaxStops /\ mishaps' = mishaps  BY <2>2
  <2> QED  BY <2>1, <2>3, <2>4, <2>5
<1>2. CASE Llm!Stop
  BY <1>2 DEF Llm!Stop, Llm!End, Llm!Forget, Llm!Silence, Llm!Nothing, Llm!turnVars, Llm!rowVars,
      Llm!boundVars
<1>3. CASE Llm!StopAtHead
  BY <1>3 DEF Llm!StopAtHead, Llm!End, Llm!turnVars, Llm!rowVars, Llm!boundVars
<1>4. CASE Llm!Begin
  BY <1>4 DEF Llm!Begin, Llm!turnVars, Llm!rowVars, Llm!boundVars
<1>5. CASE Llm!Send
  BY <1>5 DEF Llm!Send, Llm!Dialect, Llm!Worded, Llm!turnVars, Llm!rowVars, Llm!boundVars
<1>6. CASE Llm!Throttled
  BY <1>6 DEF Llm!Throttled, Llm!Dialect, Llm!Fails, Llm!End, Llm!Forget, Llm!Silence,
      Llm!Nothing, Llm!turnVars, Llm!rowVars, Llm!boundVars
<1>7. CASE Llm!Refused
  BY <1>7 DEF Llm!Refused, Llm!Fails, Llm!End, Llm!Forget, Llm!Silence, Llm!Nothing, Llm!turnVars,
      Llm!rowVars, Llm!boundVars
<1>8. CASE Llm!Overflows
  BY <1>8 DEF Llm!Overflows, Llm!Forget, Llm!Silence, Llm!Nothing, Llm!turnVars, Llm!rowVars,
      Llm!boundVars
<1>9. CASE Llm!WaitOver
  BY <1>9 DEF Llm!WaitOver, Llm!turnVars, Llm!rowVars, Llm!boundVars
<1>10. CASE Llm!StopWhileWaiting
  BY <1>10 DEF Llm!StopWhileWaiting, Llm!Watched, Llm!End, Llm!Forget, Llm!Silence, Llm!Nothing,
      Llm!turnVars, Llm!rowVars, Llm!boundVars
<1>11. CASE Llm!StopSeen
  BY <1>11 DEF Llm!StopSeen, Llm!Watched, Llm!Nothing, Llm!turnVars, Llm!rowVars, Llm!boundVars
<1>12. CASE Llm!Answered
  BY <1>12 DEF Llm!Answered, Llm!Dialect, Llm!turnVars, Llm!rowVars, Llm!boundVars
<1>13. CASE Llm!Think
  BY <1>13 DEF Llm!Think, Llm!Event, Llm!Talks, Llm!Watched, Llm!Finalize, Llm!Ending,
      Llm!Dialect, Llm!turnVars, Llm!rowVars, Llm!boundVars
<1>14. CASE Llm!Say
  BY <1>14 DEF Llm!Say, Llm!Event, Llm!Talks, Llm!Watched, Llm!Finalize, Llm!Ending, Llm!Dialect,
      Llm!turnVars, Llm!rowVars, Llm!boundVars
<1>15. CASE Llm!StartCall
  BY <1>15 DEF Llm!StartCall, Llm!Event, Llm!Talks, Llm!AllGiven, Llm!Watched, Llm!Finalize,
      Llm!Ending, Llm!Dialect, Llm!Given, Llm!Slot, Llm!turnVars, Llm!rowVars, Llm!boundVars
<1>16. CASE Llm!GiveArguments
  BY <1>16 DEF Llm!GiveArguments, Llm!Event, Llm!Talks, Llm!AllGiven, Llm!Watched, Llm!Finalize,
      Llm!Ending, Llm!Dialect, Llm!Given, Llm!Slot, Llm!turnVars, Llm!rowVars, Llm!boundVars
<1>17. ASSUME NEW r \in {"stop", "length", "filter"}, Llm!Finishes(r)  PROVE CallTyped'
  BY <1>17 DEF Llm!Finishes, Llm!Event, Llm!Talks, Llm!AllGiven, Llm!Watched, Llm!Finalize,
      Llm!Ending, Llm!Dialect, Llm!turnVars, Llm!rowVars, Llm!boundVars
<1>18. CASE Llm!Reports
  BY <1>18 DEF Llm!Reports, Llm!Event, Llm!Talks, Llm!Watched, Llm!Finalize, Llm!Ending,
      Llm!Dialect, Llm!Nothing, Llm!Fails, Llm!End, Llm!Forget, Llm!Silence, Llm!turnVars,
      Llm!rowVars, Llm!boundVars
<1>19. CASE Llm!Done
  BY <1>19 DEF Llm!Done, Llm!Finalize, Llm!Ending, Llm!Dialect, Llm!AllGiven, Llm!turnVars,
      Llm!rowVars, Llm!boundVars
<1>20. CASE Llm!Closes
  BY <1>20 DEF Llm!Closes, Llm!Finalize, Llm!Ending, Llm!Dialect, Llm!turnVars, Llm!rowVars,
      Llm!boundVars
<1>21. CASE Llm!Breaks
  BY <1>21 DEF Llm!Breaks, Llm!HasOutput, Llm!Dialect, Llm!Finalize, Llm!Ending, Llm!Fails,
      Llm!End, Llm!Forget, Llm!Silence, Llm!Nothing, Llm!turnVars, Llm!rowVars, Llm!boundVars
<1>22. CASE Llm!StopTaken
  BY <1>22 DEF Llm!StopTaken, Llm!StopHeard, Llm!End, Llm!Forget, Llm!Silence, Llm!Nothing,
      Llm!turnVars, Llm!rowVars, Llm!boundVars
<1>23. CASE Llm!TakeCalls
  BY <1>23 DEF Llm!TakeCalls, Llm!StopHeard, Llm!Rejected, Llm!Row, Llm!Forget, Llm!Silence,
      Llm!Nothing, Llm!Dialect, Llm!turnVars, Llm!rowVars, Llm!boundVars
<1>24. CASE Llm!RetryEmpty
  BY <1>24 DEF Llm!RetryEmpty, Llm!StopHeard, Llm!Forget, Llm!Silence, Llm!Nothing, Llm!turnVars,
      Llm!rowVars, Llm!boundVars
<1>25. CASE Llm!TakeText
  BY <1>25 DEF Llm!TakeText, Llm!StopHeard, Llm!End, Llm!Row, Llm!Forget, Llm!Silence,
      Llm!Nothing, Llm!Dialect, Llm!turnVars, Llm!rowVars, Llm!boundVars
<1>26. CASE UNCHANGED Llm!vars
  BY <1>26 DEF Llm!vars, Llm!turnVars, Llm!rowVars, Llm!boundVars
<1> HIDE DEF CallTyped, LlmBounds, Llm!Bounds, Stages, Dones
<1> QED
  BY <1>1, <1>2, <1>3, <1>4, <1>5, <1>6, <1>7, <1>8, <1>9, <1>10, <1>11, <1>12, <1>13, <1>14,
      <1>15, <1>16, <1>17, <1>18, <1>19, <1>20, <1>21, <1>22, <1>23, <1>24, <1>25, <1>26 DEF
      Llm!Next

SaidSet ==
    [text : Llm!Pieces, thought : BOOLEAN, calls : Seq(0..1), stop : Llm!Reasons,
     indexed : BOOLEAN]

LEMMA SaidFields ==
    ASSUME said \in SaidSet
    PROVE  /\ said.text \in Llm!Pieces /\ said.thought \in BOOLEAN /\ said.calls \in Seq(0..1)
           /\ said.stop \in Llm!Reasons /\ said.indexed \in BOOLEAN
           /\ \A t \in Llm!Pieces : [said EXCEPT !.text = t] \in SaidSet
           /\ [said EXCEPT !.thought = TRUE] \in SaidSet
           /\ [said EXCEPT !.indexed = FALSE] \in SaidSet
           /\ \A s \in Seq(0..1) : [said EXCEPT !.calls = s] \in SaidSet
           /\ \A r \in Llm!Reasons : [said EXCEPT !.stop = r] \in SaidSet
           /\ \A t \in Llm!Pieces, s \in Seq(0..1), r \in Llm!Reasons :
                [said EXCEPT !.text = t, !.stop = r, !.calls = s] \in SaidSet
BY DEF SaidSet

LEMMA SilenceSaid ==
    ASSUME LlmBounds
    PROVE  Llm!Silence \in SaidSet
<1>1. <<>> \in Seq(0..1)  OBVIOUS
<1> QED  BY <1>1 DEF LlmBounds, Llm!Bounds, Llm!Silence, SaidSet, Llm!Pieces, Llm!Reasons

LEMMA SeqWith ==
    ASSUME NEW S, NEW s \in Seq(S), NEW i, NEW x \in S
    PROVE  [s EXCEPT ![i] = x] \in Seq(S) /\ Len([s EXCEPT ![i] = x]) = Len(s)
<1>1. s \in [1..Len(s) -> S] /\ Len(s) \in Nat  BY LenProperties
<1>2. [s EXCEPT ![i] = x] \in [1..Len(s) -> S]  BY <1>1
<1> QED  BY <1>1, <1>2

\* A response that comes whole
LEMMA WholeTexts ==
    ASSUME LlmBounds, NEW t \in Llm!Pieces
    PROVE  Llm!WholeText(t) \in Seq(Llm!Pieces)
<1>1. t \in Nat /\ t <= MaxPieces  BY DEF LlmBounds, Llm!Bounds, Llm!Pieces
<1>2. Llm!WholeText(t) \in [1..t -> Llm!Pieces]
  BY <1>1 DEF Llm!WholeText, Llm!Pieces, LlmBounds, Llm!Bounds
<1> QED  BY <1>1, <1>2

LEMMA WholeCalls ==
    ASSUME LlmBounds, NEW n \in 0..MaxAtOnce, NEW cut \in BOOLEAN
    PROVE  /\ Llm!CallsSaid(n, cut) \in Seq(0..1) /\ Len(Llm!CallsSaid(n, cut)) = n
           /\ Llm!CallsGot(n, cut) \in Seq(Seq(1..MaxAtOnce)) /\ Len(Llm!CallsGot(n, cut)) = n
           /\ \A k \in 1..n :
                /\ Llm!CallsSaid(n, cut)[k] = IF cut /\ k = n THEN 0 ELSE 1
                /\ Llm!CallsGot(n, cut)[k] = IF cut /\ k = n THEN <<k>> ELSE <<k, k>>
<1>1. n \in Nat /\ n <= MaxAtOnce  BY DEF LlmBounds, Llm!Bounds
<1>2. Llm!CallsSaid(n, cut) \in [1..n -> 0..1]  BY DEF Llm!CallsSaid
<1>3. \A k \in 1..n : <<k>> \in Seq(1..MaxAtOnce) /\ <<k, k>> \in Seq(1..MaxAtOnce)
  <2> TAKE k \in 1..n
  <2>1. k \in 1..MaxAtOnce  BY <1>1 DEF LlmBounds, Llm!Bounds
  <2> QED  BY <2>1
<1>4. Llm!CallsGot(n, cut) \in [1..n -> Seq(1..MaxAtOnce)]  BY <1>3 DEF Llm!CallsGot
<1>5. Llm!CallsSaid(n, cut) \in Seq(0..1) /\ Len(Llm!CallsSaid(n, cut)) = n  BY <1>1, <1>2
<1>6. Llm!CallsGot(n, cut) \in Seq(Seq(1..MaxAtOnce)) /\ Len(Llm!CallsGot(n, cut)) = n
  BY <1>1, <1>4
<1> QED  BY <1>5, <1>6 DEF Llm!CallsSaid, Llm!CallsGot

LEMMA AnsweredParts ==
    ASSUME Llm!Answered
    PROVE  \/ call.streaming /\ phase' = "reading" /\ said' = said /\ got' = got
           \/ /\ ~call.streaming /\ phase' = "answered"
              /\ \E t \in Llm!Pieces, n \in 0..MaxAtOnce, r \in {"stop", "length", "filter"} :
                   \E f \in {r, "error"} :
                   /\ f = "error" => r = "filter"
                   /\ said' = [said EXCEPT !.text = t, !.stop = r,
                                           !.calls = Llm!CallsSaid(n, r # "stop")]
                   /\ got' = [text |-> Llm!WholeText(t), calls |-> Llm!CallsGot(n, r # "stop"),
                              done |-> TRUE, finish |-> f]
BY DEF Llm!Answered

LEMMA SaidTypedStep ==
    ASSUME LlmBounds, said \in SaidSet, [Llm!Next]_(Llm!vars)
    PROVE  (said \in SaidSet)'
<1>1. CASE Llm!NewTurn
  BY <1>1, SaidFields, SilenceSaid DEF Llm!NewTurn, Llm!rowVars, Llm!boundVars, Llm!Pieces,
      Llm!Reasons
<1>2. CASE Llm!Stop
  BY <1>2, SaidFields, SilenceSaid DEF Llm!Stop, Llm!End, Llm!Forget, Llm!rowVars, Llm!boundVars,
      Llm!Pieces, Llm!Reasons
<1>3. CASE Llm!StopAtHead
  BY <1>3, SaidFields, SilenceSaid DEF Llm!StopAtHead, Llm!End, Llm!rowVars, Llm!boundVars,
      Llm!Pieces, Llm!Reasons
<1>4. CASE Llm!Begin
  BY <1>4, SaidFields, SilenceSaid DEF Llm!Begin, Llm!rowVars, Llm!boundVars, Llm!Pieces,
      Llm!Reasons
<1>5. CASE Llm!Send
  BY <1>5, SaidFields, SilenceSaid DEF Llm!Send, Llm!Dialect, Llm!Worded, Llm!rowVars,
      Llm!boundVars, Llm!Pieces, Llm!Reasons
<1>6. CASE Llm!Throttled
  BY <1>6, SaidFields, SilenceSaid DEF Llm!Throttled, Llm!Dialect, Llm!Fails, Llm!End, Llm!Forget,
      Llm!rowVars, Llm!boundVars, Llm!Pieces, Llm!Reasons
<1>7. CASE Llm!Refused
  BY <1>7, SaidFields, SilenceSaid DEF Llm!Refused, Llm!Fails, Llm!End, Llm!Forget, Llm!rowVars,
      Llm!boundVars, Llm!Pieces, Llm!Reasons
<1>8. CASE Llm!Overflows
  BY <1>8, SaidFields, SilenceSaid DEF Llm!Overflows, Llm!Forget, Llm!rowVars, Llm!boundVars,
      Llm!Pieces, Llm!Reasons
<1>9. CASE Llm!WaitOver
  BY <1>9, SaidFields, SilenceSaid DEF Llm!WaitOver, Llm!rowVars, Llm!boundVars, Llm!Pieces,
      Llm!Reasons
<1>10. CASE Llm!StopWhileWaiting
  BY <1>10, SaidFields, SilenceSaid DEF Llm!StopWhileWaiting, Llm!Watched, Llm!End, Llm!Forget,
      Llm!rowVars, Llm!boundVars, Llm!Pieces, Llm!Reasons
<1>11. CASE Llm!StopSeen
  BY <1>11, SaidFields, SilenceSaid DEF Llm!StopSeen, Llm!Watched, Llm!rowVars, Llm!boundVars,
      Llm!Pieces, Llm!Reasons
<1>12. CASE Llm!Answered
  <2>1. CASE said' = said  BY <2>1
  <2>2. ASSUME NEW t \in Llm!Pieces, NEW n \in 0..MaxAtOnce,
               NEW r \in {"stop", "length", "filter"},
               said' = [said EXCEPT !.text = t, !.stop = r,
                                    !.calls = Llm!CallsSaid(n, r # "stop")]
        PROVE  said' \in SaidSet
    <3>1. (r # "stop") \in BOOLEAN /\ r \in Llm!Reasons  BY DEF Llm!Reasons
    <3>2. Llm!CallsSaid(n, r # "stop") \in Seq(0..1)  BY <3>1, WholeCalls
    <3> QED  BY <2>2, <3>1, <3>2, SaidFields
  <2> QED  BY <1>12, <2>1, <2>2, AnsweredParts
<1>13. CASE Llm!Think
  BY <1>13, SaidFields, SilenceSaid DEF Llm!Think, Llm!Event, Llm!Talks, Llm!Watched,
      Llm!Finalize, Llm!Dialect, Llm!rowVars, Llm!boundVars, Llm!Pieces, Llm!Reasons
<1>14. CASE Llm!Say
  <2>1. said' = [said EXCEPT !.text = said.text + 1] /\ said.text < MaxPieces
    BY <1>14 DEF Llm!Say, Llm!Event
  <2>2. said.text \in 0..MaxPieces  BY SaidFields DEF Llm!Pieces
  <2>3. said.text + 1 \in Llm!Pieces  BY <2>1, <2>2 DEF Llm!Pieces, LlmBounds, Llm!Bounds
  <2> QED  BY <2>1, <2>3, SaidFields
<1>15. CASE Llm!StartCall
  <2>1. PICK x \in 0..1 : said' = [said EXCEPT !.calls = Append(said.calls, x)]
    BY <1>15 DEF Llm!StartCall, Llm!Event
  <2>2. PICK s \in Seq(0..1) : s = said.calls  BY SaidFields
  <2>3. PICK z : z = Append(s, x)  OBVIOUS
  <2>4. z \in Seq(0..1)  BY <2>3, AppendProperties
  <2>5. said' = [said EXCEPT !.calls = z]  BY <2>1, <2>2, <2>3
  <2> QED  BY <2>4, <2>5, SaidFields
<1>16. CASE Llm!GiveArguments
  <2>1. said' = [said EXCEPT !.calls = [said.calls EXCEPT ![Len(said.calls)] = 1]]
    BY <1>16 DEF Llm!GiveArguments, Llm!Event
  <2>2. PICK s \in Seq(0..1) : s = said.calls  BY SaidFields
  <2>3. PICK z : z = [s EXCEPT ![Len(s)] = 1]  OBVIOUS
  <2>4. z \in Seq(0..1)  BY <2>3, SeqWith
  <2>5. said' = [said EXCEPT !.calls = z]  BY <2>1, <2>2, <2>3
  <2> QED  BY <2>4, <2>5, SaidFields
<1>17. ASSUME NEW r \in {"stop", "length", "filter"}, Llm!Finishes(r)  PROVE (said \in SaidSet)'
  BY <1>17, SaidFields, SilenceSaid DEF Llm!Finishes, Llm!Event, Llm!Talks, Llm!AllGiven,
      Llm!Watched, Llm!Finalize, Llm!Dialect, Llm!rowVars, Llm!boundVars, Llm!Pieces, Llm!Reasons
<1>18. CASE Llm!Reports
  <2>1. said' = [said EXCEPT !.stop = "failed"] \/ said' = Llm!Silence
    BY <1>18 DEF Llm!Reports, Llm!Event, Llm!Fails, Llm!Forget
  <2> QED  BY <2>1, SaidFields, SilenceSaid DEF Llm!Reasons
<1>19. CASE Llm!Done
  <2>1. said' = [said EXCEPT !.stop = IF said.stop = "none" THEN "stop" ELSE said.stop]
    BY <1>19 DEF Llm!Done
  <2> QED  BY <2>1, SaidFields DEF Llm!Reasons
<1>20. CASE Llm!Closes
  BY <1>20, SaidFields, SilenceSaid DEF Llm!Closes, Llm!Finalize, Llm!Dialect, Llm!rowVars,
      Llm!boundVars, Llm!Pieces, Llm!Reasons
<1>21. CASE Llm!Breaks
  BY <1>21, SaidFields, SilenceSaid DEF Llm!Breaks, Llm!HasOutput, Llm!Dialect, Llm!Finalize,
      Llm!Fails, Llm!End, Llm!Forget, Llm!rowVars, Llm!boundVars, Llm!Pieces, Llm!Reasons
<1>22. CASE Llm!StopTaken
  BY <1>22, SaidFields, SilenceSaid DEF Llm!StopTaken, Llm!StopHeard, Llm!End, Llm!Forget,
      Llm!rowVars, Llm!boundVars, Llm!Pieces, Llm!Reasons
<1>23. CASE Llm!TakeCalls
  BY <1>23, SaidFields, SilenceSaid DEF Llm!TakeCalls, Llm!StopHeard, Llm!Rejected, Llm!Row,
      Llm!Forget, Llm!Dialect, Llm!rowVars, Llm!boundVars, Llm!Pieces, Llm!Reasons
<1>24. CASE Llm!RetryEmpty
  BY <1>24, SaidFields, SilenceSaid DEF Llm!RetryEmpty, Llm!StopHeard, Llm!Forget, Llm!rowVars,
      Llm!boundVars, Llm!Pieces, Llm!Reasons
<1>25. CASE Llm!TakeText
  BY <1>25, SaidFields, SilenceSaid DEF Llm!TakeText, Llm!StopHeard, Llm!End, Llm!Row, Llm!Forget,
      Llm!Dialect, Llm!rowVars, Llm!boundVars, Llm!Pieces, Llm!Reasons
<1>26. CASE UNCHANGED Llm!vars
  BY <1>26 DEF Llm!vars, Llm!turnVars, Llm!rowVars, Llm!boundVars
<1> QED
  BY <1>1, <1>2, <1>3, <1>4, <1>5, <1>6, <1>7, <1>8, <1>9, <1>10, <1>11, <1>12, <1>13, <1>14,
      <1>15, <1>16, <1>17, <1>18, <1>19, <1>20, <1>21, <1>22, <1>23, <1>24, <1>25, <1>26 DEF
      Llm!Next

GotSet ==
    [text : Seq(Llm!Pieces), calls : Seq(Seq(1..MaxAtOnce)), done : BOOLEAN, finish : Llm!Reasons]

LEMMA GotFields ==
    ASSUME got \in GotSet
    PROVE  /\ got.text \in Seq(Llm!Pieces) /\ got.calls \in Seq(Seq(1..MaxAtOnce))
           /\ got.done \in BOOLEAN /\ got.finish \in Llm!Reasons
           /\ \A t \in Seq(Llm!Pieces) : [got EXCEPT !.text = t] \in GotSet
           /\ \A s \in Seq(Seq(1..MaxAtOnce)) : [got EXCEPT !.calls = s] \in GotSet
           /\ [got EXCEPT !.done = TRUE] \in GotSet
           /\ \A r \in Llm!Reasons : [got EXCEPT !.finish = r] \in GotSet
BY DEF GotSet

LEMMA NothingGot == \A m : Llm!Nothing(m) \in GotSet
<1>1. <<>> \in Seq(Llm!Pieces) /\ <<>> \in Seq(Seq(1..MaxAtOnce))  OBVIOUS
<1> QED  BY <1>1 DEF Llm!Nothing, GotSet, Llm!Reasons

LEMMA FinalizedGot ==
    ASSUME NEW g \in GotSet, Llm!Finalize(g)
    PROVE  /\ got' = [g EXCEPT !.finish = Llm!Ending(g)] /\ got' \in GotSet
           /\ Llm!Ending(g) \in Llm!Reasons
<1>1. g.finish \in Llm!Reasons  BY DEF GotSet
<1>2. Llm!Ending(g) \in Llm!Reasons  BY <1>1 DEF Llm!Ending, Llm!Reasons
<1> QED  BY <1>2 DEF Llm!Finalize, GotSet

\* What an event leaves of what is collected
LEMMA EventGot ==
    ASSUME got \in GotSet, NEW e, NEW g \in GotSet, NEW s, Llm!Event(e, g, s)
    PROVE  got' \in GotSet
<1>1. [got EXCEPT !.finish = "cancelled"] \in GotSet  BY GotFields DEF Llm!Reasons
<1> QED  BY <1>1, FinalizedGot DEF Llm!Event

LEMMA GivenGot ==
    ASSUME LlmBounds, said \in SaidSet, got \in GotSet, NEW k \in 1..MaxAtOnce
    PROVE  Llm!Given(k) \in GotSet
<1>1. <<k>> \in Seq(1..MaxAtOnce)  OBVIOUS
<1>2. PICK j : j = Llm!Slot(k)  OBVIOUS
<1>3. CASE j \in DOMAIN got.calls
  <2>1. got.calls[j] \in Seq(1..MaxAtOnce)  BY <1>3, GotFields
  <2>2. Append(got.calls[j], k) \in Seq(1..MaxAtOnce)  BY <2>1
  <2>3. [got.calls EXCEPT ![j] = Append(got.calls[j], k)] \in Seq(Seq(1..MaxAtOnce))
    BY <1>3, <2>2, GotFields
  <2>4. Llm!Given(k) = [got EXCEPT !.calls = [got.calls EXCEPT ![j] = Append(got.calls[j], k)]]
    BY <1>2, <1>3 DEF Llm!Given
  <2> QED  BY <2>3, <2>4, GotFields
<1>4. CASE j \notin DOMAIN got.calls
  <2>1. Append(got.calls, <<k>>) \in Seq(Seq(1..MaxAtOnce))  BY <1>1, GotFields
  <2>2. Llm!Given(k) = [got EXCEPT !.calls = Append(got.calls, <<k>>)]  BY <1>2, <1>4 DEF
      Llm!Given
  <2> QED  BY <2>1, <2>2, GotFields
<1> QED  BY <1>3, <1>4

CallsFew == Len(said.calls) <= MaxAtOnce

LEMMA FewStep ==
    ASSUME LlmBounds, said \in SaidSet, CallsFew, [Llm!Next]_(Llm!vars)
    PROVE  CallsFew'
<1> USE DEF CallsFew, LlmBounds, Llm!Bounds
<1>1. CASE Llm!NewTurn
  BY <1>1 DEF Llm!NewTurn, Llm!Silence, Llm!rowVars, Llm!boundVars
<1>2. CASE Llm!Stop
  BY <1>2 DEF Llm!Stop, Llm!End, Llm!Forget, Llm!Silence, Llm!rowVars, Llm!boundVars
<1>3. CASE Llm!StopAtHead
  BY <1>3 DEF Llm!StopAtHead, Llm!End, Llm!rowVars, Llm!boundVars
<1>4. CASE Llm!Begin
  BY <1>4 DEF Llm!Begin, Llm!rowVars, Llm!boundVars
<1>5. CASE Llm!Send
  BY <1>5 DEF SaidSet, Llm!Send, Llm!Dialect, Llm!Worded, Llm!rowVars, Llm!boundVars
<1>6. CASE Llm!Throttled
  BY <1>6 DEF Llm!Throttled, Llm!Dialect, Llm!Fails, Llm!End, Llm!Forget, Llm!Silence,
      Llm!rowVars, Llm!boundVars
<1>7. CASE Llm!Refused
  BY <1>7 DEF Llm!Refused, Llm!Fails, Llm!End, Llm!Forget, Llm!Silence, Llm!rowVars, Llm!boundVars
<1>8. CASE Llm!Overflows
  BY <1>8 DEF Llm!Overflows, Llm!Forget, Llm!Silence, Llm!rowVars, Llm!boundVars
<1>9. CASE Llm!WaitOver
  BY <1>9 DEF Llm!WaitOver, Llm!rowVars, Llm!boundVars
<1>10. CASE Llm!StopWhileWaiting
  BY <1>10 DEF Llm!StopWhileWaiting, Llm!Watched, Llm!End, Llm!Forget, Llm!Silence, Llm!rowVars,
      Llm!boundVars
<1>11. CASE Llm!StopSeen
  BY <1>11 DEF Llm!StopSeen, Llm!Watched, Llm!rowVars, Llm!boundVars
<1>12. CASE Llm!Answered
  <2>1. CASE said' = said  BY <2>1
  <2>2. ASSUME NEW t \in Llm!Pieces, NEW n \in 0..MaxAtOnce,
               NEW r \in {"stop", "length", "filter"},
               said' = [said EXCEPT !.text = t, !.stop = r,
                                    !.calls = Llm!CallsSaid(n, r # "stop")]
        PROVE  CallsFew'
    <3>1. (r # "stop") \in BOOLEAN  OBVIOUS
    <3>2. said'.calls = Llm!CallsSaid(n, r # "stop")  BY <2>2 DEF SaidSet
    <3>3. Len(said'.calls) = n  BY <3>1, <3>2, WholeCalls
    <3> QED  BY <3>3
  <2> QED  BY <1>12, <2>1, <2>2, AnsweredParts
<1>13. CASE Llm!Think
  BY <1>13 DEF SaidSet, Llm!Think, Llm!Event, Llm!Talks, Llm!Watched, Llm!Dialect, Llm!rowVars,
      Llm!boundVars
<1>14. CASE Llm!Say
  BY <1>14 DEF SaidSet, Llm!Say, Llm!Event, Llm!Talks, Llm!Watched, Llm!Dialect, Llm!rowVars,
      Llm!boundVars
<1>15. CASE Llm!StartCall
  <2>1. \E x \in 0..1 : said' = [said EXCEPT !.calls = Append(said.calls, x)]
    BY <1>15 DEF Llm!StartCall, Llm!Event
  <2>2. Len(said.calls) < MaxAtOnce /\ said.calls \in Seq(0..1)  BY <1>15, SaidFields DEF
      Llm!StartCall
  <2>3. \A x \in 0..1 : Len(Append(said.calls, x)) = Len(said.calls) + 1  BY <2>2
  <2>4. \A s : [said EXCEPT !.calls = s].calls = s  BY DEF SaidSet
  <2> QED  BY <2>1, <2>2, <2>3, <2>4 DEF LlmBounds, Llm!Bounds
<1>16. CASE Llm!GiveArguments
  <2>1. said' = [said EXCEPT !.calls = [said.calls EXCEPT ![Len(said.calls)] = 1]]
    BY <1>16 DEF Llm!GiveArguments, Llm!Event
  <2>2. PICK s \in Seq(0..1) : s = said.calls  BY SaidFields
  <2>3. PICK z : z = [s EXCEPT ![Len(s)] = 1]  OBVIOUS
  <2>4. Len(z) = Len(s)  BY <2>3, SeqWith
  <2>5. said' = [said EXCEPT !.calls = z]  BY <2>1, <2>2, <2>3
  <2>6. said'.calls = z  BY <2>5 DEF SaidSet
  <2> QED  BY <2>2, <2>4, <2>6
<1>17. ASSUME NEW r \in {"stop", "length", "filter"}, Llm!Finishes(r)  PROVE CallsFew'
  BY <1>17 DEF SaidSet, Llm!Finishes, Llm!Event, Llm!Talks, Llm!AllGiven, Llm!Watched,
      Llm!Dialect, Llm!rowVars, Llm!boundVars
<1>18. CASE Llm!Reports
  BY <1>18 DEF SaidSet, Llm!Reports, Llm!Event, Llm!Talks, Llm!Watched, Llm!Dialect, Llm!Fails,
      Llm!End, Llm!Forget, Llm!Silence, Llm!rowVars, Llm!boundVars
<1>19. CASE Llm!Done
  BY <1>19 DEF SaidSet, Llm!Done, Llm!Dialect, Llm!AllGiven, Llm!rowVars, Llm!boundVars
<1>20. CASE Llm!Closes
  BY <1>20 DEF Llm!Closes, Llm!Dialect, Llm!rowVars, Llm!boundVars
<1>21. CASE Llm!Breaks
  BY <1>21 DEF Llm!Breaks, Llm!HasOutput, Llm!Dialect, Llm!Fails, Llm!End, Llm!Forget,
      Llm!Silence, Llm!rowVars, Llm!boundVars
<1>22. CASE Llm!StopTaken
  BY <1>22 DEF Llm!StopTaken, Llm!StopHeard, Llm!End, Llm!Forget, Llm!Silence, Llm!rowVars,
      Llm!boundVars
<1>23. CASE Llm!TakeCalls
  BY <1>23 DEF Llm!TakeCalls, Llm!StopHeard, Llm!Rejected, Llm!Row, Llm!Forget, Llm!Silence,
      Llm!Dialect, Llm!rowVars, Llm!boundVars
<1>24. CASE Llm!RetryEmpty
  BY <1>24 DEF Llm!RetryEmpty, Llm!StopHeard, Llm!Forget, Llm!Silence, Llm!rowVars, Llm!boundVars
<1>25. CASE Llm!TakeText
  BY <1>25 DEF Llm!TakeText, Llm!StopHeard, Llm!End, Llm!Row, Llm!Forget, Llm!Silence,
      Llm!Dialect, Llm!rowVars, Llm!boundVars
<1>26. CASE UNCHANGED Llm!vars
  BY <1>26 DEF Llm!vars, Llm!turnVars, Llm!rowVars, Llm!boundVars
<1> HIDE DEF CallsFew, LlmBounds, Llm!Bounds
<1> QED
  BY <1>1, <1>2, <1>3, <1>4, <1>5, <1>6, <1>7, <1>8, <1>9, <1>10, <1>11, <1>12, <1>13, <1>14,
      <1>15, <1>16, <1>17, <1>18, <1>19, <1>20, <1>21, <1>22, <1>23, <1>24, <1>25, <1>26 DEF
      Llm!Next

LEMMA GotTypedStep ==
    ASSUME LlmBounds, said \in SaidSet, CallsFew, got \in GotSet, [Llm!Next]_(Llm!vars)
    PROVE  (got \in GotSet)'
<1>1. CASE Llm!NewTurn
  <2>1. PICK m : m = call'.model  OBVIOUS
  <2> QED  BY <1>1, <2>1, NothingGot DEF Llm!NewTurn
<1>2. CASE Llm!Stop
  BY <1>2, GotFields, NothingGot, FinalizedGot, EventGot DEF Llm!Stop, Llm!End, Llm!Forget,
      Llm!rowVars, Llm!boundVars, Llm!Reasons
<1>3. CASE Llm!StopAtHead
  BY <1>3, GotFields, NothingGot, FinalizedGot, EventGot DEF Llm!StopAtHead, Llm!End, Llm!rowVars,
      Llm!boundVars, Llm!Reasons
<1>4. CASE Llm!Begin
  BY <1>4, GotFields, NothingGot, FinalizedGot, EventGot DEF Llm!Begin, Llm!rowVars,
      Llm!boundVars, Llm!Reasons
<1>5. CASE Llm!Send
  BY <1>5, GotFields, NothingGot, FinalizedGot, EventGot DEF Llm!Send, Llm!Dialect, Llm!Worded,
      Llm!rowVars, Llm!boundVars, Llm!Reasons
<1>6. CASE Llm!Throttled
  BY <1>6, GotFields, NothingGot, FinalizedGot, EventGot DEF Llm!Throttled, Llm!Dialect,
      Llm!Fails, Llm!End, Llm!Forget, Llm!rowVars, Llm!boundVars, Llm!Reasons
<1>7. CASE Llm!Refused
  BY <1>7, GotFields, NothingGot, FinalizedGot, EventGot DEF Llm!Refused, Llm!Fails, Llm!End,
      Llm!Forget, Llm!rowVars, Llm!boundVars, Llm!Reasons
<1>8. CASE Llm!Overflows
  BY <1>8, GotFields, NothingGot, FinalizedGot, EventGot DEF Llm!Overflows, Llm!Forget,
      Llm!rowVars, Llm!boundVars, Llm!Reasons
<1>9. CASE Llm!WaitOver
  BY <1>9, GotFields, NothingGot, FinalizedGot, EventGot DEF Llm!WaitOver, Llm!rowVars,
      Llm!boundVars, Llm!Reasons
<1>10. CASE Llm!StopWhileWaiting
  BY <1>10, GotFields, NothingGot, FinalizedGot, EventGot DEF Llm!StopWhileWaiting, Llm!Watched,
      Llm!End, Llm!Forget, Llm!rowVars, Llm!boundVars, Llm!Reasons
<1>11. CASE Llm!StopSeen
  <2>1. PICK g \in GotSet : got' = [g EXCEPT !.finish = "cancelled"]
    <3>1. CASE call.streaming
      <4>1. got' = [got EXCEPT !.finish = "cancelled"]  BY <1>11, <3>1 DEF Llm!StopSeen
      <4> QED  BY <4>1
    <3>2. CASE ~call.streaming
      <4>1. got' = [Llm!Nothing(call.model) EXCEPT !.finish = "cancelled"]
        BY <1>11, <3>2 DEF Llm!StopSeen
      <4> QED  BY <4>1, NothingGot
    <3> QED  BY <3>1, <3>2
  <2> QED  BY <2>1 DEF GotSet, Llm!Reasons
<1>12. CASE Llm!Answered
  <2>1. CASE got' = got  BY <2>1
  <2>2. ASSUME NEW t \in Llm!Pieces, NEW n \in 0..MaxAtOnce,
               NEW r \in {"stop", "length", "filter"},
               NEW f \in {r, "error"},
               got' = [text |-> Llm!WholeText(t), calls |-> Llm!CallsGot(n, r # "stop"),
                       done |-> TRUE, finish |-> f]
        PROVE  got' \in GotSet
    <3>1. (r # "stop") \in BOOLEAN /\ f \in Llm!Reasons  BY DEF Llm!Reasons
    <3>2. Llm!CallsGot(n, r # "stop") \in Seq(Seq(1..MaxAtOnce))  BY <3>1, WholeCalls
    <3>3. Llm!WholeText(t) \in Seq(Llm!Pieces)  BY WholeTexts
    <3> QED  BY <2>2, <3>1, <3>2, <3>3 DEF GotSet
  <2> QED  BY <1>12, <2>1, <2>2, AnsweredParts
<1>13. CASE Llm!Think
  BY <1>13, GotFields, NothingGot, FinalizedGot, EventGot DEF Llm!Think, Llm!Talks, Llm!Watched,
      Llm!Dialect, Llm!rowVars, Llm!boundVars, Llm!Reasons
<1>14. CASE Llm!Say
  <2>1. said.text + 1 \in Llm!Pieces
    <3>1. said.text \in 0..MaxPieces /\ said.text < MaxPieces  BY <1>14, SaidFields DEF Llm!Say,
        Llm!Pieces
    <3> QED  BY <3>1 DEF Llm!Pieces, LlmBounds, Llm!Bounds
  <2>2. PICK s \in Seq(Llm!Pieces), t \in Llm!Pieces : s = got.text /\ t = said.text + 1
    BY <2>1, GotFields
  <2>3. PICK z : z = Append(s, t)  OBVIOUS
  <2>4. z \in Seq(Llm!Pieces)  BY <2>3, AppendProperties
  <2>5. [got EXCEPT !.text = z] \in GotSet  BY <2>4, GotFields
  <2>6. Llm!Event([said EXCEPT !.text = t], [got EXCEPT !.text = z], Append(shown, t))
    BY <1>14, <2>2, <2>3 DEF Llm!Say
  <2> QED  BY <2>5, <2>6, EventGot
<1>15. CASE Llm!StartCall
  <2>1. PICK k : k = Len(said.calls) + 1  OBVIOUS
  <2>2. k \in 1..MaxAtOnce
    <3>1. PICK s \in Seq(0..1) : s = said.calls  BY SaidFields
    <3>2. Len(s) \in Nat /\ Len(s) < MaxAtOnce  BY <1>15, <3>1 DEF Llm!StartCall
    <3> QED  BY <2>1, <3>1, <3>2 DEF LlmBounds, Llm!Bounds
  <2>3. [got EXCEPT !.calls = Append(got.calls, <<k, k>>)] \in GotSet
    <3>1. <<k, k>> \in Seq(1..MaxAtOnce)  BY <2>2
    <3>2. Append(got.calls, <<k, k>>) \in Seq(Seq(1..MaxAtOnce))  BY <3>1, GotFields
    <3> QED  BY <3>2, GotFields
  <2> QED  BY <1>15, <2>1, <2>2, <2>3, GivenGot, EventGot DEF Llm!StartCall
<1>16. CASE Llm!GiveArguments
  <2>1. PICK k : k = Len(said.calls)  OBVIOUS
  <2>2. k \in 1..MaxAtOnce
    <3>1. PICK s \in Seq(0..1) : s = said.calls  BY SaidFields
    <3>2. DOMAIN s # {}  BY <1>16, <3>1 DEF Llm!GiveArguments, Llm!AllGiven
    <3>3. Len(s) \in Nat /\ Len(s) # 0  BY <3>2
    <3> QED  BY <2>1, <3>1, <3>3 DEF CallsFew, LlmBounds, Llm!Bounds
  <2> QED  BY <1>16, <2>1, <2>2, GivenGot, EventGot DEF Llm!GiveArguments
<1>17. ASSUME NEW r \in {"stop", "length", "filter"}, Llm!Finishes(r)  PROVE (got \in GotSet)'
  BY <1>17, GotFields, NothingGot, FinalizedGot, EventGot DEF Llm!Finishes, Llm!Talks,
      Llm!AllGiven, Llm!Watched, Llm!Dialect, Llm!rowVars, Llm!boundVars, Llm!Reasons
<1>18. CASE Llm!Reports
  BY <1>18, GotFields, NothingGot, FinalizedGot, EventGot DEF Llm!Reports, Llm!Talks, Llm!Watched,
      Llm!Dialect, Llm!Fails, Llm!End, Llm!Forget, Llm!rowVars, Llm!boundVars, Llm!Reasons
<1>19. CASE Llm!Done
  BY <1>19, GotFields, NothingGot, FinalizedGot, EventGot DEF Llm!Done, Llm!Dialect, Llm!AllGiven,
      Llm!rowVars, Llm!boundVars, Llm!Reasons
<1>20. CASE Llm!Closes
  BY <1>20, GotFields, NothingGot, FinalizedGot, EventGot DEF Llm!Closes, Llm!Dialect,
      Llm!rowVars, Llm!boundVars, Llm!Reasons
<1>21. CASE Llm!Breaks
  BY <1>21, GotFields, NothingGot, FinalizedGot, EventGot DEF Llm!Breaks, Llm!HasOutput,
      Llm!Dialect, Llm!Fails, Llm!End, Llm!Forget, Llm!rowVars, Llm!boundVars, Llm!Reasons
<1>22. CASE Llm!StopTaken
  BY <1>22, GotFields, NothingGot, FinalizedGot, EventGot DEF Llm!StopTaken, Llm!StopHeard,
      Llm!End, Llm!Forget, Llm!rowVars, Llm!boundVars, Llm!Reasons
<1>23. CASE Llm!TakeCalls
  BY <1>23, GotFields, NothingGot, FinalizedGot, EventGot DEF Llm!TakeCalls, Llm!StopHeard,
      Llm!Rejected, Llm!Row, Llm!Forget, Llm!Dialect, Llm!rowVars, Llm!boundVars, Llm!Reasons
<1>24. CASE Llm!RetryEmpty
  BY <1>24, GotFields, NothingGot, FinalizedGot, EventGot DEF Llm!RetryEmpty, Llm!StopHeard,
      Llm!Forget, Llm!rowVars, Llm!boundVars, Llm!Reasons
<1>25. CASE Llm!TakeText
  BY <1>25, GotFields, NothingGot, FinalizedGot, EventGot DEF Llm!TakeText, Llm!StopHeard,
      Llm!End, Llm!Row, Llm!Forget, Llm!Dialect, Llm!rowVars, Llm!boundVars, Llm!Reasons
<1>26. CASE UNCHANGED Llm!vars
  BY <1>26 DEF Llm!vars, Llm!turnVars, Llm!rowVars, Llm!boundVars
<1> QED
  BY <1>1, <1>2, <1>3, <1>4, <1>5, <1>6, <1>7, <1>8, <1>9, <1>10, <1>11, <1>12, <1>13, <1>14,
      <1>15, <1>16, <1>17, <1>18, <1>19, <1>20, <1>21, <1>22, <1>23, <1>24, <1>25, <1>26 DEF
      Llm!Next

RowSet ==
    [text : Seq(Llm!Pieces), calls : Seq(Seq(1..MaxAtOnce)), ran : BOOLEAN,
     items : Seq(Llm!Pieces), private : Llm!Models \cup {Llm!Nobody}, entire : BOOLEAN,
     late : BOOLEAN]

LEMMA RowTyped ==
    ASSUME CallTyped, got \in GotSet, NEW t \in Seq(Llm!Pieces), NEW ran \in BOOLEAN
    PROVE  Llm!Row(t, ran) \in RowSet
<1>1. PICK text, calls, private, entire, after :
        /\ text = got.text /\ calls = got.calls
        /\ private = Llm!Row(t, ran).private /\ entire = Llm!Row(t, ran).entire
        /\ after = cancelled
  OBVIOUS
<1>2. /\ text \in Seq(Llm!Pieces) /\ calls \in Seq(Seq(1..MaxAtOnce)) /\ after \in BOOLEAN
  <2>1. cancelled \in BOOLEAN  BY Zenon DEF CallTyped
  <2> QED  BY <1>1, <2>1, GotFields
<1>3. private \in Llm!Models \cup {Llm!Nobody}  BY <1>1 DEF Llm!Row, CallTyped
<1>4. entire \in BOOLEAN  BY <1>1 DEF Llm!Row
<1>5. Llm!Row(t, ran) = [text |-> t, calls |-> calls, ran |-> ran, items |-> text,
                         private |-> private, entire |-> entire, late |-> after]
  BY <1>1 DEF Llm!Row
<1> QED  BY <1>2, <1>3, <1>4, <1>5 DEF RowSet

\* Only three actions touch the rows.
Rows == history' = history \/ Llm!Overflows \/ Llm!TakeCalls \/ Llm!TakeText

LEMMA RowsStay ==
    ASSUME [Llm!Next]_(Llm!vars)
    PROVE  Rows
<1> USE DEF Rows
<1>1. CASE Llm!NewTurn
  BY <1>1 DEF Llm!NewTurn, Llm!rowVars
<1>2. CASE Llm!Stop
  BY <1>2 DEF Llm!Stop, Llm!End, Llm!Forget, Llm!rowVars
<1>3. CASE Llm!StopAtHead
  BY <1>3 DEF Llm!StopAtHead, Llm!End, Llm!rowVars
<1>4. CASE Llm!Begin
  BY <1>4 DEF Llm!Begin, Llm!rowVars
<1>5. CASE Llm!Send
  BY <1>5 DEF Llm!Send, Llm!Dialect, Llm!Worded, Llm!rowVars
<1>6. CASE Llm!Throttled
  BY <1>6 DEF Llm!Throttled, Llm!Dialect, Llm!Fails, Llm!End, Llm!Forget, Llm!rowVars
<1>7. CASE Llm!Refused
  BY <1>7 DEF Llm!Refused, Llm!Fails, Llm!End, Llm!Forget, Llm!rowVars
<1>8. CASE Llm!Overflows
  BY <1>8 DEF Llm!Overflows, Llm!Forget, Llm!rowVars
<1>9. CASE Llm!WaitOver
  BY <1>9 DEF Llm!WaitOver, Llm!rowVars
<1>10. CASE Llm!StopWhileWaiting
  BY <1>10 DEF Llm!StopWhileWaiting, Llm!Watched, Llm!End, Llm!Forget, Llm!rowVars
<1>11. CASE Llm!StopSeen
  BY <1>11 DEF Llm!StopSeen, Llm!Watched, Llm!rowVars
<1>12. CASE Llm!Answered
  BY <1>12 DEF Llm!Answered, Llm!Dialect, Llm!rowVars
<1>13. CASE Llm!Think
  BY <1>13 DEF Llm!Think, Llm!Event, Llm!Talks, Llm!Watched, Llm!Dialect, Llm!rowVars
<1>14. CASE Llm!Say
  BY <1>14 DEF Llm!Say, Llm!Event, Llm!Talks, Llm!Watched, Llm!Dialect, Llm!rowVars
<1>15. CASE Llm!StartCall
  BY <1>15 DEF Llm!StartCall, Llm!Event, Llm!Talks, Llm!AllGiven, Llm!Watched, Llm!Dialect,
      Llm!Given, Llm!Slot, Llm!rowVars
<1>16. CASE Llm!GiveArguments
  BY <1>16 DEF Llm!GiveArguments, Llm!Event, Llm!Talks, Llm!AllGiven, Llm!Watched, Llm!Dialect,
      Llm!Given, Llm!Slot, Llm!rowVars
<1>17. ASSUME NEW r \in {"stop", "length", "filter"}, Llm!Finishes(r)  PROVE Rows
  BY <1>17 DEF Llm!Finishes, Llm!Event, Llm!Talks, Llm!AllGiven, Llm!Watched, Llm!Dialect,
      Llm!rowVars
<1>18. CASE Llm!Reports
  BY <1>18 DEF Llm!Reports, Llm!Event, Llm!Talks, Llm!Watched, Llm!Dialect, Llm!Fails, Llm!End,
      Llm!Forget, Llm!rowVars
<1>19. CASE Llm!Done
  BY <1>19 DEF Llm!Done, Llm!Dialect, Llm!AllGiven, Llm!rowVars
<1>20. CASE Llm!Closes
  BY <1>20 DEF Llm!Closes, Llm!Dialect, Llm!rowVars
<1>21. CASE Llm!Breaks
  BY <1>21 DEF Llm!Breaks, Llm!HasOutput, Llm!Dialect, Llm!Fails, Llm!End, Llm!Forget, Llm!rowVars
<1>22. CASE Llm!StopTaken
  BY <1>22 DEF Llm!StopTaken, Llm!StopHeard, Llm!End, Llm!Forget, Llm!rowVars
<1>23. CASE Llm!TakeCalls
  BY <1>23 DEF Llm!TakeCalls, Llm!StopHeard, Llm!Rejected, Llm!Row, Llm!Forget, Llm!Dialect,
      Llm!rowVars
<1>24. CASE Llm!RetryEmpty
  BY <1>24 DEF Llm!RetryEmpty, Llm!StopHeard, Llm!Forget, Llm!rowVars
<1>25. CASE Llm!TakeText
  BY <1>25 DEF Llm!TakeText, Llm!StopHeard, Llm!End, Llm!Row, Llm!Forget, Llm!Dialect, Llm!rowVars
<1>26. CASE UNCHANGED Llm!vars
  BY <1>26 DEF Llm!vars, Llm!turnVars, Llm!rowVars, Llm!boundVars
<1> HIDE DEF Rows
<1> QED
  BY <1>1, <1>2, <1>3, <1>4, <1>5, <1>6, <1>7, <1>8, <1>9, <1>10, <1>11, <1>12, <1>13, <1>14,
      <1>15, <1>16, <1>17, <1>18, <1>19, <1>20, <1>21, <1>22, <1>23, <1>24, <1>25, <1>26 DEF
      Llm!Next

NewRow(row) ==
    \/ /\ Llm!TakeCalls /\ row = Llm!Row(got.text, ~Llm!Rejected)
    \/ /\ Llm!TakeText /\ \E t \in Seq(Llm!Pieces) : row = Llm!Row(t, FALSE)

\* Each row is one that was there, or the one an action adds.
LEMMA RowsStep ==
    ASSUME LlmBounds, CallTyped, got \in GotSet, history \in Seq(RowSet), [Llm!Next]_(Llm!vars)
    PROVE  /\ history' \in Seq(RowSet)
           /\ \A j \in DOMAIN history' :
                (\E i \in DOMAIN history : history'[j] = history[i]) \/ NewRow(history'[j])
<1>1. CASE history' = history  BY <1>1
<1>2. CASE Llm!Overflows
  <2>1. PICK n \in 1..(Len(history) + 1) : history' = SubSeq(history, n, Len(history))
    BY <1>2 DEF Llm!Overflows
  <2>2. Len(history) \in Nat  OBVIOUS
  <2>3. n \in Int /\ n >= 1 /\ n <= Len(history) + 1  BY <2>2
  <2>4. history' \in Seq(RowSet)
    BY <2>1, <2>2, <2>3
  <2>5. \A j \in DOMAIN history' :
           n + j - 1 \in DOMAIN history /\ history'[j] = history[n + j - 1]
    BY <2>1, <2>2, <2>3
  <2> QED  BY <2>4, <2>5
<1>3. ASSUME NEW row \in RowSet, history' = Append(history, row)
      PROVE  /\ history' \in Seq(RowSet)
             /\ \A j \in DOMAIN history' :
                  (\E i \in DOMAIN history : history'[j] = history[i]) \/ history'[j] = row
  BY <1>3, AppendProperties
<1>4. CASE Llm!TakeCalls
  <2>1. history' = Append(history, Llm!Row(got.text, ~Llm!Rejected))  BY <1>4 DEF Llm!TakeCalls
  <2>2. (~Llm!Rejected) \in BOOLEAN  OBVIOUS
  <2>3. Llm!Row(got.text, ~Llm!Rejected) \in RowSet  BY <2>2, RowTyped, GotFields
  <2> QED  BY <1>3, <1>4, <2>1, <2>3 DEF NewRow
<1>5. CASE Llm!TakeText
  <2>1. PICK t : /\ t \in {got.text, Append(got.text, Llm!Note)}
                 /\ history' = Append(history, Llm!Row(t, FALSE))
    BY <1>5 DEF Llm!TakeText
  <2>2. t \in Seq(Llm!Pieces)
    <3>1. PICK s \in Seq(Llm!Pieces) : s = got.text  BY GotFields
    <3>2. Llm!Note \in Llm!Pieces  BY DEF Llm!Note, Llm!Pieces, LlmBounds, Llm!Bounds
    <3>3. Append(s, Llm!Note) \in Seq(Llm!Pieces)  BY <3>2, AppendProperties
    <3> QED  BY <2>1, <3>1, <3>3
  <2>3. Llm!Row(t, FALSE) \in RowSet  BY <2>2, RowTyped
  <2> QED  BY <1>3, <1>5, <2>1, <2>2, <2>3 DEF NewRow
<1> QED  BY <1>1, <1>2, <1>4, <1>5, RowsStay DEF Rows

\* While nothing is being answered nothing has been said or collected.
Quiet ==
    phase \notin {"reading", "answered"} =>
        got.text = <<>> /\ got.calls = <<>> /\ said.calls = <<>> /\ said.stop = "none"

Streams == phase = "reading" => call.streaming

LEMMA QuietStep ==
    ASSUME LlmBounds, said \in SaidSet, got \in GotSet, Quiet, [Llm!Next]_(Llm!vars)
    PROVE  Quiet'
<1> USE DEF Quiet
<1>1. CASE Llm!NewTurn
  BY <1>1 DEF Llm!NewTurn, Llm!Silence, Llm!Nothing, SaidSet, GotSet
<1>2. CASE Llm!Stop
  BY <1>2 DEF Llm!Stop, Llm!End, Llm!Forget, Llm!Silence, Llm!Nothing, SaidSet, GotSet
<1>3. CASE Llm!StopAtHead
  BY <1>3 DEF Llm!StopAtHead, Llm!End, SaidSet, GotSet
<1>4. CASE Llm!Begin
  BY <1>4 DEF Llm!Begin, SaidSet, GotSet
<1>5. CASE Llm!Send
  BY <1>5 DEF Llm!Send, Llm!Dialect, Llm!Worded, SaidSet, GotSet
<1>6. CASE Llm!Throttled
  BY <1>6 DEF Llm!Throttled, Llm!Dialect, Llm!Fails, Llm!End, Llm!Forget, Llm!Silence,
      Llm!Nothing, SaidSet, GotSet
<1>7. CASE Llm!Refused
  BY <1>7 DEF Llm!Refused, Llm!Fails, Llm!End, Llm!Forget, Llm!Silence, Llm!Nothing, SaidSet,
      GotSet
<1>8. CASE Llm!Overflows
  BY <1>8 DEF Llm!Overflows, Llm!Forget, Llm!Silence, Llm!Nothing, SaidSet, GotSet
<1>9. CASE Llm!WaitOver
  BY <1>9 DEF Llm!WaitOver, SaidSet, GotSet
<1>10. CASE Llm!StopWhileWaiting
  BY <1>10 DEF Llm!StopWhileWaiting, Llm!Watched, Llm!End, Llm!Forget, Llm!Silence, Llm!Nothing,
      SaidSet, GotSet
<1>11. CASE Llm!StopSeen
  BY <1>11 DEF Llm!StopSeen, Llm!Watched, Llm!Nothing, SaidSet, GotSet
<1>12. CASE Llm!Answered
  BY <1>12, AnsweredParts
<1>13. CASE Llm!Think
  BY <1>13 DEF Llm!Think, Llm!Event, Llm!Talks, Llm!Watched, Llm!Finalize, Llm!Ending,
      Llm!Dialect, SaidSet, GotSet
<1>14. CASE Llm!Say
  BY <1>14 DEF Llm!Say, Llm!Event, Llm!Talks, Llm!Watched, Llm!Finalize, Llm!Ending, Llm!Dialect,
      SaidSet, GotSet
<1>15. CASE Llm!StartCall
  BY <1>15 DEF Llm!StartCall, Llm!Event, Llm!Talks, Llm!AllGiven, Llm!Watched, Llm!Finalize,
      Llm!Ending, Llm!Dialect, Llm!Given, Llm!Slot, SaidSet, GotSet
<1>16. CASE Llm!GiveArguments
  BY <1>16 DEF Llm!GiveArguments, Llm!Event, Llm!Talks, Llm!AllGiven, Llm!Watched, Llm!Finalize,
      Llm!Ending, Llm!Dialect, Llm!Given, Llm!Slot, SaidSet, GotSet
<1>17. ASSUME NEW r \in {"stop", "length", "filter"}, Llm!Finishes(r)  PROVE Quiet'
  BY <1>17 DEF Llm!Finishes, Llm!Event, Llm!Talks, Llm!AllGiven, Llm!Watched, Llm!Finalize,
      Llm!Ending, Llm!Dialect, SaidSet, GotSet
<1>18. CASE Llm!Reports
  BY <1>18 DEF Llm!Reports, Llm!Event, Llm!Talks, Llm!Watched, Llm!Finalize, Llm!Ending,
      Llm!Dialect, Llm!Nothing, Llm!Fails, Llm!End, Llm!Forget, Llm!Silence, SaidSet, GotSet
<1>19. CASE Llm!Done
  BY <1>19 DEF Llm!Done, Llm!Finalize, Llm!Ending, Llm!Dialect, Llm!AllGiven, SaidSet, GotSet
<1>20. CASE Llm!Closes
  BY <1>20 DEF Llm!Closes, Llm!Finalize, Llm!Ending, Llm!Dialect, SaidSet, GotSet
<1>21. CASE Llm!Breaks
  BY <1>21 DEF Llm!Breaks, Llm!HasOutput, Llm!Dialect, Llm!Finalize, Llm!Ending, Llm!Fails,
      Llm!End, Llm!Forget, Llm!Silence, Llm!Nothing, SaidSet, GotSet
<1>22. CASE Llm!StopTaken
  BY <1>22 DEF Llm!StopTaken, Llm!StopHeard, Llm!End, Llm!Forget, Llm!Silence, Llm!Nothing,
      SaidSet, GotSet
<1>23. CASE Llm!TakeCalls
  BY <1>23 DEF Llm!TakeCalls, Llm!StopHeard, Llm!Rejected, Llm!Row, Llm!Forget, Llm!Silence,
      Llm!Nothing, Llm!Dialect, SaidSet, GotSet
<1>24. CASE Llm!RetryEmpty
  BY <1>24 DEF Llm!RetryEmpty, Llm!StopHeard, Llm!Forget, Llm!Silence, Llm!Nothing, SaidSet,
      GotSet
<1>25. CASE Llm!TakeText
  BY <1>25 DEF Llm!TakeText, Llm!StopHeard, Llm!End, Llm!Row, Llm!Forget, Llm!Silence,
      Llm!Nothing, Llm!Dialect, SaidSet, GotSet
<1>26. CASE UNCHANGED Llm!vars
  BY <1>26 DEF Llm!vars, Llm!turnVars, Llm!rowVars, Llm!boundVars
<1> HIDE DEF Quiet
<1> QED
  BY <1>1, <1>2, <1>3, <1>4, <1>5, <1>6, <1>7, <1>8, <1>9, <1>10, <1>11, <1>12, <1>13, <1>14,
      <1>15, <1>16, <1>17, <1>18, <1>19, <1>20, <1>21, <1>22, <1>23, <1>24, <1>25, <1>26 DEF
      Llm!Next

LEMMA StreamsStep ==
    ASSUME LlmBounds, CallTyped, Streams, [Llm!Next]_(Llm!vars)
    PROVE  Streams'
<1> USE DEF Streams, CallTyped
<1>1. CASE Llm!NewTurn
  BY <1>1 DEF Llm!NewTurn, Llm!turnVars
<1>2. CASE Llm!Stop
  BY <1>2 DEF Llm!Stop, Llm!End, Llm!Forget, Llm!turnVars
<1>3. CASE Llm!StopAtHead
  BY <1>3 DEF Llm!StopAtHead, Llm!End, Llm!turnVars
<1>4. CASE Llm!Begin
  BY <1>4 DEF Llm!Begin, Llm!turnVars
<1>5. CASE Llm!Send
  BY <1>5 DEF Llm!Send, Llm!Dialect, Llm!Worded, Llm!turnVars
<1>6. CASE Llm!Throttled
  BY <1>6 DEF Llm!Throttled, Llm!Dialect, Llm!Fails, Llm!End, Llm!Forget, Llm!turnVars
<1>7. CASE Llm!Refused
  BY <1>7 DEF Llm!Refused, Llm!Fails, Llm!End, Llm!Forget, Llm!turnVars
<1>8. CASE Llm!Overflows
  BY <1>8 DEF Llm!Overflows, Llm!Forget, Llm!turnVars
<1>9. CASE Llm!WaitOver
  BY <1>9 DEF Llm!WaitOver, Llm!turnVars
<1>10. CASE Llm!StopWhileWaiting
  BY <1>10 DEF Llm!StopWhileWaiting, Llm!Watched, Llm!End, Llm!Forget, Llm!turnVars
<1>11. CASE Llm!StopSeen
  BY <1>11 DEF Llm!StopSeen, Llm!Watched, Llm!turnVars
<1>12. CASE Llm!Answered
  BY <1>12 DEF Llm!Answered, Llm!Dialect, Llm!turnVars
<1>13. CASE Llm!Think
  BY <1>13 DEF Llm!Think, Llm!Event, Llm!Talks, Llm!Watched, Llm!Finalize, Llm!Dialect,
      Llm!turnVars
<1>14. CASE Llm!Say
  BY <1>14 DEF Llm!Say, Llm!Event, Llm!Talks, Llm!Watched, Llm!Finalize, Llm!Dialect, Llm!turnVars
<1>15. CASE Llm!StartCall
  BY <1>15 DEF Llm!StartCall, Llm!Event, Llm!Talks, Llm!AllGiven, Llm!Watched, Llm!Finalize,
      Llm!Dialect, Llm!Given, Llm!Slot, Llm!turnVars
<1>16. CASE Llm!GiveArguments
  BY <1>16 DEF Llm!GiveArguments, Llm!Event, Llm!Talks, Llm!AllGiven, Llm!Watched, Llm!Finalize,
      Llm!Dialect, Llm!Given, Llm!Slot, Llm!turnVars
<1>17. ASSUME NEW r \in {"stop", "length", "filter"}, Llm!Finishes(r)  PROVE Streams'
  BY <1>17 DEF Llm!Finishes, Llm!Event, Llm!Talks, Llm!AllGiven, Llm!Watched, Llm!Finalize,
      Llm!Dialect, Llm!turnVars
<1>18. CASE Llm!Reports
  BY <1>18 DEF Llm!Reports, Llm!Event, Llm!Talks, Llm!Watched, Llm!Finalize, Llm!Dialect,
      Llm!Fails, Llm!End, Llm!Forget, Llm!turnVars
<1>19. CASE Llm!Done
  BY <1>19 DEF Llm!Done, Llm!Finalize, Llm!Dialect, Llm!AllGiven, Llm!turnVars
<1>20. CASE Llm!Closes
  BY <1>20 DEF Llm!Closes, Llm!Finalize, Llm!Dialect, Llm!turnVars
<1>21. CASE Llm!Breaks
  BY <1>21 DEF Llm!Breaks, Llm!HasOutput, Llm!Dialect, Llm!Finalize, Llm!Fails, Llm!End,
      Llm!Forget, Llm!turnVars
<1>22. CASE Llm!StopTaken
  BY <1>22 DEF Llm!StopTaken, Llm!StopHeard, Llm!End, Llm!Forget, Llm!turnVars
<1>23. CASE Llm!TakeCalls
  BY <1>23 DEF Llm!TakeCalls, Llm!StopHeard, Llm!Rejected, Llm!Row, Llm!Forget, Llm!Dialect,
      Llm!turnVars
<1>24. CASE Llm!RetryEmpty
  BY <1>24 DEF Llm!RetryEmpty, Llm!StopHeard, Llm!Forget, Llm!turnVars
<1>25. CASE Llm!TakeText
  BY <1>25 DEF Llm!TakeText, Llm!StopHeard, Llm!End, Llm!Row, Llm!Forget, Llm!Dialect,
      Llm!turnVars
<1>26. CASE UNCHANGED Llm!vars
  BY <1>26 DEF Llm!vars, Llm!turnVars, Llm!rowVars, Llm!boundVars
<1> HIDE DEF Streams, CallTyped
<1> QED
  BY <1>1, <1>2, <1>3, <1>4, <1>5, <1>6, <1>7, <1>8, <1>9, <1>10, <1>11, <1>12, <1>13, <1>14,
      <1>15, <1>16, <1>17, <1>18, <1>19, <1>20, <1>21, <1>22, <1>23, <1>24, <1>25, <1>26 DEF
      Llm!Next

LEMMA MishapsStay ==
    ASSUME [Llm!Next]_(Llm!vars)
    PROVE  mishaps \subseteq mishaps'
<1>1. CASE Llm!NewTurn
  BY <1>1 DEF Llm!NewTurn, Llm!turnVars, Llm!boundVars
<1>2. CASE Llm!Stop
  BY <1>2 DEF Llm!Stop, Llm!End, Llm!Forget, Llm!turnVars, Llm!boundVars
<1>3. CASE Llm!StopAtHead
  BY <1>3 DEF Llm!StopAtHead, Llm!End, Llm!turnVars, Llm!boundVars
<1>4. CASE Llm!Begin
  BY <1>4 DEF Llm!Begin, Llm!turnVars, Llm!boundVars
<1>5. CASE Llm!Send
  BY <1>5 DEF Llm!Send, Llm!Dialect, Llm!Worded, Llm!turnVars, Llm!boundVars
<1>6. CASE Llm!Throttled
  BY <1>6 DEF Llm!Throttled, Llm!Dialect, Llm!Fails, Llm!End, Llm!Forget, Llm!turnVars,
      Llm!boundVars
<1>7. CASE Llm!Refused
  BY <1>7 DEF Llm!Refused, Llm!Fails, Llm!End, Llm!Forget, Llm!turnVars, Llm!boundVars
<1>8. CASE Llm!Overflows
  BY <1>8 DEF Llm!Overflows, Llm!Forget, Llm!turnVars, Llm!boundVars
<1>9. CASE Llm!WaitOver
  BY <1>9 DEF Llm!WaitOver, Llm!turnVars, Llm!boundVars
<1>10. CASE Llm!StopWhileWaiting
  BY <1>10 DEF Llm!StopWhileWaiting, Llm!Watched, Llm!End, Llm!Forget, Llm!turnVars, Llm!boundVars
<1>11. CASE Llm!StopSeen
  BY <1>11 DEF Llm!StopSeen, Llm!Watched, Llm!turnVars, Llm!boundVars
<1>12. CASE Llm!Answered
  BY <1>12 DEF Llm!Answered, Llm!Dialect, Llm!turnVars, Llm!boundVars
<1>13. CASE Llm!Think
  BY <1>13 DEF Llm!Think, Llm!Event, Llm!Talks, Llm!Watched, Llm!Finalize, Llm!Dialect,
      Llm!turnVars, Llm!boundVars
<1>14. CASE Llm!Say
  BY <1>14 DEF Llm!Say, Llm!Event, Llm!Talks, Llm!Watched, Llm!Finalize, Llm!Dialect,
      Llm!turnVars, Llm!boundVars
<1>15. CASE Llm!StartCall
  BY <1>15 DEF Llm!StartCall, Llm!Event, Llm!Talks, Llm!AllGiven, Llm!Watched, Llm!Finalize,
      Llm!Dialect, Llm!Given, Llm!Slot, Llm!turnVars, Llm!boundVars
<1>16. CASE Llm!GiveArguments
  BY <1>16 DEF Llm!GiveArguments, Llm!Event, Llm!Talks, Llm!AllGiven, Llm!Watched, Llm!Finalize,
      Llm!Dialect, Llm!Given, Llm!Slot, Llm!turnVars, Llm!boundVars
<1>17. ASSUME NEW r \in {"stop", "length", "filter"}, Llm!Finishes(r)
      PROVE  mishaps \subseteq mishaps'
  BY <1>17 DEF Llm!Finishes, Llm!Event, Llm!Talks, Llm!AllGiven, Llm!Watched, Llm!Finalize,
      Llm!Dialect, Llm!turnVars, Llm!boundVars
<1>18. CASE Llm!Reports
  BY <1>18 DEF Llm!Reports, Llm!Event, Llm!Talks, Llm!Watched, Llm!Finalize, Llm!Dialect,
      Llm!Fails, Llm!End, Llm!Forget, Llm!turnVars, Llm!boundVars
<1>19. CASE Llm!Done
  BY <1>19 DEF Llm!Done, Llm!Finalize, Llm!Dialect, Llm!AllGiven, Llm!turnVars, Llm!boundVars
<1>20. CASE Llm!Closes
  BY <1>20 DEF Llm!Closes, Llm!Finalize, Llm!Dialect, Llm!turnVars, Llm!boundVars
<1>21. CASE Llm!Breaks
  BY <1>21 DEF Llm!Breaks, Llm!HasOutput, Llm!Dialect, Llm!Finalize, Llm!Fails, Llm!End,
      Llm!Forget, Llm!turnVars, Llm!boundVars
<1>22. CASE Llm!StopTaken
  BY <1>22 DEF Llm!StopTaken, Llm!StopHeard, Llm!End, Llm!Forget, Llm!turnVars, Llm!boundVars
<1>23. CASE Llm!TakeCalls
  BY <1>23 DEF Llm!TakeCalls, Llm!StopHeard, Llm!Rejected, Llm!Row, Llm!Forget, Llm!Dialect,
      Llm!turnVars, Llm!boundVars
<1>24. CASE Llm!RetryEmpty
  BY <1>24 DEF Llm!RetryEmpty, Llm!StopHeard, Llm!Forget, Llm!turnVars, Llm!boundVars
<1>25. CASE Llm!TakeText
  BY <1>25 DEF Llm!TakeText, Llm!StopHeard, Llm!End, Llm!Row, Llm!Forget, Llm!Dialect,
      Llm!turnVars, Llm!boundVars
<1>26. CASE UNCHANGED Llm!vars
  BY <1>26 DEF Llm!vars, Llm!turnVars, Llm!rowVars, Llm!boundVars
<1> QED
  BY <1>1, <1>2, <1>3, <1>4, <1>5, <1>6, <1>7, <1>8, <1>9, <1>10, <1>11, <1>12, <1>13, <1>14,
      <1>15, <1>16, <1>17, <1>18, <1>19, <1>20, <1>21, <1>22, <1>23, <1>24, <1>25, <1>26 DEF
      Llm!Next

\* A request is worded as it was sent.
Sent == phase \in {"asking", "waiting", "reading"} => sent = Llm!Worded(call.model)

LEMMA SentStep ==
    ASSUME LlmBounds, CallTyped, Streams, Sent, [Llm!Next]_(Llm!vars)
    PROVE  Sent'
<1> USE DEF Sent, CallTyped, Streams
<1>1. CASE Llm!NewTurn
  BY <1>1 DEF Llm!NewTurn, Llm!turnVars, Llm!rowVars, Llm!boundVars, Llm!Worded, Llm!Replayed
<1>2. CASE Llm!Stop
  BY <1>2 DEF Llm!Stop, Llm!End, Llm!Forget, Llm!turnVars, Llm!rowVars, Llm!boundVars, Llm!Worded,
      Llm!Replayed
<1>3. CASE Llm!StopAtHead
  BY <1>3 DEF Llm!StopAtHead, Llm!End, Llm!turnVars, Llm!rowVars, Llm!boundVars, Llm!Worded,
      Llm!Replayed
<1>4. CASE Llm!Begin
  BY <1>4 DEF Llm!Begin, Llm!turnVars, Llm!rowVars, Llm!boundVars, Llm!Worded, Llm!Replayed
<1>5. CASE Llm!Send
  BY <1>5 DEF Llm!Send, Llm!Dialect, Llm!turnVars, Llm!rowVars, Llm!boundVars, Llm!Worded,
      Llm!Replayed
<1>6. CASE Llm!Throttled
  BY <1>6 DEF Llm!Throttled, Llm!Dialect, Llm!Fails, Llm!End, Llm!Forget, Llm!turnVars,
      Llm!rowVars, Llm!boundVars, Llm!Worded, Llm!Replayed
<1>7. CASE Llm!Refused
  BY <1>7 DEF Llm!Refused, Llm!Fails, Llm!End, Llm!Forget, Llm!turnVars, Llm!rowVars,
      Llm!boundVars, Llm!Worded, Llm!Replayed
<1>8. CASE Llm!Overflows
  BY <1>8 DEF Llm!Overflows, Llm!Forget, Llm!turnVars, Llm!rowVars, Llm!boundVars, Llm!Worded,
      Llm!Replayed
<1>9. CASE Llm!WaitOver
  BY <1>9 DEF Llm!WaitOver, Llm!turnVars, Llm!rowVars, Llm!boundVars, Llm!Worded, Llm!Replayed
<1>10. CASE Llm!StopWhileWaiting
  BY <1>10 DEF Llm!StopWhileWaiting, Llm!Watched, Llm!End, Llm!Forget, Llm!turnVars, Llm!rowVars,
      Llm!boundVars, Llm!Worded, Llm!Replayed
<1>11. CASE Llm!StopSeen
  BY <1>11 DEF Llm!StopSeen, Llm!Watched, Llm!turnVars, Llm!rowVars, Llm!boundVars, Llm!Worded,
      Llm!Replayed
<1>12. CASE Llm!Answered
  BY <1>12 DEF Llm!Answered, Llm!Dialect, Llm!turnVars, Llm!rowVars, Llm!boundVars, Llm!Worded,
      Llm!Replayed
<1>13. CASE Llm!Think
  BY <1>13 DEF Llm!Think, Llm!Event, Llm!Talks, Llm!Watched, Llm!Finalize, Llm!Dialect,
      Llm!turnVars, Llm!rowVars, Llm!boundVars, Llm!Worded, Llm!Replayed
<1>14. CASE Llm!Say
  BY <1>14 DEF Llm!Say, Llm!Event, Llm!Talks, Llm!Watched, Llm!Finalize, Llm!Dialect,
      Llm!turnVars, Llm!rowVars, Llm!boundVars, Llm!Worded, Llm!Replayed
<1>15. CASE Llm!StartCall
  BY <1>15 DEF Llm!StartCall, Llm!Event, Llm!Talks, Llm!AllGiven, Llm!Watched, Llm!Finalize,
      Llm!Dialect, Llm!Given, Llm!Slot, Llm!turnVars, Llm!rowVars, Llm!boundVars, Llm!Worded,
      Llm!Replayed
<1>16. CASE Llm!GiveArguments
  BY <1>16 DEF Llm!GiveArguments, Llm!Event, Llm!Talks, Llm!AllGiven, Llm!Watched, Llm!Finalize,
      Llm!Dialect, Llm!Given, Llm!Slot, Llm!turnVars, Llm!rowVars, Llm!boundVars, Llm!Worded,
      Llm!Replayed
<1>17. ASSUME NEW r \in {"stop", "length", "filter"}, Llm!Finishes(r)  PROVE Sent'
  BY <1>17 DEF Llm!Finishes, Llm!Event, Llm!Talks, Llm!AllGiven, Llm!Watched, Llm!Finalize,
      Llm!Dialect, Llm!turnVars, Llm!rowVars, Llm!boundVars, Llm!Worded, Llm!Replayed
<1>18. CASE Llm!Reports
  BY <1>18 DEF Llm!Reports, Llm!Event, Llm!Talks, Llm!Watched, Llm!Finalize, Llm!Dialect,
      Llm!Fails, Llm!End, Llm!Forget, Llm!turnVars, Llm!rowVars, Llm!boundVars, Llm!Worded,
      Llm!Replayed
<1>19. CASE Llm!Done
  BY <1>19 DEF Llm!Done, Llm!Finalize, Llm!Dialect, Llm!AllGiven, Llm!turnVars, Llm!rowVars,
      Llm!boundVars, Llm!Worded, Llm!Replayed
<1>20. CASE Llm!Closes
  BY <1>20 DEF Llm!Closes, Llm!Finalize, Llm!Dialect, Llm!turnVars, Llm!rowVars, Llm!boundVars,
      Llm!Worded, Llm!Replayed
<1>21. CASE Llm!Breaks
  BY <1>21 DEF Llm!Breaks, Llm!HasOutput, Llm!Dialect, Llm!Finalize, Llm!Fails, Llm!End,
      Llm!Forget, Llm!turnVars, Llm!rowVars, Llm!boundVars, Llm!Worded, Llm!Replayed
<1>22. CASE Llm!StopTaken
  BY <1>22 DEF Llm!StopTaken, Llm!StopHeard, Llm!End, Llm!Forget, Llm!turnVars, Llm!rowVars,
      Llm!boundVars, Llm!Worded, Llm!Replayed
<1>23. CASE Llm!TakeCalls
  BY <1>23 DEF Llm!TakeCalls, Llm!StopHeard, Llm!Rejected, Llm!Row, Llm!Forget, Llm!Dialect,
      Llm!turnVars, Llm!rowVars, Llm!boundVars, Llm!Worded, Llm!Replayed
<1>24. CASE Llm!RetryEmpty
  BY <1>24 DEF Llm!RetryEmpty, Llm!StopHeard, Llm!Forget, Llm!turnVars, Llm!rowVars,
      Llm!boundVars, Llm!Worded, Llm!Replayed
<1>25. CASE Llm!TakeText
  BY <1>25 DEF Llm!TakeText, Llm!StopHeard, Llm!End, Llm!Row, Llm!Forget, Llm!Dialect,
      Llm!turnVars, Llm!rowVars, Llm!boundVars, Llm!Worded, Llm!Replayed
<1>26. CASE UNCHANGED Llm!vars
  BY <1>26 DEF Llm!vars, Llm!turnVars, Llm!rowVars, Llm!boundVars, Llm!Worded, Llm!Replayed
<1> HIDE DEF Sent, CallTyped, Streams
<1> QED
  BY <1>1, <1>2, <1>3, <1>4, <1>5, <1>6, <1>7, <1>8, <1>9, <1>10, <1>11, <1>12, <1>13, <1>14,
      <1>15, <1>16, <1>17, <1>18, <1>19, <1>20, <1>21, <1>22, <1>23, <1>24, <1>25, <1>26 DEF
      Llm!Next

\* What was shown is what was collected, and what failed has shown nothing.
Seen ==
    \/ "dropped" \in mishaps
    \/ /\ phase = "reading" => got.text = shown
       /\ phase \in {"starting", "asking", "waiting"} => shown = <<>>
       /\ phase = "answered" /\ call.streaming => got.text = shown
       /\ outcome = "failed" => phase = "over" /\ shown = <<>>

LEMMA SeenStep ==
    ASSUME LlmBounds, CallTyped, said \in SaidSet, got \in GotSet, Streams, Quiet, Seen,
        [Llm!Next]_(Llm!vars)
    PROVE  Seen'
<1> USE DEF Seen, CallTyped, Streams, Quiet
<1>1. CASE Llm!NewTurn
  BY <1>1 DEF Llm!NewTurn, Llm!Silence, Llm!Nothing, Llm!turnVars, Llm!rowVars, Llm!boundVars,
      GotSet, SaidSet
<1>2. CASE Llm!Stop
  BY <1>2 DEF Llm!Stop, Llm!End, Llm!Forget, Llm!Silence, Llm!Nothing, Llm!turnVars, Llm!rowVars,
      Llm!boundVars, GotSet, SaidSet
<1>3. CASE Llm!StopAtHead
  BY <1>3 DEF Llm!StopAtHead, Llm!End, Llm!turnVars, Llm!rowVars, Llm!boundVars, GotSet, SaidSet
<1>4. CASE Llm!Begin
  BY <1>4 DEF Llm!Begin, Llm!turnVars, Llm!rowVars, Llm!boundVars, GotSet, SaidSet
<1>5. CASE Llm!Send
  BY <1>5 DEF Llm!Send, Llm!Dialect, Llm!Worded, Llm!turnVars, Llm!rowVars, Llm!boundVars, GotSet,
      SaidSet
<1>6. CASE Llm!Throttled
  BY <1>6 DEF Llm!Throttled, Llm!Dialect, Llm!Fails, Llm!End, Llm!Forget, Llm!Silence,
      Llm!Nothing, Llm!turnVars, Llm!rowVars, Llm!boundVars, GotSet, SaidSet
<1>7. CASE Llm!Refused
  BY <1>7 DEF Llm!Refused, Llm!Fails, Llm!End, Llm!Forget, Llm!Silence, Llm!Nothing, Llm!turnVars,
      Llm!rowVars, Llm!boundVars, GotSet, SaidSet
<1>8. CASE Llm!Overflows
  BY <1>8 DEF Llm!Overflows, Llm!Forget, Llm!Silence, Llm!Nothing, Llm!turnVars, Llm!rowVars,
      Llm!boundVars, GotSet, SaidSet
<1>9. CASE Llm!WaitOver
  BY <1>9 DEF Llm!WaitOver, Llm!turnVars, Llm!rowVars, Llm!boundVars, GotSet, SaidSet
<1>10. CASE Llm!StopWhileWaiting
  BY <1>10 DEF Llm!StopWhileWaiting, Llm!Watched, Llm!End, Llm!Forget, Llm!Silence, Llm!Nothing,
      Llm!turnVars, Llm!rowVars, Llm!boundVars, GotSet, SaidSet
<1>11. CASE Llm!StopSeen
  BY <1>11 DEF Llm!StopSeen, Llm!Watched, Llm!Nothing, Llm!turnVars, Llm!rowVars, Llm!boundVars,
      GotSet, SaidSet
<1>12. CASE Llm!Answered
  BY <1>12, AnsweredParts DEF Llm!Answered, Llm!turnVars, Llm!rowVars, Llm!boundVars
<1>13. CASE Llm!Think
  BY <1>13 DEF Llm!Think, Llm!Event, Llm!Talks, Llm!Watched, Llm!Finalize, Llm!Dialect,
      Llm!turnVars, Llm!rowVars, Llm!boundVars, GotSet, SaidSet
<1>14. CASE Llm!Say
  BY <1>14 DEF Llm!Say, Llm!Event, Llm!Talks, Llm!Watched, Llm!Finalize, Llm!Dialect,
      Llm!turnVars, Llm!rowVars, Llm!boundVars, GotSet, SaidSet
<1>15. CASE Llm!StartCall
  <2>1. PICK e, g : Llm!Event(e, g, shown) /\ g.text = got.text
    <3>1. Llm!Given(Len(said.calls) + 1).text = got.text  BY DEF Llm!Given, GotSet
    <3>2. \A s : [got EXCEPT !.calls = s].text = got.text  BY DEF GotSet
    <3> QED  BY <1>15, <3>1, <3>2 DEF Llm!StartCall
  <2>2. mishaps \subseteq mishaps' /\ phase = "reading"
    BY <1>15 DEF Llm!StartCall, Llm!Event, Llm!Talks
  <2> QED
    BY <2>1, <2>2 DEF Llm!Event, Llm!Watched, Llm!Finalize, Llm!Dialect, Llm!turnVars,
        Llm!rowVars, Llm!boundVars, GotSet
<1>16. CASE Llm!GiveArguments
  BY <1>16 DEF Llm!GiveArguments, Llm!Event, Llm!Talks, Llm!AllGiven, Llm!Watched, Llm!Finalize,
      Llm!Dialect, Llm!Given, Llm!Slot, Llm!turnVars, Llm!rowVars, Llm!boundVars, GotSet, SaidSet
<1>17. ASSUME NEW r \in {"stop", "length", "filter"}, Llm!Finishes(r)  PROVE Seen'
  BY <1>17 DEF Llm!Finishes, Llm!Event, Llm!Talks, Llm!AllGiven, Llm!Watched, Llm!Finalize,
      Llm!Dialect, Llm!turnVars, Llm!rowVars, Llm!boundVars, GotSet, SaidSet
<1>18. CASE Llm!Reports
  BY <1>18 DEF Llm!Reports, Llm!Event, Llm!Talks, Llm!Watched, Llm!Finalize, Llm!Dialect,
      Llm!Nothing, Llm!Fails, Llm!End, Llm!Forget, Llm!Silence, Llm!turnVars, Llm!rowVars,
      Llm!boundVars, GotSet, SaidSet
<1>19. CASE Llm!Done
  BY <1>19 DEF Llm!Done, Llm!Finalize, Llm!Dialect, Llm!AllGiven, Llm!turnVars, Llm!rowVars,
      Llm!boundVars, GotSet, SaidSet
<1>20. CASE Llm!Closes
  BY <1>20 DEF Llm!Closes, Llm!Finalize, Llm!Dialect, Llm!turnVars, Llm!rowVars, Llm!boundVars,
      GotSet, SaidSet
<1>21. CASE Llm!Breaks
  BY <1>21 DEF Llm!Breaks, Llm!HasOutput, Llm!Dialect, Llm!Finalize, Llm!Fails, Llm!End,
      Llm!Forget, Llm!Silence, Llm!Nothing, Llm!turnVars, Llm!rowVars, Llm!boundVars, GotSet,
      SaidSet
<1>22. CASE Llm!StopTaken
  BY <1>22 DEF Llm!StopTaken, Llm!StopHeard, Llm!End, Llm!Forget, Llm!Silence, Llm!Nothing,
      Llm!turnVars, Llm!rowVars, Llm!boundVars, GotSet, SaidSet
<1>23. CASE Llm!TakeCalls
  BY <1>23 DEF Llm!TakeCalls, Llm!StopHeard, Llm!Rejected, Llm!Row, Llm!Forget, Llm!Silence,
      Llm!Nothing, Llm!Dialect, Llm!turnVars, Llm!rowVars, Llm!boundVars, GotSet, SaidSet
<1>24. CASE Llm!RetryEmpty
  BY <1>24 DEF Llm!RetryEmpty, Llm!StopHeard, Llm!Forget, Llm!Silence, Llm!Nothing, Llm!turnVars,
      Llm!rowVars, Llm!boundVars, GotSet, SaidSet
<1>25. CASE Llm!TakeText
  BY <1>25 DEF Llm!TakeText, Llm!StopHeard, Llm!End, Llm!Row, Llm!Forget, Llm!Silence,
      Llm!Nothing, Llm!Dialect, Llm!turnVars, Llm!rowVars, Llm!boundVars, GotSet, SaidSet
<1>26. CASE UNCHANGED Llm!vars
  BY <1>26 DEF Llm!vars, Llm!turnVars, Llm!rowVars, Llm!boundVars
<1> HIDE DEF Seen, CallTyped, Streams, Quiet
<1> QED
  BY <1>1, <1>2, <1>3, <1>4, <1>5, <1>6, <1>7, <1>8, <1>9, <1>10, <1>11, <1>12, <1>13, <1>14,
      <1>15, <1>16, <1>17, <1>18, <1>19, <1>20, <1>21, <1>22, <1>23, <1>24, <1>25, <1>26 DEF
      Llm!Next

\* A turn that was stopped does not answer.
Heard == phase = "over" /\ cancelled => outcome # "answered"

LEMMA HeardStep ==
    ASSUME LlmBounds, CallTyped, Heard, [Llm!Next]_(Llm!vars)
    PROVE  Heard'
<1> USE DEF Heard, CallTyped
<1>1. CASE Llm!NewTurn
  BY <1>1 DEF Llm!NewTurn, Llm!turnVars
<1>2. CASE Llm!Stop
  BY <1>2 DEF Llm!Stop, Llm!End, Llm!Forget, Llm!turnVars
<1>3. CASE Llm!StopAtHead
  BY <1>3 DEF Llm!StopAtHead, Llm!End, Llm!turnVars
<1>4. CASE Llm!Begin
  BY <1>4 DEF Llm!Begin, Llm!turnVars
<1>5. CASE Llm!Send
  BY <1>5 DEF Llm!Send, Llm!Dialect, Llm!Worded, Llm!turnVars
<1>6. CASE Llm!Throttled
  BY <1>6 DEF Llm!Throttled, Llm!Dialect, Llm!Fails, Llm!End, Llm!Forget, Llm!turnVars
<1>7. CASE Llm!Refused
  BY <1>7 DEF Llm!Refused, Llm!Fails, Llm!End, Llm!Forget, Llm!turnVars
<1>8. CASE Llm!Overflows
  BY <1>8 DEF Llm!Overflows, Llm!Forget, Llm!turnVars
<1>9. CASE Llm!WaitOver
  BY <1>9 DEF Llm!WaitOver, Llm!turnVars
<1>10. CASE Llm!StopWhileWaiting
  BY <1>10 DEF Llm!StopWhileWaiting, Llm!Watched, Llm!End, Llm!Forget, Llm!turnVars
<1>11. CASE Llm!StopSeen
  BY <1>11 DEF Llm!StopSeen, Llm!Watched, Llm!turnVars
<1>12. CASE Llm!Answered
  BY <1>12 DEF Llm!Answered, Llm!Dialect, Llm!turnVars
<1>13. CASE Llm!Think
  BY <1>13 DEF Llm!Think, Llm!Event, Llm!Talks, Llm!Watched, Llm!Finalize, Llm!Dialect,
      Llm!turnVars
<1>14. CASE Llm!Say
  BY <1>14 DEF Llm!Say, Llm!Event, Llm!Talks, Llm!Watched, Llm!Finalize, Llm!Dialect, Llm!turnVars
<1>15. CASE Llm!StartCall
  BY <1>15 DEF Llm!StartCall, Llm!Event, Llm!Talks, Llm!AllGiven, Llm!Watched, Llm!Finalize,
      Llm!Dialect, Llm!Given, Llm!Slot, Llm!turnVars
<1>16. CASE Llm!GiveArguments
  BY <1>16 DEF Llm!GiveArguments, Llm!Event, Llm!Talks, Llm!AllGiven, Llm!Watched, Llm!Finalize,
      Llm!Dialect, Llm!Given, Llm!Slot, Llm!turnVars
<1>17. ASSUME NEW r \in {"stop", "length", "filter"}, Llm!Finishes(r)  PROVE Heard'
  BY <1>17 DEF Llm!Finishes, Llm!Event, Llm!Talks, Llm!AllGiven, Llm!Watched, Llm!Finalize,
      Llm!Dialect, Llm!turnVars
<1>18. CASE Llm!Reports
  BY <1>18 DEF Llm!Reports, Llm!Event, Llm!Talks, Llm!Watched, Llm!Finalize, Llm!Dialect,
      Llm!Fails, Llm!End, Llm!Forget, Llm!turnVars
<1>19. CASE Llm!Done
  BY <1>19 DEF Llm!Done, Llm!Finalize, Llm!Dialect, Llm!AllGiven, Llm!turnVars
<1>20. CASE Llm!Closes
  BY <1>20 DEF Llm!Closes, Llm!Finalize, Llm!Dialect, Llm!turnVars
<1>21. CASE Llm!Breaks
  BY <1>21 DEF Llm!Breaks, Llm!HasOutput, Llm!Dialect, Llm!Finalize, Llm!Fails, Llm!End,
      Llm!Forget, Llm!turnVars
<1>22. CASE Llm!StopTaken
  BY <1>22 DEF Llm!StopTaken, Llm!StopHeard, Llm!End, Llm!Forget, Llm!turnVars
<1>23. CASE Llm!TakeCalls
  BY <1>23 DEF Llm!TakeCalls, Llm!StopHeard, Llm!Rejected, Llm!Row, Llm!Forget, Llm!Dialect,
      Llm!turnVars
<1>24. CASE Llm!RetryEmpty
  BY <1>24 DEF Llm!RetryEmpty, Llm!StopHeard, Llm!Forget, Llm!turnVars
<1>25. CASE Llm!TakeText
  BY <1>25 DEF Llm!TakeText, Llm!StopHeard, Llm!End, Llm!Row, Llm!Forget, Llm!Dialect,
      Llm!turnVars
<1>26. CASE UNCHANGED Llm!vars
  BY <1>26 DEF Llm!vars, Llm!turnVars, Llm!rowVars, Llm!boundVars
<1> HIDE DEF Heard, CallTyped
<1> QED
  BY <1>1, <1>2, <1>3, <1>4, <1>5, <1>6, <1>7, <1>8, <1>9, <1>10, <1>11, <1>12, <1>13, <1>14,
      <1>15, <1>16, <1>17, <1>18, <1>19, <1>20, <1>21, <1>22, <1>23, <1>24, <1>25, <1>26 DEF
      Llm!Next

\* All calls but the last have their arguments.
LastOnly == phase = "reading" => \A k \in 1..(Len(said.calls) - 1) : said.calls[k] = 1

LEMMA AskingSaid ==
    ASSUME said \in SaidSet, Quiet, phase \notin {"reading", "answered"}
    PROVE  Len(said.calls) = 0
BY DEF Quiet

LEMMA LastOnlyStep ==
    ASSUME LlmBounds, said \in SaidSet, Quiet, LastOnly, [Llm!Next]_(Llm!vars)
    PROVE  LastOnly'
<1> USE DEF LastOnly
<1>1. CASE Llm!NewTurn
  BY <1>1 DEF Llm!NewTurn, Llm!Silence, SaidSet
<1>2. CASE Llm!Stop
  BY <1>2 DEF Llm!Stop, Llm!End, Llm!Forget, Llm!Silence, SaidSet
<1>3. CASE Llm!StopAtHead
  BY <1>3 DEF Llm!StopAtHead, Llm!End, SaidSet
<1>4. CASE Llm!Begin
  BY <1>4 DEF Llm!Begin, SaidSet
<1>5. CASE Llm!Send
  BY <1>5 DEF Llm!Send, Llm!Dialect, Llm!Worded, SaidSet
<1>6. CASE Llm!Throttled
  BY <1>6 DEF Llm!Throttled, Llm!Dialect, Llm!Fails, Llm!End, Llm!Forget, Llm!Silence, SaidSet
<1>7. CASE Llm!Refused
  BY <1>7 DEF Llm!Refused, Llm!Fails, Llm!End, Llm!Forget, Llm!Silence, SaidSet
<1>8. CASE Llm!Overflows
  BY <1>8 DEF Llm!Overflows, Llm!Forget, Llm!Silence, SaidSet
<1>9. CASE Llm!WaitOver
  BY <1>9 DEF Llm!WaitOver
<1>10. CASE Llm!StopWhileWaiting
  BY <1>10 DEF Llm!StopWhileWaiting, Llm!End, Llm!Forget, Llm!Silence, SaidSet
<1>11. CASE Llm!StopSeen
  BY <1>11 DEF Llm!StopSeen, SaidSet
<1>12. CASE Llm!Answered
  <2>1. CASE phase' = "reading" /\ said' = said
    BY <1>12, <2>1, AskingSaid DEF Llm!Answered
  <2> QED  BY <1>12, <2>1, AnsweredParts
<1>13. CASE Llm!Think
  BY <1>13 DEF Llm!Think, Llm!Event, Llm!Talks, Llm!Finalize, Llm!Dialect, SaidSet
<1>14. CASE Llm!Say
  BY <1>14 DEF Llm!Say, Llm!Event, Llm!Talks, Llm!Finalize, Llm!Dialect, SaidSet
<1>15. CASE Llm!StartCall
  <2>1. PICK x \in 0..1 : said' = [said EXCEPT !.calls = Append(said.calls, x)]
    BY <1>15 DEF Llm!StartCall, Llm!Event
  <2>2. PICK s \in Seq(0..1) : s = said.calls  BY SaidFields
  <2>3. \A k \in 1..Len(s) : s[k] = 1  BY <1>15, <2>2 DEF Llm!StartCall, Llm!AllGiven
  <2>4. said'.calls = Append(s, x)  BY <2>1, <2>2 DEF SaidSet
  <2>5. PICK z : z = Append(s, x)  OBVIOUS
  <2>6. Len(z) = Len(s) + 1 /\ \A k \in 1..Len(s) : z[k] = s[k]  BY <2>5, AppendProperties
  <2> QED  BY <2>2, <2>3, <2>4, <2>5, <2>6
<1>16. CASE Llm!GiveArguments
  <2>1. said' = [said EXCEPT !.calls = [said.calls EXCEPT ![Len(said.calls)] = 1]]
    BY <1>16 DEF Llm!GiveArguments, Llm!Event
  <2>2. PICK s \in Seq(0..1) : s = said.calls  BY SaidFields
  <2>3. PICK z : z = [s EXCEPT ![Len(s)] = 1]  OBVIOUS
  <2>4. Len(z) = Len(s)  BY <2>3, SeqWith
  <2>5. said'.calls = z  BY <2>1, <2>2, <2>3 DEF SaidSet
  <2>6. phase = "reading"  BY <1>16 DEF Llm!GiveArguments, Llm!Talks
  <2>7. \A k \in 1..(Len(s) - 1) : z[k] = 1  BY <2>2, <2>3, <2>6
  <2> QED  BY <2>4, <2>5, <2>7
<1>17. ASSUME NEW r \in {"stop", "length", "filter"}, Llm!Finishes(r)  PROVE LastOnly'
  BY <1>17 DEF Llm!Finishes, Llm!Event, Llm!Talks, Llm!AllGiven, Llm!Finalize, Llm!Dialect,
      SaidSet
<1>18. CASE Llm!Reports
  BY <1>18 DEF Llm!Reports, Llm!Event, Llm!Talks, Llm!Finalize, Llm!Dialect, Llm!Fails, Llm!End,
      Llm!Forget, Llm!Silence, SaidSet
<1>19. CASE Llm!Done
  BY <1>19 DEF Llm!Done, Llm!Finalize, Llm!Dialect, Llm!AllGiven, SaidSet
<1>20. CASE Llm!Closes
  BY <1>20 DEF Llm!Closes, Llm!Finalize, Llm!Dialect, SaidSet
<1>21. CASE Llm!Breaks
  BY <1>21 DEF Llm!Breaks, Llm!HasOutput, Llm!Dialect, Llm!Finalize, Llm!Fails, Llm!End,
      Llm!Forget, Llm!Silence, SaidSet
<1>22. CASE Llm!StopTaken
  BY <1>22 DEF Llm!StopTaken, Llm!StopHeard, Llm!End, Llm!Forget, Llm!Silence, SaidSet
<1>23. CASE Llm!TakeCalls
  BY <1>23 DEF Llm!TakeCalls, Llm!StopHeard, Llm!Rejected, Llm!Row, Llm!Forget, Llm!Silence,
      Llm!Dialect, SaidSet
<1>24. CASE Llm!RetryEmpty
  BY <1>24 DEF Llm!RetryEmpty, Llm!StopHeard, Llm!Forget, Llm!Silence, SaidSet
<1>25. CASE Llm!TakeText
  BY <1>25 DEF Llm!TakeText, Llm!StopHeard, Llm!End, Llm!Row, Llm!Forget, Llm!Silence,
      Llm!Dialect, SaidSet
<1>26. CASE UNCHANGED Llm!vars
  BY <1>26 DEF Llm!vars, Llm!turnVars, Llm!rowVars, Llm!boundVars
<1> HIDE DEF LastOnly
<1> QED
  BY <1>1, <1>2, <1>3, <1>4, <1>5, <1>6, <1>7, <1>8, <1>9, <1>10, <1>11, <1>12, <1>13, <1>14,
      <1>15, <1>16, <1>17, <1>18, <1>19, <1>20, <1>21, <1>22, <1>23, <1>24, <1>25, <1>26 DEF
      Llm!Next

\* How the response ended
Stops ==
    phase \in {"reading", "answered"} =>
        /\ said.stop \in {"none", "stop", "length", "filter", "failed"}
        /\ said.stop = "stop" => Llm!AllGiven
        /\ said.stop = "length" /\ ~cancelled => got.finish \in {"length", "error"}

LEMMA FinalizeEnds ==
    ASSUME NEW g \in GotSet, Llm!Finalize(g)
    PROVE  got'.finish = Llm!Ending(g) /\ (g.finish # "none" => got'.finish = g.finish)
BY DEF Llm!Finalize, Llm!Ending, GotSet

LEMMA StopsStep ==
    ASSUME LlmBounds, CallTyped, said \in SaidSet, got \in GotSet, Quiet, Stops,
        [Llm!Next]_(Llm!vars)
    PROVE  Stops'
<1> USE DEF Stops
<1>1. CASE Llm!NewTurn
  BY <1>1 DEF Llm!NewTurn, Llm!Silence, Llm!turnVars, SaidSet, GotSet, Llm!AllGiven
<1>2. CASE Llm!Stop
  BY <1>2 DEF Llm!Stop, Llm!End, Llm!Forget, Llm!Silence, Llm!turnVars, SaidSet, GotSet,
      Llm!AllGiven
<1>3. CASE Llm!StopAtHead
  BY <1>3 DEF Llm!StopAtHead, Llm!End, Llm!turnVars, SaidSet, GotSet, Llm!AllGiven
<1>4. CASE Llm!Begin
  BY <1>4 DEF Llm!Begin, Llm!turnVars, SaidSet, GotSet, Llm!AllGiven
<1>5. CASE Llm!Send
  BY <1>5 DEF Quiet, Llm!Send, Llm!Worded, Llm!turnVars, SaidSet, GotSet, Llm!AllGiven
<1>6. CASE Llm!Throttled
  BY <1>6 DEF Llm!Throttled, Llm!Fails, Llm!End, Llm!Forget, Llm!Silence, Llm!turnVars, SaidSet,
      GotSet, Llm!AllGiven
<1>7. CASE Llm!Refused
  BY <1>7 DEF Llm!Refused, Llm!Fails, Llm!End, Llm!Forget, Llm!Silence, Llm!turnVars, SaidSet,
      GotSet, Llm!AllGiven
<1>8. CASE Llm!Overflows
  BY <1>8 DEF Llm!Overflows, Llm!Forget, Llm!Silence, Llm!turnVars, SaidSet, GotSet, Llm!AllGiven
<1>9. CASE Llm!WaitOver
  BY <1>9 DEF Llm!WaitOver, Llm!turnVars, SaidSet, GotSet, Llm!AllGiven
<1>10. CASE Llm!StopWhileWaiting
  BY <1>10 DEF Llm!StopWhileWaiting, Llm!Watched, Llm!End, Llm!Forget, Llm!Silence, Llm!turnVars,
      SaidSet, GotSet, Llm!AllGiven
<1>11. CASE Llm!StopSeen
  BY <1>11 DEF Quiet, Llm!StopSeen, Llm!Watched, Llm!turnVars, SaidSet, GotSet, Llm!AllGiven
<1>12. CASE Llm!Answered
  <2>1. CASE phase' = "reading" /\ said' = said /\ got' = got
    BY <1>12, <2>1 DEF Llm!Answered, Quiet
  <2>2. ASSUME NEW t \in Llm!Pieces, NEW n \in 0..MaxAtOnce,
               NEW r \in {"stop", "length", "filter"},
               NEW f \in {r, "error"},
               said' = [said EXCEPT !.text = t, !.stop = r,
                                    !.calls = Llm!CallsSaid(n, r # "stop")],
               got' = [text |-> Llm!WholeText(t), calls |-> Llm!CallsGot(n, r # "stop"),
                       done |-> TRUE, finish |-> f]
        PROVE  Stops'
    <3>1. (r # "stop") \in BOOLEAN  OBVIOUS
    <3>2. said'.calls = Llm!CallsSaid(n, r # "stop") /\ said'.stop = r /\ got'.finish = f
      BY <2>2 DEF SaidSet
    <3>3. DOMAIN Llm!CallsSaid(n, r # "stop") = 1..n  BY DEF Llm!CallsSaid
    <3>4. r = "stop" => \A k \in 1..n : Llm!CallsSaid(n, r # "stop")[k] = 1
      BY <3>1, WholeCalls
    <3>7. r = "length" => f \in {"length", "error"}  OBVIOUS
    <3>5. PICK z : z = Llm!CallsSaid(n, r # "stop")  OBVIOUS
    <3>6. r = "stop" => \A k \in DOMAIN z : z[k] = 1  BY <3>3, <3>4, <3>5
    <3> QED  BY <3>2, <3>5, <3>6, <3>7 DEF Llm!AllGiven
  <2>3. CASE phase' = "answered"
    <3>1. PICK t \in Llm!Pieces, n \in 0..MaxAtOnce, r \in {"stop", "length", "filter"} :
            \E f \in {r, "error"} :
              /\ f = "error" => r = "filter"
              /\ said' = [said EXCEPT !.text = t, !.stop = r,
                                      !.calls = Llm!CallsSaid(n, r # "stop")]
              /\ got' = [text |-> Llm!WholeText(t), calls |-> Llm!CallsGot(n, r # "stop"),
                         done |-> TRUE, finish |-> f]
      BY <1>12, <2>3, AnsweredParts
    <3>2. PICK f \in {r, "error"} :
              /\ f = "error" => r = "filter"
              /\ said' = [said EXCEPT !.text = t, !.stop = r,
                                      !.calls = Llm!CallsSaid(n, r # "stop")]
              /\ got' = [text |-> Llm!WholeText(t), calls |-> Llm!CallsGot(n, r # "stop"),
                         done |-> TRUE, finish |-> f]
      BY <3>1
    <3> QED  BY <2>2, <3>2
  <2> QED  BY <1>12, <2>1, <2>3, AnsweredParts
<1>13. CASE Llm!Think
  BY <1>13 DEF Llm!Think, Llm!Event, Llm!Talks, Llm!Watched, Llm!Finalize, Llm!Ending,
      Llm!turnVars, SaidSet, GotSet, Llm!AllGiven
<1>14. CASE Llm!Say
  BY <1>14 DEF Llm!Say, Llm!Event, Llm!Talks, Llm!Watched, Llm!Finalize, Llm!Ending, Llm!turnVars,
      SaidSet, GotSet, Llm!AllGiven
<1>15. CASE Llm!StartCall
  BY <1>15 DEF Llm!StartCall, Llm!Event, Llm!Talks, Llm!Watched, Llm!Finalize, Llm!Ending,
      Llm!Given, Llm!Slot, Llm!turnVars, SaidSet, GotSet, Llm!AllGiven
<1>16. CASE Llm!GiveArguments
  BY <1>16 DEF Llm!GiveArguments, Llm!Event, Llm!Talks, Llm!Watched, Llm!Finalize, Llm!Ending,
      Llm!Given, Llm!Slot, Llm!turnVars, SaidSet, GotSet, Llm!AllGiven
<1>17. ASSUME NEW r \in {"stop", "length", "filter"}, Llm!Finishes(r)  PROVE Stops'
  <2>1. said' = [said EXCEPT !.stop = r] /\ UNCHANGED cancelled /\ (r = "stop" => Llm!AllGiven)
    BY <1>17 DEF Llm!Finishes, Llm!Event, Llm!turnVars
  <2>2. said'.stop = r /\ said'.calls = said.calls  BY <2>1 DEF SaidSet
  <2>3. CASE Llm!Dialect(Responses)
    <3>1. PICK g : g = [got EXCEPT !.finish = IF r = "filter" THEN "error" ELSE r]  OBVIOUS
    <3>2. Llm!Finalize(g)  BY <1>17, <2>3, <3>1 DEF Llm!Finishes
    <3>3. g \in GotSet /\ (r = "length" => g.finish = "length")  BY <3>1 DEF GotSet, Llm!Reasons
    <3> QED  BY <2>1, <2>2, <3>2, <3>3, FinalizeEnds DEF Llm!AllGiven
  <2>4. CASE ~Llm!Dialect(Responses)
    <3>1. ~cancelled => got' = [got EXCEPT !.finish = r]
      BY <1>17, <2>4 DEF Llm!Finishes, Llm!Event
    <3>2. ~cancelled => got'.finish = r  BY <3>1 DEF GotSet
    <3> QED  BY <2>1, <2>2, <3>2 DEF Llm!AllGiven
  <2> QED  BY <2>3, <2>4
<1>18. CASE Llm!Reports
  BY <1>18 DEF Llm!Reports, Llm!Event, Llm!Talks, Llm!Watched, Llm!Finalize, Llm!Ending,
      Llm!Fails, Llm!End, Llm!Forget, Llm!Silence, Llm!turnVars, SaidSet, GotSet, Llm!AllGiven
<1>19. CASE Llm!Done
  BY <1>19 DEF Llm!Done, Llm!Finalize, Llm!Ending, Llm!turnVars, SaidSet, GotSet, Llm!AllGiven
<1>20. CASE Llm!Closes
  BY <1>20, FinalizeEnds DEF Llm!Closes, Llm!turnVars, SaidSet, Llm!AllGiven
<1>21. CASE Llm!Breaks
  BY <1>21 DEF Llm!Breaks, Llm!HasOutput, Llm!Finalize, Llm!Ending, Llm!Fails, Llm!End,
      Llm!Forget, Llm!Silence, Llm!turnVars, SaidSet, GotSet, Llm!AllGiven
<1>22. CASE Llm!StopTaken
  BY <1>22 DEF Llm!StopTaken, Llm!StopHeard, Llm!End, Llm!Forget, Llm!Silence, Llm!turnVars,
      SaidSet, GotSet, Llm!AllGiven
<1>23. CASE Llm!TakeCalls
  BY <1>23 DEF Llm!TakeCalls, Llm!StopHeard, Llm!Rejected, Llm!Row, Llm!Forget, Llm!Silence,
      Llm!turnVars, SaidSet, GotSet, Llm!AllGiven
<1>24. CASE Llm!RetryEmpty
  BY <1>24 DEF Llm!RetryEmpty, Llm!StopHeard, Llm!Forget, Llm!Silence, Llm!turnVars, SaidSet,
      GotSet, Llm!AllGiven
<1>25. CASE Llm!TakeText
  BY <1>25 DEF Llm!TakeText, Llm!StopHeard, Llm!End, Llm!Row, Llm!Forget, Llm!Silence,
      Llm!turnVars, SaidSet, GotSet, Llm!AllGiven
<1>26. CASE UNCHANGED Llm!vars
  BY <1>26 DEF Llm!vars, Llm!turnVars, Llm!AllGiven
<1> HIDE DEF Stops
<1> QED
  BY <1>1, <1>2, <1>3, <1>4, <1>5, <1>6, <1>7, <1>8, <1>9, <1>10, <1>11, <1>12, <1>13, <1>14,
      <1>15, <1>16, <1>17, <1>18, <1>19, <1>20, <1>21, <1>22, <1>23, <1>24, <1>25, <1>26 DEF
      Llm!Next

LEMMA Appended ==
    ASSUME NEW S, NEW s \in Seq(S), NEW x \in S, NEW z, z = Append(s, x)
    PROVE  /\ z \in Seq(S) /\ Len(s) \in Nat /\ Len(z) = Len(s) + 1 /\ z[Len(s) + 1] = x
           /\ \A i \in DOMAIN z : i = Len(s) + 1 \/ (i \in DOMAIN s /\ z[i] = s[i])
<1>1. /\ z \in Seq(S) /\ Len(s) \in Nat /\ Len(z) = Len(s) + 1 /\ z[Len(s) + 1] = x
      /\ \A i \in 1..Len(s) : z[i] = s[i]
  BY AppendProperties
<1>2. DOMAIN z = 1..(Len(s) + 1) /\ DOMAIN s = 1..Len(s)  BY <1>1
<1>3. \A i \in 1..(Len(s) + 1) : i = Len(s) + 1 \/ i \in 1..Len(s)  BY <1>1
<1> QED  BY <1>1, <1>2, <1>3

LEMMA OneOrTwo ==
    /\ \A x : x = 1 \/ x = 2 => x \in Nat /\ x <= 2
    /\ \A n \in Int : \A x : n >= 0 /\ x = 1 => x <= n + 1
    /\ \A n \in Int : \A x : n >= 0 /\ x = 2 => x \in Nat /\ x <= n + 2
OBVIOUS
LEMMA Lengths == \A k : Len(<<k>>) = 1 /\ Len(<<k, k>>) = 2
OBVIOUS

\* The calls that were said are collected one by one, with what was said of each.
Piece(p, k, x) == Len(p) = (IF x = 1 THEN 2 ELSE 1) /\ \A i \in 1..Len(p) : p[i] = k
InOrder(s, c) == Len(c) = Len(s) /\ \A k \in 1..Len(s) : Piece(c[k], k, s[k])

LEMMA Pieces ==
    ASSUME NEW k \in 1..MaxAtOnce
    PROVE  /\ Piece(<<k>>, k, 0) /\ Piece(<<k, k>>, k, 1)
           /\ \A p \in Seq(1..MaxAtOnce) :
                \A x : Piece(p, k, x) /\ x # 1 => Piece(Append(p, k), k, 1)
<1>1. Piece(<<k>>, k, 0) /\ Piece(<<k, k>>, k, 1)  BY DEF Piece
<1>2. ASSUME NEW p \in Seq(1..MaxAtOnce), NEW x, Piece(p, k, x), x # 1
      PROVE  Piece(Append(p, k), k, 1)
  <2>1. PICK q : q = Append(p, k)  OBVIOUS
  <2>2. Len(p) = 1 /\ p[1] = k  BY <1>2 DEF Piece
  <2>3. Len(q) = 2 /\ q[2] = k /\ q[1] = p[1]
    <3>1. Len(q) = Len(p) + 1 /\ q[Len(p) + 1] = k /\ \A i \in 1..Len(p) : q[i] = p[i]
      BY <2>1, AppendProperties
    <3> QED  BY <2>2, <3>1
  <2>4. \A i \in 1..2 : i = 1 \/ i = 2  OBVIOUS
  <2>5. \A i \in 1..2 : q[i] = k  BY <2>2, <2>3, <2>4
  <2> QED  BY <2>1, <2>3, <2>5 DEF Piece
<1> QED  BY <1>1, <1>2

LEMMA InOrderAdds ==
    ASSUME NEW s \in Seq(0..1), NEW c \in Seq(Seq(1..MaxAtOnce)), InOrder(s, c),
           NEW k, k = Len(s) + 1, NEW x \in 0..1, NEW y \in Seq(1..MaxAtOnce), Piece(y, k, x)
    PROVE  InOrder(Append(s, x), Append(c, y))
<1>1. Len(s) \in Nat /\ Len(c) = Len(s)  BY DEF InOrder
<1>2. PICK z, w : z = Append(s, x) /\ w = Append(c, y)  OBVIOUS
<1>3. Len(z) = Len(s) + 1 /\ z[k] = x /\ \A i \in 1..Len(s) : z[i] = s[i]
  BY <1>1, <1>2, AppendProperties
<1>4. Len(w) = Len(s) + 1 /\ w[k] = y /\ \A i \in 1..Len(s) : w[i] = c[i]
  BY <1>1, <1>2, AppendProperties
<1>5. ASSUME NEW i \in 1..(Len(s) + 1)  PROVE Piece(w[i], i, z[i])
  <2>1. CASE i = k  BY <2>1, <1>3, <1>4
  <2>2. CASE i # k
    <3>1. i \in 1..Len(s)  BY <1>1, <2>2
    <3> QED  BY <3>1, <1>3, <1>4 DEF InOrder
  <2> QED  BY <2>1, <2>2
<1> QED  BY <1>2, <1>3, <1>4, <1>5 DEF InOrder

LEMMA InOrderGives ==
    ASSUME NEW s \in Seq(0..1), NEW c \in Seq(Seq(1..MaxAtOnce)), InOrder(s, c),
           NEW n \in 1..MaxAtOnce, n = Len(s), s[n] # 1
    PROVE  InOrder([s EXCEPT ![n] = 1], [c EXCEPT ![n] = Append(c[n], n)])
<1>1. n \in Nat /\ Len(c) = n /\ n \in 1..n /\ DOMAIN s = 1..n /\ DOMAIN c = 1..n
  BY DEF InOrder
<1>2. PICK z, w, p : z = [s EXCEPT ![n] = 1] /\ p = Append(c[n], n) /\ w = [c EXCEPT ![n] = p]
  OBVIOUS
<1>3. Piece(c[n], n, s[n]) /\ c[n] \in Seq(1..MaxAtOnce)  BY <1>1 DEF InOrder
<1>4. Piece(p, n, 1) /\ p \in Seq(1..MaxAtOnce)  BY <1>2, <1>3, Pieces, AppendProperties
<1>5. Len(z) = n /\ Len(w) = n  BY <1>1, <1>2, <1>4, SeqWith
<1>6. z[n] = 1 /\ w[n] = p  BY <1>1, <1>2
<1>7. \A i \in 1..n : i # n => z[i] = s[i] /\ w[i] = c[i]  BY <1>1, <1>2
<1>8. \A i \in 1..n : Piece(w[i], i, z[i])
  BY <1>1, <1>4, <1>6, <1>7 DEF InOrder
<1> QED  BY <1>2, <1>5, <1>8 DEF InOrder

Gathered ==
    \/ "merged" \in mishaps \/ cancelled
    \/ /\ phase = "reading" => /\ InOrder(said.calls, got.calls)
                               /\ said.indexed = FALSE => Len(said.calls) <= 1
       /\ phase = "answered" => got.calls = <<>> \/ InOrder(said.calls, got.calls)

LEMMA NoCallsInOrder == InOrder(<<>>, <<>>)
BY DEF InOrder

LEMMA SlotIs ==
    ASSUME said \in SaidSet, NEW k
    PROVE  /\ said.indexed # FALSE => Llm!Slot(k) = k
           /\ said.indexed = FALSE => Llm!Slot(k) = 1
<1>1. said.indexed \in BOOLEAN  BY SaidFields
<1>2. CASE said.indexed = TRUE  BY <1>2, Zenon DEF Llm!Slot
<1>3. CASE said.indexed = FALSE  BY <1>3, Zenon DEF Llm!Slot
<1> QED  BY <1>1, <1>2, <1>3

\* An error in the stream leaves the calls alone, ends the turn, or has no calls.
LEMMA ReportsCalls ==
    ASSUME LlmBounds, said \in SaidSet, got \in GotSet, Llm!Reports
    PROVE  \/ phase' = "over" /\ got' = Llm!Nothing(call.model)
           \/ /\ said'.calls = said.calls /\ got'.calls = got.calls
              /\ phase' \in {"reading", "answered"}
           \/ phase' = "answered" /\ got'.calls = <<>>
<1>1. CASE Llm!Dialect(Responses)
  <2>1. PICK g \in {got, Llm!Nothing(call.model)} :
          Llm!Fails \/ (said' = [said EXCEPT !.stop = "failed"] /\ Llm!Finalize(g))
    BY <1>1 DEF Llm!Reports, Llm!Dialect, LlmBounds
  <2>2. CASE Llm!Fails  BY <2>2 DEF Llm!Fails, Llm!End, Llm!Forget
  <2>3. CASE said' = [said EXCEPT !.stop = "failed"] /\ Llm!Finalize(g)
    <3>3. said'.calls = said.calls  BY <2>3 DEF SaidSet
    <3>1. g \in GotSet /\ g.calls \in {got.calls, <<>>}  BY NothingGot DEF Llm!Nothing
    <3>2. got'.calls = g.calls /\ phase' = "answered"
      BY <2>3, <3>1 DEF Llm!Finalize, GotSet
    <3> QED  BY <3>1, <3>2, <3>3
  <2> QED  BY <2>1, <2>2, <2>3
<1>2. CASE ~Llm!Dialect(Responses)
  BY <1>2 DEF Llm!Reports, Llm!Event, Llm!Finalize, SaidSet, GotSet
<1> QED  BY <1>1, <1>2

\* Only an OpenAI-compatible gateway leaves out the numbers.
Unnumbered == said.indexed = FALSE => Llm!Dialect(Compat)

LEMMA EventSaid ==
    ASSUME NEW e, NEW g, NEW s, Llm!Event(e, g, s)
    PROVE  said' = e /\ call' = call
BY DEF Llm!Event
LEMMA SilenceIndexed == Llm!Silence.indexed = TRUE
BY DEF Llm!Silence

LEMMA UnnumberedStep ==
    ASSUME LlmBounds, said \in SaidSet, CallTyped, Unnumbered, [Llm!Next]_(Llm!vars)
    PROVE  Unnumbered'
<1> USE DEF Unnumbered, Llm!Dialect, CallTyped
<1>1. CASE Llm!NewTurn
  BY <1>1, SaidFields, EventSaid, SilenceIndexed DEF Llm!NewTurn, SaidSet
<1>2. CASE Llm!Stop
  BY <1>2, SaidFields, EventSaid, SilenceIndexed DEF Llm!Stop, Llm!End, Llm!Forget, SaidSet
<1>3. CASE Llm!StopAtHead
  BY <1>3, SaidFields, EventSaid, SilenceIndexed DEF Llm!StopAtHead, Llm!End, SaidSet
<1>4. CASE Llm!Begin
  BY <1>4, SaidFields, EventSaid, SilenceIndexed DEF Llm!Begin, SaidSet
<1>5. CASE Llm!Send
  BY <1>5, SaidFields, EventSaid, SilenceIndexed DEF Llm!Send, Llm!Dialect, SaidSet
<1>6. CASE Llm!Throttled
  BY <1>6, SaidFields, EventSaid, SilenceIndexed DEF Llm!Throttled, Llm!Dialect, Llm!Fails,
      Llm!End, Llm!Forget, SaidSet
<1>7. CASE Llm!Refused
  BY <1>7, SaidFields, EventSaid, SilenceIndexed DEF Llm!Refused, Llm!Fails, Llm!End, Llm!Forget,
      SaidSet
<1>8. CASE Llm!Overflows
  BY <1>8, SaidFields, EventSaid, SilenceIndexed DEF Llm!Overflows, Llm!Forget, SaidSet
<1>9. CASE Llm!WaitOver
  BY <1>9, SaidFields, EventSaid, SilenceIndexed DEF Llm!WaitOver, SaidSet
<1>10. CASE Llm!StopWhileWaiting
  BY <1>10, SaidFields, EventSaid, SilenceIndexed DEF Llm!StopWhileWaiting, Llm!End, Llm!Forget,
      SaidSet
<1>11. CASE Llm!StopSeen
  BY <1>11, SaidFields, EventSaid, SilenceIndexed DEF Llm!StopSeen, SaidSet
<1>12. CASE Llm!Answered
  BY <1>12, AnsweredParts DEF Llm!Answered, SaidSet
<1>13. CASE Llm!Think
  <2>1. said' = [said EXCEPT !.thought = TRUE] /\ call' = call
    BY <1>13 DEF Llm!Think, Llm!Event
  <2> QED  BY <2>1 DEF SaidSet
<1>14. CASE Llm!Say
  <2>1. PICK z : said' = [said EXCEPT !.text = z] /\ call' = call
    BY <1>14 DEF Llm!Say, Llm!Event
  <2> QED  BY <2>1 DEF SaidSet
<1>15. CASE Llm!StartCall
  <2>1. PICK x : said' = [said EXCEPT !.calls = Append(said.calls, x)] /\ call' = call
    BY <1>15 DEF Llm!StartCall, Llm!Event
  <2> QED  BY <2>1 DEF SaidSet
<1>16. CASE Llm!GiveArguments
  <2>1. PICK z : said' = [said EXCEPT !.calls = z] /\ call' = call
    BY <1>16 DEF Llm!GiveArguments, Llm!Event
  <2> QED  BY <2>1 DEF SaidSet
<1>17. ASSUME NEW r \in {"stop", "length", "filter"}, Llm!Finishes(r)  PROVE Unnumbered'
  <2>1. said' = [said EXCEPT !.stop = r] /\ call' = call
    BY <1>17 DEF Llm!Finishes, Llm!Event
  <2> QED  BY <2>1 DEF SaidSet
<1>18. CASE Llm!Reports
  <2>1. call' = call /\ (said' = [said EXCEPT !.stop = "failed"] \/ said' = Llm!Silence)
    BY <1>18 DEF Llm!Reports, Llm!Event, Llm!Fails, Llm!Forget
  <2> QED  BY <2>1, SilenceIndexed DEF SaidSet
<1>19. CASE Llm!Done
  BY <1>19, SaidFields, EventSaid, SilenceIndexed DEF Llm!Done, Llm!Dialect, SaidSet
<1>20. CASE Llm!Closes
  BY <1>20, SaidFields, EventSaid, SilenceIndexed DEF Llm!Closes, Llm!Dialect, SaidSet
<1>21. CASE Llm!Breaks
  BY <1>21, SaidFields, EventSaid, SilenceIndexed DEF Llm!Breaks, Llm!HasOutput, Llm!Dialect,
      Llm!Fails, Llm!End, Llm!Forget, SaidSet
<1>22. CASE Llm!StopTaken
  BY <1>22, SaidFields, EventSaid, SilenceIndexed DEF Llm!StopTaken, Llm!End, Llm!Forget, SaidSet
<1>23. CASE Llm!TakeCalls
  BY <1>23, SaidFields, EventSaid, SilenceIndexed DEF Llm!TakeCalls, Llm!Forget, Llm!Dialect,
      SaidSet
<1>24. CASE Llm!RetryEmpty
  BY <1>24, SaidFields, EventSaid, SilenceIndexed DEF Llm!RetryEmpty, Llm!Forget, SaidSet
<1>25. CASE Llm!TakeText
  BY <1>25, SaidFields, EventSaid, SilenceIndexed DEF Llm!TakeText, Llm!End, Llm!Forget,
      Llm!Dialect, SaidSet
<1>26. CASE UNCHANGED Llm!vars
  BY <1>26 DEF Llm!vars, Llm!turnVars, Llm!rowVars, Llm!boundVars
<1> HIDE DEF Unnumbered, Llm!Dialect, CallTyped
<1> QED
  BY <1>1, <1>2, <1>3, <1>4, <1>5, <1>6, <1>7, <1>8, <1>9, <1>10, <1>11, <1>12, <1>13, <1>14,
      <1>15, <1>16, <1>17, <1>18, <1>19, <1>20, <1>21, <1>22, <1>23, <1>24, <1>25, <1>26 DEF
      Llm!Next

LEMMA GatheredStep ==
    ASSUME LlmBounds, CallTyped, said \in SaidSet, got \in GotSet, CallsFew, Quiet, LastOnly,
        Unnumbered, Gathered, [Llm!Next]_(Llm!vars)
    PROVE  Gathered'
<1> USE DEF Gathered
<1>1. CASE Llm!NewTurn
  BY <1>1 DEF Llm!NewTurn, Llm!Silence, Llm!Nothing, Llm!turnVars, Llm!boundVars, SaidSet, GotSet
<1>2. CASE Llm!Stop
  BY <1>2 DEF Llm!Stop, Llm!End, Llm!Forget, Llm!Silence, Llm!Nothing, Llm!turnVars,
      Llm!boundVars, SaidSet, GotSet
<1>3. CASE Llm!StopAtHead
  BY <1>3 DEF Llm!StopAtHead, Llm!End, Llm!turnVars, Llm!boundVars, SaidSet, GotSet
<1>4. CASE Llm!Begin
  BY <1>4 DEF Llm!Begin, Llm!turnVars, Llm!boundVars, SaidSet, GotSet
<1>5. CASE Llm!Send
  BY <1>5 DEF Llm!Send, Llm!Worded, Llm!turnVars, Llm!boundVars, SaidSet, GotSet
<1>6. CASE Llm!Throttled
  BY <1>6 DEF Llm!Throttled, Llm!Fails, Llm!End, Llm!Forget, Llm!Silence, Llm!Nothing,
      Llm!turnVars, Llm!boundVars, SaidSet, GotSet
<1>7. CASE Llm!Refused
  BY <1>7 DEF Llm!Refused, Llm!Fails, Llm!End, Llm!Forget, Llm!Silence, Llm!Nothing, Llm!turnVars,
      Llm!boundVars, SaidSet, GotSet
<1>8. CASE Llm!Overflows
  BY <1>8 DEF Llm!Overflows, Llm!Forget, Llm!Silence, Llm!Nothing, Llm!turnVars, Llm!boundVars,
      SaidSet, GotSet
<1>9. CASE Llm!WaitOver
  BY <1>9 DEF Llm!WaitOver, Llm!turnVars, Llm!boundVars, SaidSet, GotSet
<1>10. CASE Llm!StopWhileWaiting
  BY <1>10 DEF Llm!StopWhileWaiting, Llm!End, Llm!Forget, Llm!Silence, Llm!Nothing, Llm!turnVars,
      Llm!boundVars, SaidSet, GotSet
<1>11. CASE Llm!StopSeen
  BY <1>11 DEF Llm!StopSeen, Llm!Nothing, Llm!turnVars, Llm!boundVars, SaidSet, GotSet
<1>12. CASE Llm!Answered
  <2>1. UNCHANGED <<mishaps, cancelled>>  BY <1>12 DEF Llm!Answered, Llm!turnVars, Llm!boundVars
  <2>2. CASE phase' = "reading" /\ said' = said /\ got' = got
    <3>1. got.calls = <<>> /\ said.calls = <<>>  BY <1>12 DEF Llm!Answered, Quiet
    <3>2. Len(said.calls) <= 1  BY <3>1
    <3> QED  BY <2>1, <2>2, <3>1, <3>2, NoCallsInOrder
  <2>3. CASE phase' = "answered"
    <3>1. PICK t \in Llm!Pieces, n \in 0..MaxAtOnce, r \in {"stop", "length", "filter"} :
            \E f \in {r, "error"} :
              /\ said' = [said EXCEPT !.text = t, !.stop = r,
                                      !.calls = Llm!CallsSaid(n, r # "stop")]
              /\ got' = [text |-> Llm!WholeText(t), calls |-> Llm!CallsGot(n, r # "stop"),
                         done |-> TRUE, finish |-> f]
      BY <1>12, <2>3, AnsweredParts
    <3>2. (r # "stop") \in BOOLEAN  OBVIOUS
    <3>3. /\ said'.calls = Llm!CallsSaid(n, r # "stop")
          /\ got'.calls = Llm!CallsGot(n, r # "stop")
      BY <3>1 DEF SaidSet
    <3>4. InOrder(Llm!CallsSaid(n, r # "stop"), Llm!CallsGot(n, r # "stop"))
      <4>1. PICK s, c : s = Llm!CallsSaid(n, r # "stop") /\ c = Llm!CallsGot(n, r # "stop")
        OBVIOUS
      <4>2. Len(s) = n /\ Len(c) = n  BY <3>2, <4>1, WholeCalls
      <4>3. ASSUME NEW k \in 1..n  PROVE Piece(c[k], k, s[k])
        <5>1. k \in 1..MaxAtOnce  BY <4>3 DEF LlmBounds, Llm!Bounds
        <5>2. \/ s[k] = 0 /\ c[k] = <<k>>
              \/ s[k] = 1 /\ c[k] = <<k, k>>
          BY <3>2, <4>1, WholeCalls
        <5> QED  BY <5>1, <5>2, Pieces
      <4> QED  BY <4>1, <4>2, <4>3 DEF InOrder
    <3> QED  BY <2>3, <3>3, <3>4
  <2> QED  BY <1>12, <2>2, <2>3, AnsweredParts
<1>13. CASE Llm!Think
  BY <1>13 DEF Llm!Think, Llm!Event, Llm!Talks, Llm!Finalize, Llm!turnVars, Llm!boundVars,
      SaidSet, GotSet
<1>14. CASE Llm!Say
  BY <1>14 DEF Llm!Say, Llm!Event, Llm!Talks, Llm!Finalize, Llm!turnVars, Llm!boundVars, SaidSet,
      GotSet
<1>15. CASE Llm!StartCall
  <2> SUFFICES ASSUME "merged" \notin mishaps', ~cancelled'
               PROVE  /\ phase' = "reading" /\ InOrder(said'.calls, got'.calls)
                      /\ said'.indexed = FALSE => Len(said'.calls) <= 1
    OBVIOUS
  <2>1. /\ ~cancelled /\ phase = "reading" /\ phase' = "reading" /\ "merged" \notin mishaps
    BY <1>15, MishapsStay DEF Llm!StartCall, Llm!Event, Llm!Talks, Llm!turnVars
  <2>2. PICK s \in Seq(0..1), c \in Seq(Seq(1..MaxAtOnce)) : s = said.calls /\ c = got.calls
    BY SaidFields, GotFields
  <2>3. InOrder(s, c) /\ (said.indexed = FALSE => Len(s) <= 1)  BY <2>1, <2>2
  <2>4. PICK k : k = Len(s) + 1  OBVIOUS
  <2>5. Len(s) \in Nat /\ k \in Nat /\ Len(c) = Len(s) /\ k \notin DOMAIN c
    BY <2>3, <2>4 DEF InOrder
  <2>8. k \in 1..MaxAtOnce
    <3>1. Len(s) < MaxAtOnce  BY <1>15, <2>2 DEF Llm!StartCall
    <3> QED  BY <3>1, <2>4, <2>5 DEF LlmBounds, Llm!Bounds
  <2>6. CASE Llm!Dialect(Vertex)
    <3>1. /\ said' = [said EXCEPT !.calls = Append(s, 1)]
          /\ got' = [got EXCEPT !.calls = Append(c, <<k, k>>)]
      BY <1>15, <2>1, <2>2, <2>4, <2>6 DEF Llm!StartCall, Llm!Event
    <3>2. /\ said'.calls = Append(s, 1) /\ got'.calls = Append(c, <<k, k>>)
          /\ said'.indexed = said.indexed
      BY <3>1 DEF SaidSet, GotSet
    <3>3. said.indexed # FALSE  BY <2>6 DEF Unnumbered, Llm!Dialect, LlmBounds
    <3>4. Piece(<<k, k>>, k, 1)  BY <2>8, Pieces
    <3>6. <<k, k>> \in Seq(1..MaxAtOnce)  BY <2>8
    <3>5. InOrder(Append(s, 1), Append(c, <<k, k>>))
      <4>1. 1 \in 0..1  OBVIOUS
      <4> QED  BY <2>3, <2>4, <3>4, <3>6, <4>1, InOrderAdds, Zenon
    <3> QED  BY <2>1, <3>2, <3>3, <3>5
  <2>7. CASE ~Llm!Dialect(Vertex)
    <3>1. /\ said' = [said EXCEPT !.calls = Append(s, 0)] /\ got' = Llm!Given(k)
          /\ Llm!Slot(k) # k => "merged" \in mishaps'
      BY <1>15, <2>1, <2>2, <2>4, <2>7 DEF Llm!StartCall, Llm!Event
    <3>2. Llm!Slot(k) = k  BY <3>1
    <3>3. got' = [got EXCEPT !.calls = Append(c, <<k>>)]
      BY <2>2, <2>5, <3>1, <3>2 DEF Llm!Given
    <3>4. /\ said'.calls = Append(s, 0) /\ got'.calls = Append(c, <<k>>)
          /\ said'.indexed = said.indexed
      BY <3>1, <3>3 DEF SaidSet, GotSet
    <3>5. said.indexed = FALSE => Len(Append(s, 0)) <= 1
      <4>1. said.indexed = FALSE => k = 1  BY <3>2, SlotIs
      <4>2. PICK z : z = Append(s, 0)  OBVIOUS
      <4>3. Len(z) = k  BY <2>4, <4>2, AppendProperties
      <4> QED  BY <4>1, <4>2, <4>3
    <3>6. Piece(<<k>>, k, 0)  BY <2>8, Pieces
    <3>8. <<k>> \in Seq(1..MaxAtOnce)  BY <2>8
    <3>7. InOrder(Append(s, 0), Append(c, <<k>>))
      <4>1. 0 \in 0..1  OBVIOUS
      <4> QED  BY <2>3, <2>4, <3>6, <3>8, <4>1, InOrderAdds, Zenon
    <3> QED  BY <2>1, <3>4, <3>5, <3>7
  <2> QED  BY <2>6, <2>7
<1>16. CASE Llm!GiveArguments
  <2> SUFFICES ASSUME "merged" \notin mishaps', ~cancelled'
               PROVE  /\ phase' = "reading" /\ InOrder(said'.calls, got'.calls)
                      /\ said'.indexed = FALSE => Len(said'.calls) <= 1
    OBVIOUS
  <2>1. /\ ~cancelled /\ phase = "reading" /\ phase' = "reading" /\ "merged" \notin mishaps
    BY <1>16, MishapsStay DEF Llm!GiveArguments, Llm!Event, Llm!Talks, Llm!turnVars
  <2>2. PICK s \in Seq(0..1), c \in Seq(Seq(1..MaxAtOnce)) : s = said.calls /\ c = got.calls
    BY SaidFields, GotFields
  <2>3. InOrder(s, c) /\ (said.indexed = FALSE => Len(s) <= 1)  BY <2>1, <2>2
  <2>4. PICK n : n = Len(s)  OBVIOUS
  <2>5. PICK i \in DOMAIN s : s[i] # 1  BY <1>16, <2>2 DEF Llm!GiveArguments, Llm!AllGiven
  <2>6. n \in Nat /\ n # 0 /\ s[n] # 1
    <3>1. \A j \in 1..(n - 1) : s[j] = 1  BY <2>1, <2>2, <2>4 DEF LastOnly
    <3>2. i \in 1..n /\ n \in Nat  BY <2>4, <2>5
    <3> QED  BY <2>5, <3>1, <3>2
  <2>7. n \in DOMAIN c  BY <2>3, <2>4, <2>6 DEF InOrder
  <2>8. Llm!Slot(n) = n
    <3>1. said.indexed = FALSE => n = 1  BY <2>3, <2>4, <2>6
    <3> QED  BY <3>1, SlotIs
  <2>9. /\ said' = [said EXCEPT !.calls = [s EXCEPT ![n] = 1]] /\ got' = Llm!Given(n)
    BY <1>16, <2>1, <2>2, <2>4 DEF Llm!GiveArguments, Llm!Event
  <2>10. got' = [got EXCEPT !.calls = [c EXCEPT ![n] = Append(c[n], n)]]
    BY <2>2, <2>7, <2>8, <2>9 DEF Llm!Given
  <2>11. /\ said'.calls = [s EXCEPT ![n] = 1] /\ said'.indexed = said.indexed
         /\ got'.calls = [c EXCEPT ![n] = Append(c[n], n)]
    BY <2>9, <2>10 DEF SaidSet, GotSet
  <2>12. Len([s EXCEPT ![n] = 1]) = Len(s)  BY SeqWith
  <2>13. n \in 1..MaxAtOnce  BY <2>2, <2>4, <2>6 DEF CallsFew, LlmBounds, Llm!Bounds
  <2>14. InOrder([s EXCEPT ![n] = 1], [c EXCEPT ![n] = Append(c[n], n)])
    BY <2>3, <2>4, <2>6, <2>13, InOrderGives
  <2> QED  BY <2>1, <2>3, <2>11, <2>12, <2>14
<1>17. ASSUME NEW r \in {"stop", "length", "filter"}, Llm!Finishes(r)  PROVE Gathered'
  BY <1>17 DEF Llm!Finishes, Llm!Event, Llm!Talks, Llm!AllGiven, Llm!Finalize, Llm!turnVars,
      Llm!boundVars, SaidSet, GotSet
<1>18. CASE Llm!Reports
  <2>1. UNCHANGED cancelled /\ (phase' = "reading" => said'.indexed = said.indexed)
    BY <1>18 DEF Llm!Reports, Llm!Event, Llm!Finalize, Llm!Fails, Llm!End, Llm!turnVars, SaidSet
  <2>2. phase = "reading" /\ ("merged" \in mishaps => "merged" \in mishaps')
    BY <1>18, MishapsStay DEF Llm!Reports, Llm!Talks
  <2>3. \/ phase' = "over"
        \/ said'.calls = said.calls /\ got'.calls = got.calls
        \/ phase' = "answered" /\ got'.calls = <<>>
    BY <1>18, ReportsCalls
  <2>4. phase' \in {"reading", "answered", "over"}
    BY <1>18 DEF Llm!Reports, Llm!Event, Llm!Finalize, Llm!Fails, Llm!End, Llm!Talks
  <2> QED  BY <2>1, <2>2, <2>3, <2>4
<1>19. CASE Llm!Done
  BY <1>19 DEF Llm!Done, Llm!Finalize, Llm!AllGiven, Llm!turnVars, Llm!boundVars, SaidSet, GotSet
<1>20. CASE Llm!Closes
  BY <1>20 DEF Llm!Closes, Llm!Finalize, Llm!turnVars, Llm!boundVars, SaidSet, GotSet
<1>21. CASE Llm!Breaks
  BY <1>21 DEF Llm!Breaks, Llm!HasOutput, Llm!Finalize, Llm!Fails, Llm!End, Llm!Forget,
      Llm!Silence, Llm!Nothing, Llm!turnVars, Llm!boundVars, SaidSet, GotSet
<1>22. CASE Llm!StopTaken
  BY <1>22 DEF Llm!StopTaken, Llm!StopHeard, Llm!End, Llm!Forget, Llm!Silence, Llm!Nothing,
      Llm!turnVars, Llm!boundVars, SaidSet, GotSet
<1>23. CASE Llm!TakeCalls
  BY <1>23 DEF Llm!TakeCalls, Llm!StopHeard, Llm!Rejected, Llm!Row, Llm!Forget, Llm!Silence,
      Llm!Nothing, Llm!turnVars, Llm!boundVars, SaidSet, GotSet
<1>24. CASE Llm!RetryEmpty
  BY <1>24 DEF Llm!RetryEmpty, Llm!StopHeard, Llm!Forget, Llm!Silence, Llm!Nothing, Llm!turnVars,
      Llm!boundVars, SaidSet, GotSet
<1>25. CASE Llm!TakeText
  BY <1>25 DEF Llm!TakeText, Llm!StopHeard, Llm!End, Llm!Row, Llm!Forget, Llm!Silence,
      Llm!Nothing, Llm!turnVars, Llm!boundVars, SaidSet, GotSet
<1>26. CASE UNCHANGED Llm!vars
  BY <1>26 DEF Llm!vars, Llm!turnVars, Llm!rowVars, Llm!boundVars
<1> HIDE DEF Gathered
<1> QED
  BY <1>1, <1>2, <1>3, <1>4, <1>5, <1>6, <1>7, <1>8, <1>9, <1>10, <1>11, <1>12, <1>13, <1>14,
      <1>15, <1>16, <1>17, <1>18, <1>19, <1>20, <1>21, <1>22, <1>23, <1>24, <1>25, <1>26 DEF
      Llm!Next

\* A call has at most two pieces for each one the model began.
Small ==
    /\ \A j \in DOMAIN got.calls : Len(got.calls[j]) <= 2 * MaxAtOnce
    /\ phase = "reading" => \A j \in DOMAIN got.calls :
         Len(got.calls[j]) <= IF Llm!AllGiven THEN 2 * Len(said.calls)
                              ELSE 2 * Len(said.calls) - 1

\* One more piece for a call
LEMMA GivenSmall ==
    ASSUME LlmBounds, said \in SaidSet, got \in GotSet, NEW k \in 1..MaxAtOnce, NEW n \in Int,
           n >= 0, \A j \in DOMAIN got.calls : Len(got.calls[j]) <= n
    PROVE  \A j \in DOMAIN Llm!Given(k).calls : Len(Llm!Given(k).calls[j]) <= n + 1
<1>1. PICK i : i = Llm!Slot(k)  OBVIOUS
<1>2. PICK c \in Seq(Seq(1..MaxAtOnce)) : c = got.calls  BY GotFields
<1>3. CASE i \in DOMAIN c
  <2>1. PICK p \in Seq(1..MaxAtOnce) : p = c[i]  BY <1>3
  <2>2. PICK q : q = Append(p, k)  OBVIOUS
  <2>3. Len(q) <= n + 1 /\ Len(p) \in Nat
    <3>1. Len(q) = Len(p) + 1 /\ Len(p) \in Nat  BY <2>2, AppendProperties
    <3>2. Len(p) <= n  BY <1>2, <1>3, <2>1
    <3> QED  BY <3>1, <3>2
  <2>4. Llm!Given(k).calls = [c EXCEPT ![i] = q]
    BY <1>1, <1>2, <1>3, <2>1, <2>2 DEF Llm!Given, GotSet
  <2>5. \A j \in DOMAIN c : Len(c[j]) <= n /\ Len(c[j]) \in Nat  BY <1>2
  <2> QED  BY <2>3, <2>4, <2>5
<1>4. CASE i \notin DOMAIN c
  <2>6. PICK y, z : y = <<k>> /\ z = Append(c, y)  OBVIOUS
  <2>2. y \in Seq(1..MaxAtOnce) /\ Len(y) = 1  BY <2>6
  <2>3. Llm!Given(k).calls = z  BY <1>1, <1>2, <1>4, <2>6 DEF Llm!Given, GotSet
  <2>4. \A j \in DOMAIN z : z[j] = y \/ (j \in DOMAIN c /\ z[j] = c[j])
    BY <2>2, <2>6, Appended
  <2>5. \A j \in DOMAIN c : Len(c[j]) <= n  BY <1>2
  <2>7. ASSUME NEW j \in DOMAIN z  PROVE Len(z[j]) <= n + 1
    <3>1. CASE z[j] = y
      <4>1. Len(z[j]) = 1  BY <2>2, <3>1
      <4> QED  BY <4>1, OneOrTwo
    <3>2. CASE j \in DOMAIN c /\ z[j] = c[j]
      <4>1. Len(c[j]) \in Nat /\ Len(c[j]) <= n  BY <1>2, <2>5, <3>2
      <4> QED  BY <3>2, <4>1
    <3> QED  BY <2>4, <3>1, <3>2
  <2> QED  BY <2>3, <2>7
<1> QED  BY <1>3, <1>4

LEMMA NothingSmall == \A m : DOMAIN Llm!Nothing(m).calls = {}
BY DEF Llm!Nothing

\* What a response is when it ends, and what an event leaves of it
LEMMA FinalizedCalls ==
    ASSUME NEW g \in GotSet, Llm!Finalize(g)
    PROVE  got'.calls = g.calls /\ got'.text = g.text /\ phase' = "answered"
BY DEF Llm!Finalize, GotSet

LEMMA EventCalls ==
    ASSUME got \in GotSet, NEW e, NEW g \in GotSet, NEW s, Llm!Event(e, g, s)
    PROVE  \/ got' = g /\ phase' = phase /\ shown' = s
           \/ phase' = "answered" /\ got'.calls = got.calls /\ shown' = shown
<1>1. [got EXCEPT !.finish = "cancelled"] \in GotSet  BY GotFields DEF Llm!Reasons
<1>2. [got EXCEPT !.finish = "cancelled"].calls = got.calls  BY DEF GotSet
<1> QED  BY <1>1, <1>2, FinalizedCalls DEF Llm!Event

LEMMA SmallStep ==
    ASSUME LlmBounds, CallTyped, said \in SaidSet, got \in GotSet, CallsFew, Quiet, LastOnly,
        Small, [Llm!Next]_(Llm!vars)
    PROVE  Small'
<1> USE DEF Small
<1>1. CASE Llm!NewTurn
  BY <1>1, NothingSmall DEF Llm!NewTurn
<1>2. CASE Llm!Stop
  BY <1>2, NothingSmall DEF Llm!Stop, Llm!End, Llm!Forget, Llm!Silence, SaidSet, GotSet,
      Llm!AllGiven
<1>3. CASE Llm!StopAtHead
  BY <1>3, NothingSmall DEF Llm!StopAtHead, Llm!End, SaidSet, GotSet, Llm!AllGiven
<1>4. CASE Llm!Begin
  BY <1>4, NothingSmall DEF Llm!Begin, SaidSet, GotSet, Llm!AllGiven
<1>5. CASE Llm!Send
  BY <1>5, NothingSmall DEF Llm!Send, Llm!Worded, SaidSet, GotSet, Llm!AllGiven
<1>6. CASE Llm!Throttled
  BY <1>6, NothingSmall DEF Llm!Throttled, Llm!Fails, Llm!End, Llm!Forget, Llm!Silence, SaidSet,
      GotSet, Llm!AllGiven
<1>7. CASE Llm!Refused
  BY <1>7, NothingSmall DEF Llm!Refused, Llm!Fails, Llm!End, Llm!Forget, Llm!Silence, SaidSet,
      GotSet, Llm!AllGiven
<1>8. CASE Llm!Overflows
  BY <1>8, NothingSmall DEF Llm!Overflows, Llm!Forget, Llm!Silence, SaidSet, GotSet, Llm!AllGiven
<1>9. CASE Llm!WaitOver
  BY <1>9, NothingSmall DEF Llm!WaitOver, SaidSet, GotSet, Llm!AllGiven
<1>10. CASE Llm!StopWhileWaiting
  BY <1>10, NothingSmall DEF Llm!StopWhileWaiting, Llm!End, Llm!Forget, Llm!Silence, SaidSet,
      GotSet, Llm!AllGiven
<1>11. CASE Llm!StopSeen
  BY <1>11, NothingSmall DEF Llm!StopSeen, SaidSet, GotSet, Llm!AllGiven
<1>12. CASE Llm!Answered
  <2>1. CASE phase' = "reading" /\ said' = said /\ got' = got
    <3>2. got.calls = <<>>  BY <1>12 DEF Llm!Answered, Quiet
    <3>1. DOMAIN got.calls = {}  BY <3>2
    <3> QED  BY <2>1, <3>1
  <2>2. CASE phase' = "answered"
    <3>1. PICK n \in 0..MaxAtOnce, cut \in BOOLEAN : got'.calls = Llm!CallsGot(n, cut)
      <4>1. PICK t \in Llm!Pieces, n \in 0..MaxAtOnce, r \in {"stop", "length", "filter"} :
              \E f \in {r, "error"} :
                got' = [text |-> Llm!WholeText(t), calls |-> Llm!CallsGot(n, r # "stop"),
                        done |-> TRUE, finish |-> f]
        BY <1>12, <2>2, AnsweredParts
      <4>2. (r # "stop") \in BOOLEAN /\ got'.calls = Llm!CallsGot(n, r # "stop")  BY <4>1
      <4> QED  BY <4>2
    <3>2. PICK c : c = Llm!CallsGot(n, cut)  OBVIOUS
    <3>3. DOMAIN c = 1..n /\ \A k \in 1..n : c[k] \in {<<k>>, <<k, k>>}
      BY <3>2 DEF Llm!CallsGot
    <3>4. \A k \in 1..n : Len(c[k]) <= 2
      <4> TAKE k \in 1..n
      <4>1. Len(c[k]) = 1 \/ Len(c[k]) = 2
        <5>1. CASE c[k] = <<k>>  BY <5>1, Lengths
        <5>2. CASE c[k] = <<k, k>>  BY <5>2, Lengths
        <5> QED  BY <3>3, <5>1, <5>2
      <4> QED  BY <4>1, OneOrTwo
    <3>5. \A k \in 1..n : 2 <= 2 * MaxAtOnce  BY DEF LlmBounds, Llm!Bounds
    <3>6. \A k \in 1..n : Len(c[k]) \in Nat
      <4> TAKE k \in 1..n
      <4>1. Len(c[k]) = 1 \/ Len(c[k]) = 2
        <5>1. CASE c[k] = <<k>>  BY <5>1, Lengths
        <5>2. CASE c[k] = <<k, k>>  BY <5>2, Lengths
        <5> QED  BY <3>3, <5>1, <5>2
      <4> QED  BY <4>1, OneOrTwo
    <3>7. \A k \in 1..n : Len(c[k]) <= 2 * MaxAtOnce  BY <3>4, <3>5, <3>6 DEF LlmBounds,
        Llm!Bounds
    <3> QED  BY <2>2, <3>1, <3>2, <3>3, <3>7
  <2> QED  BY <1>12, <2>1, <2>2, AnsweredParts
<1>13. CASE Llm!Think
  BY <1>13, NothingSmall DEF Llm!Think, Llm!Event, Llm!Talks, Llm!Finalize, SaidSet, GotSet,
      Llm!AllGiven
<1>14. CASE Llm!Say
  BY <1>14, NothingSmall DEF Llm!Say, Llm!Event, Llm!Talks, Llm!Finalize, SaidSet, GotSet,
      Llm!AllGiven
<1>15. CASE Llm!StartCall
  <2>1. PICK s \in Seq(0..1), c \in Seq(Seq(1..MaxAtOnce)) : s = said.calls /\ c = got.calls
    BY SaidFields, GotFields
  <2>2. PICK k, n : k = Len(s) + 1 /\ n = 2 * Len(s)  OBVIOUS
  <2>3. /\ k \in 1..MaxAtOnce /\ n \in Int /\ n >= 0 /\ Len(s) \in Nat /\ k \in Int
        /\ n + 2 <= 2 * MaxAtOnce
    <3>1. Len(s) < MaxAtOnce /\ Len(s) \in Nat  BY <1>15, <2>1 DEF Llm!StartCall
    <3> QED  BY <3>1, <2>2 DEF LlmBounds, Llm!Bounds
  <2>4. \A j \in DOMAIN c : Len(c[j]) <= n /\ Len(c[j]) \in Nat
    BY <1>15, <2>1, <2>2 DEF Llm!StartCall, Llm!Talks
  <2>5. PICK x \in 0..1, g \in GotSet :
          /\ Llm!Event([said EXCEPT !.calls = Append(s, x)], g, shown)
          /\ \A j \in DOMAIN g.calls : Len(g.calls[j]) <= n + 1 + x /\ Len(g.calls[j]) \in Nat
    <3>1. CASE Llm!Dialect(Vertex)
      <4>0. PICK y, w : y = <<k, k>> /\ w = Append(c, y)  OBVIOUS
      <4>1. PICK g : g = [got EXCEPT !.calls = w]  OBVIOUS
      <4>2. y \in Seq(1..MaxAtOnce) /\ Len(y) = 2  BY <2>3, <4>0
      <4>3. /\ w \in Seq(Seq(1..MaxAtOnce))
            /\ \A j \in DOMAIN w : w[j] = y \/ (j \in DOMAIN c /\ w[j] = c[j])
        BY <4>0, <4>2, Appended
      <4>4. g \in GotSet /\ g.calls = w  BY <4>1, <4>3 DEF GotSet
      <4>6. \A j \in DOMAIN g.calls : Len(g.calls[j]) <= n + 1 + 1 /\ Len(g.calls[j]) \in Nat
        <5>1. ASSUME NEW j \in DOMAIN w  PROVE Len(w[j]) <= n + 2 /\ Len(w[j]) \in Nat
          <6>1. CASE w[j] = y
            <7>1. Len(w[j]) = 2  BY <4>2, <6>1
            <7> QED  BY <2>3, <7>1, OneOrTwo
          <6>2. CASE j \in DOMAIN c /\ w[j] = c[j]  BY <2>3, <2>4, <6>2
          <6> QED  BY <4>3, <6>1, <6>2
        <5>2. n + 2 = n + 1 + 1  BY <2>3
        <5> QED  BY <4>4, <5>1, <5>2
      <4>7. Llm!Event([said EXCEPT !.calls = Append(s, 1)], g, shown)
        BY <1>15, <2>1, <2>2, <3>1, <4>0, <4>1 DEF Llm!StartCall
      <4>8. 1 \in 0..1  OBVIOUS
      <4> QED  BY <4>4, <4>6, <4>7, <4>8
    <3>2. CASE ~Llm!Dialect(Vertex)
      <4>1. PICK g : g = Llm!Given(k)  OBVIOUS
      <4>2. g \in GotSet /\ \A j \in DOMAIN g.calls : Len(g.calls[j]) <= n + 1
        BY <2>1, <2>3, <2>4, <4>1, GivenGot, GivenSmall
      <4>3. \A j \in DOMAIN g.calls : Len(g.calls[j]) \in Nat  BY <4>2 DEF GotSet
      <4>4. Llm!Event([said EXCEPT !.calls = Append(s, 0)], g, shown)
        BY <1>15, <2>1, <2>2, <3>2, <4>1 DEF Llm!StartCall
      <4>5. 0 \in 0..1 /\ n + 1 + 0 = n + 1  BY <2>3
      <4> QED  BY <4>2, <4>3, <4>4, <4>5
    <3> QED  BY <3>1, <3>2
  <2>6. PICK z : z = Append(s, x)  OBVIOUS
  <2>7. Len(z) = k /\ z[k] = x /\ z \in Seq(0..1)  BY <2>2, <2>3, <2>6, AppendProperties
  <2>8. said'.calls = z
    <3>1. said' = [said EXCEPT !.calls = z]  BY <2>5, <2>6, EventSaid
    <3> QED  BY <3>1 DEF SaidSet
  <2>9. Llm!AllGiven' => x = 1
    <3>1. k \in DOMAIN z  BY <2>3, <2>7
    <3> QED  BY <2>7, <2>8, <3>1 DEF Llm!AllGiven
  <2>10. Llm!AllGiven' \/ x = 0
    <3>1. \A i \in DOMAIN z : i = k \/ (i \in DOMAIN s /\ z[i] = s[i])
      BY <2>2, <2>6, Appended
    <3>2. \A i \in DOMAIN s : s[i] = 1  BY <1>15, <2>1 DEF Llm!StartCall, Llm!AllGiven
    <3> QED  BY <2>7, <2>8, <3>1, <3>2 DEF Llm!AllGiven
  <2>11. CASE got' = g
    <3>1. \A j \in DOMAIN g.calls : Len(g.calls[j]) <= 2 * MaxAtOnce
      BY <2>3, <2>5 DEF LlmBounds, Llm!Bounds
    <3>2. Llm!AllGiven' => \A j \in DOMAIN g.calls : Len(g.calls[j]) <= 2 * k
      BY <2>2, <2>3, <2>5, <2>9
    <3>3. ~Llm!AllGiven' => \A j \in DOMAIN g.calls : Len(g.calls[j]) <= 2 * k - 1
      BY <2>2, <2>3, <2>5, <2>10
    <3> QED  BY <2>7, <2>8, <2>11, <3>1, <3>2, <3>3
  <2>12. CASE phase' = "answered" /\ got'.calls = got.calls
    BY <2>12
  <2> QED  BY <2>5, <2>11, <2>12, EventCalls
<1>16. CASE Llm!GiveArguments
  <2>1. PICK s \in Seq(0..1), c \in Seq(Seq(1..MaxAtOnce)) : s = said.calls /\ c = got.calls
    BY SaidFields, GotFields
  <2>2. PICK k, n : k = Len(s) /\ n = 2 * Len(s) - 1  OBVIOUS
  <2>3. phase = "reading" /\ ~Llm!AllGiven  BY <1>16 DEF Llm!GiveArguments, Llm!Talks
  <2>4. PICK i \in DOMAIN s : s[i] # 1  BY <2>1, <2>3 DEF Llm!AllGiven
  <2>5. /\ k \in 1..MaxAtOnce /\ n \in Int /\ n >= 0 /\ k \in Int /\ n + 1 = 2 * k
        /\ n + 1 <= 2 * MaxAtOnce
    <3>1. Len(s) \in Nat /\ Len(s) # 0 /\ Len(s) <= MaxAtOnce  BY <2>1, <2>4 DEF CallsFew
    <3> QED  BY <3>1, <2>2 DEF LlmBounds, Llm!Bounds
  <2>6. \A j \in DOMAIN c : Len(c[j]) <= n /\ Len(c[j]) \in Nat  BY <2>1, <2>2, <2>3
  <2>7. PICK g : g = Llm!Given(k)  OBVIOUS
  <2>8. g \in GotSet /\ \A j \in DOMAIN g.calls : Len(g.calls[j]) <= n + 1
    BY <2>1, <2>5, <2>6, <2>7, GivenGot, GivenSmall
  <2>9. \A j \in DOMAIN g.calls : Len(g.calls[j]) \in Nat  BY <2>8 DEF GotSet
  <2>10. PICK z : z = [s EXCEPT ![k] = 1]  OBVIOUS
  <2>11. Llm!Event([said EXCEPT !.calls = z], g, shown)
    <3>1. [said EXCEPT !.calls = z] = [said EXCEPT !.calls[k] = 1]  BY <2>1, <2>10 DEF SaidSet
    <3> QED  BY <1>16, <2>1, <2>2, <2>7, <3>1 DEF Llm!GiveArguments
  <2>12. said'.calls = z
    <3>1. said' = [said EXCEPT !.calls = z]  BY <2>11, EventSaid
    <3> QED  BY <3>1 DEF SaidSet
  <2>13. Len(z) = k /\ DOMAIN z = DOMAIN s /\ DOMAIN s = 1..k
    BY <2>2, <2>5, <2>10, SeqWith
  <2>14. Llm!AllGiven'
    <3>1. \A j \in 1..(k - 1) : s[j] = 1  BY <2>1, <2>2, <2>3 DEF LastOnly
    <3>2. \A j \in DOMAIN z : z[j] = 1  BY <2>5, <2>10, <2>13, <3>1
    <3> QED  BY <2>12, <3>2 DEF Llm!AllGiven
  <2>15. CASE got' = g
    <3>1. \A j \in DOMAIN g.calls : Len(g.calls[j]) <= 2 * MaxAtOnce
      BY <2>5, <2>8, <2>9 DEF LlmBounds, Llm!Bounds
    <3> QED  BY <2>5, <2>8, <2>12, <2>13, <2>14, <2>15, <3>1
  <2>16. CASE phase' = "answered" /\ got'.calls = got.calls
    BY <2>16
  <2> QED  BY <2>8, <2>11, <2>15, <2>16, EventCalls
<1>17. ASSUME NEW r \in {"stop", "length", "filter"}, Llm!Finishes(r)  PROVE Small'
  BY <1>17, NothingSmall DEF Llm!Finishes, Llm!Event, Llm!Talks, Llm!Finalize, SaidSet, GotSet,
      Llm!AllGiven
<1>18. CASE Llm!Reports
  BY <1>18, ReportsCalls, NothingSmall DEF Llm!Reports, Llm!Talks, Llm!AllGiven
<1>19. CASE Llm!Done
  <2>1. PICK g \in GotSet : Llm!Finalize(g) /\ g.calls = got.calls
    <3>1. [got EXCEPT !.finish = "cancelled"] \in GotSet /\ [got EXCEPT !.done = TRUE] \in GotSet
      BY GotFields DEF Llm!Reasons
    <3>2. /\ [got EXCEPT !.finish = "cancelled"].calls = got.calls
          /\ [got EXCEPT !.done = TRUE].calls = got.calls
      BY DEF GotSet
    <3> QED  BY <1>19, <3>1, <3>2 DEF Llm!Done
  <2> QED  BY <2>1, FinalizedCalls
<1>20. CASE Llm!Closes
  BY <1>20, FinalizedCalls DEF Llm!Closes
<1>21. CASE Llm!Breaks
  BY <1>21, NothingSmall DEF Llm!Breaks, Llm!HasOutput, Llm!Finalize, Llm!Fails, Llm!End,
      Llm!Forget, Llm!Silence, SaidSet, GotSet, Llm!AllGiven
<1>22. CASE Llm!StopTaken
  BY <1>22, NothingSmall DEF Llm!StopTaken, Llm!StopHeard, Llm!End, Llm!Forget, Llm!Silence,
      SaidSet, GotSet, Llm!AllGiven
<1>23. CASE Llm!TakeCalls
  BY <1>23, NothingSmall DEF Llm!TakeCalls, Llm!StopHeard, Llm!Rejected, Llm!Row, Llm!Forget,
      Llm!Silence, SaidSet, GotSet, Llm!AllGiven
<1>24. CASE Llm!RetryEmpty
  BY <1>24, NothingSmall DEF Llm!RetryEmpty, Llm!StopHeard, Llm!Forget, Llm!Silence, SaidSet,
      GotSet, Llm!AllGiven
<1>25. CASE Llm!TakeText
  BY <1>25, NothingSmall DEF Llm!TakeText, Llm!StopHeard, Llm!End, Llm!Row, Llm!Forget,
      Llm!Silence, SaidSet, GotSet, Llm!AllGiven
<1>26. CASE UNCHANGED Llm!vars
  BY <1>26 DEF Llm!vars, Llm!AllGiven
<1> HIDE DEF Small
<1> QED
  BY <1>1, <1>2, <1>3, <1>4, <1>5, <1>6, <1>7, <1>8, <1>9, <1>10, <1>11, <1>12, <1>13, <1>14,
      <1>15, <1>16, <1>17, <1>18, <1>19, <1>20, <1>21, <1>22, <1>23, <1>24, <1>25, <1>26 DEF
      Llm!Next

LEMMA ShownTyped ==
    ASSUME LlmBounds, said \in SaidSet, shown \in Seq(Llm!Pieces), [Llm!Next]_(Llm!vars)
    PROVE  shown' \in Seq(Llm!Pieces)
<1>1. CASE Llm!NewTurn
  BY <1>1 DEF Llm!NewTurn
<1>2. CASE Llm!Stop
  BY <1>2 DEF Llm!Stop, Llm!End, Llm!Forget
<1>3. CASE Llm!StopAtHead
  BY <1>3 DEF Llm!StopAtHead, Llm!End
<1>4. CASE Llm!Begin
  BY <1>4 DEF Llm!Begin
<1>5. CASE Llm!Send
  BY <1>5 DEF Llm!Send, Llm!Worded
<1>6. CASE Llm!Throttled
  BY <1>6 DEF Llm!Throttled, Llm!Fails, Llm!End, Llm!Forget
<1>7. CASE Llm!Refused
  BY <1>7 DEF Llm!Refused, Llm!Fails, Llm!End, Llm!Forget
<1>8. CASE Llm!Overflows
  BY <1>8 DEF Llm!Overflows, Llm!Forget
<1>9. CASE Llm!WaitOver
  BY <1>9 DEF Llm!WaitOver
<1>10. CASE Llm!StopWhileWaiting
  BY <1>10 DEF Llm!StopWhileWaiting, Llm!End, Llm!Forget
<1>11. CASE Llm!StopSeen
  BY <1>11 DEF Llm!StopSeen
<1>12. CASE Llm!Answered
  BY <1>12 DEF Llm!Answered
<1>13. CASE Llm!Think
  BY <1>13 DEF Llm!Think, Llm!Event, Llm!Talks, Llm!Finalize
<1>14. CASE Llm!Say
  <2>1. said.text + 1 \in Llm!Pieces
    <3>1. said.text \in 0..MaxPieces /\ said.text < MaxPieces  BY <1>14, SaidFields DEF Llm!Say,
        Llm!Pieces
    <3> QED  BY <3>1 DEF Llm!Pieces, LlmBounds, Llm!Bounds
  <2>2. PICK z : z = Append(shown, said.text + 1)  OBVIOUS
  <2>3. z \in Seq(Llm!Pieces)  BY <2>1, <2>2, AppendProperties
  <2>4. shown' = z \/ shown' = shown  BY <1>14, <2>2 DEF Llm!Say, Llm!Event
  <2> QED  BY <2>3, <2>4
<1>15. CASE Llm!StartCall
  BY <1>15 DEF Llm!StartCall, Llm!Event, Llm!Talks, Llm!Finalize, Llm!Given, Llm!Slot
<1>16. CASE Llm!GiveArguments
  BY <1>16 DEF Llm!GiveArguments, Llm!Event, Llm!Talks, Llm!Finalize, Llm!Given, Llm!Slot
<1>17. ASSUME NEW r \in {"stop", "length", "filter"}, Llm!Finishes(r)
      PROVE  shown' \in Seq(Llm!Pieces)
  BY <1>17 DEF Llm!Finishes, Llm!Event, Llm!Talks, Llm!Finalize
<1>18. CASE Llm!Reports
  BY <1>18 DEF Llm!Reports, Llm!Event, Llm!Talks, Llm!Finalize, Llm!Fails, Llm!End, Llm!Forget
<1>19. CASE Llm!Done
  BY <1>19 DEF Llm!Done, Llm!Finalize
<1>20. CASE Llm!Closes
  BY <1>20 DEF Llm!Closes, Llm!Finalize
<1>21. CASE Llm!Breaks
  BY <1>21 DEF Llm!Breaks, Llm!HasOutput, Llm!Finalize, Llm!Fails, Llm!End, Llm!Forget
<1>22. CASE Llm!StopTaken
  BY <1>22 DEF Llm!StopTaken, Llm!StopHeard, Llm!End, Llm!Forget
<1>23. CASE Llm!TakeCalls
  BY <1>23 DEF Llm!TakeCalls, Llm!StopHeard, Llm!Rejected, Llm!Row, Llm!Forget
<1>24. CASE Llm!RetryEmpty
  BY <1>24 DEF Llm!RetryEmpty, Llm!StopHeard, Llm!Forget
<1>25. CASE Llm!TakeText
  BY <1>25 DEF Llm!TakeText, Llm!StopHeard, Llm!End, Llm!Row, Llm!Forget
<1>26. CASE UNCHANGED Llm!vars
  BY <1>26 DEF Llm!vars, Llm!turnVars, Llm!rowVars, Llm!boundVars
<1> QED
  BY <1>1, <1>2, <1>3, <1>4, <1>5, <1>6, <1>7, <1>8, <1>9, <1>10, <1>11, <1>12, <1>13, <1>14,
      <1>15, <1>16, <1>17, <1>18, <1>19, <1>20, <1>21, <1>22, <1>23, <1>24, <1>25, <1>26 DEF
      Llm!Next

\* The rows
RowsHeard == \A i \in DOMAIN history : history[i].late = FALSE

LEMMA RowsHeardStep ==
    ASSUME LlmBounds, CallTyped, got \in GotSet, history \in Seq(RowSet), RowsHeard,
           [Llm!Next]_(Llm!vars)
    PROVE  RowsHeard'
<1>1. ASSUME NEW row, NewRow(row)  PROVE row.late = FALSE
  <2>1. cancelled = FALSE
    <3>1. ~Llm!StopHeard  BY <1>1 DEF NewRow, Llm!TakeCalls, Llm!TakeText
    <3>2. cancelled \in BOOLEAN /\ ~cancelled  BY <3>1, Zenon DEF Llm!StopHeard, CallTyped
    <3> QED  BY <3>2
  <2>2. row.late = cancelled  BY <1>1 DEF NewRow, Llm!Row
  <2> QED  BY <2>1, <2>2
<1> QED  BY <1>1, RowsStep DEF RowsHeard

\* A row whose calls run
RunsWhole(row) == row.entire /\ \A k \in DOMAIN row.calls : Llm!Whole(row.calls[k])

LEMMA TakenWhole ==
    ASSUME LlmBounds, CallTyped, said \in SaidSet, got \in GotSet, Stops, Gathered, Llm!TakeCalls,
           ~Llm!Rejected, mishaps' \cap {"merged", "cut", "filtered"} = {}
    PROVE  RunsWhole(Llm!Row(got.text, ~Llm!Rejected))
<1>1. /\ phase = "answered" /\ ~cancelled /\ got.calls # <<>>
      /\ got.finish \notin {"length", "error"}
      /\ "merged" \notin mishaps /\ said.stop \notin {"none", "failed", "filter"}
  BY DEF Llm!TakeCalls, Llm!StopHeard, Llm!Rejected
<1>2. said.stop = "stop" /\ Llm!AllGiven  BY <1>1 DEF Stops
<1>3. PICK s \in Seq(0..1), c \in Seq(Seq(1..MaxAtOnce)) : s = said.calls /\ c = got.calls
  BY SaidFields, GotFields
<1>4. InOrder(s, c)  BY <1>1, <1>3 DEF Gathered
<1>5. PICK row : row = Llm!Row(got.text, ~Llm!Rejected)  OBVIOUS
<1>6. row.calls = c  BY <1>3, <1>5 DEF Llm!Row
<1>7. row.entire
  <2>1. row.entire = (said.stop = "stop" /\ Len(said.calls) = Len(got.calls))
    BY <1>5, Zenon DEF Llm!Row
  <2>2. said.stop = "stop" /\ Len(said.calls) = Len(got.calls)  BY <1>2, <1>3, <1>4 DEF InOrder
  <2> QED  BY <2>1, <2>2
<1>8. ASSUME NEW k \in DOMAIN c  PROVE Llm!Whole(c[k])
  <2>1. k \in 1..Len(s) /\ k \in DOMAIN s  BY <1>4, <1>8 DEF InOrder
  <2>2. Piece(c[k], k, s[k]) /\ s[k] = 1  BY <1>2, <1>3, <1>4, <2>1 DEF InOrder, Llm!AllGiven
  <2>3. Len(c[k]) = 2 /\ \A i \in 1..2 : c[k][i] = k  BY <2>2 DEF Piece
  <2>4. 1 \in 1..2 /\ 2 \in 1..2  OBVIOUS
  <2> QED  BY <2>3, <2>4 DEF Llm!Whole
<1> QED  BY <1>5, <1>6, <1>7, <1>8 DEF RunsWhole

LEMMA RunWholeStep ==
    ASSUME LlmBounds, CallTyped, said \in SaidSet, got \in GotSet, history \in Seq(RowSet), Stops,
           Gathered, Llm!CallsRunWhole, [Llm!Next]_(Llm!vars)
    PROVE  Llm!CallsRunWhole'
<1> SUFFICES ASSUME NEW j \in DOMAIN history', history'[j].ran,
                    mishaps' \cap {"merged", "cut", "filtered"} = {}
             PROVE  RunsWhole(history'[j])
  BY DEF Llm!CallsRunWhole, RunsWhole, Llm!Whole
<1>1. mishaps \cap {"merged", "cut", "filtered"} = {}  BY MishapsStay
<1>2. CASE \E i \in DOMAIN history : history'[j] = history[i]
  BY <1>1, <1>2 DEF Llm!CallsRunWhole, RunsWhole
<1>3. CASE NewRow(history'[j])
  <2>1. PICK row : row = history'[j]  OBVIOUS
  <2>2. CASE Llm!TakeCalls /\ row = Llm!Row(got.text, ~Llm!Rejected)
    <3>1. row.ran = ~Llm!Rejected  BY <2>2, Zenon DEF Llm!Row
    <3>2. ~Llm!Rejected  BY <2>1, <3>1
    <3> QED  BY <2>1, <2>2, <3>2, TakenWhole
  <2>3. ASSUME NEW t, row = Llm!Row(t, FALSE)  PROVE FALSE
    <3>1. row.ran = FALSE  BY <2>3, Zenon DEF Llm!Row
    <3> QED  BY <2>1, <3>1
  <2> QED  BY <1>3, <2>1, <2>2, <2>3 DEF NewRow
<1> QED  BY <1>2, <1>3, RowsStep

LlmTyped ==
    /\ CallTyped /\ said \in SaidSet /\ CallsFew /\ got \in GotSet
    /\ shown \in Seq(Llm!Pieces) /\ history \in Seq(RowSet)
LlmInv ==
    /\ LlmTyped /\ Quiet /\ Streams /\ Sent /\ Seen /\ Heard /\ RowsHeard
    /\ LastOnly /\ Unnumbered /\ Stops /\ Gathered /\ Small /\ Llm!CallsRunWhole

LEMMA LlmInit == LlmBounds /\ Llm!Init => LlmInv
<1> SUFFICES ASSUME LlmBounds, Llm!Init  PROVE LlmInv
  OBVIOUS
<1>1. CallTyped
  <2>1. call \in [model : Llm!Models, streaming : BOOLEAN, attempt : 0..MaxAttempts]
    <3>1. PICK m \in Llm!Models, s \in Streaming :
            call = [model |-> m, streaming |-> s, attempt |-> 0]
      BY DEF Llm!Init
    <3>2. s \in BOOLEAN  BY DEF LlmBounds, Llm!Bounds
    <3> QED  BY <3>1, <3>2 DEF LlmBounds, Llm!Bounds
  <2>2. cancelled \in BOOLEAN  BY Zenon DEF Llm!Init
  <2> QED  BY <2>1, <2>2 DEF CallTyped, Llm!Init, LlmBounds, Llm!Bounds, Stages, Dones
<1>2. said \in SaidSet /\ CallsFew /\ got \in GotSet
  BY SilenceSaid, NothingGot DEF Llm!Init, CallsFew, Llm!Silence, LlmBounds, Llm!Bounds
<1>3. shown \in Seq(Llm!Pieces) /\ history \in Seq(RowSet) /\ DOMAIN history = {}
  BY DEF Llm!Init
<1>4. Quiet /\ Streams /\ Sent /\ Seen /\ Heard /\ LastOnly /\ Stops /\ Gathered
  BY DEF Llm!Init, Quiet, Streams, Sent, Seen, Heard, LastOnly, Stops, Gathered, Llm!Silence,
         Llm!Nothing
<1>5. Unnumbered /\ Small
  BY SilenceIndexed, NothingSmall DEF Llm!Init, Unnumbered, Small
<1>6. RowsHeard /\ Llm!CallsRunWhole  BY <1>3 DEF RowsHeard, Llm!CallsRunWhole
<1> QED  BY <1>1, <1>2, <1>3, <1>4, <1>5, <1>6 DEF LlmInv, LlmTyped

LEMMA LlmNext == LlmBounds /\ LlmInv /\ [Llm!Next]_(Llm!vars) => LlmInv'
<1> SUFFICES ASSUME LlmBounds, LlmInv, [Llm!Next]_(Llm!vars)  PROVE LlmInv'
  OBVIOUS
<1>1. LlmTyped'
  BY CallTypedStep, SaidTypedStep, FewStep, GotTypedStep, ShownTyped, RowsStep DEF LlmInv,
      LlmTyped
<1>2. Quiet' /\ Streams' /\ Sent'  BY QuietStep, StreamsStep, SentStep DEF LlmInv, LlmTyped
<1>3. Seen' /\ Heard' /\ RowsHeard'  BY SeenStep, HeardStep, RowsHeardStep DEF LlmInv, LlmTyped
<1>4. LastOnly' /\ Unnumbered' /\ Stops'
  BY LastOnlyStep, UnnumberedStep, StopsStep DEF LlmInv, LlmTyped
<1>5. Gathered' /\ Small'  BY GatheredStep, SmallStep DEF LlmInv, LlmTyped
<1>6. Llm!CallsRunWhole'  BY RunWholeStep DEF LlmInv, LlmTyped
<1> QED  BY <1>1, <1>2, <1>3, <1>4, <1>5, <1>6 DEF LlmInv

LEMMA LlmCorrect == LlmBounds /\ Llm!Spec => []LlmInv
<1> SUFFICES ASSUME LlmBounds PROVE Llm!Spec => []LlmInv
  OBVIOUS
<1>1. Llm!Init => LlmInv  BY LlmInit
<1>2. LlmInv /\ [Llm!Next]_(Llm!vars) => LlmInv'  BY LlmNext
<1> QED  BY <1>1, <1>2, PTL DEF Llm!Spec

\* What a provider collects and the loop keeps has its type.
THEOREM LlmTypes == LlmBounds /\ Llm!Spec => []Llm!TypeOK
<1> SUFFICES ASSUME LlmBounds PROVE Llm!Spec => []Llm!TypeOK
  OBVIOUS
<1>1. LlmInv => Llm!TypeOK
  <2> SUFFICES ASSUME LlmInv  PROVE Llm!TypeOK
    OBVIOUS
  <2>1. got.calls \in Seq(Llm!Collected)
    <3>1. PICK c \in Seq(Seq(1..MaxAtOnce)) : c = got.calls  BY GotFields DEF LlmInv, LlmTyped
    <3>2. ASSUME NEW k \in DOMAIN c  PROVE c[k] \in Llm!Collected
      <4>1. PICK p \in Seq(1..MaxAtOnce) : p = c[k]  BY <3>2
      <4>2. PICK n : n = Len(p)  OBVIOUS
      <4>3. n \in Nat /\ n <= 2 * MaxAtOnce /\ p \in [1..n -> 1..MaxAtOnce]
        BY <3>1, <3>2, <4>1, <4>2, LenProperties DEF LlmInv, Small
      <4>4. n \in 0..(2 * MaxAtOnce)  BY <4>3 DEF LlmBounds, Llm!Bounds
      <4> QED  BY <4>1, <4>3, <4>4 DEF Llm!Collected
    <3>3. Len(c) \in Nat /\ DOMAIN c = 1..Len(c) /\ c \in [1..Len(c) -> Seq(1..MaxAtOnce)]
      BY LenProperties
    <3>4. c \in Seq(Llm!Collected)
      <4>1. PICK n \in Nat : n = Len(c)  BY <3>3
      <4>2. \A k \in 1..n : c[k] \in Llm!Collected  BY <3>2, <3>3, <4>1
      <4>3. c \in [1..n -> Seq(1..MaxAtOnce)]  BY <3>3, <4>1
      <4>4. c = [k \in 1..n |-> c[k]]  BY <4>3
      <4>5. c \in [1..n -> Llm!Collected]  BY <4>2, <4>4
      <4> QED  BY <4>5
    <3> QED  BY <3>1, <3>4
  <2>2. ASSUME NEW i \in DOMAIN history
        PROVE  /\ history[i].text \in Seq(Llm!Pieces)
               /\ history[i].private \in Llm!Models \cup {Llm!Nobody}
               /\ history[i].ran \in BOOLEAN
    <3>1. history[i] \in RowSet  BY <2>2 DEF LlmInv, LlmTyped
    <3> QED  BY <3>1 DEF RowSet
  <2>3. /\ got.text \in Seq(Llm!Pieces) /\ got.finish \in Llm!Reasons /\ got.done \in BOOLEAN
    BY GotFields DEF LlmInv, LlmTyped
  <2>4. /\ phase \in Stages
        /\ call \in [model : Llm!Models, streaming : BOOLEAN, attempt : 0..MaxAttempts]
        /\ cancelled \in BOOLEAN /\ empties \in 0..1 /\ outcome \in Dones
        /\ requests \in 0..MaxRequests /\ stops \in 0..MaxStops
        /\ mishaps \subseteq {"merged", "cut", "filtered", "dropped"}
        /\ said \in SaidSet /\ shown \in Seq(Llm!Pieces)
    BY Zenon DEF LlmInv, LlmTyped, CallTyped
  <2>5. \A i \in DOMAIN history : /\ history[i].text \in Seq(Llm!Pieces)
                                  /\ history[i].private \in Llm!Models \cup {Llm!Nobody}
                                  /\ history[i].ran \in BOOLEAN
    BY <2>2
  <2>6. LlmBounds => Llm!Bounds  BY DEF LlmBounds
  <2> QED  BY <2>1, <2>3, <2>4, <2>5, <2>6, Zenon DEF Llm!TypeOK, Stages, Dones, SaidSet
<1> QED  BY <1>1, LlmCorrect, PTL

\* A call runs with the name and the arguments the model gave it, and none runs of a
\* response that was broken off, but for the three ways the code lets through
\* (agent.py, _handle_tool_calls; the providers' finalize).
THEOREM LlmCallsWhole == LlmBounds /\ Llm!Spec => []Llm!CallsRunWhole
<1>1. LlmInv => Llm!CallsRunWhole  BY DEF LlmInv
<1> QED  BY <1>1, LlmCorrect, PTL

\* What on_chunk was given is what the response says, each piece once, through
\* retries, cancellations and streams that break.
THEOREM LlmShown == LlmBounds /\ Llm!Spec => []Llm!ShownIsKept
<1>1. LlmInv => Llm!ShownIsKept  BY DEF LlmInv, Seen, Llm!ShownIsKept
<1> QED  BY <1>1, LlmCorrect, PTL

\* A turn that was stopped adds no row and no answer (agent.py, _check_cancelled).
THEOREM LlmStops == LlmBounds /\ Llm!Spec => []Llm!StopsAreHeard
<1>1. LlmInv => Llm!StopsAreHeard  BY DEF LlmInv, Heard, RowsHeard, Llm!StopsAreHeard
<1> QED  BY <1>1, LlmCorrect, PTL

\* A request says what the history says, and private items go back to their model
\* only (openai_responses.py, _input).
THEOREM LlmRequests == LlmBounds /\ Llm!Spec => []Llm!RequestsSayHistory
<1>1. LlmInv => Llm!RequestsSayHistory
  <2> SUFFICES ASSUME LlmInv, phase \in {"asking", "waiting", "reading"}, NEW i \in DOMAIN sent
               PROVE  /\ sent[i].text = history[i].text
                      /\ sent[i].private \in {Llm!Nobody, call.model}
                      /\ \A k \in DOMAIN history[i].calls :
                           sent[i].calls[k][1] = history[i].calls[k][1]
    BY DEF Llm!RequestsSayHistory
  <2>1. sent = Llm!Worded(call.model)  BY DEF LlmInv, Sent
  <2>2. i \in DOMAIN history  BY <2>1 DEF Llm!Worded
  <2>3. PICK row : row = history[i]  OBVIOUS
  <2>4. /\ sent[i].text = IF Llm!Replayed(call.model, row) THEN row.items ELSE row.text
        /\ sent[i].private = IF Llm!Replayed(call.model, row) THEN row.private ELSE Llm!Nobody
        /\ sent[i].calls = [k \in DOMAIN row.calls |->
                              IF call.model \in Vertex /\ ~Llm!Whole(row.calls[k])
                              THEN <<row.calls[k][1]>> ELSE row.calls[k]]
    BY <2>1, <2>2, <2>3 DEF Llm!Worded
  <2>5. \A k \in DOMAIN row.calls : sent[i].calls[k][1] = row.calls[k][1]  BY <2>4
  <2> QED  BY <2>3, <2>4, <2>5 DEF Llm!Replayed
<1> QED  BY <1>1, LlmCorrect, PTL
=============================================================================
