-------------------------- MODULE TurnQueue_proofs --------------------------
(***************************************************************************)
(* Proofs about TurnQueue, for any set of submissions and any bounds: its  *)
(* types; a conversation runs one agent turn at a time; what was accepted  *)
(* is kept, in order, until its turn; futures follow their turn; and the   *)
(* whole implements the one-slot server of TurnService.                    *)
(***************************************************************************)
EXTENDS TurnQueue, TLAPS, SequenceTheorems, WellFoundedInduction

\* The busy flag, the cancel handles and the tasks agree, and a dead process
\* has none of them.  Inductive, and stronger than OneTurnAtATime and
\* HandlesMatchTurn: it also covers a turn whose task is not created yet, and
\* the window between a crash and the restart.
SlotInv ==
    /\ start # "none" =>
         busy /\ agentTask = None /\ current # None /\ \A t \in Submissions : ~Occupied(t)
    /\ \A t \in Submissions : Occupied(t) => busy /\ agentTask = t /\ current = t
    /\ ~busy => agentTask = None /\ start = "none"
    /\ ~up => /\ ~busy
              /\ \A s \in Submissions : call[s] \notin {"lock", "emit"}
              /\ \A t \in Submissions : task[t] \notin Live \cup Tail4Turn

IInv == TypeOK /\ SlotInv

-----------------------------------------------------------------------------
(* Sequences and the inbox *)

\* a non-empty set of positions has a first one
LEMMA FirstPosition ==
    ASSUME NEW T \in SUBSET Nat, T # {}
    PROVE  \E n \in T : \A m \in T : n <= m
<1>1. PICK n \in T : \A m \in T : ~ (<<m, n>> \in OpToRel(<, Nat))
  BY NatLessThanWellFounded, WFMin
<1>2. ASSUME NEW m \in T PROVE n <= m
  <2>1. m \in Nat /\ n \in Nat
    OBVIOUS
  <2>2. ~ (<<m, n>> \in {ss \in Nat \X Nat : ss[1] < ss[2]})
    BY <1>1 DEF OpToRel
  <2>3. ~ (m < n)
    BY <2>1, <2>2
  <2> QED
    BY <2>1, <2>3
<1> QED
  BY <1>2

\* the run of USER entries at the head of the inbox is well defined
LEMMA UserRunDefined ==
    ASSUME inbox \in Seq(Submissions)
    PROVE  /\ UserRun \in 0..Len(inbox)
           /\ \A i \in 1..UserRun : inbox[i] \in UserTurns
           /\ UserRun = Len(inbox) \/ inbox[UserRun + 1] \notin UserTurns
<1> DEFINE T == {i \in 1..Len(inbox) : inbox[i] \notin UserTurns}
           P(n) == /\ \A i \in 1..n : inbox[i] \in UserTurns
                   /\ n = Len(inbox) \/ inbox[n + 1] \notin UserTurns
<1>0. Len(inbox) \in Nat
  BY LenProperties
<1>1. \E n \in 0..Len(inbox) : P(n)
  <2>1. CASE T = {}
    BY <1>0, <2>1
  <2>2. CASE T # {}
    <3>0. T \in SUBSET Nat
      BY <1>0
    <3>1. PICK k \in T : \A m \in T : k <= m
      <4> HIDE DEF T
      <4> QED
        BY <2>2, <3>0, FirstPosition
    <3>2. k - 1 \in 0..Len(inbox) /\ P(k - 1)
      BY <1>0, <3>1
    <3> QED
      BY <3>2
  <2> QED
    BY <2>1, <2>2
<1> QED
  BY <1>1 DEF UserRun

\* a drain takes at least one entry, and only entries that are there
LEMMA PopLengthInRange ==
    ASSUME inbox \in Seq(Submissions), inbox # <<>>
    PROVE  PopLength \in 1..Len(inbox)
<1>1. Len(inbox) \in Nat /\ Len(inbox) # 0
  BY EmptySeq
<1>2. CASE inbox[1] \in UserTurns
  <2>1. UserRun # 0
    BY <1>1, <1>2, UserRunDefined
  <2> QED
    BY <1>1, <1>2, <2>1, UserRunDefined DEF PopLength
<1>3. CASE inbox[1] \notin UserTurns
  BY <1>1, <1>3 DEF PopLength
<1> QED
  BY <1>2, <1>3

\* the two halves of the inbox and the head of the batch have their types
LEMMA PopTypes ==
    ASSUME inbox \in Seq(Submissions), inbox # <<>>
    PROVE  /\ SubSeq(inbox, 1, PopLength) \in Seq(Submissions)
           /\ SubSeq(inbox, PopLength + 1, Len(inbox)) \in Seq(Submissions)
           /\ inbox[PopLength] \in Submissions
<1>1. PopLength \in 1..Len(inbox) /\ Len(inbox) \in Nat
  BY PopLengthInRange, LenProperties
<1>2. \A i \in 1..Len(inbox) : inbox[i] \in Submissions
  BY ElementOfSeq
<1>3. SubSeq(inbox, 1, PopLength) \in Seq(Submissions)
  BY <1>1, <1>2, SubSeqProperties
<1>4. SubSeq(inbox, PopLength + 1, Len(inbox)) \in Seq(Submissions)
  BY <1>1, <1>2, SubSeqProperties
<1> QED
  BY <1>1, <1>2, <1>3, <1>4

-----------------------------------------------------------------------------
(* Types *)

\* what BeginTurn writes has the right types when its arguments do
LEMMA BeginTurnTypes ==
    ASSUME TypeOK, NEW t \in Submissions, NEW holder \in Holders,
           NEW subs \in Seq(Submissions), NEW given \in SubOrNone,
           BeginTurn(t, holder, subs, given)
    PROVE  /\ lock' \in Holders /\ busy' \in BOOLEAN /\ current' \in SubOrNone
           /\ start' \in StartPC
           /\ batch' \in [Submissions -> Seq(Submissions)]
           /\ setup' \in [Submissions -> SubOrNone]
BY DEF BeginTurn, TypeOK, SubOrNone, StartPC

LEMMA PopAndStartTypes ==
    ASSUME TypeOK, inbox # <<>>, NEW holder \in Holders, PopAndStart(holder)
    PROVE  /\ lock' \in Holders /\ busy' \in BOOLEAN /\ current' \in SubOrNone
           /\ start' \in StartPC
           /\ batch' \in [Submissions -> Seq(Submissions)]
           /\ setup' \in [Submissions -> SubOrNone]
           /\ inbox' \in Seq(Submissions)
           /\ data' \subseteq Submissions
<1> DEFINE n == PopLength
           popped == SubSeq(inbox, 1, n)
           head == inbox[n]
           given == OwnSetup(head, head \in data /\ head \notin UserTurns)
<1>1. /\ popped \in Seq(Submissions) /\ head \in Submissions
      /\ SubSeq(inbox, n + 1, Len(inbox)) \in Seq(Submissions)
  BY PopTypes DEF TypeOK
<1>2. given \in SubOrNone
  BY <1>1 DEF OwnSetup, SubOrNone
<1>3. /\ inbox' = SubSeq(inbox, n + 1, Len(inbox))
      /\ data' = data \ Members(popped)
      /\ BeginTurn(head, holder, popped, given)
  BY DEF PopAndStart
<1> HIDE DEF n, popped, head, given
<1>4. /\ lock' \in Holders /\ busy' \in BOOLEAN /\ current' \in SubOrNone
      /\ start' \in StartPC
      /\ batch' \in [Submissions -> Seq(Submissions)]
      /\ setup' \in [Submissions -> SubOrNone]
  BY <1>1, <1>2, <1>3, BeginTurnTypes
<1> QED
  BY <1>1, <1>3, <1>4 DEF TypeOK, n

LEMMA LeaveStartTypes ==
    ASSUME TypeOK, NEW pc \in CallPC, LeaveStart(pc)
    PROVE  /\ call' \in [Submissions -> CallPC]
           /\ task' \in [Submissions -> TaskPC]
           /\ lock' \in Holders
           /\ start' \in StartPC
BY DEF LeaveStart, TypeOK, TaskPC, Live, Tail4Turn, StartPC, Holders, Free, SubOrNone

LEMMA HoldersTypes ==
    /\ Free \in Holders /\ Boot \in Holders
    /\ \A s \in Submissions : Call(s) \in Holders /\ Task(s) \in Holders
BY DEF Free, Boot, Call, Task, Holders, SubOrNone

THEOREM TypeInit == Init => TypeOK
<1> SUFFICES ASSUME Init PROVE TypeOK
  OBVIOUS
<1>1. 0 \in 0..MaxCancels /\ 0 \in 0..MaxCrashes
  BY Parameters
<1>2. <<>> \in Seq(Submissions)
  BY EmptySeq
<1> QED
  BY <1>1, <1>2, HoldersTypes
     DEF Init, TypeOK, SubOrNone, CallPC, FutState, StartPC, TaskPC

\* every action writes values of the declared types
THEOREM TypeStep == TypeOK /\ [Next]_vars => TypeOK'
<1> SUFFICES ASSUME TypeOK, [Next]_vars PROVE TypeOK'
  OBVIOUS
<1> USE DEF callVars, taskVars, queueVars, transport, env
<1>1. ASSUME NEW s \in Submissions, Enqueue(s) PROVE TypeOK'
  BY <1>1 DEF Enqueue, TypeOK, CallPC, FutState
<1>2. ASSUME NEW s \in Submissions, CallStep(s) PROVE TypeOK'
  <2>1. CASE EmitUserMessage(s)
    BY <2>1, HoldersTypes DEF EmitUserMessage, TypeOK, CallPC
  <2>2. CASE DropLimited(s)
    BY <2>2 DEF DropLimited, TypeOK, CallPC, FutState
  <2>3. CASE QueueTurn(s)
    <3>1. Append(inbox, s) \in Seq(Submissions)
      BY DEF TypeOK
    <3>2. kill' \subseteq Submissions /\ cancelled' \subseteq Submissions
      BY <2>3 DEF QueueTurn, TypeOK, CancelTask, SubOrNone
    <3> QED
      BY <2>3, <3>1, <3>2, HoldersTypes DEF QueueTurn, TypeOK, CallPC
  <2>4. CASE StartNow(s)
    <3>1. <<s>> \in Seq(Submissions) /\ OwnSetup(s, TRUE) \in SubOrNone
      BY DEF OwnSetup, SubOrNone
    <3>2. /\ lock' \in Holders /\ busy' \in BOOLEAN /\ current' \in SubOrNone
          /\ start' \in StartPC
          /\ batch' \in [Submissions -> Seq(Submissions)]
          /\ setup' \in [Submissions -> SubOrNone]
      BY <2>4, <3>1, BeginTurnTypes, HoldersTypes DEF StartNow
    <3> QED
      BY <2>4, <3>2 DEF StartNow, TypeOK, CallPC
  <2> QED
    BY <1>2, <2>1, <2>2, <2>3, <2>4 DEF CallStep
<1>3. ASSUME NEW s \in Submissions, AbortCall(s) PROVE TypeOK'
  BY <1>3, HoldersTypes DEF AbortCall, TypeOK, CallPC, FutState
<1>4. ASSUME NEW s \in Submissions, AbandonFuture(s) PROVE TypeOK'
  BY <1>4 DEF AbandonFuture, TypeOK, FutState
<1>5. CASE StatusPublished
  <2>1. setup' \in [Submissions -> SubOrNone] /\ lastUser' \in SubOrNone /\ lastSetup' \in SubOrNone
    <3>1. CASE current \in UserTurns
      BY <1>5, <3>1, Parameters DEF StatusPublished, TypeOK, SubOrNone
    <3>2. CASE current \notin UserTurns
      BY <1>5, <3>2 DEF StatusPublished, TypeOK, SubOrNone
    <3> QED
      BY <3>1, <3>2
  <2> QED
    BY <1>5, <2>1 DEF StatusPublished, TypeOK, StartPC
<1>6. CASE SetupDone
  BY <1>6 DEF SetupDone, TypeOK, StartPC
<1>7. CASE CreateTask
  BY <1>7, LeaveStartTypes DEF CreateTask, TypeOK, CallPC
<1>8. CASE AbortAtStatus
  BY <1>8, LeaveStartTypes DEF AbortAtStatus, TypeOK, CallPC, SubOrNone
<1>9. CASE AbortAtSetup
  BY <1>9, LeaveStartTypes DEF AbortAtSetup, TypeOK, CallPC
<1>10. ASSUME NEW t \in Submissions, RunStep(t) PROVE TypeOK'
  <2> USE DEF Step, Caught
  <2>1. CASE BeginRun(t)
    BY <2>1 DEF BeginRun, TypeOK, TaskPC, Live
  <2>2. CASE AgentReturns(t)
    BY <2>2 DEF AgentReturns, TypeOK, TaskPC, Live
  <2>3. CASE Unwind(t)
    BY <2>3 DEF Unwind, TypeOK, TaskPC, Live
  <2>4. CASE GatherForwards(t)
    BY <2>4 DEF GatherForwards, TypeOK, TaskPC, Live
  <2>5. CASE WaitForLock(t)
    BY <2>5 DEF WaitForLock, TypeOK, TaskPC, Live
  <2>6. CASE Reset(t)
    BY <2>6 DEF Reset, TypeOK, TaskPC, Tail4Turn, SubOrNone
  <2>7. CASE DieInFinally(t)
    BY <2>7 DEF DieInFinally, TypeOK, TaskPC
  <2>8. CASE ResolveFutures(t)
    <3>1. fut' \in [Submissions -> FutState]
      BY <2>8 DEF ResolveFutures, TypeOK, FutState
    <3> QED
      BY <2>8, <3>1 DEF ResolveFutures, TypeOK, TaskPC, Tail4Turn
  <2>9. CASE DrainNothing(t)
    BY <2>9 DEF DrainNothing, TypeOK, TaskPC
  <2>10. CASE Drain(t)
    <3>1. /\ lock' \in Holders /\ busy' \in BOOLEAN /\ current' \in SubOrNone
          /\ start' \in StartPC
          /\ batch' \in [Submissions -> Seq(Submissions)]
          /\ setup' \in [Submissions -> SubOrNone]
          /\ inbox' \in Seq(Submissions) /\ data' \subseteq Submissions
      BY <2>10, PopAndStartTypes, HoldersTypes DEF Drain
    <3> QED
      BY <2>10, <3>1 DEF Drain, TypeOK, TaskPC, Tail4Turn
  <2> QED
    BY <1>10, <2>1, <2>2, <2>3, <2>4, <2>5, <2>6, <2>7, <2>8, <2>9, <2>10 DEF RunStep
<1>11. CASE CancelTurn
  <2>1. cancels' \in 0..MaxCancels
    BY <1>11, Parameters DEF CancelTurn, TypeOK
  <2>2. kill' \subseteq Submissions /\ cancelled' \subseteq Submissions
    BY <1>11 DEF CancelTurn, TypeOK, CancelTask, SubOrNone
  <2> QED
    BY <1>11, <2>1, <2>2 DEF CancelTurn, TypeOK
<1>12. CASE Crash
  <2>1. crashes' \in 0..MaxCrashes
    BY <1>12, Parameters DEF Crash, TypeOK
  <2>2. /\ call' \in [Submissions -> CallPC]
        /\ fut' \in [Submissions -> FutState]
        /\ task' \in [Submissions -> TaskPC]
    BY <1>12 DEF Crash, TypeOK, CallPC, FutState, TaskPC
  <2> QED
    BY <1>12, <2>1, <2>2, HoldersTypes DEF Crash, TypeOK, SubOrNone, StartPC
<1>13. CASE Restart
  <2>1. CASE inbox = <<>>
    BY <1>13, <2>1 DEF Restart, TypeOK
  <2>2. CASE inbox # <<>>
    <3>1. /\ lock' \in Holders /\ busy' \in BOOLEAN /\ current' \in SubOrNone
          /\ start' \in StartPC
          /\ batch' \in [Submissions -> Seq(Submissions)]
          /\ setup' \in [Submissions -> SubOrNone]
          /\ inbox' \in Seq(Submissions) /\ data' \subseteq Submissions
      BY <1>13, <2>2, PopAndStartTypes, HoldersTypes DEF Restart
    <3> QED
      BY <1>13, <2>2, <3>1 DEF Restart, TypeOK
  <2> QED
    BY <2>1, <2>2
<1>14. CASE UNCHANGED vars
  BY <1>14 DEF vars, TypeOK
<1> QED
  BY <1>1, <1>2, <1>3, <1>4, <1>5, <1>6, <1>7, <1>8, <1>9, <1>10, <1>11, <1>12,
     <1>13, <1>14 DEF Next, StartStep

\* The variables keep their types for every instance.
THEOREM TypeCorrect == Spec => []TypeOK
  BY TypeInit, TypeStep, PTL DEF Spec

-----------------------------------------------------------------------------
(* One turn at a time *)

THEOREM SlotInit == Init => SlotInv
  BY DEF Init, SlotInv, Occupied, Live

\* A start takes a free slot: nothing was live, so nothing is overwritten.
LEMMA BeginTurnSlot ==
    ASSUME IInv, ~busy, NEW t \in Submissions, NEW holder, NEW subs, NEW given,
           BeginTurn(t, holder, subs, given),
           agentTask' = agentTask, up' = TRUE,
           \A u \in Submissions : Occupied(u)' => Occupied(u)
    PROVE  SlotInv'
<1>1. busy' = TRUE /\ current' = t /\ current' # None /\ agentTask' = None
  BY Parameters DEF IInv, SlotInv, BeginTurn
<1>2. \A u \in Submissions : ~Occupied(u)'
  BY DEF IInv, SlotInv
<1> QED
  BY <1>1, <1>2 DEF SlotInv

\* Leaving _start_turn without creating the task leaves no task behind.
LEMMA LeaveStartSlot ==
    ASSUME IInv, start # "none", LeaveStart("gone")
    PROVE  /\ \A u \in Submissions : ~Occupied(u)'
           /\ start' = "none"
<1>1. \A u \in Submissions : ~Occupied(u)
  BY DEF IInv, SlotInv
<1> QED
  BY <1>1 DEF LeaveStart, Occupied, Live, IInv, TypeOK

\* Each action keeps the slot: a turn leaves it only by its reset, or dies in it.
THEOREM SlotStep == IInv /\ [Next]_vars => SlotInv'
<1> SUFFICES ASSUME IInv, [Next]_vars PROVE SlotInv'
  OBVIOUS
<1> USE DEF callVars, taskVars, queueVars, transport, env
<1>a. TypeOK /\ SlotInv
  BY DEF IInv
<1>1. ASSUME NEW s \in Submissions, Enqueue(s) PROVE SlotInv'
  BY <1>1, <1>a DEF Enqueue, SlotInv, Occupied, TypeOK
<1>2. ASSUME NEW s \in Submissions, CallStep(s) PROVE SlotInv'
  <2>1. CASE EmitUserMessage(s)
    BY <2>1, <1>a DEF EmitUserMessage, SlotInv, Occupied, TypeOK
  <2>2. CASE DropLimited(s)
    BY <2>2, <1>a DEF DropLimited, SlotInv, Occupied, TypeOK
  <2>3. CASE QueueTurn(s)
    BY <2>3, <1>a DEF QueueTurn, SlotInv, Occupied, TypeOK
  <2>4. CASE StartNow(s)
    <3>1. up = TRUE /\ up' = TRUE /\ ~busy
      BY <2>4, <1>a DEF StartNow, AtDispatch, SlotInv, TypeOK
    <3>2. agentTask' = agentTask /\ \A u \in Submissions : Occupied(u)' => Occupied(u)
      BY <2>4 DEF StartNow, Occupied
    <3> QED
      BY <2>4, <3>1, <3>2, BeginTurnSlot DEF StartNow
  <2> QED
    BY <1>2, <2>1, <2>2, <2>3, <2>4 DEF CallStep
<1>3. ASSUME NEW s \in Submissions, AbortCall(s) PROVE SlotInv'
  BY <1>3, <1>a DEF AbortCall, SlotInv, Occupied, TypeOK
<1>4. ASSUME NEW s \in Submissions, AbandonFuture(s) PROVE SlotInv'
  BY <1>4, <1>a DEF AbandonFuture, SlotInv, Occupied
<1>5. CASE StatusPublished
  BY <1>5, <1>a DEF StatusPublished, SlotInv, Occupied
<1>6. CASE SetupDone
  BY <1>6, <1>a DEF SetupDone, SlotInv, Occupied
<1>7. CASE CreateTask
  <2>1. /\ start' = "none" /\ agentTask' = current /\ busy /\ busy' = busy
        /\ current' = current /\ up /\ up' = up
    BY <1>7, <1>a DEF CreateTask, LeaveStart, SlotInv, TypeOK
  <2>2. \A u \in Submissions : Occupied(u)' => u = current
    BY <1>7, <1>a DEF CreateTask, LeaveStart, SlotInv, Occupied, Live, TypeOK
  <2> QED
    BY <2>1, <2>2 DEF SlotInv
<1>8. CASE AbortAtStatus
  <2>1. /\ start' = "none" /\ \A u \in Submissions : ~Occupied(u)'
    BY <1>8, LeaveStartSlot DEF AbortAtStatus
  <2>2. agentTask' = None /\ up' = up /\ up
    BY <1>8, <1>a DEF AbortAtStatus, SlotInv, TypeOK
  <2> QED
    BY <2>1, <2>2 DEF SlotInv
<1>9. CASE AbortAtSetup
  <2>1. /\ start' = "none" /\ \A u \in Submissions : ~Occupied(u)'
    BY <1>9, LeaveStartSlot DEF AbortAtSetup
  <2>2. agentTask' = None /\ up' = up /\ up
    BY <1>9, <1>a DEF AbortAtSetup, SlotInv, TypeOK
  <2> QED
    BY <2>1, <2>2 DEF SlotInv
<1>10. ASSUME NEW t \in Submissions, RunStep(t) PROVE SlotInv'
  <2> USE DEF Step, Caught
  <2>1. CASE BeginRun(t)
    BY <2>1, <1>a DEF BeginRun, SlotInv, Occupied, TypeOK, Live, Tail4Turn
  <2>2. CASE AgentReturns(t)
    BY <2>2, <1>a DEF AgentReturns, SlotInv, Occupied, TypeOK, Live, Tail4Turn
  <2>3. CASE Unwind(t)
    BY <2>3, <1>a DEF Unwind, SlotInv, Occupied, TypeOK, Live, Tail4Turn
  <2>4. CASE GatherForwards(t)
    BY <2>4, <1>a DEF GatherForwards, EmitOver, SlotInv, Occupied, TypeOK, Live, Tail4Turn
  <2>5. CASE WaitForLock(t)
    BY <2>5, <1>a DEF WaitForLock, AtReset, EmitOver, SlotInv, Occupied, TypeOK, Live, Tail4Turn
  <2>6. CASE Reset(t)
    <3>1. Occupied(t)
      BY <2>6 DEF Reset, AtReset, EmitOver, Occupied, Live
    <3>2. \A u \in Submissions : ~Occupied(u)'
      BY <2>6, <3>1, <1>a DEF Reset, SlotInv, Occupied, Live, TypeOK
    <3>3. start' = "none" /\ agentTask' = None /\ up' = up /\ up
      BY <2>6, <3>1, <1>a DEF Reset, SlotInv, Occupied, TypeOK
    <3> QED
      BY <3>2, <3>3 DEF SlotInv
  <2>7. CASE DieInFinally(t)
    BY <2>7, <1>a DEF DieInFinally, SlotInv, Occupied, TypeOK, Live, Tail4Turn
  <2>8. CASE ResolveFutures(t)
    BY <2>8, <1>a DEF ResolveFutures, SlotInv, Occupied, TypeOK, Live, Tail4Turn
  <2>9. CASE DrainNothing(t)
    BY <2>9, <1>a DEF DrainNothing, SlotInv, Occupied, TypeOK, Live, Tail4Turn
  <2>10. CASE Drain(t)
    <3>1. up = TRUE /\ up' = TRUE
      BY <2>10, <1>a DEF Drain, SlotInv, TypeOK, Tail4Turn
    <3>2. agentTask' = agentTask /\ \A u \in Submissions : Occupied(u)' => Occupied(u)
      BY <2>10, <1>a DEF Drain, Occupied, Live, TypeOK
    <3>3. PopLength \in 1..Len(inbox) /\ inbox[PopLength] \in Submissions
      BY <2>10, <1>a, PopTypes, PopLengthInRange DEF Drain, TypeOK
    <3> QED
      BY <2>10, <3>1, <3>2, <3>3, BeginTurnSlot DEF Drain, PopAndStart
  <2> QED
    BY <1>10, <2>1, <2>2, <2>3, <2>4, <2>5, <2>6, <2>7, <2>8, <2>9, <2>10 DEF RunStep
<1>11. CASE CancelTurn
  BY <1>11, <1>a DEF CancelTurn, SlotInv, Occupied
<1>12. CASE Crash
  BY <1>12, <1>a DEF Crash, SlotInv, Occupied, Live, Tail4Turn, TypeOK
<1>13. CASE Restart
  <2>1. CASE inbox = <<>>
    BY <1>13, <2>1, <1>a DEF Restart, SlotInv, Occupied
  <2>2. CASE inbox # <<>>
    <3>1. up' = TRUE /\ ~busy /\ agentTask' = agentTask
      BY <1>13, <1>a DEF Restart, SlotInv
    <3>2. \A u \in Submissions : Occupied(u)' => Occupied(u)
      BY <1>13 DEF Restart, Occupied
    <3>3. PopLength \in 1..Len(inbox) /\ inbox[PopLength] \in Submissions
      BY <2>2, <1>a, PopTypes, PopLengthInRange DEF TypeOK
    <3> QED
      BY <1>13, <2>2, <3>1, <3>2, <3>3, BeginTurnSlot DEF Restart, PopAndStart
  <2> QED
    BY <2>1, <2>2
<1>14. CASE UNCHANGED vars
  BY <1>14, <1>a DEF vars, SlotInv, Occupied
<1> QED
  BY <1>1, <1>2, <1>3, <1>4, <1>5, <1>6, <1>7, <1>8, <1>9, <1>10, <1>11, <1>12,
     <1>13, <1>14 DEF Next, StartStep

\* IInv is inductive: it holds in every reachable state.
THEOREM Inductive == Spec => []IInv
<1>1. Init => IInv
  BY TypeInit, SlotInit DEF IInv
<1>2. IInv /\ [Next]_vars => IInv'
  BY TypeStep, SlotStep DEF IInv
<1> QED
  BY <1>1, <1>2, PTL DEF Spec

\* One agent turn per conversation at a time, whatever messages, wakes,
\* cancellations, failing starts, crashes and restarts interleave.
THEOREM OneTurn == Spec => []OneTurnAtATime
<1>1. IInv => OneTurnAtATime
  BY DEF IInv, SlotInv, OneTurnAtATime
<1> QED
  BY <1>1, Inductive, PTL

\* What cancel_turn finds under the lock is the turn that is running.
THEOREM Handles == Spec => []HandlesMatchTurn
<1>1. IInv => HandlesMatchTurn
  BY DEF IInv, SlotInv, HandlesMatchTurn
<1> QED
  BY <1>1, Inductive, PTL
-----------------------------------------------------------------------------
(* The inbox and the batches *)

Distinct(seq) == \A i, j \in 1..Len(seq) : seq[i] = seq[j] => i = j

\* neither waiting nor part of a turn
Untouched(s) == s \notin Members(inbox) /\ \A t \in Submissions : s \notin Members(batch[t])

\* A submission is at one place: not accepted yet, in the inbox once, or in the
\* batch of one turn, which is named by a member of its batch.
PlaceInv ==
    /\ \A s \in Submissions : call[s] \in {"idle", "lock", "emit"} => Untouched(s)
    /\ Distinct(inbox)
    /\ \A s \in Members(inbox) : \A t \in Submissions : s \notin Members(batch[t])
    /\ \A t, u \in Submissions : \A s \in Members(batch[t]) : s \in Members(batch[u]) => t = u
    /\ \A t \in Submissions : t \in Members(batch[t]) \/ batch[t] = <<>>

\* Who holds the lock while a turn is started: the call whose batch it is, or a
\* task that drains; and a busy conversation has a current turn with a batch.
StarterInv ==
    /\ \A s \in Submissions : call[s] = "emit" => lock = Call(s)
    /\ start # "none" =>
         /\ lock # Free
         /\ \A s \in Submissions : lock = Call(s) => call[s] = "start" /\ s \in Members(batch[s])
         /\ \A t \in Submissions : lock = Task(t) => task[t] = "draining"
    /\ busy => current # None /\ current \in Members(batch[current])

\* Only members of a turn are resolved, and only a turn with a batch has a task.
FutureInv ==
    /\ \A s \in Submissions :
         fut[s] = "resolved" => \E t \in Submissions : s \in Members(batch[t])
    /\ \A t \in Submissions : task[t] # "none" => t \in Members(batch[t])
    /\ \A t \in Submissions : task[t] = "settle" => t \in settled
    /\ FutureAfterSettle

QInv == IInv /\ PlaceInv /\ StarterInv /\ QueuedIsDurable /\ FutureInv

LEMMA EmptyMembers == Members(<<>>) = {} /\ Distinct(<<>>)
BY EmptySeq DEF Members, Distinct

LEMMA SingleMember == ASSUME NEW s PROVE Members(<<s>>) = {s}
BY DEF Members

LEMMA MembersType ==
    ASSUME NEW S, NEW q \in Seq(S)
    PROVE  Members(q) \subseteq S
BY ElementOfSeq DEF Members

\* an entry added at the end
LEMMA AppendMembers ==
    ASSUME NEW S, NEW q \in Seq(S), NEW e \in S
    PROVE  /\ Members(Append(q, e)) = Members(q) \cup {e}
           /\ Distinct(q) /\ e \notin Members(q) => Distinct(Append(q, e))
<1>1. /\ Len(Append(q, e)) = Len(q) + 1 /\ Len(q) \in Nat
      /\ \A i \in 1..Len(q) : Append(q, e)[i] = q[i]
      /\ Append(q, e)[Len(q) + 1] = e
  BY AppendProperties, LenProperties
<1>2. 1..Len(q) + 1 = 1..Len(q) \cup {Len(q) + 1}
  BY <1>1
<1> QED
  BY <1>1, <1>2 DEF Members, Distinct

\* what a drain takes and what it leaves
LEMMA SplitMembers ==
    ASSUME NEW S, NEW q \in Seq(S), NEW n \in 1..Len(q), Distinct(q)
    PROVE  /\ Members(SubSeq(q, 1, n)) \cup Members(SubSeq(q, n + 1, Len(q))) = Members(q)
           /\ Members(SubSeq(q, 1, n)) \cap Members(SubSeq(q, n + 1, Len(q))) = {}
           /\ q[n] \in Members(SubSeq(q, 1, n))
           /\ Distinct(SubSeq(q, n + 1, Len(q)))
           /\ \A i \in 1..Len(q) : q[i] \in Members(SubSeq(q, n + 1, Len(q))) <=> i > n
<1> DEFINE rest == SubSeq(q, n + 1, Len(q))
           popped == SubSeq(q, 1, n)
<1>0. Len(q) \in Nat /\ n \in Nat /\ \A i \in 1..Len(q) : q[i] \in S
  BY LenProperties, ElementOfSeq
<1>1. Len(popped) = n /\ \A i \in 1..n : popped[i] = q[i]
  BY <1>0, SubSeqProperties
<1>2. Len(rest) = Len(q) - n /\ \A i \in 1..Len(q) - n : rest[i] = q[i + n]
  BY <1>0, SubSeqProperties
<1>3. Members(popped) = {q[i] : i \in 1..n}
  BY <1>1 DEF Members
<1>4. Members(rest) = {q[i] : i \in n + 1..Len(q)}
  <2>1. ASSUME NEW i \in n + 1..Len(q) PROVE q[i] \in Members(rest)
    <3>1. i - n \in 1..Len(q) - n /\ i - n + n = i
      BY <1>0
    <3> QED
      BY <1>0, <1>2, <3>1 DEF Members
  <2>2. ASSUME NEW i \in 1..Len(q) - n PROVE rest[i] \in {q[k] : k \in n + 1..Len(q)}
    BY <1>0, <1>2
  <2> QED
    BY <1>2, <2>1, <2>2 DEF Members
<1>5. Distinct(rest)
  BY <1>0, <1>2 DEF Distinct
<1>6. Members(q) = {q[i] : i \in 1..Len(q)}
  BY DEF Members
<1>7. \A i, j \in 1..Len(q) : q[i] = q[j] => i = j
  BY DEF Distinct
<1> HIDE DEF rest, popped
<1>8. Members(popped) \cup Members(rest) = Members(q)
  BY <1>0, <1>3, <1>4, <1>6
<1>9. q[n] \in Members(popped)
  BY <1>0, <1>3
<1>10. ASSUME NEW i \in 1..Len(q) PROVE q[i] \in Members(rest) <=> i > n
  <2>1. CASE i > n
    BY <1>0, <1>4, <2>1
  <2>2. ASSUME q[i] \in Members(rest) PROVE i > n
    <3>1. PICK k \in n + 1..Len(q) : q[i] = q[k]
      BY <1>4, <2>2
    <3>2. i = k
      BY <1>0, <1>7, <3>1
    <3> QED
      BY <1>0, <3>1, <3>2
  <2> QED
    BY <2>1, <2>2
<1>11. Members(popped) \cap Members(rest) = {}
  BY <1>0, <1>3, <1>10
<1> QED
  BY <1>5, <1>8, <1>9, <1>10, <1>11 DEF rest, popped

\* A step that neither queues nor starts a turn, and accepts nothing again.
LEMMA PlaceFrame ==
    ASSUME PlaceInv, UNCHANGED <<inbox, batch>>,
           \A s \in Submissions : call'[s] \in {"idle", "lock", "emit"} =>
                                    call[s] \in {"idle", "lock", "emit"}
    PROVE  PlaceInv'
BY DEF PlaceInv, Untouched

\* what a drain pops, and the turn it becomes
Popped   == SubSeq(inbox, 1, PopLength)
HeadTurn == inbox[PopLength]

\* The popped entries move from the inbox to the batch of a new turn.
LEMMA PopEffect ==
    ASSUME QInv, inbox # <<>>, NEW holder, PopAndStart(holder)
    PROVE  /\ HeadTurn \in Submissions /\ HeadTurn \in Members(Popped)
           /\ Members(Popped) \subseteq Members(inbox)
           /\ Members(inbox') = Members(inbox) \ Members(Popped)
           /\ Distinct(inbox')
           /\ batch[HeadTurn] = <<>>
           /\ batch' = [batch EXCEPT ![HeadTurn] = Popped]
           /\ batch'[HeadTurn] = Popped
           /\ \A t \in Submissions : t # HeadTurn => batch'[t] = batch[t]
           /\ lock' = holder /\ busy' = TRUE /\ current' = HeadTurn /\ start' = "status"
<1> DEFINE n == PopLength
<1>0. inbox \in Seq(Submissions) /\ Distinct(inbox) /\ batch \in [Submissions -> Seq(Submissions)]
  BY DEF QInv, IInv, TypeOK, PlaceInv
<1>1. n \in 1..Len(inbox) /\ HeadTurn \in Submissions
  BY <1>0, PopLengthInRange, PopTypes DEF HeadTurn
<1>2. /\ inbox' = SubSeq(inbox, n + 1, Len(inbox))
      /\ batch' = [batch EXCEPT ![HeadTurn] = Popped]
      /\ lock' = holder /\ busy' = TRUE /\ current' = HeadTurn /\ start' = "status"
  BY DEF PopAndStart, BeginTurn, Popped, HeadTurn
<1>3. /\ Members(Popped) \cup Members(inbox') = Members(inbox)
      /\ Members(Popped) \cap Members(inbox') = {}
      /\ HeadTurn \in Members(Popped)
      /\ Distinct(inbox')
  <2> HIDE DEF n
  <2> QED
    BY <1>0, <1>1, <1>2, SplitMembers DEF Popped, HeadTurn, n
<1>4. batch[HeadTurn] = <<>>
  BY <1>1, <1>3 DEF QInv, PlaceInv
<1> QED
  BY <1>0, <1>1, <1>2, <1>3, <1>4

LEMMA PopPlace ==
    ASSUME QInv, inbox # <<>>, NEW holder, PopAndStart(holder), call' = call
    PROVE  PlaceInv'
<1>1. PlaceInv
  BY DEF QInv
<1>2. ASSUME NEW s \in Submissions, call'[s] \in {"idle", "lock", "emit"} PROVE Untouched(s)'
  BY <1>1, <1>2, PopEffect DEF PlaceInv, Untouched
<1>3. ASSUME NEW s \in Members(inbox'), NEW t \in Submissions PROVE s \notin Members(batch'[t])
  BY <1>1, PopEffect DEF PlaceInv
<1>4. ASSUME NEW t \in Submissions, NEW u \in Submissions, NEW s \in Members(batch'[t]),
             s \in Members(batch'[u])
      PROVE  t = u
  BY <1>1, <1>4, PopEffect DEF PlaceInv
<1>5. ASSUME NEW t \in Submissions PROVE t \in Members(batch'[t]) \/ batch'[t] = <<>>
  BY <1>1, PopEffect DEF PlaceInv
<1> QED
  BY <1>2, <1>3, <1>4, <1>5, PopEffect DEF PlaceInv

\* A call that starts its turn at once touches nothing but its own batch.
LEMMA StartEffect ==
    ASSUME QInv, NEW s \in Submissions, StartNow(s)
    PROVE  /\ Untouched(s) /\ batch[s] = <<>> /\ ~busy
           /\ batch' = [batch EXCEPT ![s] = <<s>>]
           /\ Members(batch'[s]) = {s}
           /\ \A t \in Submissions : t # s => batch'[t] = batch[t]
           /\ inbox' = inbox
           /\ call' = [call EXCEPT ![s] = "start"]
           /\ lock' = Call(s) /\ busy' = TRUE /\ current' = s /\ start' = "status"
<1>1. batch \in [Submissions -> Seq(Submissions)] /\ PlaceInv
  BY DEF QInv, IInv, TypeOK
<1>2. Untouched(s)
  BY <1>1 DEF StartNow, AtDispatch, PlaceInv
<1>3. batch[s] = <<>>
  BY <1>1, <1>2 DEF PlaceInv, Untouched
<1> QED
  BY <1>1, <1>2, <1>3, SingleMember DEF StartNow, BeginTurn

\* A call that queues its turn adds itself to the inbox.
LEMMA QueueEffect ==
    ASSUME QInv, NEW s \in Submissions, QueueTurn(s)
    PROVE  /\ Untouched(s) /\ busy
           /\ Members(inbox') = Members(inbox) \cup {s}
           /\ Distinct(inbox')
           /\ batch' = batch
           /\ call' = [call EXCEPT ![s] = "returned"]
<1>1. inbox \in Seq(Submissions) /\ PlaceInv
  BY DEF QInv, IInv, TypeOK
<1>2. Untouched(s)
  BY <1>1 DEF QueueTurn, AtDispatch, PlaceInv
<1>3. inbox' = Append(inbox, s) /\ batch' = batch /\ busy /\ call' = [call EXCEPT ![s] = "returned"]
  BY DEF QueueTurn
<1>4. Distinct(inbox) /\ s \notin Members(inbox)
  BY <1>1, <1>2 DEF PlaceInv, Untouched
<1>5. Members(inbox') = Members(inbox) \cup {s} /\ Distinct(inbox')
  BY <1>1, <1>3, <1>4, AppendMembers
<1> QED
  BY <1>2, <1>3, <1>5

\* No submission is accepted twice or is in two turns.
LEMMA PlaceStep == QInv /\ [Next]_vars => PlaceInv'
<1> SUFFICES ASSUME QInv, [Next]_vars PROVE PlaceInv'
  OBVIOUS
<1> USE DEF callVars, taskVars, queueVars, transport, env
<1>a. TypeOK /\ SlotInv /\ PlaceInv
  BY DEF QInv, IInv
<1>1. ASSUME NEW s \in Submissions,
             Enqueue(s) \/ EmitUserMessage(s) \/ DropLimited(s) \/ AbortCall(s) \/ AbandonFuture(s)
      PROVE PlaceInv'
  BY <1>1, <1>a, PlaceFrame
     DEF Enqueue, EmitUserMessage, DropLimited, AbortCall, AbandonFuture, TypeOK
<1>2. ASSUME NEW s \in Submissions, QueueTurn(s) PROVE PlaceInv'
  <2>1. /\ Untouched(s) /\ Members(inbox') = Members(inbox) \cup {s} /\ Distinct(inbox')
        /\ batch' = batch
        /\ \A u \in Submissions : call'[u] = IF u = s THEN "returned" ELSE call[u]
    BY <1>2, <1>a, QueueEffect DEF TypeOK
  <2> QED
    BY <1>a, <2>1 DEF PlaceInv, Untouched
<1>3. ASSUME NEW s \in Submissions, StartNow(s) PROVE PlaceInv'
  <2>1. /\ Untouched(s) /\ batch[s] = <<>> /\ Members(batch'[s]) = {s}
        /\ \A t \in Submissions : t # s => batch'[t] = batch[t]
        /\ inbox' = inbox
        /\ \A u \in Submissions : call'[u] = IF u = s THEN "start" ELSE call[u]
    BY <1>3, <1>a, StartEffect DEF TypeOK
  <2>2. \A u \in Submissions : call'[u] \in {"idle", "lock", "emit"} => Untouched(u)'
    BY <1>a, <2>1 DEF PlaceInv, Untouched
  <2>3. \A u \in Members(inbox') : \A t \in Submissions : u \notin Members(batch'[t])
    BY <1>a, <2>1 DEF PlaceInv, Untouched
  <2>4. \A t, v \in Submissions : \A u \in Members(batch'[t]) : u \in Members(batch'[v]) => t = v
    BY <1>a, <2>1 DEF PlaceInv, Untouched
  <2>5. \A t \in Submissions : t \in Members(batch'[t]) \/ batch'[t] = <<>>
    BY <1>a, <2>1 DEF PlaceInv
  <2> QED
    BY <1>a, <2>1, <2>2, <2>3, <2>4, <2>5 DEF PlaceInv
<1>4. CASE StatusPublished \/ SetupDone \/ CancelTurn
  BY <1>4, <1>a, PlaceFrame DEF StatusPublished, SetupDone, CancelTurn
<1>5. CASE CreateTask \/ AbortAtStatus \/ AbortAtSetup
  BY <1>5, <1>a, PlaceFrame DEF CreateTask, AbortAtStatus, AbortAtSetup, LeaveStart, TypeOK
<1>6. ASSUME NEW t \in Submissions, RunStep(t) PROVE PlaceInv'
  <2>1. CASE Drain(t)
    BY <2>1, PopPlace DEF Drain
  <2>2. CASE ~Drain(t)
    <3>1. UNCHANGED <<call, inbox, batch>>
      BY <1>6, <2>2 DEF RunStep, BeginRun, AgentReturns, Unwind, GatherForwards, WaitForLock,
         Reset, DieInFinally, ResolveFutures, DrainNothing
    <3> QED
      BY <1>a, <3>1, PlaceFrame
  <2> QED
    BY <2>1, <2>2
<1>7. CASE Crash
  BY <1>7, <1>a, PlaceFrame DEF Crash, TypeOK
<1>8. CASE Restart
  <2>1. CASE inbox = <<>>
    BY <1>8, <2>1, <1>a, PlaceFrame DEF Restart
  <2>2. CASE inbox # <<>>
    BY <1>8, <2>2, PopPlace DEF Restart
  <2> QED
    BY <2>1, <2>2
<1>9. CASE UNCHANGED vars
  BY <1>9, <1>a, PlaceFrame DEF vars
<1> QED
  BY <1>1, <1>2, <1>3, <1>4, <1>5, <1>6, <1>7, <1>8, <1>9 DEF Next, CallStep, StartStep

-----------------------------------------------------------------------------
(* Who starts turns *)

\* Whoever starts a turn holds the lock until it is created or given up.
LEMMA StarterStep == QInv /\ [Next]_vars => StarterInv'
<1> SUFFICES ASSUME QInv, [Next]_vars PROVE StarterInv'
  OBVIOUS
<1> USE DEF callVars, taskVars, queueVars, transport, env, Free, Boot, Call, Task
<1>a. TypeOK /\ SlotInv /\ PlaceInv /\ StarterInv
  BY DEF QInv, IInv
<1>1. ASSUME NEW s \in Submissions,
             Enqueue(s) \/ DropLimited(s) \/ AbandonFuture(s)
      PROVE StarterInv'
  BY <1>1, <1>a DEF Enqueue, DropLimited, AbandonFuture, StarterInv, TypeOK
<1>2. ASSUME NEW s \in Submissions, EmitUserMessage(s) \/ AbortCall(s) PROVE StarterInv'
  <2>1. CASE EmitUserMessage(s)
    <3>1. start = "none" /\ \A u \in Submissions : call[u] # "emit"
      BY <2>1, <1>a DEF EmitUserMessage, StarterInv
    <3>2. \A u \in Submissions : call'[u] = "emit" => lock' = Call(u)
      BY <2>1, <1>a, <3>1 DEF EmitUserMessage, TypeOK
    <3> QED
      BY <2>1, <1>a, <3>1, <3>2 DEF EmitUserMessage, StarterInv
  <2>2. CASE AbortCall(s)
    <3>1. start # "none" => lock # Call(s)
      BY <2>2, <1>a DEF AbortCall, StarterInv
    <3>2. \A u \in Submissions : call'[u] = IF u = s THEN "gone" ELSE call[u]
      BY <2>2, <1>a DEF AbortCall, TypeOK
    <3>3. UNCHANGED <<start, batch, task, busy, current>> /\ lock' = IF lock = Call(s) THEN Free ELSE lock
      BY <2>2 DEF AbortCall
    <3>4. \A u \in Submissions : call'[u] = "emit" => lock' = Call(u)
      BY <1>a, <3>2, <3>3 DEF StarterInv
    <3>5. start # "none" => lock' = lock /\ call[s] # "start"
      BY <2>2, <3>1, <3>3 DEF AbortCall
    <3> QED
      BY <1>a, <3>2, <3>3, <3>4, <3>5 DEF StarterInv
  <2> QED
    BY <1>2, <2>1, <2>2
<1>3. ASSUME NEW s \in Submissions, QueueTurn(s) PROVE StarterInv'
  <2>1. lock = Call(s) \/ lock = Free
    BY <1>3, <1>a DEF QueueTurn, AtDispatch, StarterInv
  <2>2. start = "none"
    BY <1>3, <1>a, <2>1 DEF QueueTurn, AtDispatch, StarterInv
  <2> QED
    BY <1>3, <1>a, <2>1, <2>2 DEF QueueTurn, AtDispatch, StarterInv, TypeOK
<1>4. ASSUME NEW s \in Submissions, StartNow(s) PROVE StarterInv'
  <2>1. lock = Call(s) \/ lock = Free
    BY <1>4, <1>a DEF StartNow, AtDispatch, StarterInv
  <2>2. \A u \in Submissions : call'[u] = "emit" => lock' = Call(u)
    <3>1. call' = [call EXCEPT ![s] = "start"]
      BY <1>4, StartEffect
    <3>2. \A u \in Submissions : u # s => call[u] # "emit"
      BY <1>4, <1>a, <2>1 DEF StarterInv
    <3> QED
      BY <1>a, <3>1, <3>2 DEF TypeOK
  <2>3. lock' = Call(s) /\ busy' = TRUE /\ current' = s /\ start' = "status"
        /\ Members(batch'[s]) = {s} /\ call'[s] = "start"
    BY <1>4, <1>a, StartEffect DEF TypeOK
  <2> QED
    BY <2>2, <2>3, Parameters DEF StarterInv
<1>5. CASE StatusPublished \/ SetupDone \/ CancelTurn
  BY <1>5, <1>a DEF StatusPublished, SetupDone, CancelTurn, StarterInv, TypeOK
<1>6. CASE CreateTask \/ AbortAtStatus \/ AbortAtSetup
  <2>1. start # "none" /\ start' = "none" /\ batch' = batch
    BY <1>6 DEF CreateTask, AbortAtStatus, AbortAtSetup, LeaveStart
  <2>2. \A s \in Submissions : call[s] # "emit" /\ call'[s] # "emit"
    BY <1>6, <1>a, <2>1 DEF CreateTask, AbortAtStatus, AbortAtSetup, LeaveStart, StarterInv, TypeOK
  <2>3. (busy' = busy \/ busy' = FALSE) /\ current' = current
    BY <1>6 DEF CreateTask, AbortAtStatus, AbortAtSetup
  <2> QED
    BY <1>a, <2>1, <2>2, <2>3 DEF StarterInv
<1>7. ASSUME NEW t \in Submissions, RunStep(t) PROVE StarterInv'
  <2>1. CASE Drain(t)
    <3>1. lock = Free /\ inbox # <<>> /\ PopAndStart(Task(t)) /\ task' = [task EXCEPT ![t] = "draining"]
          /\ call' = call
      BY <2>1 DEF Drain, Step
    <3>2. \A u \in Submissions : call[u] # "emit"
      BY <1>a, <3>1 DEF StarterInv
    <3>3. lock' = Task(t) /\ current' = HeadTurn /\ HeadTurn \in Submissions
          /\ HeadTurn \in Members(batch'[HeadTurn])
      BY <3>1, PopEffect
    <3> QED
      BY <1>a, <3>1, <3>2, <3>3, Parameters DEF StarterInv, TypeOK
  <2>2. CASE Reset(t)
    BY <2>2, <1>a DEF Reset, AtReset, EmitOver, SlotInv, StarterInv, Occupied, Live
  <2>3. CASE ~Drain(t) /\ ~Reset(t)
    <3>1. UNCHANGED <<call, lock, busy, current, start, batch>>
      BY <1>7, <2>3 DEF RunStep, BeginRun, AgentReturns, Unwind, GatherForwards, WaitForLock,
         DieInFinally, ResolveFutures, DrainNothing
    <3>2. task[t] # "draining" /\ \A u \in Submissions : u # t => task'[u] = task[u]
      BY <1>7, <2>3, <1>a DEF RunStep, BeginRun, AgentReturns, Unwind, GatherForwards, WaitForLock,
         DieInFinally, ResolveFutures, DrainNothing, Step, AtReset, EmitOver, TypeOK
    <3> QED
      BY <1>a, <3>1, <3>2 DEF StarterInv
  <2> QED
    BY <2>1, <2>2, <2>3
<1>8. CASE Crash
  BY <1>8, <1>a DEF Crash, StarterInv, TypeOK
<1>9. CASE Restart
  <2>1. CASE inbox = <<>>
    BY <1>9, <2>1, <1>a DEF Restart, StarterInv
  <2>2. CASE inbox # <<>>
    <3>1. PopAndStart(Boot) /\ UNCHANGED <<call, task>>
      BY <1>9, <2>2 DEF Restart
    <3>2. lock' = Boot /\ current' = HeadTurn /\ HeadTurn \in Submissions
          /\ HeadTurn \in Members(batch'[HeadTurn])
      BY <2>2, <3>1, PopEffect
    <3>3. \A s \in Submissions : call[s] # "emit"
      BY <1>9, <1>a DEF Restart, SlotInv
    <3> QED
      BY <3>1, <3>2, <3>3, Parameters DEF StarterInv
  <2> QED
    BY <2>1, <2>2
<1>10. CASE UNCHANGED vars
  BY <1>10, <1>a DEF vars, StarterInv
<1> QED
  BY <1>1, <1>2, <1>3, <1>4, <1>5, <1>6, <1>7, <1>8, <1>9, <1>10 DEF Next, CallStep, StartStep

-----------------------------------------------------------------------------
(* What was accepted is kept *)

\* A step loses no accepted submission when all that waited or ran still does.
LEMMA DurableFrame ==
    ASSUME QInv,
           \A s \in Submissions : ~Untouched(s) => ~Untouched(s)',
           \A s \in Submissions : call'[s] = "returned" /\ fut'[s] # "dropped" =>
               \/ call[s] = "returned" /\ fut[s] # "dropped"
               \/ ~Untouched(s)'
    PROVE  QueuedIsDurable'
BY DEF QInv, QueuedIsDurable, Untouched

\* Places are never given up: who waits or runs will wait or have run.
LEMMA PlacesKept ==
    ASSUME QInv, [Next]_vars, NEW s \in Submissions, ~Untouched(s)
    PROVE  ~Untouched(s)'
<1> USE DEF callVars, taskVars, queueVars, transport, env
<1>1. ASSUME NEW u \in Submissions, QueueTurn(u) PROVE ~Untouched(s)'
  BY <1>1, QueueEffect DEF Untouched
<1>2. ASSUME NEW u \in Submissions, StartNow(u) PROVE ~Untouched(s)'
  BY <1>2, StartEffect, EmptyMembers DEF Untouched
<1>3. ASSUME NEW holder, PopAndStart(holder), inbox # <<>> PROVE ~Untouched(s)'
  BY <1>3, PopEffect, EmptyMembers DEF Untouched
<1>4. CASE UNCHANGED <<inbox, batch>>
  BY <1>4 DEF Untouched
<1>5. \/ \E u \in Submissions : QueueTurn(u) \/ StartNow(u)
      \/ \E holder \in Holders : PopAndStart(holder) /\ inbox # <<>>
      \/ UNCHANGED <<inbox, batch>>
  <2>1. CASE \E u \in Submissions : RunStep(u)
    BY <2>1, HoldersTypes DEF RunStep, BeginRun, AgentReturns, Unwind, GatherForwards, WaitForLock,
       Reset, DieInFinally, ResolveFutures, DrainNothing, Drain
  <2>2. CASE Restart
    BY <2>2, HoldersTypes DEF Restart
  <2>3. CASE UNCHANGED vars
    BY <2>3 DEF vars
  <2>4. CASE StartStep \/ AbortAtStatus \/ AbortAtSetup \/ CancelTurn \/ Crash
    BY <2>4 DEF StartStep, StatusPublished, SetupDone, CreateTask, AbortAtStatus, AbortAtSetup,
       CancelTurn, Crash
  <2>5. CASE \E u \in Submissions : Enqueue(u) \/ CallStep(u) \/ AbortCall(u) \/ AbandonFuture(u)
    BY <2>5 DEF CallStep, Enqueue, EmitUserMessage, DropLimited, AbortCall, AbandonFuture
  <2> QED
    BY <2>1, <2>2, <2>3, <2>4, <2>5 DEF Next
<1> QED
  BY <1>1, <1>2, <1>3, <1>4, <1>5

LEMMA DurableStep == QInv /\ [Next]_vars => QueuedIsDurable'
<1> SUFFICES ASSUME QInv, [Next]_vars PROVE QueuedIsDurable'
  OBVIOUS
<1> USE DEF callVars, taskVars, queueVars, transport, env
<1>a. TypeOK /\ SlotInv /\ PlaceInv /\ StarterInv
  BY DEF QInv, IInv
<1>b. \A s \in Submissions : ~Untouched(s) => ~Untouched(s)'
  BY PlacesKept
<1> SUFFICES ASSUME NEW s \in Submissions, call'[s] = "returned", fut'[s] # "dropped"
             PROVE  \/ call[s] = "returned" /\ fut[s] # "dropped"
                    \/ ~Untouched(s)'
  BY <1>b, DurableFrame
<1>1. ASSUME NEW u \in Submissions,
             Enqueue(u) \/ EmitUserMessage(u) \/ DropLimited(u) \/ AbortCall(u) \/ AbandonFuture(u)
      PROVE call[s] = "returned" /\ fut[s] # "dropped"
  BY <1>1, <1>a DEF Enqueue, EmitUserMessage, DropLimited, AbortCall, AbandonFuture, TypeOK
<1>2. ASSUME NEW u \in Submissions, QueueTurn(u)
      PROVE (call[s] = "returned" /\ fut[s] # "dropped") \/ ~Untouched(s)'
  <2>1. CASE s = u
    BY <1>2, <2>1, QueueEffect DEF Untouched
  <2>2. CASE s # u
    BY <1>2, <2>2, <1>a DEF QueueTurn, TypeOK
  <2> QED
    BY <2>1, <2>2
<1>3. ASSUME NEW u \in Submissions, StartNow(u) PROVE call[s] = "returned" /\ fut[s] # "dropped"
  BY <1>3, <1>a DEF StartNow, TypeOK
<1>4. CASE CreateTask \/ AbortAtStatus \/ AbortAtSetup
  <2>1. CASE lock = Call(s)
    <3>1. s \in Members(batch[s])
      BY <1>4, <2>1, <1>a DEF CreateTask, AbortAtStatus, AbortAtSetup, StarterInv
    <3> QED
      BY <1>b, <3>1 DEF Untouched
  <2>2. CASE lock # Call(s)
    BY <1>4, <2>2, <1>a DEF CreateTask, AbortAtStatus, AbortAtSetup, LeaveStart, TypeOK
  <2> QED
    BY <2>1, <2>2
<1>5. ASSUME NEW t \in Submissions, RunStep(t) PROVE call[s] = "returned" /\ fut[s] # "dropped"
  <2>1. CASE ResolveFutures(t)
    BY <2>1, <1>a DEF ResolveFutures, TypeOK
  <2>2. CASE ~ResolveFutures(t)
    BY <1>5, <2>2 DEF RunStep, BeginRun, AgentReturns, Unwind, GatherForwards, WaitForLock,
       Reset, DieInFinally, DrainNothing, Drain
  <2> QED
    BY <2>1, <2>2
<1>6. CASE Crash
  BY <1>6, <1>a DEF Crash, TypeOK
<1>7. CASE StatusPublished \/ SetupDone \/ CancelTurn \/ Restart \/ UNCHANGED vars
  BY <1>7 DEF StatusPublished, SetupDone, CancelTurn, Restart, vars
<1> QED
  BY <1>1, <1>2, <1>3, <1>4, <1>5, <1>6, <1>7 DEF Next, CallStep, StartStep

-----------------------------------------------------------------------------
(* Futures follow their turn *)

\* A step that resolves nothing, settles no turn and changes no batch, where
\* the tasks that reach their drain were there already.
LEMMA FutureFrame ==
    ASSUME QInv, batch' = batch, settled \subseteq settled',
           \A s \in Submissions : fut'[s] = "resolved" => fut[s] = "resolved",
           \A s \in Submissions : fut'[s] = "pending" => fut[s] = "pending" \/ call[s] = "idle",
           \A t \in Submissions : task'[t] # "none" => task[t] # "none" \/ t \in Members(batch[t]),
           \A t \in Submissions : task'[t] = "settle" => task[t] = "settle" \/ t \in settled',
           \A t \in Submissions : task'[t] \in {"drain", "draining", "done"} =>
                                    task[t] \in {"drain", "draining", "done"}
    PROVE  FutureInv'
<1>1. \A t \in Submissions : Members(batch[t]) \subseteq Submissions
  BY MembersType DEF QInv, IInv, TypeOK
<1>2. \A s, t \in Submissions : call[s] = "idle" => s \notin Members(batch[t])
  BY DEF QInv, PlaceInv, Untouched
<1> QED
  BY <1>1, <1>2 DEF QInv, FutureInv, FutureAfterSettle

\* A turn that begins has no task yet, and none of its members is resolved.
LEMMA FutureBegin ==
    ASSUME QInv, NEW head \in Submissions, batch[head] = <<>>,
           \A t \in Submissions : t # head => batch'[t] = batch[t],
           head \in Members(batch'[head]), Members(batch'[head]) \subseteq Submissions,
           \A s \in Members(batch'[head]) : \A t \in Submissions : s \notin Members(batch[t]),
           fut' = fut, settled' = settled,
           \A t \in Submissions : task'[t] # "none" => task[t] # "none",
           \A t \in Submissions : task'[t] = "settle" => task[t] = "settle",
           \A t \in Submissions : task'[t] \in {"drain", "draining", "done"} =>
                                    task[t] \in {"drain", "draining", "done"}
    PROVE  FutureInv'
<1>1. FutureInv
  BY DEF QInv
<1>2. task[head] = "none" /\ task'[head] = "none"
  BY <1>1, EmptyMembers DEF FutureInv
<1>3. ASSUME NEW s \in Submissions, fut'[s] = "resolved"
      PROVE  \E t \in Submissions : s \in Members(batch'[t])
  <2>1. PICK t \in Submissions : s \in Members(batch[t])
    BY <1>1, <1>3 DEF FutureInv
  <2>2. t # head
    BY <2>1, EmptyMembers
  <2> QED
    BY <2>1, <2>2
<1>4. ASSUME NEW t \in Submissions, task'[t] # "none" PROVE t \in Members(batch'[t])
  BY <1>1, <1>2, <1>4 DEF FutureInv
<1>5. ASSUME NEW t \in Submissions, task'[t] = "settle" PROVE t \in settled'
  BY <1>1, <1>5 DEF FutureInv
<1>6. ASSUME NEW t \in Submissions, NEW s \in Members(batch'[t])
      PROVE  /\ fut'[s] = "resolved" => t \in settled'
             /\ task'[t] \in {"drain", "draining", "done"} => fut'[s] # "pending"
  <2>1. CASE t = head
    BY <1>1, <1>2, <1>6, <2>1 DEF FutureInv
  <2>2. CASE t # head
    BY <1>1, <1>6, <2>2 DEF FutureInv, FutureAfterSettle
  <2> QED
    BY <2>1, <2>2
<1> QED
  BY <1>3, <1>4, <1>5, <1>6 DEF FutureInv, FutureAfterSettle

LEMMA FuturePop ==
    ASSUME QInv, inbox # <<>>, NEW holder, PopAndStart(holder),
           fut' = fut, settled' = settled,
           \A t \in Submissions : task'[t] # "none" => task[t] # "none",
           \A t \in Submissions : task'[t] = "settle" => task[t] = "settle",
           \A t \in Submissions : task'[t] \in {"drain", "draining", "done"} =>
                                    task[t] \in {"drain", "draining", "done"}
    PROVE  FutureInv'
<1>1. inbox \in Seq(Submissions) /\ PlaceInv
  BY DEF QInv, IInv, TypeOK
<1>2. Members(inbox) \subseteq Submissions
  BY <1>1, MembersType
<1>3. \A s \in Members(Popped) : \A t \in Submissions : s \notin Members(batch[t])
  BY <1>1, PopEffect DEF PlaceInv
<1> QED
  BY <1>2, <1>3, PopEffect, FutureBegin

LEMMA FutureStep == QInv /\ [Next]_vars => FutureInv'
<1> SUFFICES ASSUME QInv, [Next]_vars PROVE FutureInv'
  OBVIOUS
<1> USE DEF callVars, taskVars, queueVars, transport, env
<1>a. TypeOK /\ SlotInv /\ PlaceInv /\ StarterInv /\ FutureInv
  BY DEF QInv, IInv
<1>b. \A t \in Submissions : Members(batch[t]) \subseteq Submissions
  BY <1>a, MembersType DEF TypeOK
<1>c. \A t \in Submissions : /\ task[t] # "none" => t \in Members(batch[t])
                             /\ task[t] = "settle" => t \in settled
  BY <1>a DEF FutureInv
<1>1. ASSUME NEW s \in Submissions, Enqueue(s) PROVE FutureInv'
  <2>1. Untouched(s)
    BY <1>1, <1>a DEF Enqueue, PlaceInv
  <2> QED
    BY <1>1, <1>a, <1>b, <1>c, <2>1, FutureFrame DEF Enqueue, TypeOK
<1>2. ASSUME NEW s \in Submissions,
             EmitUserMessage(s) \/ DropLimited(s) \/ QueueTurn(s) \/ AbortCall(s) \/ AbandonFuture(s)
      PROVE FutureInv'
  BY <1>2, <1>a, FutureFrame
     DEF EmitUserMessage, DropLimited, QueueTurn, AbortCall, AbandonFuture, TypeOK
<1>3. ASSUME NEW s \in Submissions, StartNow(s) PROVE FutureInv'
  <2>1. fut' = fut /\ settled' = settled /\ task' = task
    BY <1>3 DEF StartNow
  <2> QED
    <3>1. /\ batch[s] = <<>> /\ Members(batch'[s]) = {s}
          /\ \A t \in Submissions : t # s => batch'[t] = batch[t]
          /\ \A t \in Submissions : s \notin Members(batch[t])
      BY <1>3, StartEffect DEF Untouched
    <3> QED
      BY <2>1, <3>1, FutureBegin
<1>4. CASE StatusPublished \/ SetupDone \/ CancelTurn
  BY <1>4, <1>a, FutureFrame DEF StatusPublished, SetupDone, CancelTurn
<1>5. CASE CreateTask \/ AbortAtStatus \/ AbortAtSetup
  <2>1. start # "none" /\ UNCHANGED <<fut, batch, settled>>
    BY <1>5 DEF CreateTask, AbortAtStatus, AbortAtSetup
  <2>2. current \in Members(batch[current]) /\ \A t \in Submissions : lock = Task(t) => task[t] = "draining"
    BY <1>a, <2>1 DEF StarterInv, SlotInv
  <2>3. \A t \in Submissions : \/ lock = Task(t) /\ task'[t] = "done"
                               \/ t = current /\ task'[t] = "created"
                               \/ task'[t] = task[t]
    <3>1. PICK pc : LeaveStart(pc)
      BY <1>5 DEF CreateTask, AbortAtStatus, AbortAtSetup
    <3> QED
      BY <3>1 DEF LeaveStart
  <2>4. \A t \in Submissions : task'[t] # "none" => t \in Members(batch[t])
    BY <1>c, <2>2, <2>3
  <2>5. \A t \in Submissions : task'[t] = "settle" => task[t] = "settle"
    BY <2>3
  <2>6. \A t \in Submissions : task'[t] \in {"drain", "draining", "done"} =>
                                 task[t] \in {"drain", "draining", "done"}
    BY <2>2, <2>3
  <2> QED
    BY <2>1, <2>4, <2>5, <2>6, FutureFrame
<1>6. ASSUME NEW t \in Submissions, RunStep(t) PROVE FutureInv'
  <2> USE DEF Step
  <2>1. CASE BeginRun(t) \/ AgentReturns(t) \/ Unwind(t) \/ GatherForwards(t) \/ WaitForLock(t)
             \/ DieInFinally(t) \/ DrainNothing(t)
    <3>1. UNCHANGED <<fut, batch, settled>>
      BY <2>1 DEF BeginRun, AgentReturns, Unwind, GatherForwards, WaitForLock, DieInFinally, DrainNothing
    <3>2. task[t] # "none" /\ task'[t] \notin {"settle"} /\ \A u \in Submissions : u # t => task'[u] = task[u]
      BY <2>1, <1>a DEF BeginRun, AgentReturns, Unwind, GatherForwards, WaitForLock, DieInFinally,
         DrainNothing, EmitOver, AtReset, TypeOK
    <3>3. task'[t] \in {"drain", "draining", "done"} => task[t] = "drain"
      BY <2>1, <1>a DEF BeginRun, AgentReturns, Unwind, GatherForwards, WaitForLock, DieInFinally,
         DrainNothing, TypeOK
    <3> QED
      BY <1>a, <1>b, <1>c, <3>1, <3>2, <3>3, FutureFrame
  <2>2. CASE Reset(t)
    <3>1. task[t] # "none"
      BY <2>2 DEF Reset, AtReset, EmitOver
    <3> QED
      BY <2>2, <1>a, <1>b, <1>c, <3>1, FutureFrame DEF Reset, TypeOK
  <2>3. CASE ResolveFutures(t)
    <3>1. t \in settled /\ t \in Members(batch[t])
      <4>1. task[t] = "settle"
        BY <2>3 DEF ResolveFutures
      <4> QED
        BY <1>c, <4>1
    <3>2. /\ UNCHANGED <<batch, settled>>
          /\ task'[t] = "drain" /\ \A u \in Submissions : u # t => task'[u] = task[u]
          /\ \A s \in Members(batch[t]) : fut'[s] = IF fut[s] = "pending" THEN "resolved" ELSE fut[s]
          /\ \A s \in Submissions : s \notin Members(batch[t]) => fut'[s] = fut[s]
      BY <2>3, <1>a, <1>b DEF ResolveFutures, TypeOK
    <3>3. \A u \in Submissions : u # t => \A s \in Members(batch[u]) : s \notin Members(batch[t])
      BY <1>a DEF PlaceInv
    <3>4. ASSUME NEW u \in Submissions, NEW s \in Members(batch[u])
          PROVE  /\ fut'[s] = "resolved" => u \in settled
                 /\ task'[u] \in {"drain", "draining", "done"} => fut'[s] # "pending"
      <4>1. CASE u = t
        BY <3>1, <3>2, <3>4, <4>1
      <4>2. CASE u # t
        BY <1>a, <1>b, <3>2, <3>3, <3>4, <4>2 DEF FutureInv, FutureAfterSettle
      <4> QED
        BY <4>1, <4>2
    <3>5. ASSUME NEW s \in Submissions, fut'[s] = "resolved"
          PROVE  \E u \in Submissions : s \in Members(batch[u])
      BY <1>a, <3>2, <3>5 DEF FutureInv
    <3> QED
      BY <1>a, <3>1, <3>2, <3>4, <3>5 DEF FutureInv, FutureAfterSettle
  <2>4. CASE Drain(t)
    <3>1. /\ inbox # <<>> /\ PopAndStart(Task(t)) /\ fut' = fut /\ settled' = settled
          /\ task[t] = "drain" /\ task' = [task EXCEPT ![t] = "draining"]
      BY <2>4 DEF Drain
    <3> QED
      BY <1>a, <3>1, FuturePop DEF TypeOK
  <2> QED
    BY <1>6, <2>1, <2>2, <2>3, <2>4 DEF RunStep
<1>7. CASE Crash
  <2>1. UNCHANGED <<batch, settled>>
    BY <1>7 DEF Crash
  <2>2. \A s \in Submissions : fut'[s] = fut[s] \/ fut'[s] = "lost"
    BY <1>7 DEF Crash
  <2>3. \A t \in Submissions : task'[t] = task[t] \/ (task'[t] = "dead" /\ task[t] # "none")
    BY <1>7 DEF Crash, Live, Tail4Turn
  <2> QED
    BY <2>1, <2>2, <2>3, FutureFrame
<1>8. CASE Restart
  <2>1. CASE inbox = <<>>
    BY <1>8, <2>1, <1>a, FutureFrame DEF Restart
  <2>2. CASE inbox # <<>>
    BY <1>8, <2>2, FuturePop DEF Restart
  <2> QED
    BY <2>1, <2>2
<1>9. CASE UNCHANGED vars
  BY <1>9, <1>a, FutureFrame DEF vars
<1> QED
  BY <1>1, <1>2, <1>3, <1>4, <1>5, <1>6, <1>7, <1>8, <1>9 DEF Next, CallStep, StartStep

\* The whole inductive invariant.
LEMMA QInvInit == Init => QInv
<1> SUFFICES ASSUME Init PROVE QInv
  OBVIOUS
<1>1. IInv
  BY TypeInit, SlotInit DEF IInv
<1>2. PlaceInv /\ StarterInv /\ QueuedIsDurable /\ FutureInv
  BY EmptyMembers DEF Init, PlaceInv, Untouched, StarterInv, QueuedIsDurable, FutureInv, FutureAfterSettle
<1> QED
  BY <1>1, <1>2 DEF QInv

THEOREM QueueInductive == Spec => []QInv
<1>1. QInv /\ [Next]_vars => QInv'
  BY TypeStep, SlotStep, PlaceStep, StarterStep, DurableStep, FutureStep DEF QInv, IInv
<1> QED
  BY <1>1, QInvInit, PTL DEF Spec

\* What was accepted and queued is on disk until it is in a turn: a process
\* death between the two loses nothing.
THEOREM Durable == Spec => []QueuedIsDurable
<1>1. QInv => QueuedIsDurable
  BY DEF QInv
<1> QED
  BY <1>1, QueueInductive, PTL

\* A future is resolved after turn_complete of its own turn, with its batch.
THEOREM FutureIsLast == Spec => []FutureAfterSettle
<1>1. QInv => FutureAfterSettle
  BY DEF QInv, FutureInv
<1> QED
  BY <1>1, QueueInductive, PTL

\* what QueueIsFifo says of a step
InOrder == \A i, j \in 1..Len(inbox) :
              i < j /\ inbox[j] \notin Members(inbox') => inbox[i] \notin Members(inbox')

\* the steps that touch the inbox
LEMMA InboxSteps ==
    ASSUME [Next]_vars
    PROVE  \/ \E u \in Submissions : QueueTurn(u)
           \/ \E holder \in Holders : PopAndStart(holder) /\ inbox # <<>>
           \/ inbox' = inbox
<1> USE DEF callVars, taskVars, queueVars, transport, env
<1>1. CASE \E u \in Submissions : RunStep(u)
  BY <1>1, HoldersTypes DEF RunStep, BeginRun, AgentReturns, Unwind, GatherForwards, WaitForLock,
     Reset, DieInFinally, ResolveFutures, DrainNothing, Drain
<1>2. CASE Restart
  BY <1>2, HoldersTypes DEF Restart
<1>3. CASE UNCHANGED vars
  BY <1>3 DEF vars
<1>4. CASE StartStep \/ AbortAtStatus \/ AbortAtSetup \/ CancelTurn \/ Crash
  BY <1>4 DEF StartStep, StatusPublished, SetupDone, CreateTask, AbortAtStatus, AbortAtSetup,
     CancelTurn, Crash
<1>5. CASE \E u \in Submissions : Enqueue(u) \/ CallStep(u) \/ AbortCall(u) \/ AbandonFuture(u)
  BY <1>5 DEF CallStep, Enqueue, EmitUserMessage, DropLimited, StartNow, AbortCall, AbandonFuture
<1> QED
  BY <1>1, <1>2, <1>3, <1>4, <1>5 DEF Next

LEMMA FifoStep == QInv /\ [Next]_vars => InOrder
<1> SUFFICES ASSUME QInv, [Next]_vars PROVE InOrder
  OBVIOUS
<1>a. inbox \in Seq(Submissions) /\ Len(inbox) \in Nat /\ Distinct(inbox)
  BY LenProperties DEF QInv, IInv, TypeOK, PlaceInv
<1>b. \A j \in 1..Len(inbox) : inbox[j] \in Members(inbox)
  BY DEF Members
<1>1. ASSUME NEW holder, PopAndStart(holder), inbox # <<>> PROVE InOrder
  <2>1. PopLength \in 1..Len(inbox)
    BY <1>1, <1>a, PopLengthInRange
  <2>2. \A i \in 1..Len(inbox) : inbox[i] \in Members(inbox') <=> i > PopLength
    BY <1>1, <1>a, <2>1, SplitMembers DEF PopAndStart
  <2> QED
    BY <1>a, <2>1, <2>2 DEF InOrder
<1>2. ASSUME NEW s \in Submissions, QueueTurn(s) PROVE InOrder
  <2>1. Members(inbox') = Members(inbox) \cup {s}
    BY <1>2, QueueEffect
  <2> QED
    BY <1>b, <2>1 DEF InOrder
<1>3. CASE inbox' = inbox
  BY <1>3, <1>b DEF InOrder
<1> QED
  BY <1>1, <1>2, <1>3, InboxSteps

\* Entries leave the inbox in the order in which they entered it.
THEOREM Fifo == Spec => QueueIsFifo
<1>1. QInv /\ [Next]_vars => [InOrder]_vars
  BY FifoStep
<1> QED
  BY <1>1, QueueInductive, PTL DEF Spec, QueueIsFifo, InOrder

-----------------------------------------------------------------------------
(* The one-slot server *)

Serving == IF busy THEN Members(batch[current]) ELSE {}
Served  == UNION {Members(batch[t]) : t \in Submissions}

LEMMA ElementsAreMembers == \A q : Service!Elements(q) = Members(q)
BY DEF Service!Elements, Members

\* what leaves the slot and the queue alone
LEMMA ServiceFrame ==
    ASSUME UNCHANGED <<inbox, batch, busy, current>>
    PROVE  UNCHANGED Service!svars
BY DEF Service!svars

\* the slot empties, or was empty
LEMMA ServiceVacate ==
    ASSUME UNCHANGED <<inbox, batch>>, ~busy', busy \in BOOLEAN
    PROVE  [Service!Next]_(Service!svars)
<1>1. UNCHANGED <<inbox, Served>> /\ Serving' = {}
  BY DEF Served, Serving
<1> QED
  BY <1>1 DEF Service!Next, Service!Vacate, Service!svars, Serving, Served

\* the popped entries take the slot
LEMMA ServicePop ==
    ASSUME QInv, ~busy, inbox # <<>>, NEW holder, PopAndStart(holder)
    PROVE  Service!ServeNext
<1>1. inbox \in Seq(Submissions) /\ PopLength \in 1..Len(inbox)
  BY PopLengthInRange DEF QInv, IInv, TypeOK
<1>2. inbox' = SubSeq(inbox, PopLength + 1, Len(inbox))
  BY DEF PopAndStart
<1>3. Serving = {} /\ Serving' = Members(Popped)
  BY PopEffect DEF Serving
<1>4. Served' = Served \cup Members(Popped)
  <2>1. \A t \in Submissions : Members(batch'[t]) =
            IF t = HeadTurn THEN Members(Popped) ELSE Members(batch[t])
    BY PopEffect
  <2>2. Members(batch[HeadTurn]) = {} /\ HeadTurn \in Submissions
    BY PopEffect, EmptyMembers
  <2> QED
    BY <2>1, <2>2 DEF Served
<1>5. Service!Occupy(Members(Popped))
  BY <1>3, <1>4 DEF Service!Occupy, Serving, Served
<1> QED
  BY <1>1, <1>2, <1>5, ElementsAreMembers DEF Service!ServeNext, Popped

LEMMA ServiceInit == Init => Service!Init
<1> SUFFICES ASSUME Init PROVE Service!Init
  OBVIOUS
<1>1. Served = {}
  BY EmptyMembers DEF Init, Served
<1> QED
  BY <1>1 DEF Init, Service!Init, Served

\* Every step of the conversation is a step of the server, or none.
LEMMA ServiceStep == QInv /\ [Next]_vars => [Service!Next]_(Service!svars)
<1> SUFFICES ASSUME QInv, [Next]_vars PROVE [Service!Next]_(Service!svars)
  OBVIOUS
<1> USE DEF callVars, taskVars, queueVars, transport, env
<1>a. TypeOK /\ SlotInv /\ PlaceInv /\ StarterInv
  BY DEF QInv, IInv
<1>1. ASSUME NEW s \in Submissions, QueueTurn(s) PROVE Service!Accept(s)
  <2>1. s \notin Served /\ s \notin Members(inbox) /\ Serving # {}
    BY <1>1, <1>a, QueueEffect DEF Served, Serving, Untouched, StarterInv
  <2>2. inbox' = Append(inbox, s) /\ UNCHANGED <<batch, busy, current>>
    BY <1>1 DEF QueueTurn
  <2> QED
    BY <2>1, <2>2, ElementsAreMembers DEF Service!Accept, Service!Fresh, Served, Serving
<1>2. ASSUME NEW s \in Submissions, StartNow(s) PROVE Service!ServeNow(s)
  <2>1. s \notin Served /\ s \notin Members(inbox) /\ Serving = {} /\ Serving' = {s} /\ inbox' = inbox
    BY <1>2, StartEffect DEF Served, Serving, Untouched
  <2>2. Served' = Served \cup {s}
    <3>1. \A t \in Submissions : Members(batch'[t]) = IF t = s THEN {s} ELSE Members(batch[t])
      BY <1>2, StartEffect
    <3>2. Members(batch[s]) = {}
      BY <1>2, StartEffect, EmptyMembers
    <3> QED
      BY <3>1, <3>2 DEF Served
  <2> QED
    BY <2>1, <2>2, ElementsAreMembers
       DEF Service!ServeNow, Service!Occupy, Service!Fresh, Served, Serving
<1>3. ASSUME NEW s \in Submissions,
             Enqueue(s) \/ EmitUserMessage(s) \/ DropLimited(s) \/ AbortCall(s) \/ AbandonFuture(s)
      PROVE  UNCHANGED Service!svars
  BY <1>3, ServiceFrame DEF Enqueue, EmitUserMessage, DropLimited, AbortCall, AbandonFuture
<1>4. CASE StartStep \/ AbortAtSetup \/ CancelTurn
  BY <1>4, ServiceFrame DEF StartStep, StatusPublished, SetupDone, CreateTask, AbortAtSetup, CancelTurn
<1>5. CASE AbortAtStatus
  BY <1>5, <1>a, ServiceVacate DEF AbortAtStatus, TypeOK
<1>6. ASSUME NEW t \in Submissions, RunStep(t) PROVE [Service!Next]_(Service!svars)
  <2>1. CASE Reset(t)
    BY <2>1, <1>a, ServiceVacate DEF Reset, TypeOK
  <2>2. CASE Drain(t)
    BY <2>2, ServicePop DEF Drain, Service!Next
  <2>3. CASE ~Reset(t) /\ ~Drain(t)
    BY <1>6, <2>3, ServiceFrame DEF RunStep, BeginRun, AgentReturns, Unwind, GatherForwards,
       WaitForLock, DieInFinally, ResolveFutures, DrainNothing
  <2> QED
    BY <2>1, <2>2, <2>3
<1>7. CASE Crash
  BY <1>7, <1>a, ServiceVacate DEF Crash, TypeOK
<1>8. CASE Restart
  <2>1. CASE inbox = <<>>
    BY <1>8, <2>1, ServiceFrame DEF Restart
  <2>2. CASE inbox # <<>>
    BY <1>8, <2>2, <1>a, ServicePop DEF Restart, Service!Next, SlotInv
  <2> QED
    BY <2>1, <2>2
<1>9. CASE UNCHANGED vars
  BY <1>9, ServiceFrame DEF vars
<1> QED
  BY <1>1, <1>2, <1>3, <1>4, <1>5, <1>6, <1>7, <1>8, <1>9 DEF Next, CallStep, Service!Next

\* The conversation is a one-slot server: no second turn starts in an occupied
\* slot, a batch is a prefix of the queue, and nothing is served twice.
THEOREM Implements == Spec => ImplementsService
<1>1. Init => Service!Init
  BY ServiceInit
<1>2. QInv /\ [Next]_vars => [Service!Next]_(Service!svars)
  BY ServiceStep
<1> QED
  BY <1>1, <1>2, QueueInductive, PTL DEF Spec, ImplementsService, Service!Spec
=============================================================================
