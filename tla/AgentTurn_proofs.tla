-------------------------- MODULE AgentTurn_proofs --------------------------
(***************************************************************************)
(* Proofs about a turn.  AgentTurn: its types, that the archive is closed  *)
(* by one answer or marker that agrees with the reported outcome, and that *)
(* every call of a batch is answered by one row of the history.            *)
(* Reflection, an instance: that retries come to an end, what the judge is *)
(* told, and that the notice, the record and the rows say what became of   *)
(* the answer.                                                             *)
(***************************************************************************)
EXTENDS AgentTurn, FiniteSetTheorems, SequenceTheorems, WellFoundedInduction, TLAPS

CONSTANTS Sorts, Visibilities, MaxIterations, MaxRetries, MaxAnswers, MaxOverflows
VARIABLES at, answers, sort, visibility, remaining, empties, retries, last, first, history, start,
    parts, judged, delivered, metrics, live, kept, verdicts, results, calls, overflows, mishaps
Judge == INSTANCE Reflection WITH
    Kinds <- Sorts, MaxTurns <- MaxAnswers, turn <- answers, kind <- sort, budget <- remaining,
    tools <- results

-----------------------------------------------------------------------------
(* Rows *)

\* A row of the turn in flight is a row.
LEMMA RowType ==
    ASSUME TypeOK, turn # 0, NEW kind \in Kinds
    PROVE  Row(kind) \in Rows
BY Parameters DEF TypeOK, Row, Rows

LEMMA ToolRowType ==
    ASSUME TypeOK, turn # 0, NEW c \in Calls
    PROVE  ToolRow(c) \in Rows
BY Parameters DEF TypeOK, ToolRow, Rows, Calls, Kinds

LEMMA ToolRowsType ==
    ASSUME TypeOK, turn # 0
    PROVE  ToolRows \in Seq(Rows)
BY ToolRowType, Parameters DEF ToolRows, Calls

\* The calls whose task raised are finitely many, so their error rows are a
\* sequence of tool rows of the batch.
LEMMA ErrorRowsType ==
    ASSUME TypeOK, turn # 0, NEW s \in ErrorRows
    PROVE  /\ s \in Seq(Rows)
           /\ \A i \in 1..Len(s) : \E c \in Calls : s[i] = ToolRow(c)
           /\ (\E c \in Calls : tool[c] = "gone") => s # <<>>
<1> DEFINE gone == {c \in Calls : tool[c] = "gone"}
<1>1. IsFiniteSet(gone) /\ Cardinality(gone) \in Nat
  <2>1. IsFiniteSet(Calls)  BY FS_Interval, Parameters DEF Calls
  <2> QED  BY <2>1, FS_Subset, FS_CardinalityType
<1>2. PICK p \in [1..Cardinality(gone) -> gone] : s = [i \in DOMAIN p |-> ToolRow(p[i])]
  BY DEF ErrorRows
<1>3. s = [i \in 1..Cardinality(gone) |-> ToolRow(p[i])]  BY <1>2
<1>4. \A i \in 1..Cardinality(gone) : p[i] \in Calls  BY <1>2
<1>5. \A i \in 1..Cardinality(gone) : s[i] \in Rows  BY <1>3, <1>4, ToolRowType
<1>6. s \in Seq(Rows) /\ Len(s) = Cardinality(gone)  BY <1>1, <1>3, <1>5
<1>7. (\E c \in Calls : tool[c] = "gone") => s # <<>>
  <2>1. gone # {} => Cardinality(gone) # 0  BY <1>1, FS_EmptySet
  <2> QED  BY <2>1, <1>6
<1> QED  BY <1>3, <1>4, <1>6, <1>7

-----------------------------------------------------------------------------
(* Type correctness *)

\* A turn in flight has a number.
TypeInv == TypeOK /\ (pc # "idle" => turn # 0)

LEMMA TypeInit == Init => TypeInv
<1> SUFFICES ASSUME Init  PROVE TypeInv
  OBVIOUS
<1>1. pc \in PC /\ turn \in 0..MaxTurns /\ cancels \in 0..MaxCancels /\ crashes \in 0..MaxCrashes
      /\ reflectionRetries \in 0..Retries /\ emptyRetries \in 0..1
  BY Parameters DEF Init, PC
<1>2. archive \in Seq(Rows) /\ memory \in Seq(Rows)
  BY DEF Init
<1> QED  BY <1>1, <1>2 DEF Init, TypeInv, TypeOK

LEMMA SayType ==
    ASSUME TypeOK, turn # 0, NEW kind \in Kinds, Say(kind)
    PROVE  archive' \in Seq(Rows) /\ memory' \in Seq(Rows)
BY RowType DEF Say, TypeOK

LEMMA RememberType ==
    ASSUME TypeOK, turn # 0, NEW kind \in Kinds, Remember(kind)
    PROVE  archive' \in Seq(Rows) /\ memory' \in Seq(Rows)
BY RowType DEF Remember, TypeOK

LEMMA MarkerType ==
    ASSUME TypeOK, turn # 0, WriteMarkerOnce
    PROVE  archive' \in Seq(Rows) /\ latch' \in BOOLEAN
BY RowType DEF WriteMarkerOnce, TypeOK, Kinds

LEMMA SeeCancelType ==
    ASSUME TypeOK, turn # 0, SeeCancel
    PROVE  archive' \in Seq(Rows) /\ memory' \in Seq(Rows) /\ observed' \in BOOLEAN /\ pc' \in PC
BY RememberType DEF SeeCancel, Kinds, PC

LEMMA CancelToolsType ==
    ASSUME TypeOK, turn # 0, CancelTools
    PROVE  /\ tool' \in [Calls -> {"none", "waiting", "running", "closing", "ended", "gone"}]
           /\ orphans' \subseteq (1..MaxTurns) \X Nat \X Calls
BY DEF TypeOK, CancelTools

LEMMA TypeStep == TypeInv /\ [Next]_vars => TypeInv'
<1> SUFFICES ASSUME TypeInv, [Next]_vars  PROVE TypeInv'
  OBVIOUS
<1> USE Parameters DEF TypeInv
<1>1. CASE StartTurn
  <2>1. turn \in 0..MaxTurns /\ turn' \in 0..MaxTurns /\ turn' # 0
    BY <1>1 DEF StartTurn, TypeOK
  <2>2. memory' \in Seq(Rows)  BY <1>1 DEF StartTurn, TypeOK
  <2>3. pc' \in PC  BY <1>1 DEF StartTurn, PC
  <2> QED  BY <1>1, <2>1, <2>2, <2>3 DEF StartTurn, TypeOK, loop, tools, bounds
<1>2. CASE Begin
  BY <1>2 DEF Begin, Step, TypeOK, PC, Awaits, conv, rows, tools, signals, ending, bounds
<1>3. CASE Compose
  BY <1>3, SayType DEF Compose, Step, TypeOK, PC, Kinds, conv, loop, tools, signals, ending, bounds
<1>4. CASE Iterate
  <2>1. archive' \in Seq(Rows) /\ memory' \in Seq(Rows) /\ observed' \in BOOLEAN /\ pc' \in PC
    BY <1>4, SeeCancelType DEF Iterate, TypeOK, PC, Awaits, Prompts, rows
  <2>2. pc # "idle" /\ budget' \in Nat  BY <1>4 DEF Iterate, TypeOK
  <2> QED  BY <1>4, <2>1, <2>2 DEF Iterate, TypeOK, conv, tools, ending, bounds
<1>5. CASE LlmCancelled
  <2>1. archive' \in Seq(Rows) /\ memory' \in Seq(Rows) /\ observed' \in BOOLEAN /\ pc' \in PC
    BY <1>5, SeeCancelType DEF LlmCancelled, Prompts
  <2> QED  BY <1>5, <2>1 DEF LlmCancelled, Prompts, TypeOK, conv, loop, tools, ending, bounds
<1>6. CASE LlmCalls
  <2>1. turn # 0 /\ batch' \in Nat  BY <1>6 DEF LlmCalls, Step, TypeOK
  <2>2. [Row("calls") EXCEPT !.batch = batch + 1] \in Rows
    <3>1. [Row("calls") EXCEPT !.batch = batch + 1]
            = [kind |-> "calls", turn |-> turn, batch |-> batch + 1, call |-> 0]
      BY DEF Row
    <3>2. turn \in 1..MaxTurns /\ batch + 1 \in Nat /\ 0 \in 0..NumCalls
      BY <2>1, Parameters DEF TypeOK
    <3> QED  BY <3>1, <3>2 DEF Rows, Kinds
  <2>3. archive' \in Seq(Rows) /\ memory' \in Seq(Rows)
    BY <1>6, <2>2 DEF LlmCalls, TypeOK
  <2> QED  BY <1>6, <2>1, <2>3 DEF LlmCalls, Step, TypeOK, PC, Awaits, conv, tools, signals, ending, bounds
<1>7. CASE LlmEmpty
  BY <1>7 DEF LlmEmpty, Step, TypeOK, PC, conv, rows, tools, signals, ending, bounds
<1>8. CASE LlmText \/ LlmOverflow \/ Compact \/ Nudged \/ WidgetDropped \/ Gathered \/ Delivered
  BY <1>8 DEF LlmText, LlmOverflow, Compact, Nudged, WidgetDropped, Gathered, Delivered, Step,
              TypeOK, PC, Awaits, Prompts, conv, rows, loop, tools, signals, ending, bounds
<1>9. CASE Retry
  <2>1. turn # 0 /\ Row("answer") \in Rows /\ Row("synthetic") \in Rows
    BY <1>9, RowType DEF Retry, Step, Kinds
  <2>2. archive' \in Seq(Rows) /\ memory' \in Seq(Rows)
    BY <1>9, <2>1 DEF Retry, TypeOK
  <2> QED  BY <1>9, <2>1, <2>2 DEF Retry, Step, TypeOK, PC, conv, tools, signals, ending, bounds
<1>10. CASE Answer \/ GraceFails
  <2>1. Say("answer") /\ turn # 0 /\ pc' = "compact"
    BY <1>10 DEF Answer, GraceFails, Step
  <2>2. archive' \in Seq(Rows) /\ memory' \in Seq(Rows)  BY <2>1, SayType DEF Kinds
  <2> QED  BY <1>10, <2>1, <2>2 DEF Answer, GraceFails, Step, TypeOK, PC, Awaits,
             conv, loop, tools, signals, ending, bounds
<1>11. CASE RejectCalls
  <2>1. turn # 0 /\ ToolRows \in Seq(Rows)  BY <1>11, ToolRowsType DEF RejectCalls, Step
  <2>2. archive' \in Seq(Rows) /\ memory' \in Seq(Rows)
    BY <1>11, <2>1 DEF RejectCalls, TypeOK
  <2> QED  BY <1>11, <2>1, <2>2 DEF RejectCalls, Step, TypeOK, PC, conv, loop, tools, signals, ending, bounds
<1>12. CASE StartTools
  <2>1. archive' \in Seq(Rows) /\ memory' \in Seq(Rows)
    BY <1>12, SayType DEF StartTools, ToolsCancelled, Kinds, TypeOK, rows
  <2> QED  BY <1>12, <2>1 DEF StartTools, ToolsCancelled, TypeOK, PC, Awaits, conv, loop, signals, ending, bounds
<1>13. CASE Collect
  <2>1. turn # 0  BY <1>13 DEF Collect
  <2>2. CASE event
    <3>1. archive' \in Seq(Rows) /\ memory' \in Seq(Rows) /\ pc' = "return" /\ steered' = steered
      BY <1>13, <2>1, <2>2, SayType DEF Collect, ToolsCancelled, Kinds
    <3> QED  BY <1>13, <2>1, <3>1 DEF Collect, TypeOK, PC, loop, ending, bounds
  <2>3. CASE ~event
    <3>1. ToolRows \in Seq(Rows)  BY <2>1, ToolRowsType
    <3>2. \E s \in ErrorRows : s \in Seq(Rows) /\ archive' = archive \o s
      BY <1>13, <2>1, <2>3, ErrorRowsType DEF Collect
    <3>5. memory' = memory \o ToolRows /\ AfterBatch  BY <1>13, <2>3 DEF Collect
    <3>3. archive' \in Seq(Rows) /\ memory' \in Seq(Rows)
      BY <3>1, <3>2, <3>5 DEF TypeOK
    <3>6. turn \in 1..MaxTurns  BY <2>1 DEF TypeOK
    <3>4. pc' \in PC /\ steered' \subseteq 1..MaxTurns
      BY <3>5, <3>6 DEF AfterBatch, TypeOK, PC, Awaits, Prompts
    <3> QED  BY <1>13, <2>1, <3>3, <3>4 DEF Collect, TypeOK, loop, ending, bounds
  <2> QED  BY <2>2, <2>3 DEF TypeOK
<1>14. CASE WidgetAnswered \/ Presented \/ Summarised
  <2>1. turn # 0 /\ \E k \in Kinds : Say(k)
    BY <1>14 DEF WidgetAnswered, Presented, Summarised, Step, Kinds
  <2>2. archive' \in Seq(Rows) /\ memory' \in Seq(Rows)  BY <2>1, SayType
  <2> QED  BY <1>14, <2>1, <2>2 DEF WidgetAnswered, Presented, Summarised, Step, TypeOK, PC, Awaits,
             conv, loop, tools, signals, ending, bounds
<1>15. CASE Confirmed
  <2>1. archive' \in Seq(Rows) /\ memory' \in Seq(Rows)
    BY <1>15, RememberType DEF Confirmed, Step, Kinds
  <2> QED  BY <1>15, <2>1 DEF Confirmed, Step, TypeOK, PC, Awaits, Prompts, conv, loop, tools, signals, ending, bounds
<1>16. CASE Return
  <2>1. archive' \in Seq(Rows) /\ latch' \in BOOLEAN
    BY <1>16, MarkerType DEF Return, Step, TypeOK
  <2> QED  BY <1>16, <2>1 DEF Return, LoopOver, Step, TypeOK, PC, Awaits, conv, tools, signals, bounds
<1>17. CASE Unwind
  <2>1. turn # 0 /\ pc' \in PC  BY <1>17 DEF Unwind, PC, Awaits, Prompts
  <2>2. archive' \in Seq(Rows) /\ latch' \in BOOLEAN
    BY <1>17, <2>1, MarkerType DEF Unwind, TypeOK, ending
  <2>3. result' \in {"none", "ok", "cancelled", "error"}
    <3>1. result' = result \/ result' = "cancelled"  BY <1>17 DEF Unwind, ending
    <3> QED  BY <3>1 DEF TypeOK
  <2>4. /\ kill' = FALSE /\ tool' = [c \in Calls |-> "none"]
        /\ budget' = 0 /\ batch' = 0 /\ emptyRetries' = 0 /\ reflectionRetries' = 0
        /\ UNCHANGED <<conv, memory, orphans, event, observed, bounds>>
    BY <1>17 DEF Unwind, LoopOver
  <2>5. UNCHANGED <<child, turn, outcome, steered, memory, orphans, event, observed, cancels, crashes>>
    BY <2>4 DEF conv, bounds
  <2>6. /\ tool' \in [Calls -> {"none", "waiting", "running", "closing", "ended", "gone"}]
        /\ budget' \in Nat /\ batch' \in Nat /\ emptyRetries' \in 0..1 /\ reflectionRetries' \in 0..Retries
    BY <2>4
  <2> QED  BY <2>1, <2>2, <2>3, <2>4, <2>5, <2>6 DEF TypeOK
<1>18. CASE Fail
  <2>1. turn # 0 /\ archive' \in Seq(Rows)
    BY <1>18, RowType DEF Fail, Step, Kinds, TypeOK
  <2> QED  BY <1>18, <2>1 DEF Fail, LoopOver, Step, TypeOK, PC, Awaits, conv, tools, signals, bounds
<1>19. CASE Settle
  BY <1>19 DEF Settle, TypeOK, PC, Outcomes, rows, loop, tools, signals, ending, bounds
<1>20. ASSUME NEW c \in Calls, ToolStep(c)  PROVE TypeInv'
  <2>1. archive' \in Seq(Rows)
    <3>1. turn # 0  BY <1>20 DEF ToolStep, ToolStarts, ToolEnds, ToolCloses, ToolFails
    <3>2. ToolRow(c) \in Rows  BY <3>1, ToolRowType
    <3>3. archive' = archive \/ archive' = Append(archive, ToolRow(c))
      BY <1>20 DEF ToolStep, ToolStarts, ToolEnds, ToolCloses, ToolFails, rows
    <3> QED  BY <3>2, <3>3 DEF TypeOK
  <2> QED  BY <1>20, <2>1 DEF ToolStep, ToolStarts, ToolEnds, ToolCloses, ToolFails, TypeOK,
             conv, rows, loop, signals, ending, bounds
<1>21. CASE OrphanEnds
  BY <1>21 DEF OrphanEnds, TypeOK, conv, rows, loop, signals, ending, bounds
<1>22. CASE CancelTurn \/ CancelParent
  <2>1. turn # 0  BY <1>22 DEF CancelTurn, CancelParent, Awaits, Prompts
  <2>2. /\ tool' \in [Calls -> {"none", "waiting", "running", "closing", "ended", "gone"}]
        /\ orphans' \subseteq (1..MaxTurns) \X Nat \X Calls
    BY <1>22, <2>1, CancelToolsType DEF CancelTurn, CancelParent, TypeOK, tools
  <2>3. kill' \in BOOLEAN /\ event' = TRUE
    BY <1>22 DEF CancelTurn, CancelParent, TypeOK
  <2>4. cancels' \in 0..MaxCancels
    BY <1>22 DEF CancelTurn, CancelParent, TypeOK
  <2> QED  BY <1>22, <2>1, <2>2, <2>3, <2>4 DEF CancelTurn, CancelParent, TypeOK, conv, rows, loop, ending
<1>23. CASE Crash
  <2>1. crashes' \in 0..MaxCrashes /\ pc' = "idle" /\ pc' \in PC
    BY <1>23 DEF Crash, TypeOK, PC
  <2>2. outcome' \in [1..MaxTurns -> Outcomes \cup {"none", "lost"}]
    BY <1>23 DEF Crash, TypeOK
  <2>3. memory' \in Seq(Rows)  BY <1>23 DEF Crash
  <2> QED  BY <1>23, <2>1, <2>2, <2>3 DEF Crash, TypeOK, loop, ending
<1>24. CASE UNCHANGED vars
  BY <1>24 DEF vars, TypeOK, conv, rows, loop, tools, signals, ending, bounds
<1> QED
  BY <1>1, <1>2, <1>3, <1>4, <1>5, <1>6, <1>7, <1>8, <1>9, <1>10, <1>11, <1>12, <1>13, <1>14, <1>15,
     <1>16, <1>17, <1>18, <1>19, <1>20, <1>21, <1>22, <1>23, <1>24
     DEF Next, AgentStep

\* The variables keep their types: histories hold rows of turns that began,
\* the budget never goes below zero.
THEOREM TypeCorrect == Spec => []TypeOK
<1>1. TypeInv => TypeOK  BY DEF TypeInv
<1> QED  BY <1>1, TypeInit, TypeStep, PTL DEF Spec

-----------------------------------------------------------------------------
(* The archive grows by rows of the turn in flight                         *)

Over == {"deliver", "unwound", "failing", "settle"}   \* the loop is left
InLoop == pc \notin Over \cup {"idle"}
Closings == {"answer", "cancelled"} \cup Markers

\* the archive is extended by rows of this turn of the given kinds
Extends(K) ==
    \E s \in Seq(Rows) :
        /\ archive' = archive \o s
        /\ \A i \in 1..Len(s) : s[i].turn = turn /\ s[i].kind \in K

\* the last row is of this turn and of one of the given kinds
LastIs(K) ==
    /\ archive # <<>>
    /\ archive[Len(archive)].turn = turn /\ archive[Len(archive)].kind \in K

\* this turn has a marker
Marked == \E i \in 1..Len(archive) : archive[i].turn = turn /\ archive[i].kind \in Markers

\* this turn is closed
Closed == LastIs(Closings) \/ (turn \in steered /\ LastIs({"tool"}))

\* the body of ClosedInArchive
ClosedTurn(t) ==
    \E i \in 1..Len(archive) :
        /\ archive[i].turn = t
        /\ \/ archive[i].kind \in Closings
           \/ archive[i].kind = "tool" /\ t \in steered
        /\ \A j \in (i + 1)..Len(archive) : archive[j].turn # t

LEMMA UnchangedExtends ==
    ASSUME TypeOK, archive' = archive, NEW K
    PROVE  Extends(K)
<1>1. archive \in Seq(Rows)  BY DEF TypeOK
<1>2. archive \o <<>> = archive
  <2> HIDE DEF Rows
  <2> QED  BY <1>1, ConcatEmptySeq
<1>3. <<>> \in Seq(Rows) /\ Len(<<>>) = 0
  OBVIOUS
<1>4. \A i \in 1..Len(<<>>) : <<>>[i].turn = turn /\ <<>>[i].kind \in K
  BY <1>3
<1>5. archive' = archive \o <<>>  BY <1>2
<1> QED  BY <1>3, <1>4, <1>5 DEF Extends

LEMMA AppendExtends ==
    ASSUME TypeOK, NEW row \in Rows, archive' = Append(archive, row), row.turn = turn, turn' = turn,
           NEW K, row.kind \in K
    PROVE  Extends(K) /\ LastIs(K)'
<1>1. <<row>> \in Seq(Rows) /\ Len(<<row>>) = 1 /\ <<row>>[1] = row
  OBVIOUS
<1>2. archive' = archive \o <<row>>  BY AppendIsConcat DEF TypeOK
<1>3. archive' # <<>> /\ archive'[Len(archive')] = row  BY AppendProperties DEF TypeOK
<1>4. Extends(K)
  <2>1. \A i \in 1..Len(<<row>>) : <<row>>[i].turn = turn /\ <<row>>[i].kind \in K  BY <1>1
  <2> QED  BY <1>1, <1>2, <2>1 DEF Extends
<1>5. LastIs(K)'  BY <1>3 DEF LastIs
<1> QED  BY <1>4, <1>5

LEMMA SayExtends ==
    ASSUME TypeOK, turn # 0, NEW kind \in Kinds, Say(kind), turn' = turn
    PROVE  Extends({kind}) /\ LastIs({kind})'
<1>1. Row(kind) \in Rows /\ Row(kind).turn = turn /\ Row(kind).kind \in {kind}
  BY RowType DEF Row
<1> QED  BY <1>1, AppendExtends DEF Say

LEMMA ExtendsMore ==
    ASSUME NEW K, NEW L, K \subseteq L, Extends(K)
    PROVE  Extends(L)
BY DEF Extends

\* What an extension does, element by element.
LEMMA ExtendsFacts ==
    ASSUME TypeOK, NEW K, Extends(K)
    PROVE  /\ Len(archive') \in Nat /\ Len(archive) \in Nat /\ Len(archive) <= Len(archive')
           /\ \A i \in 1..Len(archive) : archive'[i] = archive[i]
           /\ \A i \in (Len(archive) + 1)..Len(archive') :
                 archive'[i].turn = turn /\ archive'[i].kind \in K
<1>1. PICK s \in Seq(Rows) :
        archive' = archive \o s /\ \A i \in 1..Len(s) : s[i].turn = turn /\ s[i].kind \in K
  BY DEF Extends
<1>2. Len(archive') = Len(archive) + Len(s) /\ Len(s) \in Nat /\ Len(archive) \in Nat
  BY <1>1 DEF TypeOK
<1>3. \A i \in 1..Len(archive) : archive'[i] = archive[i]
  BY <1>1 DEF TypeOK
<1>4. \A i \in (Len(archive) + 1)..Len(archive') : archive'[i] = s[i - Len(archive)]
  BY <1>1, <1>2 DEF TypeOK
<1>5. \A i \in (Len(archive) + 1)..Len(archive') : i - Len(archive) \in 1..Len(s)
  BY <1>2
<1> QED  BY <1>1, <1>2, <1>3, <1>4, <1>5

-----------------------------------------------------------------------------
(* The invariant, in parts *)

\* Rows are of turns that began, and a turn that did not settle has no outcome.
Begun ==
    /\ \A i \in 1..Len(archive) : archive[i].turn <= turn
    /\ \A t \in 1..MaxTurns : t > turn => outcome[t] = "none"
    /\ pc # "idle" => outcome[turn] = "none"

\* Until the loop is left the turn has no marker, no latch and no result.
Fresh == InLoop => ~latch /\ result = "none" /\ ~Marked

\* A CancelledError is only ever on its way after the event of a turn's own.
KillInv == kill => event /\ ~child /\ pc \in Awaits

\* While a batch runs, the last row is a tool's as soon as one has ended.
BatchInv ==
    /\ pc = "watch" => BatchDone
    /\ pc \in {"tools", "watch"} /\ (\E c \in Calls : tool[c] = "ended") => LastIs({"tool"})

\* Where the turn is already closed, or will be by the marker.
EndInv ==
    /\ pc = "compact" => LastIs(Closings)
    /\ pc = "return" => observed \/ Closed
    /\ pc \in Over => Closed
    /\ pc = "deliver" /\ Marked => latch

\* Markers and outcome in the making.
ReasonInv ==
    pc \in Over =>
        /\ \A i \in 1..Len(archive) :
             archive[i].turn = turn =>
                /\ archive[i].kind = "cancel_marker" => observed \/ (event /\ ~child)
                /\ archive[i].kind = "turn_aborted" => result = "error"
        /\ result = "error" =>
             \E i \in 1..Len(archive) : archive[i].turn = turn /\ archive[i].kind = "turn_aborted"

ArchiveInv ==
    /\ Begun /\ Fresh /\ KillInv /\ BatchInv /\ EndInv /\ ReasonInv
    /\ MarkerOnceLast /\ ClosedInArchive /\ OutcomeMatchesArchive

LEMMA ArchiveInit == Init => ArchiveInv
<1> SUFFICES ASSUME Init  PROVE ArchiveInv
  OBVIOUS
<1>1. archive = <<>> /\ Len(archive) = 0 /\ pc = "idle" /\ ~kill /\ outcome = [t \in 1..MaxTurns |-> "none"]
  BY DEF Init
<1> QED
  BY <1>1 DEF ArchiveInv, Begun, Fresh, InLoop, KillInv, BatchInv, EndInv, Over, ReasonInv, MarkerOnceLast,
              ClosedInArchive, Settled, Outcomes, OutcomeMatchesArchive

-----------------------------------------------------------------------------
(* Steps inside the loop                                                   *)

\* What all of them have in common: they write no marker, and leave the loop
\* closed or with the cancellation observed.
LoopStep ==
    /\ InLoop /\ InLoop'
    /\ UNCHANGED <<child, turn, outcome, latch, result>>
    /\ steered \subseteq steered'
    /\ Extends(Kinds \ Markers)
    /\ pc' = "compact" => LastIs(Closings)'
    /\ pc' = "return" => observed' \/ Closed'
    /\ BatchInv' /\ KillInv'

\* A row said in the loop, with the suspension point it leads to.
LEMMA SayStep ==
    ASSUME TypeInv, InLoop, NEW kind \in Kinds \ Markers, Say(kind), ~kill, kill' = kill,
           UNCHANGED conv, UNCHANGED ending,
           pc' \in PC \ ({"tools", "watch", "idle"} \cup Over),
           pc' \in {"compact", "return"} => kind \in Closings
    PROVE  LoopStep
<1>1. turn # 0 /\ turn' = turn  BY DEF InLoop, TypeInv, conv
<1>2. Extends({kind}) /\ LastIs({kind})'  BY <1>1, SayExtends DEF TypeInv
<1>3. Extends(Kinds \ Markers)  BY <1>2, ExtendsMore
<1>4. pc' \in {"compact", "return"} => LastIs(Closings)'  BY <1>2 DEF LastIs
<1>5. BatchInv' /\ KillInv'  BY DEF BatchInv, KillInv
<1>6. InLoop'  BY DEF InLoop
<1> QED  BY <1>3, <1>4, <1>5, <1>6 DEF LoopStep, Closed, conv, ending

\* A step in the loop that writes nothing and has no batch.
LEMMA QuietStep ==
    ASSUME TypeInv, InLoop, archive' = archive, ~kill, kill' = kill,
           UNCHANGED conv, UNCHANGED ending,
           pc' \in PC \ ({"tools", "watch", "compact", "idle"} \cup Over),
           pc' = "return" => observed' \/ Closed
    PROVE  LoopStep
<1>1. Extends(Kinds \ Markers)  BY UnchangedExtends DEF TypeInv
<1>2. Closed => Closed'  BY DEF Closed, LastIs, conv
<1>3. BatchInv' /\ KillInv'  BY DEF BatchInv, KillInv
<1>4. InLoop'  BY DEF InLoop
<1> QED  BY <1>1, <1>2, <1>3, <1>4 DEF LoopStep, conv, ending

LEMMA LoopSaySteps ==
    ASSUME TypeInv, Compose \/ Answer \/ GraceFails \/ WidgetAnswered \/ Presented \/ Summarised
    PROVE  LoopStep
<1> USE DEF InLoop, Over, PC, Awaits, Prompts, Kinds, Markers, Closings, Step, signals
<1>1. CASE Compose         BY <1>1, SayStep DEF Compose
<1>2. CASE Answer          BY <1>2, SayStep DEF Answer
<1>3. CASE GraceFails      BY <1>3, SayStep DEF GraceFails
<1>4. CASE WidgetAnswered  BY <1>4, SayStep DEF WidgetAnswered
<1>5. CASE Presented       BY <1>5, SayStep DEF Presented
<1>6. CASE Summarised      BY <1>6, SayStep DEF Summarised
<1> QED  BY <1>1, <1>2, <1>3, <1>4, <1>5, <1>6

LEMMA LoopQuietSteps ==
    ASSUME TypeInv, ArchiveInv,
           \/ Begin \/ LlmCancelled \/ LlmEmpty \/ LlmText \/ LlmOverflow \/ Compact
           \/ Nudged \/ WidgetDropped \/ Confirmed
    PROVE  LoopStep
<1> USE DEF InLoop, Over, PC, Awaits, Prompts, Step, signals, rows
<1>1. CASE Begin          BY <1>1, QuietStep DEF Begin
<1>2. CASE LlmCancelled   BY <1>2, QuietStep DEF LlmCancelled, SeeCancel, Remember
<1>3. CASE LlmEmpty       BY <1>3, QuietStep DEF LlmEmpty
<1>4. CASE LlmText        BY <1>4, QuietStep DEF LlmText
<1>5. CASE LlmOverflow    BY <1>5, QuietStep DEF LlmOverflow
<1>6. CASE Compact
  <2>1. Closed  BY <1>6 DEF Compact, ArchiveInv, EndInv, Closed
  <2> QED  BY <1>6, <2>1, QuietStep DEF Compact
<1>7. CASE Nudged         BY <1>7, QuietStep DEF Nudged
<1>8. CASE WidgetDropped  BY <1>8, QuietStep DEF WidgetDropped
<1>9. CASE Confirmed      BY <1>9, QuietStep DEF Confirmed, Remember
<1> QED  BY <1>1, <1>2, <1>3, <1>4, <1>5, <1>6, <1>7, <1>8, <1>9

LEMMA IterateStep == TypeInv /\ ArchiveInv /\ Iterate => LoopStep
<1> SUFFICES ASSUME TypeInv, ArchiveInv, Iterate  PROVE LoopStep
  OBVIOUS
<1>1. ~kill /\ kill' = kill /\ InLoop
  BY DEF Iterate, ArchiveInv, KillInv, Awaits, Prompts, InLoop, Over
<1>2. archive' = archive  BY DEF Iterate, SeeCancel, Remember, rows
<1>3. pc' \in {"grace", "llm"} \/ (pc' = "return" /\ observed')  BY DEF Iterate, SeeCancel
<1> QED
  BY <1>1, <1>2, <1>3, QuietStep DEF Iterate, PC, Awaits, Prompts, Over

LEMMA LlmCallsStep == TypeInv /\ LlmCalls => LoopStep
<1> SUFFICES ASSUME TypeInv, LlmCalls  PROVE LoopStep
  OBVIOUS
<1> DEFINE row == [Row("calls") EXCEPT !.batch = batch + 1]
<1>1. turn # 0 /\ turn' = turn /\ pc = "llm" /\ pc' = "announce" /\ ~kill /\ kill' = kill
  BY DEF LlmCalls, Step, TypeInv, conv, signals
<1>2. row = [kind |-> "calls", turn |-> turn, batch |-> batch + 1, call |-> 0]
  BY DEF Row
<1>3. turn \in 1..MaxTurns /\ batch + 1 \in Nat /\ 0 \in 0..NumCalls
  BY <1>1, Parameters DEF TypeInv, TypeOK
<1>4. row \in Rows /\ row.turn = turn /\ row.kind \in Kinds \ Markers
  BY <1>2, <1>3 DEF Rows, Kinds, Markers
<1>5. archive' = Append(archive, row)  BY DEF LlmCalls
<1>6. Extends(Kinds \ Markers)
  <2> HIDE DEF row
  <2> QED  BY <1>1, <1>4, <1>5, AppendExtends DEF TypeInv
<1> QED
  BY <1>1, <1>6 DEF LlmCalls, LoopStep, InLoop, Over, BatchInv, KillInv, conv, ending

LEMMA RetryStep == TypeInv /\ Retry => LoopStep
<1> SUFFICES ASSUME TypeInv, Retry  PROVE LoopStep
  OBVIOUS
<1> DEFINE two == <<Row("answer"), Row("synthetic")>>
<1>1. turn # 0 /\ turn' = turn /\ pc = "reflect" /\ pc' = "head" /\ ~kill /\ kill' = kill
  BY DEF Retry, Step, TypeInv, conv, signals
<1>2. Row("answer") \in Rows /\ Row("synthetic") \in Rows
  BY <1>1, RowType DEF Kinds, TypeInv
<1>3. two \in Seq(Rows) /\ Len(two) = 2 /\ two[1] = Row("answer") /\ two[2] = Row("synthetic")
  BY <1>2
<1>4. \A i \in 1..Len(two) : two[i].turn = turn /\ two[i].kind \in Kinds \ Markers
  <2>1. \A i \in 1..Len(two) : i = 1 \/ i = 2  BY <1>3
  <2> QED  BY <1>3, <2>1 DEF Row, Kinds, Markers
<1>5. archive' = archive \o two  BY DEF Retry
<1>6. Extends(Kinds \ Markers)
  <2> HIDE DEF two
  <2> QED  BY <1>3, <1>4, <1>5 DEF Extends
<1> QED
  BY <1>1, <1>6 DEF Retry, LoopStep, InLoop, Over, BatchInv, KillInv, conv, ending

LEMMA ToolRowsExtend ==
    ASSUME TypeInv, turn # 0, archive' = archive \o ToolRows
    PROVE  Extends({"tool"})
<1>1. ToolRows \in Seq(Rows)  BY ToolRowsType DEF TypeInv
<1>2. \A i \in 1..Len(ToolRows) : ToolRows[i].turn = turn /\ ToolRows[i].kind \in {"tool"}
  BY Parameters DEF ToolRows, ToolRow, Calls
<1> QED  BY <1>1, <1>2 DEF Extends

LEMMA RejectStep == TypeInv /\ RejectCalls => LoopStep
<1> SUFFICES ASSUME TypeInv, RejectCalls  PROVE LoopStep
  OBVIOUS
<1>1. turn # 0 /\ pc = "announce" /\ pc' = "head" /\ ~kill /\ kill' = kill
  BY DEF RejectCalls, Step, TypeInv, signals
<1>2. Extends({"tool"})  BY <1>1, ToolRowsExtend DEF RejectCalls
<1>3. {"tool"} \subseteq Kinds \ Markers  BY DEF Kinds, Markers
<1>4. Extends(Kinds \ Markers)  BY <1>2, <1>3, ExtendsMore
<1> QED
  BY <1>1, <1>4 DEF RejectCalls, LoopStep, InLoop, Over, BatchInv, KillInv, conv, ending

\* A step in the loop that neither moves the agent nor writes.
LEMMA StayStep ==
    ASSUME TypeInv, ArchiveInv, InLoop, archive' = archive, pc' = pc, observed' = observed,
           UNCHANGED conv, UNCHANGED ending, BatchInv', KillInv'
    PROVE  LoopStep
<1>1. Extends(Kinds \ Markers)  BY UnchangedExtends DEF TypeInv
<1>2. EndInv  BY DEF ArchiveInv
<1>3. /\ pc' = "compact" => LastIs(Closings)'
      /\ pc' = "return" => observed' \/ Closed'
  BY <1>2 DEF EndInv, Closed, LastIs, conv
<1> QED  BY <1>1, <1>3 DEF LoopStep, InLoop, conv, ending

LEMMA StartToolsStep == TypeInv /\ ArchiveInv /\ StartTools => LoopStep
<1> SUFFICES ASSUME TypeInv, ArchiveInv, StartTools  PROVE LoopStep
  OBVIOUS
<1>1. InLoop /\ pc = "announce" /\ ~kill /\ kill' = kill /\ UNCHANGED <<conv, ending>>
  BY DEF StartTools, InLoop, Over, signals
<1>2. CASE event
  <2>1. Say("cancelled") /\ pc' = "return"  BY <1>2 DEF StartTools, ToolsCancelled
  <2> QED
    BY <1>1, <2>1, SayStep DEF Kinds, Markers, Closings, PC, Awaits, Prompts, Over
<1>3. CASE ~event
  <2>1. pc' = "tools" /\ archive' = archive /\ \A c \in Calls : tool'[c] = "waiting"
    BY <1>3 DEF StartTools, rows
  <2>2. Extends(Kinds \ Markers)  BY <2>1, UnchangedExtends DEF TypeInv
  <2>3. BatchInv' /\ KillInv'  BY <1>1, <2>1 DEF BatchInv, KillInv
  <2> QED  BY <1>1, <2>1, <2>2, <2>3 DEF LoopStep, InLoop, Over, conv, ending
<1> QED  BY <1>2, <1>3 DEF TypeInv, TypeOK

LEMMA GatheredStep == TypeInv /\ ArchiveInv /\ Gathered => LoopStep
<1> SUFFICES ASSUME TypeInv, ArchiveInv, Gathered  PROVE LoopStep
  OBVIOUS
<1>1. /\ pc = "tools" /\ pc' = "watch" /\ ~kill /\ kill' = kill /\ BatchDone
      /\ archive' = archive /\ tool' = tool /\ UNCHANGED <<conv, ending>>
  BY DEF Gathered, Step, rows, tools, signals
<1>2. Extends(Kinds \ Markers)  BY <1>1, UnchangedExtends DEF TypeInv
<1>3. BatchInv
  BY DEF ArchiveInv
<1>4. BatchInv' /\ KillInv'
  BY <1>1, <1>3 DEF BatchInv, KillInv, BatchDone, LastIs, conv
<1> QED  BY <1>1, <1>2, <1>4 DEF LoopStep, InLoop, Over, conv, ending

LEMMA ToolStepStep ==
    ASSUME TypeInv, ArchiveInv, NEW c \in Calls, ToolStep(c)
    PROVE  LoopStep
<1>1. pc = "tools" /\ pc' = "tools" /\ UNCHANGED <<conv, ending, signals>>
  BY DEF ToolStep, ToolStarts, ToolEnds, ToolCloses, ToolFails
<1>2. turn # 0 /\ turn' = turn /\ InLoop /\ BatchInv /\ KillInv
  BY <1>1 DEF TypeInv, conv, InLoop, Over, ArchiveInv
<1>3. KillInv'  BY <1>1, <1>2 DEF KillInv, signals, conv
<1>4. CASE ToolCloses(c)
  <2>1. ToolRow(c) \in Rows /\ ToolRow(c).turn = turn /\ ToolRow(c).kind = "tool"
    BY <1>2, ToolRowType DEF ToolRow, TypeInv
  <2>2. archive' = Append(archive, ToolRow(c))  BY <1>4 DEF ToolCloses
  <2>3. Extends({"tool"}) /\ LastIs({"tool"})'
    BY <1>2, <2>1, <2>2, AppendExtends DEF TypeInv
  <2>4. Extends(Kinds \ Markers)
    <3>1. {"tool"} \subseteq Kinds \ Markers  BY DEF Kinds, Markers
    <3> QED  BY <2>3, <3>1, ExtendsMore
  <2>5. BatchInv'  BY <1>1, <2>3 DEF BatchInv
  <2> QED  BY <1>1, <1>2, <1>3, <2>4, <2>5 DEF LoopStep, InLoop, Over, conv, ending
<1>5. CASE ToolStarts(c) \/ ToolEnds(c) \/ ToolFails(c)
  <2>1. archive' = archive  BY <1>5 DEF ToolStarts, ToolEnds, ToolFails, rows
  <2>2. \A d \in Calls : tool'[d] = "ended" => tool[d] = "ended"
    BY <1>5 DEF ToolStarts, ToolEnds, ToolFails, TypeInv, TypeOK
  <2>3. LastIs({"tool"}) => LastIs({"tool"})'  BY <1>2, <2>1 DEF LastIs
  <2>4. BatchInv'  BY <1>1, <1>2, <2>2, <2>3 DEF BatchInv
  <2>5. observed' = observed  BY <1>1 DEF signals
  <2> QED  BY <1>1, <1>2, <1>3, <2>1, <2>4, <2>5, StayStep
<1> QED  BY <1>4, <1>5 DEF ToolStep

LEMMA CollectStep == TypeInv /\ ArchiveInv /\ Collect => LoopStep
<1> SUFFICES ASSUME TypeInv, ArchiveInv, Collect  PROVE LoopStep
  OBVIOUS
<1>1. /\ pc = "watch" /\ kill' = FALSE /\ turn # 0 /\ turn' = turn /\ child' = child
      /\ outcome' = outcome /\ UNCHANGED ending /\ InLoop
  BY DEF Collect, TypeInv, InLoop, Over
<1>2. KillInv'  BY <1>1 DEF KillInv
<1>3. CASE event
  <2>1. Say("cancelled") /\ pc' = "return" /\ steered' = steered
    BY <1>3 DEF Collect, ToolsCancelled
  <2>2. Extends({"cancelled"}) /\ LastIs({"cancelled"})'
    BY <1>1, <2>1, SayExtends DEF Kinds, TypeInv
  <2>3. Extends(Kinds \ Markers)
    <3>1. {"cancelled"} \subseteq Kinds \ Markers  BY DEF Kinds, Markers
    <3> QED  BY <2>2, <3>1, ExtendsMore
  <2>4. LastIs(Closings)'  BY <2>2 DEF LastIs, Closings
  <2> QED
    BY <1>1, <1>2, <2>1, <2>3, <2>4 DEF LoopStep, Closed, BatchInv, InLoop, Over, ending
<1>4. CASE ~event
  <2>1. PICK s \in ErrorRows : archive' = archive \o s  BY <1>4 DEF Collect
  <2>2. /\ s \in Seq(Rows)
        /\ \A i \in 1..Len(s) : \E c \in Calls : s[i] = ToolRow(c)
        /\ (\E c \in Calls : tool[c] = "gone") => s # <<>>
    BY <1>1, ErrorRowsType DEF TypeInv
  <2>3. \A i \in 1..Len(s) : s[i].turn = turn /\ s[i].kind = "tool"
    <3>1. \A c \in Calls : ToolRow(c).turn = turn /\ ToolRow(c).kind = "tool"
      BY DEF ToolRow
    <3> QED  BY <2>2, <3>1
  <2>4. Extends(Kinds \ Markers)
    <3>1. \A i \in 1..Len(s) : s[i].kind \in Kinds \ Markers  BY <2>3 DEF Kinds, Markers
    <3> QED  BY <2>1, <2>2, <2>3, <3>1 DEF Extends
  <2>5. LastIs({"tool"})'
    <3>1. CASE s = <<>>
      <4>1. \A c \in Calls : tool[c] = "ended"
        BY <1>1, <2>2, <3>1 DEF ArchiveInv, BatchInv, BatchDone
      <4>2. LastIs({"tool"})
        <5>1. 1 \in Calls  BY Parameters DEF Calls
        <5> QED  BY <1>1, <4>1, <5>1 DEF ArchiveInv, BatchInv
      <4>3. archive \in Seq(Rows)  BY DEF TypeInv, TypeOK
      <4>4. archive' = archive
        <5> HIDE DEF Rows
        <5> QED  BY <2>1, <3>1, <4>3, ConcatEmptySeq
      <4> QED  BY <1>1, <4>2, <4>4 DEF LastIs
    <3>2. CASE s # <<>>
      <4>1. archive \in Seq(Rows) /\ Len(archive) \in Nat  BY DEF TypeInv, TypeOK
      <4>2. Len(s) \in 1..Len(s) /\ Len(s) # 0  BY <2>2, <3>2
      <4>3. Len(archive') = Len(archive) + Len(s) /\ archive' # <<>>
        BY <2>1, <2>2, <4>1, <4>2
      <4>4. archive'[Len(archive')] = s[Len(s)]
        BY <2>1, <2>2, <4>1, <4>2, <4>3
      <4> QED  BY <1>1, <2>3, <4>2, <4>3, <4>4 DEF LastIs
    <3> QED  BY <3>1, <3>2
  <2>6. AfterBatch  BY <1>4 DEF Collect
  <2>7. /\ pc' \in {"return", "head", "nudge", "stop", "widget", "present", "summary"}
        /\ pc' = "return" => turn \in steered'
        /\ steered \subseteq steered'
    BY <2>6 DEF AfterBatch
  <2>8. pc' = "return" => Closed'  BY <1>1, <2>5, <2>7 DEF Closed
  <2>9. BatchInv' /\ InLoop'  BY <2>7 DEF BatchInv, InLoop, Over
  <2> QED  BY <1>1, <1>2, <2>4, <2>7, <2>8, <2>9 DEF LoopStep, ending
<1> QED  BY <1>3, <1>4 DEF TypeInv, TypeOK

LEMMA EnvironmentStays ==
    ASSUME TypeInv, ArchiveInv, InLoop, OrphanEnds \/ CancelTurn \/ CancelParent
    PROVE  LoopStep
<1>1. BatchInv /\ KillInv  BY DEF ArchiveInv
<1>2. archive' = archive /\ pc' = pc /\ observed' = observed /\ UNCHANGED <<conv, ending>>
  BY DEF OrphanEnds, CancelTurn, CancelParent, rows, signals
<1>3. /\ \A c \in Calls : tool'[c] = "ended" <=> tool[c] = "ended"
      /\ pc = "watch" => tool' = tool
  BY DEF OrphanEnds, CancelTurn, CancelParent, CancelTools, tools
<1>4. BatchInv'
  BY <1>1, <1>2, <1>3 DEF BatchInv, BatchDone, LastIs, conv
<1>5. KillInv'
  <2>1. CASE OrphanEnds  BY <1>1, <2>1 DEF OrphanEnds, KillInv, signals, conv
  <2>2. CASE CancelTurn  BY <2>2 DEF CancelTurn, KillInv, conv
  <2>3. CASE CancelParent  BY <1>1, <2>3 DEF CancelParent, KillInv, conv
  <2> QED  BY <2>1, <2>2, <2>3
<1> QED  BY <1>2, <1>4, <1>5, StayStep

-----------------------------------------------------------------------------
(* What the three properties need of a step                                *)

\* the properties of the archive, and what the next turn needs of this one
History ==
    /\ \A i \in 1..Len(archive) : archive[i].turn <= turn
    /\ \A t \in 1..MaxTurns : t > turn => outcome[t] = "none"
    /\ MarkerOnceLast /\ ClosedInArchive /\ OutcomeMatchesArchive

\* Rows of an unmarked turn in flight, with no marker among them, disturb no
\* settled turn.
LEMMA HistoryExtended ==
    ASSUME TypeOK, turn # 0, History, outcome[turn] = "none", ~Marked,
           Extends(Kinds \ Markers), turn' = turn, outcome' = outcome, steered \subseteq steered'
    PROVE  History' /\ ~Marked'
<1> DEFINE n == Len(archive)
<1> DEFINE m == Len(archive')
<1>1. /\ n \in Nat /\ m \in Nat /\ n <= m
      /\ \A i \in 1..n : archive'[i] = archive[i]
      /\ \A i \in (n + 1)..m : archive'[i].turn = turn /\ archive'[i].kind \in Kinds \ Markers
  BY ExtendsFacts
<1> HIDE DEF n, m
<1>2. turn \in 1..MaxTurns  BY DEF TypeOK
<1>3. \A i \in 1..m : i \in 1..n \/ i \in (n + 1)..m  BY <1>1
<1>4. \A i \in 1..n : i \in 1..m /\ ~(archive[i].turn = turn /\ archive[i].kind \in Markers)
  BY <1>1 DEF Marked, n
<1>5. ~Marked'  BY <1>1, <1>3, <1>4 DEF Marked, m
<1>6. \A i \in 1..m : archive'[i].turn <= turn  BY <1>1, <1>2, <1>3 DEF History, n
<1>7. MarkerOnceLast'
  <2> SUFFICES ASSUME NEW i \in 1..m, archive'[i].kind \in Markers, NEW j \in (i + 1)..m
               PROVE  archive'[j].turn # archive'[i].turn
    BY DEF MarkerOnceLast, Markers, m
  <2>1. i \in 1..n /\ archive'[i] = archive[i] /\ archive[i].turn # turn
    BY <1>1, <1>3, <1>4
  <2>2. CASE j \in (i + 1)..n
    BY <1>1, <2>1, <2>2 DEF History, MarkerOnceLast, n
  <2>3. CASE j \in (n + 1)..m  BY <1>1, <2>1, <2>3
  <2> QED  BY <1>1, <2>1, <2>2, <2>3
<1>8. ClosedInArchive'
  <2> SUFFICES ASSUME NEW t \in 1..MaxTurns, outcome[t] \in Outcomes
               PROVE  ClosedTurn(t)'
    BY DEF ClosedInArchive, ClosedTurn, Closings, Settled, Markers
  <2>1. t # turn  BY DEF Outcomes
  <2>2. PICK i \in 1..n :
           /\ archive[i].turn = t
           /\ archive[i].kind \in Closings \/ (archive[i].kind = "tool" /\ t \in steered)
           /\ \A j \in (i + 1)..n : archive[j].turn # t
    BY DEF History, ClosedInArchive, Closings, Settled, n, Markers
  <2>3. \A j \in (i + 1)..m : archive'[j].turn # t
    <3> SUFFICES ASSUME NEW j \in (i + 1)..m  PROVE archive'[j].turn # t
      OBVIOUS
    <3>1. j \in (i + 1)..n \/ j \in (n + 1)..m  BY <1>1
    <3>2. j \in (i + 1)..n => j \in 1..n  BY <1>1
    <3> QED  BY <1>1, <2>1, <2>2, <3>1, <3>2
  <2>4. i \in 1..m /\ archive'[i] = archive[i]  BY <1>1, <1>4
  <2> QED  BY <2>2, <2>3, <2>4 DEF ClosedTurn, m
<1>9. OutcomeMatchesArchive'
  <2> SUFFICES ASSUME NEW t \in 1..MaxTurns
      PROVE  /\ outcome[t] = "completed" =>
                  \A i \in 1..m : archive'[i].kind \in Markers => archive'[i].turn # t
             /\ outcome[t] = "failed" =>
                  \E i \in 1..m : archive'[i].kind = "turn_aborted" /\ archive'[i].turn = t
    BY DEF OutcomeMatchesArchive, Markers, m
  <2>1. outcome[t] = "completed" =>
           \A i \in 1..n : archive[i].kind \in Markers => archive[i].turn # t
    BY DEF History, OutcomeMatchesArchive, n
  <2>2. outcome[t] = "failed" =>
           \E i \in 1..n : archive[i].kind = "turn_aborted" /\ archive[i].turn = t
    BY DEF History, OutcomeMatchesArchive, n
  <2> QED  BY <1>1, <1>3, <1>4, <2>1, <2>2
<1>10. \A t \in 1..MaxTurns : t > turn' => outcome'[t] = "none"  BY DEF History
<1> QED  BY <1>5, <1>6, <1>7, <1>8, <1>9, <1>10 DEF History, m

LEMMA LoopPreserves == TypeInv /\ ArchiveInv /\ LoopStep => ArchiveInv'
<1> SUFFICES ASSUME TypeInv, ArchiveInv, LoopStep  PROVE ArchiveInv'
  OBVIOUS
<1>1. /\ InLoop /\ InLoop' /\ UNCHANGED <<child, turn, outcome, latch, result>>
      /\ steered \subseteq steered' /\ Extends(Kinds \ Markers)
      /\ BatchInv' /\ KillInv'
  BY DEF LoopStep
<1>2. turn # 0 /\ ~latch /\ result = "none" /\ ~Marked /\ outcome[turn] = "none" /\ History
  BY <1>1 DEF TypeInv, InLoop, ArchiveInv, Fresh, Begun, History
<1>3. History' /\ ~Marked'  BY <1>1, <1>2, HistoryExtended DEF TypeInv
<1>4. Begun'  BY <1>1, <1>2, <1>3 DEF Begun, History
<1>5. Fresh'  BY <1>1, <1>2, <1>3 DEF Fresh
<1>6. EndInv' /\ ReasonInv'  BY DEF LoopStep, EndInv, ReasonInv, InLoop, Over
<1> QED  BY <1>1, <1>3, <1>4, <1>5, <1>6 DEF ArchiveInv, History

-----------------------------------------------------------------------------
(* Steps that leave the loop, or are outside it                            *)

LEMMA HistoryKept ==
    ASSUME TypeOK, History, UNCHANGED <<archive, turn, outcome, steered>>
    PROVE  History'
BY DEF History, MarkerOnceLast, ClosedInArchive, OutcomeMatchesArchive, Settled

\* The first marker of the turn in flight closes it.
LEMMA MarkerAppended ==
    ASSUME TypeOK, turn # 0, History, outcome[turn] = "none", ~Marked,
           NEW kind \in Markers, archive' = Append(archive, Row(kind)), UNCHANGED conv
    PROVE  /\ History' /\ LastIs(Closings)'
           /\ \A i \in 1..Len(archive') :
                 archive'[i].turn = turn /\ archive'[i].kind \in Markers => archive'[i].kind = kind
           /\ \E i \in 1..Len(archive') : archive'[i].turn = turn /\ archive'[i].kind = kind
<1> DEFINE n == Len(archive)
<1>1. Row(kind) \in Rows /\ Row(kind).turn = turn /\ Row(kind).kind = kind
  BY RowType DEF Row, Kinds, Markers
<1>2. /\ n \in Nat /\ Len(archive') = n + 1
      /\ \A i \in 1..n : archive'[i] = archive[i]
      /\ archive'[n + 1] = Row(kind) /\ archive' # <<>>
  <2>1. archive \in Seq(Rows)  BY DEF TypeOK
  <2> HIDE DEF Rows
  <2> QED  BY <1>1, <2>1, AppendProperties
<1> HIDE DEF n
<1>3. \A i \in 1..(n + 1) : i \in 1..n \/ i = n + 1  BY <1>2
<1>4. \A i \in 1..n : ~(archive[i].turn = turn /\ archive[i].kind \in Markers)
  BY DEF Marked, n
<1>5. turn' = turn /\ outcome' = outcome /\ steered' = steered  BY DEF conv
<1>6. LastIs(Closings)'  BY <1>1, <1>2, <1>5 DEF LastIs, Closings
<1>7. \A i \in 1..Len(archive') :
        archive'[i].turn = turn /\ archive'[i].kind \in Markers => archive'[i].kind = kind
  BY <1>1, <1>2, <1>3, <1>4
<1>8. n + 1 \in 1..Len(archive') /\ archive'[n + 1].turn = turn /\ archive'[n + 1].kind = kind
  BY <1>1, <1>2
<1>9. MarkerOnceLast'
  <2> SUFFICES ASSUME NEW i \in 1..(n + 1), archive'[i].kind \in Markers, NEW j \in (i + 1)..(n + 1)
               PROVE  archive'[j].turn # archive'[i].turn
    BY <1>2 DEF MarkerOnceLast, Markers
  <2>1. i \in 1..n /\ archive'[i] = archive[i] /\ archive[i].turn # turn
    BY <1>2, <1>3, <1>4
  <2>2. CASE j \in (i + 1)..n
    BY <1>2, <2>1, <2>2 DEF History, MarkerOnceLast, n
  <2>3. CASE j = n + 1  BY <1>1, <1>2, <2>1, <2>3
  <2> QED  BY <1>2, <2>1, <2>2, <2>3
<1>10. ClosedInArchive'
  <2> SUFFICES ASSUME NEW t \in 1..MaxTurns, outcome[t] \in Outcomes
               PROVE  ClosedTurn(t)'
    BY <1>5 DEF ClosedInArchive, ClosedTurn, Closings, Settled, Markers
  <2>1. t # turn  BY DEF Outcomes
  <2>2. PICK i \in 1..n :
           /\ archive[i].turn = t
           /\ archive[i].kind \in Closings \/ (archive[i].kind = "tool" /\ t \in steered)
           /\ \A j \in (i + 1)..n : archive[j].turn # t
    BY DEF History, ClosedInArchive, Closings, Settled, n, Markers
  <2>3. \A j \in (i + 1)..(n + 1) : archive'[j].turn # t
    <3> SUFFICES ASSUME NEW j \in (i + 1)..(n + 1)  PROVE archive'[j].turn # t
      OBVIOUS
    <3>1. j \in (i + 1)..n \/ j = n + 1  BY <1>2
    <3>2. j \in (i + 1)..n => j \in 1..n  BY <1>2
    <3> QED  BY <1>1, <1>2, <2>1, <2>2, <3>1, <3>2
  <2>4. i \in 1..(n + 1) /\ archive'[i] = archive[i]  BY <1>2
  <2> QED  BY <1>2, <1>5, <2>2, <2>3, <2>4 DEF ClosedTurn
<1>11. OutcomeMatchesArchive'
  <2> SUFFICES ASSUME NEW t \in 1..MaxTurns
      PROVE  /\ outcome[t] = "completed" =>
                  \A i \in 1..(n + 1) : archive'[i].kind \in Markers => archive'[i].turn # t
             /\ outcome[t] = "failed" =>
                  \E i \in 1..(n + 1) : archive'[i].kind = "turn_aborted" /\ archive'[i].turn = t
    BY <1>2, <1>5 DEF OutcomeMatchesArchive, Markers
  <2>1. outcome[t] = "completed" =>
           \A i \in 1..n : archive[i].kind \in Markers => archive[i].turn # t
    BY DEF History, OutcomeMatchesArchive, n
  <2>2. outcome[t] = "failed" =>
           \E i \in 1..n : archive[i].kind = "turn_aborted" /\ archive[i].turn = t
    BY DEF History, OutcomeMatchesArchive, n
  <2> QED  BY <1>1, <1>2, <1>3, <2>1, <2>2
<1>12. \A i \in 1..Len(archive') : archive'[i].turn <= turn'
  <2>1. turn \in Nat  BY Parameters DEF TypeOK
  <2> QED  BY <1>1, <1>2, <1>3, <1>5, <2>1 DEF History, n
<1>13. \A t \in 1..MaxTurns : t > turn' => outcome'[t] = "none"  BY <1>5 DEF History
<1>14. History'  BY <1>9, <1>10, <1>11, <1>12, <1>13 DEF History
<1> QED  BY <1>6, <1>7, <1>8, <1>14

\* Outside the loop the invariant is these conjuncts.
LEMMA OverSuffices ==
    ASSUME History', outcome'[turn'] = "none", (pc \in Over)', KillInv', Closed',
           (pc = "deliver" /\ Marked => latch)', ReasonInv'
    PROVE  ArchiveInv'
<1>1. Begun'  BY DEF Begun, History
<1>2. Fresh' /\ BatchInv' /\ EndInv'  BY DEF Fresh, InLoop, BatchInv, EndInv, Over
<1> QED  BY <1>1, <1>2 DEF ArchiveInv, History

LEMMA ReturnStep == TypeInv /\ ArchiveInv /\ Return => ArchiveInv'
<1> SUFFICES ASSUME TypeInv, ArchiveInv, Return  PROVE ArchiveInv'
  OBVIOUS
<1>1. /\ pc = "return" /\ pc' = "deliver" /\ ~kill' /\ result' = "ok" /\ UNCHANGED conv
      /\ observed' = observed
  BY DEF Return, Step, signals
<1>2. InLoop /\ turn # 0  BY <1>1 DEF InLoop, Over, TypeInv
<1>3. ~latch /\ ~Marked /\ outcome[turn] = "none" /\ History /\ (observed \/ Closed)
  BY <1>1, <1>2 DEF ArchiveInv, Fresh, Begun, EndInv, History
<1>4. KillInv' /\ (pc \in Over)' /\ outcome'[turn'] = "none"
  BY <1>1, <1>3 DEF KillInv, Over, conv
<1>5. CASE observed
  <2>1. archive' = Append(archive, Row("cancel_marker")) /\ latch' = TRUE
    BY <1>3, <1>5 DEF Return, WriteMarkerOnce
  <2>2. /\ History' /\ LastIs(Closings)'
        /\ \A i \in 1..Len(archive') :
              archive'[i].turn = turn /\ archive'[i].kind \in Markers => archive'[i].kind = "cancel_marker"
    BY <1>1, <1>2, <1>3, <2>1, MarkerAppended DEF TypeInv, Markers
  <2>3. ReasonInv'
    BY <1>1, <1>5, <2>2 DEF ReasonInv, Markers, conv
  <2> QED  BY <1>1, <1>4, <2>1, <2>2, <2>3, OverSuffices DEF Closed
<1>6. CASE ~observed
  <2>1. archive' = archive /\ latch' = latch  BY <1>6 DEF Return
  <2>2. History'  BY <1>1, <1>3, <2>1, HistoryKept DEF conv, TypeInv
  <2>3. Closed' /\ ~Marked'
    BY <1>1, <1>3, <1>6, <2>1 DEF Closed, LastIs, Marked, conv
  <2>4. ReasonInv'  BY <1>1, <2>3 DEF ReasonInv, Marked, Markers
  <2> QED  BY <1>1, <1>4, <2>2, <2>3, <2>4, OverSuffices
<1> QED  BY <1>5, <1>6 DEF TypeInv, TypeOK

LEMMA FailStep == TypeInv /\ ArchiveInv /\ Fail => ArchiveInv'
<1> SUFFICES ASSUME TypeInv, ArchiveInv, Fail  PROVE ArchiveInv'
  OBVIOUS
<1>1. /\ pc' = "failing" /\ ~kill' /\ result' = "error" /\ UNCHANGED conv
      /\ archive' = Append(archive, Row("turn_aborted"))
  BY DEF Fail, Step, signals
<1>2. InLoop /\ turn # 0  BY DEF Fail, Step, InLoop, Over, TypeInv
<1>3. ~Marked /\ outcome[turn] = "none" /\ History
  BY <1>2 DEF ArchiveInv, Fresh, Begun, InLoop, History
<1>4. KillInv' /\ (pc \in Over)' /\ outcome'[turn'] = "none" /\ pc' # "deliver"
  BY <1>1, <1>3 DEF KillInv, Over, conv
<1>5. /\ History' /\ LastIs(Closings)'
      /\ \A i \in 1..Len(archive') :
            archive'[i].turn = turn /\ archive'[i].kind \in Markers => archive'[i].kind = "turn_aborted"
      /\ \E i \in 1..Len(archive') : archive'[i].turn = turn /\ archive'[i].kind = "turn_aborted"
  BY <1>1, <1>2, <1>3, MarkerAppended DEF TypeInv, Markers
<1>6. ReasonInv'  BY <1>1, <1>5 DEF ReasonInv, Markers, conv
<1> QED  BY <1>4, <1>5, <1>6, OverSuffices DEF Closed

LEMMA UnwindStep == TypeInv /\ ArchiveInv /\ Unwind => ArchiveInv'
<1> SUFFICES ASSUME TypeInv, ArchiveInv, Unwind  PROVE ArchiveInv'
  OBVIOUS
<1>1. /\ kill /\ ~kill' /\ pc # "idle" /\ turn # 0 /\ UNCHANGED conv
      /\ event' = event /\ observed' = observed
  BY DEF Unwind, Awaits, Prompts, TypeInv
<1>2. event /\ ~child /\ outcome[turn] = "none" /\ History /\ EndInv /\ Fresh /\ ReasonInv
  BY <1>1 DEF ArchiveInv, KillInv, Begun, History
<1>3. KillInv' /\ outcome'[turn'] = "none"  BY <1>1, <1>2 DEF KillInv, conv
<1>4. CASE pc \in {"unwound", "failing"}
  <2>1. pc' = "settle" /\ archive' = archive /\ result' = result
    BY <1>4 DEF Unwind, ending
  <2>2. History'  BY <1>1, <1>2, <2>1, HistoryKept DEF conv, TypeInv
  <2>3. Closed /\ pc \in Over  BY <1>2, <1>4 DEF EndInv, Over
  <2>4. Closed'  BY <1>1, <2>1, <2>3 DEF Closed, LastIs, conv
  <2>5. ReasonInv'  BY <1>1, <1>2, <2>1, <2>3 DEF ReasonInv, conv
  <2>6. (pc \in Over)' /\ pc' # "deliver"  BY <2>1 DEF Over
  <2> QED  BY <1>3, <2>2, <2>4, <2>5, <2>6, OverSuffices
<1>5. CASE pc \notin {"unwound", "failing"}
  <2>1. /\ pc' = "unwound" /\ WriteMarkerOnce
        /\ result' = IF result = "none" THEN "cancelled" ELSE result
    BY <1>5 DEF Unwind
  <2>2. InLoop \/ pc = "deliver"
    BY <1>5 DEF Unwind, InLoop, Awaits, Prompts, Over
  <2>3. (pc \in Over)' /\ pc' # "deliver"  BY <2>1 DEF Over
  <2>4. CASE latch
    <3>1. pc = "deliver" /\ pc \in Over /\ archive' = archive
      BY <1>2, <2>1, <2>2, <2>4 DEF Fresh, Over, WriteMarkerOnce
    <3>2. History'  BY <1>1, <1>2, <3>1, HistoryKept DEF conv, TypeInv
    <3>3. Closed'
      <4>1. Closed  BY <1>2, <3>1 DEF EndInv
      <4> QED  BY <1>1, <3>1, <4>1 DEF Closed, LastIs, conv
    <3>4. result' = "error" <=> result = "error"  BY <2>1
    <3>5. ReasonInv'  BY <1>1, <1>2, <3>1, <3>4 DEF ReasonInv, conv
    <3> QED  BY <1>3, <2>3, <3>2, <3>3, <3>5, OverSuffices
  <2>5. CASE ~latch
    <3>1. archive' = Append(archive, Row("cancel_marker"))  BY <2>1, <2>5 DEF WriteMarkerOnce
    <3>2. ~Marked  BY <1>2, <2>2, <2>5 DEF Fresh, EndInv, Over
    <3>3. result # "error"
      <4>1. CASE InLoop  BY <1>2, <4>1 DEF Fresh
      <4>2. CASE pc = "deliver"
        BY <1>2, <3>2, <4>2 DEF ReasonInv, Over, Marked, Markers
      <4> QED  BY <2>2, <4>1, <4>2
    <3>4. /\ History' /\ LastIs(Closings)'
          /\ \A i \in 1..Len(archive') :
               archive'[i].turn = turn /\ archive'[i].kind \in Markers => archive'[i].kind = "cancel_marker"
      BY <1>1, <1>2, <3>1, <3>2, MarkerAppended DEF TypeInv, Markers
    <3>5. ReasonInv'
      BY <1>1, <1>2, <2>1, <3>3, <3>4 DEF ReasonInv, Markers, conv
    <3> QED  BY <1>3, <2>3, <3>4, <3>5, OverSuffices DEF Closed
  <2> QED  BY <2>4, <2>5 DEF TypeInv, TypeOK
<1> QED  BY <1>4, <1>5

LEMMA DeliveredStep == TypeInv /\ ArchiveInv /\ Delivered => ArchiveInv'
<1> SUFFICES ASSUME TypeInv, ArchiveInv, Delivered  PROVE ArchiveInv'
  OBVIOUS
<1>1. /\ pc \in Over /\ pc # "idle" /\ pc' = "settle" /\ ~kill' /\ archive' = archive
      /\ UNCHANGED <<conv, event, observed, ending>>
  BY DEF Delivered, Step, Over, rows, signals
<1>2. Closed /\ History /\ ReasonInv /\ outcome[turn] = "none"
  BY <1>1 DEF ArchiveInv, EndInv, Begun, History
<1>3. History'  BY <1>1, <1>2, HistoryKept DEF conv, TypeInv
<1>4. Closed'  BY <1>1, <1>2 DEF Closed, LastIs, conv
<1>5. ReasonInv'  BY <1>1, <1>2 DEF ReasonInv, conv, ending
<1>6. KillInv' /\ (pc \in Over)' /\ pc' # "deliver" /\ outcome'[turn'] = "none"
  BY <1>1, <1>2 DEF KillInv, Over, conv
<1> QED  BY <1>3, <1>4, <1>5, <1>6, OverSuffices

\* A closed turn settles with the outcome its archive shows.
LEMMA SettleStep == TypeInv /\ ArchiveInv /\ Settle => ArchiveInv'
<1> SUFFICES ASSUME TypeInv, ArchiveInv, Settle  PROVE ArchiveInv'
  OBVIOUS
<1> DEFINE cancelled == (event /\ ~child) \/ observed
<1> DEFINE reason == IF cancelled THEN "cancelled" ELSE IF result = "error" THEN "failed" ELSE "completed"
<1>1. /\ pc = "settle" /\ pc' = "idle" /\ kill' = kill /\ archive' = archive
      /\ outcome' = [outcome EXCEPT ![turn] = reason]
      /\ child' = child /\ turn' = turn /\ steered' = steered
  BY DEF Settle, rows, signals
<1>2. turn \in 1..MaxTurns /\ archive \in Seq(Rows) /\ Len(archive) \in Nat
  BY <1>1 DEF TypeInv, TypeOK
<1>3. Closed /\ History /\ ReasonInv /\ KillInv
  BY <1>1 DEF ArchiveInv, EndInv, Over, History, Begun
<1>4. outcome'[turn] = reason /\ \A t \in 1..MaxTurns : t # turn => outcome'[t] = outcome[t]
  BY <1>1, <1>2 DEF TypeInv, TypeOK
<1>5. ~kill'  BY <1>1, <1>3 DEF KillInv, Awaits, Prompts
<1>6. Begun'
  BY <1>1, <1>2, <1>3, <1>4 DEF Begun, History
<1>7. MarkerOnceLast'  BY <1>1, <1>3 DEF History, MarkerOnceLast
<1>8. ClosedInArchive'
  <2> SUFFICES ASSUME NEW t \in 1..MaxTurns, outcome'[t] \in Outcomes  PROVE ClosedTurn(t)
    BY <1>1 DEF ClosedInArchive, ClosedTurn, Closings, Settled, Markers
  <2>1. CASE t = turn
    <3>1. Len(archive) \in 1..Len(archive) /\ (Len(archive) + 1)..Len(archive) = {}
      BY <1>2, <1>3 DEF Closed, LastIs
    <3>2. /\ archive[Len(archive)].turn = turn
          /\ archive[Len(archive)].kind \in Closings
             \/ (archive[Len(archive)].kind = "tool" /\ turn \in steered)
      BY <1>3 DEF Closed, LastIs
    <3> QED  BY <2>1, <3>1, <3>2 DEF ClosedTurn
  <2>2. CASE t # turn
    <3>1. outcome[t] \in Outcomes  BY <1>4, <2>2
    <3> QED  BY <1>3, <3>1 DEF History, ClosedInArchive, ClosedTurn, Closings, Settled, Markers
  <2> QED  BY <2>1, <2>2
<1>9. OutcomeMatchesArchive'
  <2> SUFFICES ASSUME NEW t \in 1..MaxTurns
      PROVE  /\ outcome'[t] = "completed" =>
                  \A i \in 1..Len(archive) : archive[i].kind \in Markers => archive[i].turn # t
             /\ outcome'[t] = "failed" =>
                  \E i \in 1..Len(archive) : archive[i].kind = "turn_aborted" /\ archive[i].turn = t
    BY <1>1 DEF OutcomeMatchesArchive, Markers
  <2>1. CASE t = turn
    <3>1. /\ \A i \in 1..Len(archive) : archive[i].turn = turn =>
                /\ archive[i].kind = "cancel_marker" => cancelled
                /\ archive[i].kind = "turn_aborted" => result = "error"
          /\ result = "error" =>
                \E i \in 1..Len(archive) : archive[i].turn = turn /\ archive[i].kind = "turn_aborted"
      BY <1>1, <1>3 DEF ReasonInv, Over
    <3>2. reason = "completed" => ~cancelled /\ result # "error"  OBVIOUS
    <3>3. reason = "failed" => result = "error"  OBVIOUS
    <3> HIDE DEF cancelled, reason
    <3> QED  BY <1>4, <2>1, <3>1, <3>2, <3>3 DEF Markers
  <2>2. CASE t # turn
    BY <1>3, <1>4, <2>2 DEF History, OutcomeMatchesArchive
  <2> QED  BY <2>1, <2>2
<1> QED
  BY <1>1, <1>5, <1>6, <1>7, <1>8, <1>9
     DEF ArchiveInv, Fresh, InLoop, KillInv, BatchInv, EndInv, ReasonInv, Over

\* A signal that arrives, and a tool body that ends, once the loop is left.
LEMMA EnvironmentOver ==
    ASSUME TypeInv, ArchiveInv, ~InLoop, OrphanEnds \/ CancelTurn \/ CancelParent
    PROVE  ArchiveInv'
<1>1. archive' = archive /\ pc' = pc /\ observed' = observed /\ UNCHANGED <<conv, ending>>
  BY DEF OrphanEnds, CancelTurn, CancelParent, rows, signals
<1>2. History /\ KillInv /\ EndInv /\ ReasonInv /\ Begun  BY DEF ArchiveInv, History, Begun
<1>3. History'  BY <1>1, <1>2, HistoryKept DEF conv, TypeInv
<1>4. KillInv'
  <2>1. CASE OrphanEnds  BY <1>1, <1>2, <2>1 DEF OrphanEnds, KillInv, signals, conv
  <2>2. CASE CancelTurn  BY <2>2 DEF CancelTurn, KillInv, conv
  <2>3. CASE CancelParent  BY <1>2, <2>3 DEF CancelParent, KillInv, conv
  <2> QED  BY <2>1, <2>2, <2>3
<1>5. CASE pc = "idle"
  BY <1>1, <1>2, <1>3, <1>4, <1>5
     DEF ArchiveInv, History, Begun, Fresh, InLoop, BatchInv, EndInv, ReasonInv, Over
<1>6. CASE pc \in Over
  <2>1. Closed' /\ outcome'[turn'] = "none"
    BY <1>1, <1>2, <1>6 DEF EndInv, Closed, LastIs, conv, Begun, Over
  <2>2. (pc = "deliver" /\ Marked => latch)'
    BY <1>1, <1>2 DEF EndInv, Marked, conv, ending
  <2>3. event /\ ~child => event' /\ ~child'
    BY <1>1 DEF OrphanEnds, CancelTurn, CancelParent, signals, conv
  <2>4. ReasonInv'  BY <1>1, <1>2, <2>3 DEF ReasonInv, conv, ending
  <2> QED  BY <1>1, <1>3, <1>4, <1>6, <2>1, <2>2, <2>4, OverSuffices
<1> QED  BY <1>5, <1>6 DEF InLoop

LEMMA StartTurnStep == TypeInv /\ ArchiveInv /\ StartTurn => ArchiveInv'
<1> SUFFICES ASSUME TypeInv, ArchiveInv, StartTurn  PROVE ArchiveInv'
  OBVIOUS
<1>1. /\ pc' = "starting" /\ turn' = turn + 1 /\ ~kill' /\ ~latch' /\ result' = "none"
      /\ archive' = archive /\ outcome' = outcome /\ steered' = steered
      /\ turn \in Nat /\ turn' \in 1..MaxTurns
  BY Parameters DEF StartTurn, TypeInv, TypeOK
<1>2. /\ \A i \in 1..Len(archive) : archive[i].turn \in Nat /\ archive[i].turn <= turn
      /\ History
  <2>1. \A i \in 1..Len(archive) : archive[i] \in Rows  BY DEF TypeInv, TypeOK
  <2> QED  BY <2>1, Parameters DEF Rows, ArchiveInv, Begun, History
<1>3. \A i \in 1..Len(archive') : archive'[i].turn <= turn' /\ archive'[i].turn # turn'
  BY <1>1, <1>2
<1>4. \A t \in 1..MaxTurns : t >= turn' => outcome'[t] = "none"  BY <1>1, <1>2 DEF History
<1>5. Begun' /\ Fresh'  BY <1>1, <1>3, <1>4 DEF Begun, Fresh, Marked
<1>6. MarkerOnceLast' /\ ClosedInArchive' /\ OutcomeMatchesArchive'
  BY <1>1, <1>2 DEF History, MarkerOnceLast, ClosedInArchive, OutcomeMatchesArchive, Settled
<1> QED
  BY <1>1, <1>5, <1>6 DEF ArchiveInv, KillInv, BatchInv, EndInv, ReasonInv, Over

LEMMA CrashStep == TypeInv /\ ArchiveInv /\ Crash => ArchiveInv'
<1> SUFFICES ASSUME TypeInv, ArchiveInv, Crash  PROVE ArchiveInv'
  OBVIOUS
<1>1. /\ pc' = "idle" /\ ~kill' /\ archive' = archive /\ turn' = turn /\ steered' = steered
      /\ turn \in 1..MaxTurns
  BY Parameters DEF Crash, TypeInv, TypeOK
<1>2. /\ \A t \in 1..MaxTurns : outcome'[t] = outcome[t] \/ (t = turn /\ outcome'[t] = "lost")
      /\ History
  BY <1>1 DEF Crash, TypeInv, TypeOK, ArchiveInv, Begun, History
<1>3. Begun'  BY <1>1, <1>2 DEF History, Begun
<1>4. MarkerOnceLast'  BY <1>1, <1>2 DEF History, MarkerOnceLast
<1>5. ClosedInArchive'
  BY <1>1, <1>2 DEF History, ClosedInArchive, Settled, Outcomes
<1>6. OutcomeMatchesArchive'
  BY <1>1, <1>2 DEF History, OutcomeMatchesArchive
<1> QED
  BY <1>1, <1>3, <1>4, <1>5, <1>6
     DEF ArchiveInv, Fresh, InLoop, KillInv, BatchInv, EndInv, ReasonInv, Over

LEMMA ArchiveStep == TypeInv /\ ArchiveInv /\ [Next]_vars => ArchiveInv'
<1> SUFFICES ASSUME TypeInv, ArchiveInv, [Next]_vars  PROVE ArchiveInv'
  OBVIOUS
<1>1. CASE StartTurn  BY <1>1, StartTurnStep
<1>2. CASE Compose \/ Answer \/ GraceFails \/ WidgetAnswered \/ Presented \/ Summarised
  BY <1>2, LoopSaySteps, LoopPreserves
<1>3. CASE \/ Begin \/ LlmCancelled \/ LlmEmpty \/ LlmText \/ LlmOverflow \/ Compact
           \/ Nudged \/ WidgetDropped \/ Confirmed
  BY <1>3, LoopQuietSteps, LoopPreserves
<1>4. CASE Iterate \/ LlmCalls \/ Retry \/ RejectCalls
  BY <1>4, IterateStep, LlmCallsStep, RetryStep, RejectStep, LoopPreserves
<1>5. CASE StartTools \/ Gathered \/ Collect
  BY <1>5, StartToolsStep, GatheredStep, CollectStep, LoopPreserves
<1>6. ASSUME NEW c \in Calls, ToolStep(c)  PROVE ArchiveInv'
  BY <1>6, ToolStepStep, LoopPreserves
<1>7. CASE Return \/ Unwind \/ Fail \/ Delivered \/ Settle
  BY <1>7, ReturnStep, UnwindStep, FailStep, DeliveredStep, SettleStep
<1>8. CASE OrphanEnds \/ CancelTurn \/ CancelParent
  <2>1. CASE InLoop  BY <1>8, <2>1, EnvironmentStays, LoopPreserves
  <2>2. CASE ~InLoop  BY <1>8, <2>2, EnvironmentOver
  <2> QED  BY <2>1, <2>2
<1>9. CASE Crash  BY <1>9, CrashStep
<1>10. CASE UNCHANGED vars
  BY <1>10 DEF vars, conv, rows, loop, tools, signals, ending, bounds, ArchiveInv, Begun, Fresh, InLoop,
     Marked, KillInv, BatchInv, BatchDone, LastIs, EndInv, Closed, ReasonInv, MarkerOnceLast,
     ClosedInArchive, OutcomeMatchesArchive, Settled
<1> QED
  BY <1>1, <1>2, <1>3, <1>4, <1>5, <1>6, <1>7, <1>8, <1>9, <1>10 DEF Next, AgentStep

LEMMA ArchiveCorrect == Spec => [](TypeInv /\ ArchiveInv)
BY TypeInit, TypeStep, ArchiveInit, ArchiveStep, PTL DEF Spec

\* A turn has at most one marker and it is the turn's last row: however many
\* cancellations, exceptions and restarts meet in the turn.
THEOREM MarkerIsOnceAndLast == Spec => []MarkerOnceLast
<1>1. ArchiveInv => MarkerOnceLast  BY DEF ArchiveInv
<1> QED  BY <1>1, ArchiveCorrect, PTL

\* Every turn that settles leaves the archive closed by an answer, a notice of
\* cancellation, a marker, or the result a steering message follows.
THEOREM SettledIsClosed == Spec => []ClosedInArchive
<1>1. ArchiveInv => ClosedInArchive  BY DEF ArchiveInv
<1> QED  BY <1>1, ArchiveCorrect, PTL

\* The reason published by turn_complete agrees with the markers on disk.
THEOREM OutcomeIsArchived == Spec => []OutcomeMatchesArchive
<1>1. ArchiveInv => OutcomeMatchesArchive  BY DEF ArchiveInv
<1> QED  BY <1>1, ArchiveCorrect, PTL
-----------------------------------------------------------------------------
(* Every call of a batch is answered once in memory                        *)

\* the loop of the turn, from the first composition to the last answer
Looping == pc \in (Awaits \ {"deliver", "unwound", "failing"}) \cup {"head"}

\* the batches of the turn whose results are in memory
Collected == IF pc \in {"announce", "tools", "watch"} THEN batch - 1 ELSE batch

\* the row that answers a call, and that memory holds it once
Reply(b, c) == [kind |-> "tool", turn |-> turn, batch |-> b, call |-> c]
AnsweredOnce(b, c) ==
    \E i \in 1..Len(memory) :
        /\ memory[i] = Reply(b, c)
        /\ \A j \in 1..Len(memory) : memory[j] = Reply(b, c) => j = i

\* Memory holds no row of a turn to come, none of a turn that has not composed
\* its context, no result of a batch that is still out, and one result of every
\* call of the batches before it.
AnswerInv ==
    /\ \A i \in 1..Len(memory) : memory[i].turn <= turn
    /\ pc = "starting" => \A i \in 1..Len(memory) : memory[i].turn # turn
    /\ Looping =>
         /\ \A i \in 1..Len(memory) :
               memory[i].turn = turn /\ memory[i].kind = "tool" => memory[i].batch <= Collected
         /\ \A b \in 1..Collected, c \in Calls : AnsweredOnce(b, c)

\* memory is extended by rows of this turn of the given kinds
Adds(K) ==
    \E s \in Seq(Rows) :
        /\ memory' = memory \o s
        /\ \A i \in 1..Len(s) : s[i].turn = turn /\ s[i].kind \in K

\* memory' continues memory, row by row
Continues ==
    /\ Len(memory) \in Nat /\ Len(memory') \in Nat /\ Len(memory) <= Len(memory')
    /\ \A i \in 1..Len(memory) : memory'[i] = memory[i]

NoTool == Kinds \ {"tool"}

LEMMA AddsNothing ==
    ASSUME TypeOK, memory' = memory, NEW K
    PROVE  Adds(K)
<1>1. memory \in Seq(Rows)  BY DEF TypeOK
<1>2. memory \o <<>> = memory
  <2> HIDE DEF Rows
  <2> QED  BY <1>1, ConcatEmptySeq
<1>3. <<>> \in Seq(Rows) /\ Len(<<>>) = 0
  OBVIOUS
<1>4. \A i \in 1..Len(<<>>) : <<>>[i].turn = turn /\ <<>>[i].kind \in K
  BY <1>3
<1>5. memory' = memory \o <<>>  BY <1>2
<1> QED  BY <1>3, <1>4, <1>5 DEF Adds

LEMMA AddsRow ==
    ASSUME TypeOK, NEW row \in Rows, memory' = Append(memory, row), row.turn = turn,
           NEW K, row.kind \in K
    PROVE  Adds(K)
<1>1. <<row>> \in Seq(Rows) /\ Len(<<row>>) = 1 /\ <<row>>[1] = row
  OBVIOUS
<1>2. memory' = memory \o <<row>>  BY AppendIsConcat DEF TypeOK
<1>3. \A i \in 1..Len(<<row>>) : <<row>>[i].turn = turn /\ <<row>>[i].kind \in K  BY <1>1
<1> QED  BY <1>1, <1>2, <1>3 DEF Adds

LEMMA AddsSaid ==
    ASSUME TypeOK, turn # 0, NEW kind \in NoTool, Say(kind) \/ Remember(kind)
    PROVE  Adds(NoTool)
<1>1. Row(kind) \in Rows /\ Row(kind).turn = turn /\ Row(kind).kind \in NoTool
  BY RowType DEF Row, NoTool
<1>2. memory' = Append(memory, Row(kind))  BY DEF Say, Remember
<1> QED  BY <1>1, <1>2, AddsRow

\* What an addition does, row by row.
LEMMA AddsFacts ==
    ASSUME TypeOK, NEW K, Adds(K)
    PROVE  /\ Continues
           /\ \A i \in (Len(memory) + 1)..Len(memory') :
                 memory'[i].turn = turn /\ memory'[i].kind \in K
<1>1. PICK s \in Seq(Rows) :
        memory' = memory \o s /\ \A i \in 1..Len(s) : s[i].turn = turn /\ s[i].kind \in K
  BY DEF Adds
<1>2. Len(memory') = Len(memory) + Len(s) /\ Len(s) \in Nat /\ Len(memory) \in Nat
  BY <1>1 DEF TypeOK
<1>3. \A i \in 1..Len(memory) : memory'[i] = memory[i]
  BY <1>1 DEF TypeOK
<1>4. \A i \in (Len(memory) + 1)..Len(memory') : memory'[i] = s[i - Len(memory)]
  BY <1>1, <1>2 DEF TypeOK
<1>5. \A i \in (Len(memory) + 1)..Len(memory') : i - Len(memory) \in 1..Len(s)
  BY <1>2
<1> QED  BY <1>1, <1>2, <1>3, <1>4, <1>5 DEF Continues

\* An answer stays the only one as long as no row that follows repeats it.
LEMMA AnswerKept ==
    ASSUME Continues, turn' = turn, NEW b, NEW c, AnsweredOnce(b, c),
           \A i \in (Len(memory) + 1)..Len(memory') : memory'[i] # Reply(b, c)
    PROVE  AnsweredOnce(b, c)'
<1>1. PICK i \in 1..Len(memory) :
        memory[i] = Reply(b, c) /\ \A j \in 1..Len(memory) : memory[j] = Reply(b, c) => j = i
  BY DEF AnsweredOnce
<1>2. Reply(b, c)' = Reply(b, c)  BY DEF Reply
<1>3. i \in 1..Len(memory') /\ memory'[i] = Reply(b, c)  BY <1>1 DEF Continues
<1>4. ASSUME NEW j \in 1..Len(memory'), memory'[j] = Reply(b, c)  PROVE j = i
  <2>1. j \in 1..Len(memory)  BY <1>4 DEF Continues
  <2>2. memory[j] = Reply(b, c)  BY <1>4, <2>1 DEF Continues
  <2> QED  BY <1>1, <2>1, <2>2
<1>5. \A j \in 1..Len(memory') : memory'[j] = Reply(b, c) => j = i  BY <1>4
<1> QED  BY <1>2, <1>3, <1>5 DEF AnsweredOnce

LEMMA AnswerInit == Init => AnswerInv
<1> SUFFICES ASSUME Init  PROVE AnswerInv
  OBVIOUS
<1>1. memory = <<>> /\ Len(memory) = 0 /\ pc = "idle"  BY DEF Init
<1> QED  BY <1>1 DEF AnswerInv, Looping, Awaits, Prompts

\* A step that adds no result keeps what is collected, wherever it leads.
LEMMA AddStep ==
    ASSUME TypeInv, AnswerInv, turn # 0, turn' = turn, Adds(NoTool), pc' # "starting",
           Looping' => Looping /\ Collected' = Collected
    PROVE  AnswerInv'
<1>1. /\ Continues
      /\ \A i \in (Len(memory) + 1)..Len(memory') : memory'[i].turn = turn /\ memory'[i].kind \in NoTool
  BY AddsFacts DEF TypeInv
<1>2. turn \in Nat  BY DEF TypeInv, TypeOK
<1>3. \A i \in 1..Len(memory') : i \in 1..Len(memory) \/ i \in (Len(memory) + 1)..Len(memory')
  BY <1>1 DEF Continues
<1>4. \A i \in 1..Len(memory') : memory'[i].turn <= turn'
  <2> SUFFICES ASSUME NEW i \in 1..Len(memory')  PROVE memory'[i].turn <= turn
    OBVIOUS
  <2>1. CASE i \in 1..Len(memory)  BY <1>1, <2>1 DEF Continues, AnswerInv
  <2>2. CASE i \in (Len(memory) + 1)..Len(memory')  BY <1>1, <1>2, <2>2
  <2> QED  BY <1>3, <2>1, <2>2
<1>5. ASSUME Looping'
      PROVE  /\ \A i \in 1..Len(memory') :
                   memory'[i].turn = turn' /\ memory'[i].kind = "tool" => memory'[i].batch <= Collected'
             /\ \A b \in 1..Collected', c \in Calls : AnsweredOnce(b, c)'
  <2>1. Looping /\ Collected' = Collected  BY <1>5
  <2>2. ASSUME NEW i \in 1..Len(memory'), memory'[i].turn = turn, memory'[i].kind = "tool"
        PROVE  memory'[i].batch <= Collected
    <3>1. i \in 1..Len(memory)  BY <1>1, <1>3, <2>2 DEF NoTool
    <3> QED  BY <1>1, <2>1, <2>2, <3>1 DEF Continues, AnswerInv
  <2>3. ASSUME NEW b \in 1..Collected, NEW c \in Calls  PROVE AnsweredOnce(b, c)'
    <3>1. AnsweredOnce(b, c)  BY <2>1, <2>3 DEF AnswerInv
    <3>2. \A i \in (Len(memory) + 1)..Len(memory') : memory'[i] # Reply(b, c)
      BY <1>1 DEF Reply, NoTool
    <3> QED  BY <1>1, <3>1, <3>2, AnswerKept
  <2> QED  BY <2>1, <2>2, <2>3
<1> QED  BY <1>4, <1>5 DEF AnswerInv

\* A collected batch: every call of it is answered once, by the row just added,
\* and the answers of the batches before it stand.
LEMMA CollectedStep ==
    ASSUME TypeInv, AnswerInv, Looping, pc \in {"announce", "watch"}, turn' = turn, batch' = batch,
           memory' = memory \o ToolRows, pc' \notin {"starting", "announce", "tools", "watch"}
    PROVE  AnswerInv'
<1>1. turn # 0 /\ turn \in Nat /\ batch \in Nat /\ NumCalls \in Nat \ {0} /\ memory \in Seq(Rows)
  BY Parameters DEF TypeInv, TypeOK
<1>2. ToolRows \in Seq(Rows) /\ Len(ToolRows) = NumCalls
  BY <1>1, ToolRowsType DEF TypeInv, ToolRows, Calls
<1>3. /\ Continues /\ Len(memory') = Len(memory) + NumCalls
      /\ \A c \in Calls : memory'[Len(memory) + c] = ToolRow(c)
  <2>1. /\ Len(memory \o ToolRows) = Len(memory) + Len(ToolRows)
        /\ \A i \in 1..(Len(memory) + Len(ToolRows)) :
              (memory \o ToolRows)[i] = IF i <= Len(memory) THEN memory[i] ELSE ToolRows[i - Len(memory)]
    BY <1>1, <1>2, ConcatProperties
  <2>2. Len(memory') = Len(memory) + NumCalls /\ Len(memory) \in Nat  BY <1>1, <1>2, <2>1
  <2>3. \A i \in 1..Len(memory) : memory'[i] = memory[i]  BY <1>1, <1>2, <2>1, <2>2
  <2>4. ASSUME NEW c \in Calls  PROVE memory'[Len(memory) + c] = ToolRow(c)
    <3>1. Len(memory) + c \in 1..(Len(memory) + Len(ToolRows)) /\ ~(Len(memory) + c <= Len(memory))
          /\ (Len(memory) + c) - Len(memory) = c
      BY <1>1, <1>2, <2>2 DEF Calls
    <3>2. memory'[Len(memory) + c] = ToolRows[c]  BY <2>1, <3>1
    <3>3. ToolRows[c] = ToolRow(c)  BY DEF ToolRows
    <3> QED  BY <3>2, <3>3
  <2>5. Len(memory') \in Nat /\ Len(memory) <= Len(memory')  BY <1>1, <2>2
  <2> QED  BY <2>2, <2>3, <2>4, <2>5 DEF Continues
<1>4. \A i \in (Len(memory) + 1)..Len(memory') :
         /\ i - Len(memory) \in Calls
         /\ memory'[i] = ToolRow(i - Len(memory))
  <2> SUFFICES ASSUME NEW i \in (Len(memory) + 1)..Len(memory')
               PROVE  i - Len(memory) \in Calls /\ memory'[i] = ToolRow(i - Len(memory))
    OBVIOUS
  <2>1. i - Len(memory) \in Calls /\ Len(memory) + (i - Len(memory)) = i
    BY <1>1, <1>3 DEF Calls, Continues
  <2> QED  BY <1>3, <2>1
<1>5. \A i \in 1..Len(memory') : i \in 1..Len(memory) \/ i \in (Len(memory) + 1)..Len(memory')
  BY <1>3 DEF Continues
<1>6. \A i \in (Len(memory) + 1)..Len(memory') :
         memory'[i].turn = turn /\ memory'[i].batch = batch
  <2>1. \A c : ToolRow(c).turn = turn /\ ToolRow(c).batch = batch  BY DEF ToolRow
  <2> QED  BY <1>4, <2>1
<1>7. \A i \in 1..Len(memory) :
         memory[i].turn = turn /\ memory[i].kind = "tool" => memory[i].batch <= batch - 1
  BY DEF AnswerInv, Collected
<1>8. \A i \in 1..Len(memory') : memory'[i].turn <= turn'
  <2> SUFFICES ASSUME NEW i \in 1..Len(memory')  PROVE memory'[i].turn <= turn
    OBVIOUS
  <2>1. CASE i \in 1..Len(memory)  BY <1>3, <2>1 DEF Continues, AnswerInv
  <2>2. CASE i \in (Len(memory) + 1)..Len(memory')  BY <1>1, <1>6, <2>2
  <2> QED  BY <1>5, <2>1, <2>2
<1>9. \A i \in 1..Len(memory') :
         memory'[i].turn = turn /\ memory'[i].kind = "tool" => memory'[i].batch <= batch
  <2> SUFFICES ASSUME NEW i \in 1..Len(memory'), memory'[i].turn = turn, memory'[i].kind = "tool"
               PROVE  memory'[i].batch <= batch
    OBVIOUS
  <2>1. CASE i \in 1..Len(memory)
    <3>1. memory[i] \in Rows  BY <1>1, <2>1
    <3>2. memory'[i] = memory[i]  BY <1>3, <2>1 DEF Continues
    <3>3. memory[i].batch \in Nat  BY <3>1 DEF Rows
    <3>4. memory[i].batch <= batch - 1  BY <1>7, <2>1, <3>2
    <3> QED  BY <1>1, <3>2, <3>3, <3>4
  <2>2. CASE i \in (Len(memory) + 1)..Len(memory')  BY <1>1, <1>6, <2>2
  <2> QED  BY <1>5, <2>1, <2>2
<1>10. ASSUME NEW b \in 1..batch, NEW c \in Calls  PROVE AnsweredOnce(b, c)'
  <2>1. CASE b # batch
    <3>1. b \in 1..(batch - 1)  BY <1>1, <2>1
    <3>2. AnsweredOnce(b, c)  BY <3>1 DEF AnswerInv, Collected
    <3>3. \A i \in (Len(memory) + 1)..Len(memory') : memory'[i] # Reply(b, c)
      BY <1>6, <2>1 DEF Reply
    <3> QED  BY <1>3, <3>2, <3>3, AnswerKept
  <2>2. CASE b = batch
    <3> DEFINE here == Len(memory) + c
    <3>1. here \in 1..Len(memory') /\ memory'[here] = Reply(b, c)
      BY <1>1, <1>3, <2>2 DEF Calls, Continues, ToolRow, Reply
    <3>2. ASSUME NEW j \in 1..Len(memory'), memory'[j] = Reply(b, c)  PROVE j = here
      <4>1. memory'[j].turn = turn /\ memory'[j].kind = "tool" /\ memory'[j].batch = batch /\ memory'[j].call = c
        BY <2>2, <3>2 DEF Reply
      <4>2. j \notin 1..Len(memory)
        <5> SUFFICES ASSUME j \in 1..Len(memory)  PROVE FALSE
          OBVIOUS
        <5>1. memory[j] = memory'[j]  BY <1>3 DEF Continues
        <5>2. batch <= batch - 1  BY <1>7, <4>1, <5>1
        <5> QED  BY <1>1, <5>2
      <4>3. j \in (Len(memory) + 1)..Len(memory')  BY <1>5, <4>2
      <4>4. memory'[j] = ToolRow(j - Len(memory))  BY <1>4, <4>3
      <4>5. j - Len(memory) = c  BY <4>1, <4>4 DEF ToolRow
      <4> QED  BY <1>3, <4>3, <4>5 DEF Continues, Calls
    <3>3. Reply(b, c)' = Reply(b, c)  BY DEF Reply
    <3>4. \A j \in 1..Len(memory') : memory'[j] = Reply(b, c) => j = here  BY <3>2
    <3> HIDE DEF here
    <3> QED  BY <3>1, <3>3, <3>4 DEF AnsweredOnce
  <2> QED  BY <2>1, <2>2
<1>11. Collected' = batch  BY DEF Collected
<1> QED  BY <1>8, <1>9, <1>10, <1>11 DEF AnswerInv

LEMMA AnswerStep == TypeInv /\ ArchiveInv /\ AnswerInv /\ [Next]_vars => AnswerInv'
<1> SUFFICES ASSUME TypeInv, ArchiveInv, AnswerInv, [Next]_vars  PROVE AnswerInv'
  OBVIOUS
<1> USE DEF NoTool, Kinds
<1>1. CASE StartTurn
  <2>1. /\ pc' = "starting" /\ turn' = turn + 1 /\ turn \in Nat
        /\ memory' = IF memory # <<>> THEN memory ELSE archive
    BY <1>1, Parameters DEF StartTurn, TypeInv, TypeOK
  <2>2. \A i \in 1..Len(memory') : memory'[i] \in Rows /\ memory'[i].turn <= turn
    <3>1. CASE memory # <<>>  BY <2>1, <3>1 DEF AnswerInv, TypeInv, TypeOK
    <3>2. CASE memory = <<>>  BY <2>1, <3>2 DEF ArchiveInv, Begun, TypeInv, TypeOK
    <3> QED  BY <3>1, <3>2
  <2>3. \A i \in 1..Len(memory') : memory'[i].turn \in Nat  BY <2>2, Parameters DEF Rows
  <2>4. \A i \in 1..Len(memory') : memory'[i].turn <= turn' /\ memory'[i].turn # turn'
    BY <2>1, <2>2, <2>3
  <2>5. ~Looping'  BY <2>1 DEF Looping, Awaits, Prompts
  <2> QED  BY <2>4, <2>5 DEF AnswerInv
<1>2. CASE Begin
  <2>1. pc = "starting" /\ pc' = "compose" /\ batch' = 0 /\ turn' = turn /\ memory' = memory
    BY <1>2 DEF Begin, Step, conv, rows
  <2>2. \A i \in 1..Len(memory') : memory'[i].turn <= turn' /\ memory'[i].turn # turn'
    BY <2>1 DEF AnswerInv
  <2>3. Collected' = 0 /\ 1..Collected' = {}  BY <2>1 DEF Collected
  <2> QED  BY <2>1, <2>2, <2>3 DEF AnswerInv
<1>3. CASE Compose \/ Answer \/ GraceFails \/ WidgetAnswered \/ Presented \/ Summarised \/ Confirmed
  <2>1. turn # 0 /\ turn' = turn /\ batch' = batch /\ Looping /\ Collected = batch
        /\ pc' \notin {"starting", "announce", "tools", "watch"}
    BY <1>3 DEF Compose, Answer, GraceFails, WidgetAnswered, Presented, Summarised, Confirmed, Step,
       TypeInv, conv, loop, Looping, Awaits, Prompts, Collected
  <2>2. \E k \in NoTool : Say(k) \/ Remember(k)
    BY <1>3 DEF Compose, Answer, GraceFails, WidgetAnswered, Presented, Summarised, Confirmed
  <2>3. Adds(NoTool)  BY <2>1, <2>2, AddsSaid DEF TypeInv
  <2>4. Collected' = Collected  BY <2>1 DEF Collected
  <2> QED  BY <2>1, <2>3, <2>4, AddStep
<1>4. CASE Iterate \/ LlmCancelled
  <2>1. turn # 0 /\ turn' = turn /\ batch' = batch /\ Looping /\ Collected = batch
        /\ pc' \notin {"starting", "announce", "tools", "watch"}
    BY <1>4 DEF Iterate, LlmCancelled, SeeCancel, TypeInv, conv, loop, Looping, Awaits, Prompts, Collected
  <2>2. Remember("cancelled") \/ memory' = memory
    BY <1>4 DEF Iterate, LlmCancelled, SeeCancel, rows
  <2>3. Adds(NoTool)  BY <2>1, <2>2, AddsSaid, AddsNothing DEF TypeInv
  <2>4. Collected' = Collected  BY <2>1 DEF Collected
  <2> QED  BY <2>1, <2>3, <2>4, AddStep
<1>5. CASE LlmCalls
  <2> DEFINE row == [Row("calls") EXCEPT !.batch = batch + 1]
  <2>1. turn # 0 /\ turn' = turn /\ batch' = batch + 1 /\ pc = "llm" /\ pc' = "announce" /\ batch \in Nat
    BY <1>5 DEF LlmCalls, Step, TypeInv, TypeOK, conv
  <2>2. row = [kind |-> "calls", turn |-> turn, batch |-> batch + 1, call |-> 0]
    BY DEF Row
  <2>3. turn \in 1..MaxTurns /\ batch + 1 \in Nat /\ 0 \in 0..NumCalls
    BY <2>1, Parameters DEF TypeInv, TypeOK
  <2>4. row \in Rows /\ row.turn = turn /\ row.kind \in NoTool
    BY <2>2, <2>3 DEF Rows
  <2>5. memory' = Append(memory, row)  BY <1>5 DEF LlmCalls
  <2>6. Adds(NoTool)
    <3> HIDE DEF row, NoTool
    <3> QED  BY <2>4, <2>5, AddsRow DEF TypeInv
  <2>7. Looping /\ Collected' = Collected
    BY <2>1 DEF Looping, Collected, Awaits, Prompts
  <2> QED  BY <2>1, <2>6, <2>7, AddStep
<1>6. CASE Retry
  <2> DEFINE two == <<Row("answer"), Row("synthetic")>>
  <2>1. turn # 0 /\ turn' = turn /\ batch' = batch /\ pc = "reflect" /\ pc' = "head"
    BY <1>6 DEF Retry, Step, TypeInv, conv
  <2>2. Row("answer") \in Rows /\ Row("synthetic") \in Rows
    BY <2>1, RowType DEF TypeInv
  <2>3. two \in Seq(Rows) /\ Len(two) = 2 /\ two[1] = Row("answer") /\ two[2] = Row("synthetic")
    BY <2>2
  <2>4. \A i \in 1..Len(two) : two[i].turn = turn /\ two[i].kind \in NoTool
    <3>1. \A i \in 1..Len(two) : i = 1 \/ i = 2  BY <2>3
    <3> QED  BY <2>3, <3>1 DEF Row
  <2>5. memory' = memory \o two  BY <1>6 DEF Retry
  <2>6. Adds(NoTool)
    <3> HIDE DEF two, NoTool
    <3> QED  BY <2>3, <2>4, <2>5 DEF Adds
  <2>7. Looping /\ Collected' = Collected
    BY <2>1 DEF Looping, Collected, Awaits, Prompts
  <2> QED  BY <2>1, <2>6, <2>7, AddStep
<1>7. CASE LlmEmpty \/ LlmText \/ LlmOverflow \/ Compact \/ Nudged \/ WidgetDropped
  <2>1. turn # 0 /\ turn' = turn /\ batch' = batch /\ Looping /\ Collected = batch /\ memory' = memory
        /\ pc' \notin {"starting", "announce", "tools", "watch"}
    BY <1>7 DEF LlmEmpty, LlmText, LlmOverflow, Compact, Nudged, WidgetDropped, Step,
       TypeInv, conv, rows, loop, Looping, Awaits, Prompts, Collected
  <2>2. Adds(NoTool)  BY <2>1, AddsNothing DEF TypeInv
  <2>3. Collected' = Collected  BY <2>1 DEF Collected
  <2> QED  BY <2>1, <2>2, <2>3, AddStep
<1>8. CASE RejectCalls
  BY <1>8, CollectedStep DEF RejectCalls, Step, Looping, Awaits, conv, loop
<1>9. CASE StartTools \/ Gathered
  <2>1. turn # 0 /\ turn' = turn /\ batch' = batch /\ Looping /\ pc' # "starting"
        /\ pc \in {"announce", "tools"} /\ pc' \in {"tools", "watch", "return"}
    BY <1>9 DEF StartTools, ToolsCancelled, Gathered, Step, TypeInv, conv, loop, Looping, Awaits
  <2>2. Say("cancelled") \/ memory' = memory
    BY <1>9 DEF StartTools, ToolsCancelled, Gathered, rows
  <2>3. Adds(NoTool)  BY <2>1, <2>2, AddsSaid, AddsNothing DEF TypeInv
  <2>4. Looping' => Collected' = Collected
    BY <2>1 DEF Looping, Collected, Awaits, Prompts
  <2> QED  BY <2>1, <2>3, <2>4, AddStep
<1>10. CASE Collect
  <2>1. turn # 0 /\ turn' = turn /\ batch' = batch /\ Looping /\ pc = "watch"
    BY <1>10 DEF Collect, TypeInv, loop, Looping, Awaits
  <2>2. CASE event
    <3>1. Say("cancelled") /\ pc' = "return"  BY <1>10, <2>2 DEF Collect, ToolsCancelled
    <3>2. Adds(NoTool)  BY <2>1, <3>1, AddsSaid DEF TypeInv
    <3>3. ~Looping'  BY <3>1 DEF Looping, Awaits, Prompts
    <3> QED  BY <2>1, <3>1, <3>2, <3>3, AddStep
  <2>3. CASE ~event
    <3>1. memory' = memory \o ToolRows /\ AfterBatch  BY <1>10, <2>3 DEF Collect
    <3>2. pc' \notin {"starting", "announce", "tools", "watch"}  BY <3>1 DEF AfterBatch
    <3> QED  BY <2>1, <3>1, <3>2, CollectedStep
  <2> QED  BY <2>2, <2>3 DEF TypeInv, TypeOK
<1>11. CASE Return \/ Unwind \/ Fail \/ Delivered \/ Settle
  <2>1. turn # 0 /\ turn' = turn /\ memory' = memory /\ pc' \in {"deliver", "unwound", "failing", "settle", "idle"}
    BY <1>11 DEF Return, Unwind, Fail, Delivered, Settle, Step, TypeInv, Awaits, Prompts, conv, rows
  <2>2. Adds(NoTool)  BY <2>1, AddsNothing DEF TypeInv
  <2>3. ~Looping' /\ pc' # "starting"  BY <2>1 DEF Looping, Awaits, Prompts
  <2> QED  BY <2>1, <2>2, <2>3, AddStep
<1>12. CASE Crash
  <2>1. memory' = <<>> /\ Len(memory') = 0 /\ pc' = "idle"  BY <1>12 DEF Crash
  <2> QED  BY <2>1 DEF AnswerInv, Looping, Awaits, Prompts
<1>13. CASE (\E c \in Calls : ToolStep(c)) \/ OrphanEnds \/ CancelTurn \/ CancelParent \/ UNCHANGED vars
  <2>1. turn' = turn /\ memory' = memory /\ pc' = pc /\ batch' = batch
    <3>1. CASE \E c \in Calls : ToolStep(c)
      BY <3>1 DEF ToolStep, ToolStarts, ToolEnds, ToolCloses, ToolFails, conv, rows, loop
    <3>2. CASE OrphanEnds \/ CancelTurn \/ CancelParent \/ UNCHANGED vars
      BY <3>2 DEF OrphanEnds, CancelTurn, CancelParent, vars, conv, rows, loop
    <3> QED  BY <1>13, <3>1, <3>2
  <2> QED  BY <2>1 DEF AnswerInv, Looping, Collected, AnsweredOnce, Reply
<1> QED
  BY <1>1, <1>2, <1>3, <1>4, <1>5, <1>6, <1>7, <1>8, <1>9, <1>10, <1>11, <1>12, <1>13
     DEF Next, AgentStep

LEMMA OneAnswerCounts ==
    ASSUME NEW b, NEW c, AnsweredOnce(b, c)
    PROVE  Cardinality({i \in 1..Len(memory) : memory[i] = Reply(b, c)}) = 1
<1>1. PICK i \in 1..Len(memory) :
        memory[i] = Reply(b, c) /\ \A j \in 1..Len(memory) : memory[j] = Reply(b, c) => j = i
  BY DEF AnsweredOnce
<1>2. {j \in 1..Len(memory) : memory[j] = Reply(b, c)} = {i}  BY <1>1
<1> QED  BY <1>2, FS_Singleton

LEMMA AnswersCount == AnswerInv => CallsAnsweredInTurn
<1> SUFFICES ASSUME AnswerInv, pc \in Prompts, NEW b \in 1..batch, NEW c \in Calls
             PROVE  Cardinality({i \in 1..Len(memory) : memory[i] = Reply(b, c)}) = 1
  BY DEF CallsAnsweredInTurn, Reply
<1>1. Looping /\ Collected = batch  BY DEF Looping, Collected, Awaits, Prompts
<1>2. AnsweredOnce(b, c)  BY <1>1 DEF AnswerInv
<1> QED  BY <1>2, OneAnswerCounts

\* No prompt goes out with a tool call of its turn unanswered or answered twice,
\* whichever tasks ended, raised or were cancelled, and however many batches a
\* turn has: the results are collected by call and not by task.
THEOREM CallsAreAnswered == Spec => []CallsAnsweredInTurn
BY AnswerInit, AnswerStep, AnswersCount, ArchiveCorrect, PTL DEF Spec

-----------------------------------------------------------------------------
(* How a turn comes to its answer *)

\* The calls that were made are those of the iterations that are gone, and the
\* empty response that was free; the grace turn makes one more, and so does the
\* tool that ends a turn.
CallsCounted ==
    /\ parts + remaining <= MaxIterations
    /\ at \in {"loop", "judge"} => calls <= MaxIterations - remaining + empties
    /\ at = "grace" => calls <= MaxIterations + empties + 1
    /\ at = "over" => calls <= MaxIterations + 2

\* While a turn goes on, every verdict on it was a rejection and cost a retry, and
\* last_reflection is the last of them.
Rejections ==
    at # "over" =>
      /\ answers > 0 /\ Len(verdicts) = retries
      /\ \A i \in 1..Len(verdicts) : verdicts[i] = "fail"
      /\ last = (IF retries = 0 THEN "none" ELSE "fail")
      /\ at = "judge" => first = TRUE /\ retries < MaxRetries
      /\ at # "judge" => (first = TRUE <=> retries > 0)
      /\ sort = "child" => retries = 0 /\ at # "judge"

\* A turn that goes on has delivered and recorded nothing, and has shown rejections.
NothingYet ==
    at # "over" =>
      /\ metrics = "none" /\ kept = <<>> /\ delivered = <<>>
      /\ \A i \in 1..Len(live) : live[i] = "fail"

\* Rows are of turns that were begun; the results of tools are of real ones.
RowsOfTurns ==
    \A i \in 1..Len(history) :
      history[i].turn <= answers /\ (history[i].kind = "tool" => history[i].turn > 0)

\* Where no overflow moved the start of the turn, the results of its tools are
\* those after the start, and those before it are of others.
ToolsAfterStart ==
    at # "over" /\ "moved" \notin mishaps =>
      /\ results = Cardinality(Judge!ThisTurn)
      /\ \A i \in 1..start : history[i].kind = "tool" => history[i].turn # answers

\* What the properties say of the answer that is out.
AnswerRight ==
    /\ Judge!NoticeIsHonest /\ Judge!RecordIsRight
    /\ Judge!CutTurnsAreTold /\ Judge!VerdictsAreKept

JudgeInv ==
    /\ Judge!TypeOK /\ CallsCounted /\ Rejections /\ NothingYet /\ RowsOfTurns
    /\ ToolsAfterStart /\ AnswerRight /\ Judge!JudgeSeesTheTurn

-----------------------------------------------------------------------------
(* Rows and the results among them *)

LEMMA JudgeCardinality == \A S : Judge!Cardinality(S) = Cardinality(S)
BY DEF Judge!Cardinality, Cardinality

\* The indices of the results in a stretch of the history are finitely many.
LEMMA ResultsFinite ==
    ASSUME NEW a \in Int, NEW b \in Int
    PROVE  /\ IsFiniteSet(Judge!Indices(a, b)) /\ Cardinality(Judge!Indices(a, b)) \in Nat
<1>1. IsFiniteSet(a..b)  BY FS_Interval
<1>2. Judge!Indices(a, b) \subseteq a..b  BY DEF Judge!Indices
<1> QED  BY <1>1, <1>2, FS_Subset, FS_CardinalityType

\* Rows at the end of a longer history.
LEMMA SeqMore ==
    ASSUME NEW S, NEW s \in Seq(S), NEW t \in Seq(S)
    PROVE  /\ s \o t \in Seq(S) /\ Len(s \o t) = Len(s) + Len(t)
           /\ \A i \in 1..Len(s) : (s \o t)[i] = s[i]
           /\ \A i \in 1..Len(t) : (s \o t)[Len(s) + i] = t[i]
OBVIOUS

LEMMA TwoMore ==
    ASSUME NEW S, NEW s \in Seq(S), NEW x \in S, NEW y \in S
    PROVE  /\ s \o <<x, y>> \in Seq(S) /\ Len(s \o <<x, y>>) = Len(s) + 2
           /\ \A i \in 1..Len(s) : (s \o <<x, y>>)[i] = s[i]
           /\ (s \o <<x, y>>)[Len(s) + 1] = x /\ (s \o <<x, y>>)[Len(s) + 2] = y
<1>1. <<x, y>> \in Seq(S) /\ Len(<<x, y>>) = 2 /\ <<x, y>>[1] = x /\ <<x, y>>[2] = y
  OBVIOUS
<1> QED  BY <1>1

LEMMA OneMore ==
    ASSUME NEW S, NEW s \in Seq(S), NEW x \in S
    PROVE  /\ Append(s, x) \in Seq(S) /\ Len(Append(s, x)) = Len(s) + 1
           /\ \A i \in 1..Len(s) : Append(s, x)[i] = s[i]
           /\ Append(s, x)[Len(s) + 1] = x
OBVIOUS

\* A row of the turn.
LEMMA RowOfTurn ==
    ASSUME Judge!TypeOK, answers > 0, NEW k \in {"user", "synthetic", "tool", "text", "summary"}
    PROVE  Judge!R(k) \in Judge!Rows /\ Judge!R(k).kind = k /\ Judge!R(k).turn = answers
BY DEF Judge!TypeOK, Judge!R, Judge!Rows

\* The results of the turn, after a text and a result: one more.
LEMMA OneResultMore ==
    ASSUME Judge!TypeOK, answers > 0,
           history' = history \o <<Judge!R("text"), Judge!R("tool")>>, start' = start
    PROVE  Cardinality(Judge!ThisTurn') = Cardinality(Judge!ThisTurn) + 1
<1> DEFINE n == Len(history)
<1>1. history \in Seq(Judge!Rows) /\ n \in Nat /\ start \in 0..n
  BY DEF Judge!TypeOK
<1>2. /\ Len(history') = n + 2 /\ \A i \in 1..n : history'[i] = history[i]
      /\ history'[n + 1].kind = "text" /\ history'[n + 2].kind = "tool"
  BY <1>1, RowOfTurn, TwoMore
<1>3. Judge!ThisTurn' = Judge!ThisTurn \cup {n + 2}
  BY <1>1, <1>2 DEF Judge!ThisTurn, Judge!Indices
<1>4. n + 2 \notin Judge!ThisTurn
  BY <1>1 DEF Judge!ThisTurn, Judge!Indices
<1>5. IsFiniteSet(Judge!ThisTurn)
  BY <1>1, ResultsFinite DEF Judge!ThisTurn
<1> QED  BY <1>3, <1>4, <1>5, FS_AddElement

\* The results of the turn are the same after rows of other kinds.
LEMMA NoResultMore ==
    ASSUME Judge!TypeOK, start' = start, Len(history') \in Nat, Len(history) <= Len(history'),
           \A i \in 1..Len(history) : history'[i] = history[i],
           \A i \in (Len(history) + 1)..Len(history') : history'[i].kind # "tool"
    PROVE  Judge!ThisTurn' = Judge!ThisTurn
<1>1. Len(history) \in Nat /\ start \in 0..Len(history)  BY DEF Judge!TypeOK
<1> QED  BY <1>1 DEF Judge!ThisTurn, Judge!Indices

LEMMA LeastIndex ==
    ASSUME NEW S \in SUBSET Nat, S # {}
    PROVE  \E x \in S : \A y \in S : x <= y
<1>1. PICK x \in S : \A y \in S : ~ (<<y, x>> \in OpToRel(<, Nat))
  BY NatLessThanWellFounded, WFMin
<1>2. ASSUME NEW y \in S  PROVE x <= y
  <2>1. ~ (<<y, x>> \in {p \in Nat \X Nat : p[1] < p[2]})  BY <1>1 DEF OpToRel
  <2>2. y \in Nat /\ x \in Nat /\ ~ (y < x)  BY <2>1
  <2> QED  BY <2>2
<1> QED  BY <1>2

\* The judge is told of results of turns that were begun; and of none of the turn,
\* where its results are after the start, among those of others.
LEMMA OthersOf ==
    ASSUME Judge!TypeOK, RowsOfTurns
    PROVE  \A t \in Judge!Told.others :
             t \in 1..MaxAnswers /\ \E i \in 1..start : history[i].kind = "tool" /\ history[i].turn = t
<1> DEFINE S == Judge!LastStarts
           from == CHOOSE i \in S : \A j \in S : i <= j
<1>1. CASE S = {}
  BY <1>1 DEF Judge!Told
<1>2. CASE S # {}
  <2>1. S \subseteq Nat \ {0}
    BY DEF Judge!LastStarts, Judge!PriorStarts, Judge!TypeOK
  <2>2. PICK x \in S : \A y \in S : x <= y
    BY <1>2, <2>1, LeastIndex
  <2>3. from \in S  BY <2>2
  <2>4. start \in 0..Len(history) /\ history \in Seq(Judge!Rows)  BY DEF Judge!TypeOK
  <2>5. Judge!Told.others = {history[i].turn : i \in Judge!Indices(from, start - 1)}
    BY <1>2 DEF Judge!Told
  <2>6. \A i \in Judge!Indices(from, start - 1) : i \in 1..start /\ history[i].kind = "tool"
    <3> HIDE DEF from, S
    <3>1. from \in Nat \ {0}  BY <2>1, <2>3
    <3>2. start \in Nat  BY <2>4
    <3> QED  BY <3>1, <3>2 DEF Judge!Indices
  <2>7. \A i \in 1..start : history[i] \in Judge!Rows  BY <2>4
  <2>8. \A i \in 1..start : history[i].turn \in 0..MaxAnswers
    BY <2>7 DEF Judge!Rows
  <2>9. \A i \in Judge!Indices(from, start - 1) : history[i].turn \in 1..MaxAnswers
    BY <2>4, <2>6, <2>8 DEF RowsOfTurns
  <2> QED  BY <2>5, <2>6, <2>9
<1> QED  BY <1>1, <1>2

LEMMA ToldTools == Judge!Told.tools = Cardinality(Judge!ThisTurn)
<1>1. Judge!Told.tools = Judge!Cardinality(Judge!ThisTurn)  BY DEF Judge!Told
<1> QED  BY <1>1, JudgeCardinality

LEMMA OthersTyped ==
    ASSUME Judge!TypeOK, RowsOfTurns
    PROVE  Judge!Told.others \subseteq 1..MaxAnswers
BY OthersOf

LEMMA OthersOfOthers ==
    ASSUME Judge!TypeOK, RowsOfTurns,
           \A i \in 1..start : history[i].kind = "tool" => history[i].turn # answers
    PROVE  answers \notin Judge!Told.others
BY OthersOf

\* A note, and what was said before it.
LEMMA NoteTyped ==
    ASSUME parts \in Nat
    PROVE  /\ Judge!WithNote \in Seq(Judge!Texts)
           /\ Judge!WithNote # <<>> /\ Judge!WithNote[1] = "note"
           /\ (sort # "watched" => Len(Judge!WithNote) = 1 + parts)
<1> DEFINE said == [i \in 1..parts |-> "preamble"]
<1>1. said \in Seq(Judge!Texts) /\ Len(said) = parts
  <2>1. "preamble" \in Judge!Texts  BY DEF Judge!Texts
  <2> QED  BY <2>1
<1> HIDE DEF said
<1>2. /\ <<"note">> \in Seq(Judge!Texts) /\ Len(<<"note">>) = 1 /\ <<"note">>[1] = "note"
  BY DEF Judge!Texts
<1>3. /\ <<"note">> \o said \in Seq(Judge!Texts) /\ Len(<<"note">> \o said) = 1 + parts
      /\ (<<"note">> \o said)[1] = "note"
  BY <1>1, <1>2
<1>4. Judge!WithNote = IF sort = "watched" THEN <<"note">> ELSE <<"note">> \o said
  BY DEF Judge!WithNote, said
<1> QED  BY <1>2, <1>3, <1>4

-----------------------------------------------------------------------------
(* Every step keeps the invariant *)

JudgeTyped == Judge!Bounds /\ JudgeInv /\ [Judge!Next]_(Judge!vars)

LEMMA CallsStep == JudgeTyped => CallsCounted'
<1> SUFFICES ASSUME JudgeTyped  PROVE CallsCounted'
  OBVIOUS
<1>1. /\ remaining \in 0..MaxIterations /\ empties \in 0..1 /\ parts \in 0..MaxIterations
      /\ calls \in Nat /\ MaxIterations \in Nat /\ CallsCounted
      /\ at \in {"over", "loop", "judge", "grace"}
  BY DEF JudgeTyped, JudgeInv, Judge!TypeOK, Judge!Bounds
<1> USE DEF CallsCounted, Judge!Iterates, Judge!Asked, Judge!Ends
<1>2. CASE Judge!NewTurn
  BY <1>1, <1>2 DEF Judge!NewTurn
<1>3. CASE Judge!CallTools
  <2>1. PICK said \in {0, 1} : parts' = parts + said  BY <1>3 DEF Judge!CallTools
  <2> QED  BY <1>1, <1>3, <2>1 DEF Judge!CallTools
<1>4. CASE Judge!Overflow
  BY <1>1, <1>4 DEF Judge!Overflow
<1>5. CASE Judge!RetryEmpty
  BY <1>1, <1>5 DEF Judge!RetryEmpty, Judge!rowVars
<1>6. CASE Judge!Unjudged
  <2>1. at' = "over" /\ parts' = parts  BY <1>6 DEF Judge!Unjudged, Judge!Answer
  <2>2. at = "loop" /\ remaining > 0 /\ calls' = calls + 1 /\ remaining' = remaining - 1
    BY <1>6 DEF Judge!Unjudged
  <2> QED  BY <1>1, <2>1, <2>2
<1>7. CASE Judge!Candidate
  BY <1>1, <1>7 DEF Judge!Candidate
<1>8. CASE Judge!Accepted
  BY <1>1, <1>8 DEF Judge!Accepted
<1>9. CASE Judge!Rejected
  BY <1>1, <1>9 DEF Judge!Rejected, Judge!turnVars
<1>10. CASE Judge!Cancelled
  BY <1>1, <1>10 DEF Judge!Cancelled, Judge!loopVars, Judge!rowVars, Judge!ghostVars
<1>11. CASE Judge!EndTurn
  BY <1>1, <1>11 DEF Judge!EndTurn
<1>12. CASE Judge!LoopBreak
  BY <1>1, <1>12 DEF Judge!LoopBreak, Judge!NoteEnds
<1>13. CASE Judge!BudgetGone
  BY <1>1, <1>13 DEF Judge!BudgetGone, Judge!loopVars, Judge!rowVars
<1>14. CASE Judge!Grace
  <2>1. at = "grace" /\ at' = "over" /\ parts' = parts /\ remaining' = remaining /\ calls' = calls
    BY <1>14 DEF Judge!Grace, Judge!NoteEnds
  <2> QED  BY <1>1, <2>1
<1>15. CASE UNCHANGED Judge!vars
  BY <1>1, <1>15 DEF Judge!vars, Judge!loopVars, Judge!rowVars, Judge!ghostVars
<1> QED
  BY <1>2, <1>3, <1>4, <1>5, <1>6, <1>7, <1>8, <1>9, <1>10, <1>11, <1>12, <1>13, <1>14, <1>15
     DEF JudgeTyped, Judge!Next

LEMMA EndsOver ==
    Judge!Unjudged \/ Judge!Accepted \/ Judge!Cancelled \/ Judge!EndTurn \/ Judge!LoopBreak
      \/ Judge!Grace => at' = "over"
BY DEF Judge!Unjudged, Judge!Answer, Judge!Accepted, Judge!Cancelled, Judge!EndTurn,
       Judge!LoopBreak, Judge!NoteEnds, Judge!Grace, Judge!Ends

\* The verdicts of the turn, as it goes on.
LEMMA RejectionsStep == JudgeTyped => Rejections'
<1> SUFFICES ASSUME JudgeTyped  PROVE Rejections'
  OBVIOUS
<1>1. /\ retries \in 0..MaxRetries /\ MaxRetries \in Nat /\ verdicts \in Seq(Judge!Verdicts)
      /\ Rejections /\ answers \in Nat /\ first \in BOOLEAN
  BY DEF JudgeTyped, JudgeInv, Judge!TypeOK, Judge!Bounds
<1> USE DEF Rejections, Judge!Iterates, Judge!Ends
<1>2. CASE Judge!NewTurn
  BY <1>1, <1>2 DEF Judge!NewTurn
<1>3. CASE Judge!CallTools
  BY <1>1, <1>3 DEF Judge!CallTools, Judge!turnVars
<1>4. CASE Judge!Overflow
  BY <1>1, <1>4 DEF Judge!Overflow, Judge!turnVars
<1>5. CASE Judge!RetryEmpty
  BY <1>1, <1>5 DEF Judge!RetryEmpty, Judge!turnVars
<1>6. CASE at' = "over"
  BY <1>6
<1>7. CASE Judge!Candidate
  BY <1>1, <1>7 DEF Judge!Candidate, Judge!ShouldReflect, Judge!turnVars
<1>9. CASE Judge!Rejected
  <2>1. /\ at = "judge" /\ at' = "loop" /\ last' = "fail" /\ retries' = retries + 1
        /\ verdicts' = Append(verdicts, "fail") /\ UNCHANGED <<answers, sort, first>>
    BY <1>9 DEF Judge!Rejected, Judge!turnVars
  <2>2. /\ Len(verdicts') = Len(verdicts) + 1 /\ verdicts'[Len(verdicts) + 1] = "fail"
        /\ \A i \in 1..Len(verdicts) : verdicts'[i] = verdicts[i]
    BY <1>1, <2>1 DEF Judge!Verdicts
  <2>3. \A i \in 1..Len(verdicts') : verdicts'[i] = "fail"
    BY <1>1, <2>1, <2>2
  <2> QED  BY <1>1, <2>1, <2>2, <2>3
<1>13. CASE Judge!BudgetGone
  BY <1>1, <1>13 DEF Judge!BudgetGone, Judge!loopVars, Judge!turnVars
<1>15. CASE UNCHANGED Judge!vars
  BY <1>1, <1>15 DEF Judge!vars, Judge!loopVars, Judge!turnVars, Judge!ghostVars
<1> QED
  BY <1>2, <1>3, <1>4, <1>5, <1>6, <1>7, <1>9, <1>13, <1>15, EndsOver DEF JudgeTyped, Judge!Next

LEMMA NothingStep == JudgeTyped => NothingYet'
<1> SUFFICES ASSUME JudgeTyped  PROVE NothingYet'
  OBVIOUS
<1>1. live \in Seq(Judge!Verdicts) /\ NothingYet
  BY DEF JudgeTyped, JudgeInv, Judge!TypeOK
<1> USE DEF NothingYet, Judge!Iterates, Judge!Ends
<1>2. CASE Judge!NewTurn
  BY <1>1, <1>2 DEF Judge!NewTurn
<1>3. CASE Judge!CallTools
  BY <1>1, <1>3 DEF Judge!CallTools, Judge!recordVars
<1>4. CASE Judge!Overflow
  BY <1>1, <1>4 DEF Judge!Overflow, Judge!recordVars
<1>5. CASE Judge!RetryEmpty
  BY <1>1, <1>5 DEF Judge!RetryEmpty, Judge!recordVars
<1>6. CASE at' = "over"
  BY <1>6
<1>7. CASE Judge!Candidate
  BY <1>1, <1>7 DEF Judge!Candidate, Judge!recordVars
<1>9. CASE Judge!Rejected
  <2>1. /\ at = "judge" /\ live' \in {live, Append(live, "fail")}
        /\ UNCHANGED <<metrics, kept, delivered>>
    BY <1>9 DEF Judge!Rejected, Judge!Shown
  <2>2. \A i \in 1..Len(live') : live'[i] = "fail"
    BY <1>1, <2>1 DEF Judge!Verdicts
  <2> QED  BY <1>1, <2>1, <2>2
<1>13. CASE Judge!BudgetGone
  BY <1>1, <1>13 DEF Judge!BudgetGone, Judge!recordVars
<1>15. CASE UNCHANGED Judge!vars
  BY <1>1, <1>15 DEF Judge!vars, Judge!recordVars
<1> QED
  BY <1>2, <1>3, <1>4, <1>5, <1>6, <1>7, <1>9, <1>13, <1>15, EndsOver DEF JudgeTyped, Judge!Next

\* What a step does to the rows: a turn begins, an overflow composes them anew, or
\* rows of the turn are added, which are no results except after a batch of tools.
RowsMore(n) ==
    /\ history' \in Seq(Judge!Rows) /\ Len(history') = Len(history) + n
    /\ \A i \in 1..Len(history) : history'[i] = history[i]
    /\ \A i \in (Len(history) + 1)..Len(history') : history'[i].turn = answers

LEMMA RowsAdded ==
    ASSUME JudgeTyped
    PROVE  \/ Judge!NewTurn \/ Judge!Overflow
           \/ \E n \in Nat : /\ RowsMore(n) /\ start' = start
                             /\ answers' = answers /\ (n > 0 => answers > 0)
<1>1. Judge!TypeOK /\ (at # "over" => answers > 0)
      /\ history \in Seq(Judge!Rows) /\ answers \in 0..MaxAnswers
  BY DEF JudgeTyped, JudgeInv, Rejections, Judge!TypeOK
<1> DEFINE Added == \E n \in Nat : /\ RowsMore(n) /\ start' = start
                                  /\ answers' = answers /\ (n > 0 => answers > 0)
<1>2. ASSUME history' = history, UNCHANGED <<start, answers>>  PROVE Added
  <2>1. RowsMore(0)  BY <1>1, <1>2 DEF RowsMore
  <2> QED  BY <1>2, <2>1
<1>3. ASSUME NEW k \in {"user", "synthetic", "tool", "text", "summary"}, at # "over",
             history' = Append(history, Judge!R(k)), UNCHANGED <<start, answers>>
      PROVE  Added
  <2>1. Judge!R(k) \in Judge!Rows /\ Judge!R(k).turn = answers  BY <1>1, <1>3, RowOfTurn
  <2>2. RowsMore(1)  BY <1>1, <1>3, <2>1, OneMore DEF RowsMore
  <2> QED  BY <1>1, <1>3, <2>2
<1>4. ASSUME NEW k \in {"user", "synthetic", "tool", "text", "summary"}, at # "over",
             NEW m \in {"user", "synthetic", "tool", "text", "summary"},
             history' = history \o <<Judge!R(k), Judge!R(m)>>, UNCHANGED <<start, answers>>
      PROVE  Added
  <2>1. /\ Judge!R(k) \in Judge!Rows /\ Judge!R(k).turn = answers
        /\ Judge!R(m) \in Judge!Rows /\ Judge!R(m).turn = answers
    BY <1>1, <1>4, RowOfTurn
  <2>2. /\ history' \in Seq(Judge!Rows) /\ Len(history') = Len(history) + 2
        /\ \A i \in 1..Len(history) : history'[i] = history[i]
        /\ history'[Len(history) + 1] = Judge!R(k) /\ history'[Len(history) + 2] = Judge!R(m)
    BY <1>1, <1>4, <2>1, TwoMore
  <2>3. RowsMore(2)  BY <1>1, <2>1, <2>2 DEF RowsMore
  <2> QED  BY <1>1, <1>4, <2>3
<1> USE DEF Judge!Iterates, Judge!Ends, Judge!turnVars
<1>5. CASE Judge!CallTools
  BY <1>4, <1>5 DEF Judge!CallTools
<1>6. CASE Judge!RetryEmpty \/ Judge!Candidate \/ Judge!BudgetGone \/ Judge!Cancelled
  BY <1>2, <1>6 DEF Judge!RetryEmpty, Judge!Candidate, Judge!BudgetGone, Judge!Cancelled,
     Judge!rowVars
<1>7. CASE Judge!Unjudged
  <2>1. at = "loop" /\ history' = Append(history, Judge!R("text")) /\ UNCHANGED <<start, answers>>
    BY <1>7 DEF Judge!Unjudged, Judge!Answer
  <2> QED  BY <1>3, <2>1
<1>8. CASE Judge!Accepted
  BY <1>3, <1>8 DEF Judge!Accepted
<1>9. CASE Judge!Rejected
  BY <1>4, <1>9 DEF Judge!Rejected
<1>10. CASE Judge!LoopBreak
  BY <1>3, <1>10 DEF Judge!LoopBreak, Judge!NoteEnds
<1>11. CASE Judge!Grace
  <2>1. at = "grace" /\ history' = Append(history, Judge!R("text")) /\ UNCHANGED <<start, answers>>
    BY <1>11 DEF Judge!Grace, Judge!NoteEnds
  <2> QED  BY <1>3, <2>1
<1>12. CASE Judge!EndTurn
  <2> DEFINE three == <<Judge!R("text"), Judge!R("tool"), Judge!R("text")>>
  <2>1. /\ at = "loop" /\ history' = history \o three /\ UNCHANGED <<start, answers>>
    BY <1>12 DEF Judge!EndTurn
  <2>2. /\ Judge!R("text") \in Judge!Rows /\ Judge!R("tool") \in Judge!Rows
        /\ Judge!R("text").turn = answers /\ Judge!R("tool").turn = answers
    BY <1>1, <2>1, RowOfTurn
  <2>3. /\ three \in Seq(Judge!Rows) /\ Len(three) = 3
        /\ \A i \in 1..3 : three[i].turn = answers
    <3> HIDE DEF Judge!R
    <3> QED  BY <2>2
  <2>4. RowsMore(3)
    <3> HIDE DEF three
    <3>1. history \in Seq(Judge!Rows) /\ three \in Seq(Judge!Rows)  BY <1>1, <2>3
    <3>2. /\ history' \in Seq(Judge!Rows) /\ Len(history') = Len(history) + Len(three)
          /\ \A i \in 1..Len(history) : history'[i] = history[i]
          /\ \A i \in 1..Len(three) : history'[Len(history) + i] = three[i]
      BY <2>1, <3>1, SeqMore
    <3>3. ASSUME NEW i \in (Len(history) + 1)..Len(history')  PROVE history'[i].turn = answers
      <4>1. Len(history) \in Nat  BY <1>1
      <4>2. i - Len(history) \in 1..3 /\ Len(history) + (i - Len(history)) = i
        BY <2>3, <3>2, <4>1
      <4> QED  BY <2>3, <3>2, <4>2
    <3> QED  BY <2>3, <3>2, <3>3 DEF RowsMore
  <2> QED  BY <1>1, <2>1, <2>4
<1>13. CASE UNCHANGED Judge!vars
  BY <1>2, <1>13 DEF Judge!vars, Judge!rowVars
<1> QED
  BY <1>5, <1>6, <1>7, <1>8, <1>9, <1>10, <1>11, <1>12, <1>13 DEF JudgeTyped, Judge!Next

\* An overflow leaves rows that were there, between a summary and the message.
LEMMA Recomposed ==
    ASSUME JudgeTyped, Judge!Overflow
    PROVE  /\ history' \in Seq(Judge!Rows) /\ start' = Len(history') /\ Len(history') \in Nat \ {0}
           /\ at = "loop" /\ at' = "loop" /\ answers' = answers
           /\ history'[Len(history')].kind = "user" /\ history'[Len(history')].turn = answers
           /\ \A i \in 1..Len(history') :
                \/ history'[i].kind # "tool" /\ history'[i].turn <= answers
                \/ \E j \in 1..Len(history) : history'[i] = history[j]
<1>0. at = "loop" /\ at' = "loop" /\ answers' = answers
  BY DEF Judge!Overflow, Judge!Iterates, Judge!turnVars
<1>1. /\ Judge!TypeOK /\ answers \in Nat /\ answers > 0 /\ history \in Seq(Judge!Rows)
      /\ at = "loop" /\ at' = "loop" /\ answers' = answers
  BY <1>0 DEF JudgeTyped, JudgeInv, Rejections, Judge!TypeOK, Judge!Bounds
<1> DEFINE summary == [kind |-> "summary", turn |-> 0]
           user == Judge!R("user")
<1>2. PICK n \in DOMAIN history :
        history' = <<summary>> \o SubSeq(history, n + 1, Len(history)) \o <<user>>
  BY DEF Judge!Overflow
<1>3. summary \in Judge!Rows /\ summary.kind = "summary" /\ summary.turn = 0
  <2>1. 0 \in 0..MaxAnswers  BY DEF JudgeTyped, Judge!Bounds
  <2> QED  BY <2>1 DEF Judge!Rows
<1>4. user \in Judge!Rows /\ user.kind = "user" /\ user.turn = answers
  BY <1>1, RowOfTurn
<1> DEFINE kept_ == SubSeq(history, n + 1, Len(history))
<1>5. /\ kept_ \in Seq(Judge!Rows)
      /\ \A i \in 1..Len(kept_) : \E j \in 1..Len(history) : kept_[i] = history[j]
  <2>1. n \in 1..Len(history)  BY <1>1
  <2>2. /\ kept_ \in Seq(Judge!Rows) /\ Len(kept_) = Len(history) - n
        /\ \A i \in 1..(Len(history) - n) : kept_[i] = history[n + i]
    BY <1>1, <2>1
  <2>3. \A i \in 1..(Len(history) - n) : n + i \in 1..Len(history)  BY <1>1, <2>1
  <2> QED  BY <2>2, <2>3
<1> HIDE DEF kept_, summary, user
<1>6. history' = <<summary>> \o kept_ \o <<user>>  BY <1>2 DEF kept_, summary, user
<1>7. /\ history' \in Seq(Judge!Rows) /\ Len(history') = Len(kept_) + 2
      /\ history'[1] = summary /\ history'[Len(kept_) + 2] = user
      /\ \A i \in 1..Len(kept_) : history'[i + 1] = kept_[i]
  BY <1>3, <1>4, <1>5, <1>6
<1>8. \A i \in 1..Len(history') :
        \/ history'[i].kind # "tool" /\ history'[i].turn <= answers
        \/ \E j \in 1..Len(history) : history'[i] = history[j]
  <2> SUFFICES ASSUME NEW i \in 1..Len(history')
               PROVE  \/ history'[i].kind # "tool" /\ history'[i].turn <= answers
                      \/ \E j \in 1..Len(history) : history'[i] = history[j]
    OBVIOUS
  <2>0. Len(kept_) \in Nat  BY <1>5
  <2>1. CASE i = 1
    BY <1>1, <1>3, <1>7, <2>1
  <2>2. CASE i = Len(kept_) + 2
    BY <1>1, <1>4, <1>7, <2>2
  <2>3. CASE i # 1 /\ i # Len(kept_) + 2
    <3>1. i - 1 \in 1..Len(kept_) /\ (i - 1) + 1 = i  BY <1>7, <2>0, <2>3
    <3>2. history'[i] = kept_[i - 1]  BY <1>7, <3>1
    <3> QED  BY <1>5, <3>1, <3>2
  <2> QED  BY <2>1, <2>2, <2>3
<1>9. start' = Len(history') /\ Len(kept_) \in Nat  BY <1>5 DEF Judge!Overflow
<1> QED  BY <1>1, <1>4, <1>7, <1>8, <1>9

LEMMA RowsStep == JudgeTyped => RowsOfTurns'
<1> SUFFICES ASSUME JudgeTyped  PROVE RowsOfTurns'
  OBVIOUS
<1>1. /\ RowsOfTurns /\ answers \in Nat /\ history \in Seq(Judge!Rows) /\ Len(history) \in Nat
  BY DEF JudgeTyped, JudgeInv, Judge!TypeOK
<1>2. CASE Judge!NewTurn
  <2> DEFINE row == [kind |-> "user", turn |-> answers + 1]
  <2>1. answers' = answers + 1 /\ history' = Append(history, row)  BY <1>2 DEF Judge!NewTurn
  <2>2. /\ Len(history') = Len(history) + 1 /\ history'[Len(history) + 1] = row
        /\ \A i \in 1..Len(history) : history'[i] = history[i]
    BY <1>1, <2>1
  <2>3. row.kind = "user" /\ row.turn = answers + 1  OBVIOUS
  <2> HIDE DEF row
  <2>4. \A i \in 1..Len(history') : i \in 1..Len(history) \/ i = Len(history) + 1
    BY <1>1, <2>2
  <2>5. ASSUME NEW i \in 1..Len(history')
        PROVE  history'[i].turn <= answers' /\ (history'[i].kind = "tool" => history'[i].turn > 0)
    <3>1. CASE i \in 1..Len(history)
      <4>1. history[i].turn <= answers /\ (history[i].kind = "tool" => history[i].turn > 0)
        BY <1>1, <3>1 DEF RowsOfTurns
      <4>2. history[i] \in Judge!Rows  BY <1>1, <3>1
      <4>3. history[i].turn \in Int  BY <4>2 DEF Judge!Rows
      <4> QED  BY <1>1, <2>1, <2>2, <3>1, <4>1, <4>3
    <3>2. CASE i = Len(history) + 1
      BY <1>1, <2>1, <2>2, <2>3, <3>2
    <3> QED  BY <2>4, <3>1, <3>2
  <2> QED  BY <2>5 DEF RowsOfTurns
<1>3. CASE Judge!Overflow
  BY <1>1, <1>3, Recomposed DEF RowsOfTurns
<1>4. CASE \E n \in Nat : /\ RowsMore(n) /\ start' = start
                          /\ answers' = answers /\ (n > 0 => answers > 0)
  <2>1. PICK n \in Nat : RowsMore(n) /\ answers' = answers /\ (n > 0 => answers > 0)  BY <1>4
  <2>2. ASSUME NEW i \in 1..Len(history'), i \notin 1..Len(history)
        PROVE  history'[i].turn = answers /\ answers > 0
    <3>1. i \in (Len(history) + 1)..Len(history') /\ n > 0  BY <1>1, <2>1, <2>2 DEF RowsMore
    <3> QED  BY <2>1, <3>1 DEF RowsMore
  <2> QED  BY <1>1, <2>1, <2>2 DEF RowsMore, RowsOfTurns
<1> QED  BY <1>2, <1>3, <1>4, RowsAdded

\* A step within a turn adds no result, except for a batch of tools.
LEMMA ToolsStep == JudgeTyped => ToolsAfterStart'
<1> SUFFICES ASSUME JudgeTyped, at' # "over", "moved" \notin mishaps'
             PROVE  /\ results' = Cardinality(Judge!ThisTurn')
                    /\ \A i \in 1..start' : history'[i].kind = "tool" => history'[i].turn # answers'
  BY DEF ToolsAfterStart
<1>1. /\ ToolsAfterStart /\ RowsOfTurns /\ Judge!TypeOK /\ (at # "over" => answers > 0)
  BY DEF JudgeTyped, JudgeInv, Rejections
<1>2. /\ answers \in Nat /\ history \in Seq(Judge!Rows) /\ Len(history) \in Nat
      /\ start \in 0..Len(history) /\ results \in Nat
  BY <1>1 DEF Judge!TypeOK
<1> USE DEF Judge!Iterates, Judge!turnVars
\* no result after the start, where there is nothing
<1>3. ASSUME start' = Len(history'), Len(history') \in Nat
      PROVE  Cardinality(Judge!ThisTurn') = 0
  <2>1. Judge!ThisTurn' = {}  BY <1>3 DEF Judge!ThisTurn, Judge!Indices
  <2> QED  BY <2>1, FS_EmptySet
<1>4. CASE Judge!NewTurn
  <2> DEFINE row == [kind |-> "user", turn |-> answers + 1]
  <2>1. /\ answers' = answers + 1 /\ history' = Append(history, row) /\ start' = Len(history')
        /\ results' = 0
    BY <1>4 DEF Judge!NewTurn
  <2>2. /\ Len(history') = Len(history) + 1 /\ history'[Len(history) + 1] = row
        /\ \A i \in 1..Len(history) : history'[i] = history[i]
    BY <1>2, <2>1
  <2>3. results' = Cardinality(Judge!ThisTurn')  BY <1>2, <1>3, <2>1, <2>2
  <2> QED  BY <1>1, <1>2, <2>1, <2>2, <2>3 DEF RowsOfTurns
<1>5. CASE Judge!Overflow
  <2>1. /\ results' = results /\ results = 0 /\ at = "loop" /\ "moved" \notin mishaps
    BY <1>2, <1>5 DEF Judge!Overflow
  <2>2. IsFiniteSet(Judge!ThisTurn) /\ Cardinality(Judge!ThisTurn) = 0
    BY <1>1, <1>2, <2>1, ResultsFinite DEF ToolsAfterStart, Judge!ThisTurn
  <2>3. Judge!ThisTurn = {}  BY <2>2, FS_EmptySet
  <2>4. \A i \in 1..Len(history) : history[i].kind = "tool" => history[i].turn # answers
    <3>1. \A i \in 1..Len(history) : i \in 1..start \/ i \in (start + 1)..Len(history)
      BY <1>2
    <3>2. \A i \in (start + 1)..Len(history) : history[i].kind # "tool"
      BY <2>3 DEF Judge!ThisTurn, Judge!Indices
    <3> QED  BY <1>1, <2>1, <3>1, <3>2 DEF ToolsAfterStart
  <2>5. results' = Cardinality(Judge!ThisTurn')  BY <1>3, <1>5, <2>1, Recomposed
  <2>6. \A i \in 1..Len(history') : history'[i].kind = "tool" => history'[i].turn # answers'
    BY <1>5, <2>4, Recomposed
  <2> QED  BY <1>5, <2>5, <2>6, Recomposed
<1>6. CASE at # "over" /\ ~Judge!Overflow
  <2>1. \E n \in Nat : RowsMore(n) /\ start' = start /\ answers' = answers
    BY <1>6, RowsAdded DEF Judge!NewTurn
  <2>2. "moved" \notin mishaps /\ answers > 0
    <3>1. mishaps \subseteq mishaps'
      BY <1>6 DEF JudgeTyped, Judge!Next, Judge!NewTurn, Judge!CallTools, Judge!RetryEmpty,
         Judge!Unjudged, Judge!Answer, Judge!Candidate, Judge!Accepted, Judge!Rejected,
         Judge!Cancelled, Judge!EndTurn, Judge!LoopBreak, Judge!NoteEnds, Judge!BudgetGone,
         Judge!Grace, Judge!ghostVars, Judge!vars
    <3> QED  BY <1>1, <1>6, <3>1
  <2>3. \A i \in 1..start' : history'[i].kind = "tool" => history'[i].turn # answers'
    BY <1>1, <1>2, <1>6, <2>1, <2>2 DEF ToolsAfterStart, RowsMore
  <2>4. CASE Judge!CallTools
    <3>1. /\ history' = history \o <<Judge!R("text"), Judge!R("tool")>>
          /\ start' = start /\ results' = results + 1
      BY <2>4 DEF Judge!CallTools
    <3>2. Cardinality(Judge!ThisTurn') = Cardinality(Judge!ThisTurn) + 1
      BY <1>1, <2>2, <3>1, OneResultMore
    <3> QED  BY <1>1, <1>6, <2>2, <2>3, <3>1, <3>2 DEF ToolsAfterStart
  <2>5. CASE Judge!Rejected
    <3>1. /\ history' = history \o <<Judge!R("text"), Judge!R("synthetic")>>
          /\ start' = start /\ results' = results
      BY <2>5 DEF Judge!Rejected
    <3>2. /\ Judge!R("text") \in Judge!Rows /\ Judge!R("text").kind = "text"
          /\ Judge!R("synthetic") \in Judge!Rows /\ Judge!R("synthetic").kind = "synthetic"
      BY <1>1, <2>2, RowOfTurn
    <3>3. /\ Len(history') = Len(history) + 2
          /\ \A i \in 1..Len(history) : history'[i] = history[i]
          /\ history'[Len(history) + 1].kind # "tool" /\ history'[Len(history) + 2].kind # "tool"
      BY <1>2, <3>1, <3>2, TwoMore
    <3>4. \A i \in (Len(history) + 1)..Len(history') : history'[i].kind # "tool"
      BY <1>2, <3>3
    <3>5. Judge!ThisTurn' = Judge!ThisTurn
      BY <1>1, <1>2, <3>1, <3>3, <3>4, NoResultMore
    <3> QED  BY <1>1, <1>6, <2>2, <2>3, <3>1, <3>5 DEF ToolsAfterStart
  <2>6. CASE UNCHANGED <<history, start, results>>
    <3>1. Judge!ThisTurn' = Judge!ThisTurn
      BY <2>6 DEF Judge!ThisTurn, Judge!Indices
    <3> QED  BY <1>1, <1>6, <2>2, <2>3, <2>6, <3>1 DEF ToolsAfterStart
  <2>7. Judge!RetryEmpty \/ Judge!Candidate \/ Judge!BudgetGone \/ UNCHANGED Judge!vars =>
          UNCHANGED <<history, start, results>>
    BY DEF Judge!RetryEmpty, Judge!Candidate, Judge!BudgetGone, Judge!vars, Judge!rowVars,
       Judge!ghostVars
  <2> QED
    BY <1>6, <2>4, <2>5, <2>6, <2>7, EndsOver DEF JudgeTyped, Judge!Next, Judge!NewTurn
<1>7. CASE at = "over" /\ ~Judge!NewTurn
  <2>1. at' = at
    BY <1>7 DEF JudgeTyped, Judge!Next, Judge!CallTools, Judge!Overflow, Judge!RetryEmpty,
       Judge!Unjudged, Judge!Candidate, Judge!Accepted, Judge!Rejected, Judge!Cancelled,
       Judge!EndTurn, Judge!LoopBreak, Judge!BudgetGone, Judge!Grace, Judge!vars
  <2> QED  BY <1>7, <2>1
<1> QED  BY <1>4, <1>5, <1>6, <1>7

LEMMA TypedStep == JudgeTyped => Judge!TypeOK'
<1> SUFFICES ASSUME JudgeTyped  PROVE Judge!TypeOK'
  OBVIOUS
<1> DEFINE Loop == /\ answers \in 0..MaxAnswers /\ sort \in Sorts /\ visibility \in Visibilities
                   /\ at \in {"over", "loop", "judge", "grace"}
                   /\ remaining \in 0..MaxIterations /\ empties \in 0..1 /\ retries \in 0..MaxRetries
                   /\ last \in Judge!Verdicts \cup {"none"} /\ first \in BOOLEAN
                   /\ parts \in 0..MaxIterations
           Record == /\ delivered \in Seq(Judge!Texts) /\ metrics \in Judge!Outcomes
                     /\ live \in Seq(Judge!Verdicts) /\ kept \in Seq(Judge!Verdicts)
                     /\ verdicts \in Seq(Judge!Verdicts)
           Counts == /\ results \in Nat /\ calls \in Nat /\ overflows \in 0..MaxOverflows
                     /\ mishaps \subseteq {"approved", "moved", "unkept"}
           RowsOk == history \in Seq(Judge!Rows) /\ start \in 0..Len(history)
           JudgedOk == judged.tools \in Nat /\ judged.others \subseteq 1..MaxAnswers
<1>1. /\ Loop /\ Record /\ Counts /\ RowsOk /\ JudgedOk /\ Judge!Bounds /\ Judge!TypeOK
      /\ CallsCounted /\ RowsOfTurns /\ (at = "judge" => retries < MaxRetries)
      /\ (at # "over" => answers > 0)
  BY DEF JudgeTyped, JudgeInv, Judge!TypeOK, Rejections
<1>2. /\ MaxIterations \in Nat /\ MaxRetries \in Nat /\ MaxAnswers \in Nat /\ MaxOverflows \in Nat
      /\ parts + remaining <= MaxIterations
  BY <1>1 DEF Judge!Bounds, CallsCounted
<1> USE DEF Judge!Iterates, Judge!Asked, Judge!Ends, Judge!turnVars, Judge!loopVars, Judge!rowVars,
            Judge!recordVars, Judge!ghostVars, Judge!NoteEnds
<1>3. RowsOk'
  <2>1. CASE Judge!NewTurn
    <3> DEFINE row == [kind |-> "user", turn |-> answers + 1]
    <3>1. /\ history' = Append(history, row) /\ start' = Len(history') /\ answers < MaxAnswers
      BY <2>1 DEF Judge!NewTurn
    <3>2. row \in Judge!Rows
      <4>1. answers + 1 \in 0..MaxAnswers  BY <1>1, <1>2, <3>1
      <4> QED  BY <4>1 DEF Judge!Rows
    <3> HIDE DEF row
    <3> QED  BY <1>1, <3>1, <3>2
  <2>2. CASE Judge!Overflow
    BY <2>2, Recomposed
  <2>3. CASE \E n \in Nat : RowsMore(n) /\ start' = start
    BY <1>1, <2>3 DEF RowsMore
  <2> QED  BY <2>1, <2>2, <2>3, RowsAdded
<1>4. JudgedOk'
  <2>1. CASE Judge!Candidate
    <3>1. judged' = Judge!Told /\ at = "loop"  BY <2>1 DEF Judge!Candidate
    <3>2. Judge!Told.tools \in Nat
      <4>1. start + 1 \in Int /\ Len(history) \in Int  BY <1>1
      <4>2. Cardinality(Judge!ThisTurn) \in Nat  BY <4>1, ResultsFinite DEF Judge!ThisTurn
      <4> QED  BY <4>2, ToldTools
    <3>3. Judge!Told.others \subseteq 1..MaxAnswers  BY <1>1, <3>1, OthersTyped
    <3> QED  BY <3>1, <3>2, <3>3
  <2>2. judged' = judged \/ Judge!Candidate
    BY DEF JudgeTyped, Judge!Next, Judge!vars, Judge!NewTurn, Judge!CallTools, Judge!Overflow,
       Judge!RetryEmpty, Judge!Unjudged, Judge!Answer, Judge!Accepted, Judge!Rejected,
       Judge!Cancelled, Judge!EndTurn, Judge!LoopBreak, Judge!BudgetGone, Judge!Grace
  <2> QED  BY <1>1, <2>1, <2>2
<1>5. Judge!KeptVerdict \in Seq(Judge!Verdicts) \/ last' \notin Judge!Verdicts \cup {"none"}
  BY <1>1 DEF Judge!KeptVerdict, Judge!Verdicts
<1>6. Loop' /\ Counts' /\ Record'
  <2>1. CASE Judge!NewTurn
    <3>5. /\ answers' = answers + 1 /\ answers < MaxAnswers
          /\ sort' \in Sorts /\ visibility' \in Visibilities /\ at' = "loop"
          /\ remaining' = MaxIterations /\ empties' = 0 /\ retries' = 0 /\ last' = "none"
          /\ first' = FALSE /\ parts' = 0
      BY <2>1 DEF Judge!NewTurn
    <3>6. answers' \in 0..MaxAnswers  BY <1>1, <1>2, <3>5
    <3>7. remaining' \in 0..MaxIterations /\ parts' \in 0..MaxIterations  BY <1>2, <3>5
    <3>8. empties' \in 0..1 /\ retries' \in 0..MaxRetries  BY <1>2, <3>5
    <3>1. Loop'  BY <3>5, <3>6, <3>7, <3>8, Zenon
    <3>2. Counts'  BY <1>1, <2>1 DEF Judge!NewTurn
    <3>3. /\ delivered' = <<>> /\ metrics' = "none" /\ live' = <<>> /\ kept' = <<>>
          /\ verdicts' = <<>>
      BY <2>1 DEF Judge!NewTurn
    <3>4. Record'  BY <3>3 DEF Judge!Outcomes
    <3> QED  BY <3>1, <3>2, <3>4
  <2>2. CASE Judge!CallTools
    <3>1. PICK said \in {0, 1} : parts' = parts + said  BY <2>2 DEF Judge!CallTools
    <3> QED  BY <1>1, <1>2, <2>2, <3>1 DEF Judge!CallTools
  <2>3. CASE Judge!Overflow
    BY <1>1, <1>2, <2>3 DEF Judge!Overflow
  <2>4. CASE Judge!RetryEmpty
    BY <1>1, <1>2, <2>4 DEF Judge!RetryEmpty
  <2>5. CASE Judge!Unjudged
    <3>1. PICK text \in {<<>>, <<"answer">>} :
            /\ last' = "none"
            /\ Judge!Answer(IF Judge!Exhausted THEN text \o <<"notice">> ELSE text, Judge!Exhausted)
      BY <2>5 DEF Judge!Unjudged
    <3> DEFINE final == IF Judge!Exhausted THEN text \o <<"notice">> ELSE text
    <3>2. final \in Seq(Judge!Texts)
      <4>1. "notice" \in Judge!Texts /\ "answer" \in Judge!Texts  BY DEF Judge!Texts
      <4>2. /\ <<>> \in Seq(Judge!Texts) /\ <<"answer">> \in Seq(Judge!Texts)
            /\ <<"notice">> \in Seq(Judge!Texts)
        BY <4>1
      <4>3. text \in Seq(Judge!Texts)  BY <4>2
      <4>4. text \o <<"notice">> \in Seq(Judge!Texts)  BY <4>2, <4>3, SeqMore
      <4> QED  BY <4>3, <4>4
    <3> HIDE DEF final
    <3>3. Judge!Answer(final, Judge!Exhausted)  BY <3>1 DEF final
    <3>4. Record'
      <4>1. kept' \in Seq(Judge!Verdicts)  BY <1>5, <3>1, <3>3 DEF Judge!Answer
      <4>2. metrics' \in Judge!Outcomes
        BY <3>3 DEF Judge!Answer, Judge!Classified, Judge!Outcomes
      <4>3. delivered' = final /\ live' = live /\ verdicts' = verdicts
        BY <2>5, <3>3 DEF Judge!Answer, Judge!Unjudged
      <4> QED  BY <1>1, <3>2, <4>1, <4>2, <4>3
    <3>5. Counts'
      <4>1. mishaps' \subseteq mishaps \cup {"approved", "unkept"}  BY <3>3 DEF Judge!Answer
      <4>2. results' = results /\ calls' = calls + 1 /\ overflows' = overflows
        BY <2>5 DEF Judge!Unjudged
      <4>3. mishaps' \subseteq {"approved", "moved", "unkept"}  BY <1>1, <4>1
      <4>4. results' \in Nat /\ calls' \in Nat /\ overflows' \in 0..MaxOverflows  BY <1>1, <4>2
      <4> QED  BY <4>3, <4>4
    <3>6. Loop'
      <4>1. /\ UNCHANGED <<answers, sort, visibility, empties, retries, parts>> /\ at' = "over"
        BY <3>3 DEF Judge!Answer
      <4>2. remaining' = remaining - 1 /\ remaining > 0 /\ first' = first
        BY <2>5 DEF Judge!Unjudged
      <4> QED  BY <1>1, <1>2, <3>1, <4>1, <4>2
    <3> QED  BY <3>4, <3>5, <3>6
  <2>6. CASE Judge!Candidate
    BY <1>1, <1>2, <2>6 DEF Judge!Candidate
  <2>7. CASE Judge!Accepted
    <3>1. PICK v \in {"pass", "error"} :
            /\ last' = v /\ verdicts' = Append(verdicts, v) /\ at' = "over"
            /\ delivered' = <<"answer">>
            /\ live' \in {live, Append(live, v)} /\ kept' = Judge!KeptVerdict
            /\ metrics' = Judge!Classified(FALSE, <<"answer">>)
            /\ mishaps' \subseteq mishaps \cup {"unkept"}
      BY <2>7 DEF Judge!Accepted, Judge!Shown
    <3>2. v \in Judge!Verdicts  BY DEF Judge!Verdicts
    <3>3. metrics' \in Judge!Outcomes  BY <3>1 DEF Judge!Classified, Judge!Outcomes
    <3>4. delivered' \in Seq(Judge!Texts)  BY <3>1 DEF Judge!Texts
    <3>9. live' \in Seq(Judge!Verdicts) /\ verdicts' \in Seq(Judge!Verdicts)
      <4>1. Append(live, v) \in Seq(Judge!Verdicts) /\ Append(verdicts, v) \in Seq(Judge!Verdicts)
        BY <1>1, <3>2, OneMore
      <4> QED  BY <1>1, <3>1, <4>1
    <3>10. kept' \in Seq(Judge!Verdicts)  BY <1>5, <3>1, <3>2
    <3>5. Record'
      BY <3>3, <3>4, <3>9, <3>10
    <3>6. UNCHANGED <<answers, sort, visibility, remaining, empties, retries, first, parts,
                      results, calls, overflows>>
      BY <2>7 DEF Judge!Accepted
    <3>7. Loop'  BY <1>1, <3>1, <3>2, <3>6
    <3>8. Counts'  BY <1>1, <3>1, <3>6
    <3> QED  BY <3>5, <3>7, <3>8
  <2>8. CASE Judge!Rejected
    <3>1. "fail" \in Judge!Verdicts  BY DEF Judge!Verdicts
    <3>2. live' \in {live, Append(live, "fail")}  BY <2>8 DEF Judge!Rejected, Judge!Shown
    <3>6. verdicts' = Append(verdicts, "fail") /\ UNCHANGED <<delivered, metrics, kept>>
      BY <2>8 DEF Judge!Rejected
    <3>7. live' \in Seq(Judge!Verdicts) /\ verdicts' \in Seq(Judge!Verdicts)
      <4>1. /\ Append(live, "fail") \in Seq(Judge!Verdicts)
            /\ Append(verdicts, "fail") \in Seq(Judge!Verdicts)
        BY <1>1, <3>1, OneMore
      <4> QED  BY <1>1, <3>2, <3>6, <4>1
    <3>3. Record'  BY <1>1, <3>6, <3>7
    <3>4. Loop'  BY <1>1, <1>2, <2>8, <3>1 DEF Judge!Rejected
    <3>5. Counts'  BY <1>1, <2>8 DEF Judge!Rejected
    <3> QED  BY <3>3, <3>4, <3>5
  <2>9. CASE Judge!Cancelled
    BY <1>1, <1>2, <2>9 DEF Judge!Cancelled
  <2>10. CASE Judge!EndTurn
    <3>1. <<"closing">> \in Seq(Judge!Texts)  BY DEF Judge!Texts
    <3> QED  BY <1>1, <1>2, <2>10, <3>1 DEF Judge!EndTurn
  <2>11. Judge!WithNote \in Seq(Judge!Texts)  BY <1>1, <1>2, NoteTyped
  <2>12. CASE Judge!LoopBreak
    BY <1>1, <1>2, <2>11, <2>12 DEF Judge!LoopBreak
  <2>13. CASE Judge!BudgetGone
    BY <1>1, <1>2, <2>13 DEF Judge!BudgetGone
  <2>14. CASE Judge!Grace
    <3>1. <<"closing">> \in Seq(Judge!Texts)  BY DEF Judge!Texts
    <3>2. /\ delivered' \in {<<"closing">>, Judge!WithNote} /\ at' = "over"
          /\ UNCHANGED <<answers, sort, visibility, remaining, empties, retries, last, first, parts>>
          /\ UNCHANGED <<metrics, live, kept, verdicts, results, calls, overflows, mishaps>>
      BY <2>14 DEF Judge!Grace
    <3> QED  BY <1>1, <2>11, <3>1, <3>2
  <2>15. CASE UNCHANGED Judge!vars
    BY <1>1, <2>15 DEF Judge!vars
  <2> QED
    BY <2>1, <2>2, <2>3, <2>4, <2>5, <2>6, <2>7, <2>8, <2>9, <2>10, <2>12, <2>13, <2>14, <2>15
       DEF JudgeTyped, Judge!Next
<1> QED
  BY <1>1, <1>3, <1>4, <1>6 DEF Judge!TypeOK

\* An answer goes out by a judge who accepts it, unjudged, or as a closing line or
\* a note.
LEMMA AnswerRightStep == JudgeTyped => AnswerRight'
<1> SUFFICES ASSUME JudgeTyped  PROVE AnswerRight'
  OBVIOUS
<1>1. /\ Judge!TypeOK /\ Rejections /\ NothingYet /\ AnswerRight /\ parts \in Nat
      /\ verdicts \in Seq(Judge!Verdicts) /\ live \in Seq(Judge!Verdicts) /\ retries \in Nat
      /\ kept \in Seq(Judge!Verdicts) /\ MaxRetries \in Nat /\ retries \in 0..MaxRetries
  BY DEF JudgeTyped, JudgeInv, Judge!TypeOK, Judge!Bounds
<1> USE DEF Judge!NoticeIsHonest, Judge!RecordIsRight, Judge!CutTurnsAreTold,
            Judge!VerdictsAreKept, Judge!Judged, AnswerRight, Judge!turnVars, Judge!Iterates
<1>2. CASE at' # "over" /\ metrics' = "none"
  BY <1>2
<1>3. at' # "over" => metrics' = "none"
  <2>1. NothingYet'  BY NothingStep
  <2> QED  BY <2>1 DEF NothingYet
<1>4. CASE at' = "over" /\ delivered' = <<>> /\ metrics' = "none"
  BY <1>4
<1>5. CASE at' = "over" /\ delivered' = <<"closing">> /\ metrics' = "none"
  BY <1>5
<1>6. CASE /\ at' = "over" /\ delivered' = Judge!WithNote /\ metrics' = "none"
           /\ UNCHANGED <<parts, sort>>
  <2> DEFINE note == Judge!WithNote
  <2>1. /\ note # <<>> /\ note[1] = "note" /\ (sort # "watched" => Len(note) = 1 + parts)
    BY <1>1, NoteTyped
  <2> HIDE DEF note
  <2>2. delivered' = note  BY <1>6 DEF note
  <2> QED  BY <1>6, <2>1, <2>2
<1>7. CASE Judge!Unjudged
  <2>1. PICK text \in {<<>>, <<"answer">>} :
          /\ ~Judge!ShouldReflect(text) /\ last' = "none"
          /\ Judge!Answer(IF Judge!Exhausted THEN text \o <<"notice">> ELSE text, Judge!Exhausted)
    BY <1>7 DEF Judge!Unjudged
  <2> DEFINE final == IF Judge!Exhausted THEN text \o <<"notice">> ELSE text
  <2>2. /\ at = "loop" /\ at' = "over" /\ delivered' = final
        /\ UNCHANGED <<sort, visibility, verdicts, first, retries, parts, live>>
        /\ kept' = Judge!KeptVerdict
        /\ metrics' = IF sort = "child" THEN "none" ELSE Judge!Classified(Judge!Exhausted, final)
        /\ mishaps' = mishaps
             \cup (IF metrics' = "passed_after_retry" /\ final = <<>> THEN {"approved"} ELSE {})
             \cup (IF \E i \in DOMAIN live : live[i] = "fail" THEN {"unkept"} ELSE {})
    BY <1>7, <2>1 DEF Judge!Unjudged, Judge!Answer, Judge!Ends
  <2>3. /\ Len(verdicts) = retries /\ \A i \in 1..Len(verdicts) : verdicts[i] = "fail"
        /\ last = (IF retries = 0 THEN "none" ELSE "fail")
        /\ (first = TRUE <=> retries > 0) /\ (sort = "child" => retries = 0)
        /\ \A i \in 1..Len(live) : live[i] = "fail"
        /\ kept = <<>>
    BY <1>1, <2>2 DEF Rejections, NothingYet
  <2>4. /\ (retries = 0 <=> verdicts = <<>>)
        /\ Judge!LastVerdict' = (IF retries = 0 THEN "none" ELSE "fail")
    <3>1. retries = 0 <=> verdicts = <<>>  BY <1>1, <2>3
    <3>2. retries # 0 => Len(verdicts) \in 1..Len(verdicts)  BY <1>1, <2>3
    <3>3. Judge!LastVerdict' = Judge!LastVerdict  BY <2>2 DEF Judge!LastVerdict
    <3> QED  BY <2>3, <3>1, <3>2, <3>3 DEF Judge!LastVerdict
  <2>5. Judge!Exhausted <=> retries = MaxRetries /\ retries > 0
    BY <1>1, <2>3 DEF Judge!Exhausted
  <2>6. CASE Judge!Exhausted
    <3>1. final = text \o <<"notice">> /\ text \in Seq({"answer"})
      <4>1. <<>> \in Seq({"answer"}) /\ <<"answer">> \in Seq({"answer"})  OBVIOUS
      <4> QED  BY <2>6, <4>1
    <3>2. final # <<>> /\ final[Len(final)] = "notice"
          /\ ~(\E i \in DOMAIN final : final[i] = "note")
      <4> HIDE DEF final
      <4>1. /\ Len(final) = Len(text) + 1 /\ final[Len(text) + 1] = "notice"
            /\ \A i \in 1..Len(text) : final[i] = "answer"
            /\ DOMAIN final = 1..Len(final) /\ Len(text) \in Nat
        BY <3>1
      <4>2. \A i \in DOMAIN final : i \in 1..Len(text) \/ i = Len(text) + 1
        BY <4>1
      <4>3. \A i \in DOMAIN final : final[i] # "note"  BY <4>1, <4>2
      <4>4. DOMAIN final # {}  BY <4>1
      <4> QED  BY <4>1, <4>3, <4>4
    <3>3. /\ first = TRUE /\ retries > 0 /\ sort # "child" /\ Judge!LastVerdict' = "fail"
      BY <1>1, <2>3, <2>4, <2>5, <2>6
    <3>4. metrics' = "loop_exhausted"
      BY <2>2, <2>6, <3>3 DEF Judge!Classified
    <3>5. Judge!NoticeIsHonest'  BY <2>2, <3>2, <3>3
    <3>6. Judge!RecordIsRight'  BY <3>3, <3>4
    <3>7. Judge!CutTurnsAreTold'  BY <2>2, <3>2
    <3>8. Judge!VerdictsAreKept'
      BY <1>1, <2>1, <2>2, <2>3 DEF Judge!KeptVerdict
    <3> QED  BY <3>5, <3>6, <3>7, <3>8
  <2>7. CASE ~Judge!Exhausted
    <3>1. final = text  BY <2>7
    <3>2. text # <<>> => text[Len(text)] = "answer"  OBVIOUS
    <3>3. ~(\E i \in DOMAIN text : text[i] = "note")  OBVIOUS
    <3>4. text # <<>> => sort = "child" \/ retries = 0
      BY <1>1, <2>1, <2>5, <2>7 DEF Judge!ShouldReflect
    <3>5. text # <<>> => Judge!LastVerdict' = "none" /\ verdicts' = <<>>
      BY <2>2, <2>3, <2>4, <3>4
    <3>6. Judge!NoticeIsHonest'
      BY <2>2, <3>1, <3>2, <3>5
    <3>7. Judge!CutTurnsAreTold'  BY <2>2, <3>1, <3>3
    <3>8. Judge!VerdictsAreKept'
      BY <1>1, <2>1, <2>2, <2>3 DEF Judge!KeptVerdict
    <3>9. Judge!RecordIsRight'
      <4>1. CASE retries = 0
        <5>1. metrics' \in {"none", "skipped_empty"}
          BY <2>2, <2>3, <2>7, <4>1 DEF Judge!Classified
        <5> QED  BY <2>2, <2>4, <4>1, <5>1
      <4>2. CASE retries # 0
        <5>1. text = <<>> /\ sort # "child" /\ first = TRUE /\ last' = "none"
          BY <2>1, <2>3, <3>4, <4>2, <1>1
        <5>2. metrics' = "passed_after_retry"
          BY <2>2, <2>7, <4>2, <5>1 DEF Judge!Classified
        <5>3. "approved" \in mishaps'  BY <2>2, <3>1, <5>1, <5>2
        <5>4. ~Judge!Judged'  BY <2>2, <3>1, <5>1
        <5> QED  BY <5>3, <5>4
      <4> QED  BY <4>1, <4>2
    <3> QED  BY <3>6, <3>7, <3>8, <3>9
  <2> QED  BY <2>6, <2>7
<1>8. CASE Judge!Accepted
  <2>1. PICK v \in {"pass", "error"} :
          /\ last' = v /\ verdicts' = Append(verdicts, v) /\ at' = "over"
          /\ delivered' = <<"answer">>
          /\ live' = Judge!Shown(v) /\ kept' = Judge!KeptVerdict
          /\ metrics' = Judge!Classified(FALSE, <<"answer">>)
          /\ mishaps' = IF \E i \in DOMAIN live : live[i] = "fail" THEN mishaps \cup {"unkept"}
                        ELSE mishaps
    BY <1>8 DEF Judge!Accepted, Judge!Ends
  <2>2. at = "judge" /\ UNCHANGED <<sort, visibility, retries, first, parts>>
    BY <1>8 DEF Judge!Accepted
  <2>3. /\ Len(verdicts) = retries /\ first = TRUE /\ kept = <<>>
        /\ \A i \in 1..Len(live) : live[i] = "fail"
    BY <1>1, <2>2 DEF Rejections, NothingYet
  <2>4. v \in Judge!Verdicts  BY DEF Judge!Verdicts
  <2>5. verdicts' # <<>> /\ Len(verdicts') = retries + 1 /\ verdicts'[Len(verdicts')] = v
    <3>1. /\ Append(verdicts, v) \in Seq(Judge!Verdicts)
          /\ Len(Append(verdicts, v)) = Len(verdicts) + 1
          /\ Append(verdicts, v)[Len(verdicts) + 1] = v
      BY <1>1, <2>4, OneMore
    <3> QED  BY <1>1, <2>1, <2>3, <3>1
  <2>6. Judge!LastVerdict' = v  BY <2>5 DEF Judge!LastVerdict
  <2>7. Judge!NoticeIsHonest'  BY <2>1, <2>6
  <2>8. Judge!CutTurnsAreTold'  BY <2>1
  <2>9. Judge!RecordIsRight'
    <3>1. metrics' = IF v = "error" THEN "errored"
                     ELSE IF retries = 0 THEN "passed_first" ELSE "passed_after_retry"
      BY <2>1, <2>3 DEF Judge!Classified
    <3>2. Len(verdicts') = 1 <=> retries = 0  BY <1>1, <2>5
    <3> QED  BY <2>6, <3>1, <3>2
  <2>10. Judge!VerdictsAreKept'
    <3>1. CASE live = <<>>
      BY <2>1, <2>2, <2>3, <3>1 DEF Judge!KeptVerdict, Judge!Shown
    <3>2. CASE live # <<>>
      <4>1. 1 \in DOMAIN live /\ live[1] = "fail"  BY <1>1, <2>3, <3>2
      <4> QED  BY <2>1, <4>1
    <3> QED  BY <3>1, <3>2
  <2> QED  BY <2>7, <2>8, <2>9, <2>10
<1>9. ASSUME at # "over"  PROVE metrics = "none"
  BY <1>1, <1>9 DEF NothingYet
<1>10. Judge!EndTurn => at' = "over" /\ delivered' = <<"closing">> /\ metrics' = "none"
  BY <1>9 DEF Judge!EndTurn, Judge!recordVars, Judge!Ends
<1>11. Judge!Cancelled => at' = "over" /\ delivered' = <<>> /\ metrics' = "none"
  BY <1>9 DEF Judge!Cancelled, Judge!recordVars, Judge!Ends
<1>12. Judge!LoopBreak => /\ at' = "over" /\ delivered' = Judge!WithNote /\ metrics' = "none"
                          /\ UNCHANGED <<parts, sort>>
  BY <1>9 DEF Judge!LoopBreak, Judge!NoteEnds, Judge!recordVars, Judge!Ends
<1>13. Judge!Grace => /\ at' = "over" /\ metrics' = "none" /\ UNCHANGED <<parts, sort>>
                      /\ delivered' \in {<<"closing">>, Judge!WithNote}
  BY <1>9 DEF Judge!Grace, Judge!NoteEnds, Judge!recordVars, Judge!Ends
<1>14. Judge!NewTurn \/ Judge!CallTools \/ Judge!Overflow \/ Judge!RetryEmpty \/ Judge!Candidate
       \/ Judge!Rejected \/ Judge!BudgetGone => at' # "over"
  BY DEF Judge!NewTurn, Judge!CallTools, Judge!Overflow, Judge!RetryEmpty, Judge!Candidate,
         Judge!Rejected, Judge!BudgetGone
<1>15. CASE UNCHANGED Judge!vars
  <2>1. UNCHANGED <<at, delivered, metrics, verdicts, parts, live, kept, sort, mishaps>>
    BY <1>15 DEF Judge!vars, Judge!rowVars, Judge!recordVars, Judge!ghostVars
  <2> QED  BY <1>1, <2>1 DEF Judge!LastVerdict
<1> QED
  BY <1>2, <1>3, <1>4, <1>5, <1>6, <1>7, <1>8, <1>10, <1>11, <1>12, <1>13, <1>14, <1>15
     DEF JudgeTyped, Judge!Next

LEMMA ToldStep == JudgeTyped => Judge!JudgeSeesTheTurn'
<1> SUFFICES ASSUME JudgeTyped  PROVE Judge!JudgeSeesTheTurn'
  OBVIOUS
<1>1. Judge!TypeOK /\ RowsOfTurns /\ ToolsAfterStart /\ Judge!JudgeSeesTheTurn
  BY DEF JudgeTyped, JudgeInv
<1>2. CASE Judge!Candidate
  <2>1. /\ at = "loop" /\ judged' = Judge!Told /\ UNCHANGED <<answers, results, mishaps>>
    BY <1>2 DEF Judge!Candidate, Judge!Iterates, Judge!turnVars
  <2>3. ASSUME "moved" \notin mishaps
        PROVE  Judge!Told.tools = results /\ answers \notin Judge!Told.others
    BY <1>1, <2>1, <2>3, ToldTools, OthersOfOthers DEF ToolsAfterStart
  <2> QED  BY <2>1, <2>3 DEF Judge!JudgeSeesTheTurn
<1>3. CASE at' # "judge"
  BY <1>3 DEF Judge!JudgeSeesTheTurn
<1>4. CASE UNCHANGED Judge!vars
  <2>1. UNCHANGED <<at, judged, results, answers, mishaps>>
    BY <1>4 DEF Judge!vars, Judge!rowVars, Judge!turnVars, Judge!ghostVars
  <2> QED  BY <1>1, <2>1 DEF Judge!JudgeSeesTheTurn
<1>5. Judge!NewTurn \/ Judge!CallTools \/ Judge!Overflow \/ Judge!RetryEmpty \/ Judge!Rejected
      \/ Judge!BudgetGone => at' # "judge"
  BY DEF Judge!NewTurn, Judge!CallTools, Judge!Overflow, Judge!RetryEmpty, Judge!Rejected,
         Judge!BudgetGone, Judge!Iterates
<1> QED  BY <1>2, <1>3, <1>4, <1>5, EndsOver DEF JudgeTyped, Judge!Next

-----------------------------------------------------------------------------
(* The theorems *)

LEMMA JudgeInit == Judge!Bounds /\ Judge!Init => JudgeInv
<1> SUFFICES ASSUME Judge!Bounds, Judge!Init  PROVE JudgeInv
  OBVIOUS
<1>1. Judge!TypeOK
  <2>1. /\ history = <<>> /\ start = 0 /\ delivered = <<>> /\ live = <<>> /\ kept = <<>>
        /\ verdicts = <<>> /\ judged = [tools |-> 0, others |-> {}]
    BY DEF Judge!Init, Judge!Untold
  <2>2. history \in Seq(Judge!Rows) /\ start \in 0..Len(history)  BY <2>1
  <2>3. /\ delivered \in Seq(Judge!Texts) /\ live \in Seq(Judge!Verdicts)
        /\ kept \in Seq(Judge!Verdicts) /\ verdicts \in Seq(Judge!Verdicts)
    BY <2>1
  <2>4. judged.tools \in Nat /\ judged.others \subseteq 1..MaxAnswers  BY <2>1
  <2>5. /\ answers \in 0..MaxAnswers /\ sort \in Sorts /\ visibility \in Visibilities
        /\ remaining \in 0..MaxIterations /\ empties \in 0..1 /\ retries \in 0..MaxRetries
        /\ parts \in 0..MaxIterations /\ overflows \in 0..MaxOverflows
        /\ results \in Nat /\ calls \in Nat
    BY DEF Judge!Init, Judge!Bounds
  <2>6. at = "over" /\ last = "none" /\ first = FALSE /\ metrics = "none" /\ mishaps = {}
    BY DEF Judge!Init
  <2> QED  BY <2>2, <2>3, <2>4, <2>5, <2>6 DEF Judge!TypeOK, Judge!Outcomes
<1>2. /\ at = "over" /\ delivered = <<>> /\ history = <<>> /\ metrics = "none"
      /\ calls = 0 /\ parts = 0 /\ remaining = 0
  BY DEF Judge!Init
<1>3. CallsCounted  BY <1>2 DEF CallsCounted, Judge!Bounds
<1>4. Rejections /\ NothingYet /\ RowsOfTurns /\ ToolsAfterStart
  BY <1>2 DEF Rejections, NothingYet, RowsOfTurns, ToolsAfterStart
<1>5. AnswerRight /\ Judge!JudgeSeesTheTurn
  BY <1>2 DEF AnswerRight, Judge!NoticeIsHonest, Judge!RecordIsRight, Judge!CutTurnsAreTold,
     Judge!VerdictsAreKept, Judge!Judged, Judge!JudgeSeesTheTurn
<1> QED  BY <1>1, <1>3, <1>4, <1>5 DEF JudgeInv

LEMMA JudgeCorrect == Judge!Bounds /\ Judge!Spec => []JudgeInv
<1> SUFFICES ASSUME Judge!Bounds  PROVE Judge!Spec => []JudgeInv
  OBVIOUS
<1>1. Judge!Init => JudgeInv  BY JudgeInit
<1>2. JudgeInv /\ [Judge!Next]_(Judge!vars) => JudgeInv'
  <2> SUFFICES ASSUME JudgeTyped  PROVE JudgeInv'
    BY DEF JudgeTyped
  <2> QED
    BY TypedStep, CallsStep, RejectionsStep, NothingStep, RowsStep, ToolsStep, AnswerRightStep,
       ToldStep DEF JudgeInv
<1> QED  BY <1>1, <1>2, PTL DEF Judge!Spec

\* The types of every variable of Reflection.
THEOREM JudgeTypes == Judge!Bounds /\ Judge!Spec => []Judge!TypeOK
BY JudgeCorrect, PTL DEF JudgeInv

\* Retries of every sort do not keep a turn going.
THEOREM JudgeCalls == Judge!Bounds /\ Judge!Spec => []Judge!CallsAreBounded
<1>1. ASSUME JudgeInv  PROVE Judge!CallsAreBounded
  <2>1. /\ remaining \in Nat /\ empties \in 0..1 /\ calls \in Nat /\ MaxIterations \in Nat
        /\ at \in {"over", "loop", "judge", "grace"} /\ CallsCounted
    BY <1>1 DEF JudgeInv, Judge!TypeOK, Judge!Bounds
  <2> QED  BY <2>1 DEF CallsCounted, Judge!CallsAreBounded
<1> QED  BY <1>1, JudgeCorrect, PTL

\* An answer carries the notice exactly when the judge had the last word, and rejected.
THEOREM JudgeNotice == Judge!Bounds /\ Judge!Spec => []Judge!NoticeIsHonest
BY JudgeCorrect, PTL DEF JudgeInv, AnswerRight

\* The record of a turn says what became of it.
THEOREM JudgeRecord == Judge!Bounds /\ Judge!Spec => []Judge!RecordIsRight
BY JudgeCorrect, PTL DEF JudgeInv, AnswerRight

\* What a page has shown of the verdicts is what it shows after a reload.
THEOREM JudgeVerdicts == Judge!Bounds /\ Judge!Spec => []Judge!VerdictsAreKept
BY JudgeCorrect, PTL DEF JudgeInv, AnswerRight

\* A turn that was cut off says so, first, and keeps what it has said before.
THEOREM JudgeCuts == Judge!Bounds /\ Judge!Spec => []Judge!CutTurnsAreTold
BY JudgeCorrect, PTL DEF JudgeInv, AnswerRight

\* The judge is told of every tool result of the turn, and of no other as one of it.
THEOREM JudgeIsTold == Judge!Bounds /\ Judge!Spec => []Judge!JudgeSeesTheTurn
BY JudgeCorrect, PTL DEF JudgeInv
=============================================================================
