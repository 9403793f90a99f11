----------------------------- MODULE Compaction -----------------------------
(***************************************************************************)
(* The memory of a conversation: the archive, to which rows are appended;  *)
(* the sidecar of the last compaction; the history the agent works on.     *)
(* A compaction replaces the old turns by a summary: the model records     *)
(* which rows the summary was made from.                                   *)
(***************************************************************************)
EXTENDS Integers, Sequences, FiniteSets, FiniteSetsExt

CONSTANTS
    Preserve,  \* compaction.preserve_turns
    Skews,     \* how far the clock of a background_event is from the others
    MaxRows,   \* bound on the archive
    MaxReloads \* bound on the restarts

VARIABLES
    archive, \* archive.jsonl, without metadata rows: kind and timestamp
    sidecar, \* compacted.jsonl: what its summary covers, the rows after it
    history, \* state.history, likewise
    summing, \* the lists of the compaction that awaits its summary
    reloads

memoryVars == <<archive, sidecar, history, summing, reloads>>

Kinds == {"user", "reply", "skill", "event"}
Memory == [covers : SUBSET (1..MaxRows), keeps : SUBSET (1..MaxRows)]
Empty == [covers |-> {}, keeps |-> {}]

TypeOK ==
    /\ archive \in Seq([kind : Kinds, stamp : Int]) /\ Len(archive) <= MaxRows
    /\ sidecar \in Memory /\ history \in Memory
    /\ summing \in [on : BOOLEAN, becomes : Memory]
    /\ reloads \in 0..MaxReloads

Init ==
    /\ archive = <<>> /\ sidecar = Empty /\ history = Empty
    /\ summing = [on |-> FALSE, becomes |-> Empty] /\ reloads = 0

Rows == 1..Len(archive)
Stamp(i) == archive[i].stamp

-----------------------------------------------------------------------------
(* The rows of a turn of the agent go to the archive and to the history;   *)
(* an event of a background job goes to the archive only.                  *)

Say(kind) ==
    /\ ~summing.on /\ Len(archive) < MaxRows
    /\ archive = <<>> => kind = "user"
    /\ archive' = Append(archive, [kind |-> kind, stamp |-> Len(archive) + 1])
    /\ history' = [history EXCEPT !.keeps = @ \cup {Len(archive) + 1}]
    /\ UNCHANGED <<sidecar, summing, reloads>>

JobEvent(skew) ==
    /\ archive # <<>> /\ Len(archive) < MaxRows
    /\ archive' = Append(archive, [kind |-> "event", stamp |-> Len(archive) + 1 + skew])
    /\ UNCHANGED <<sidecar, history, summing, reloads>>

-----------------------------------------------------------------------------
(* _split_into_turns, _partition_turns: a turn is named by its first row.  *)

Turns == {i \in Rows : archive[i].kind = "user"}
TurnFrom(i) == {j \in Rows : j >= i /\ \A k \in Turns : k <= j => k <= i}
Guarded(rows) == \E i \in rows : archive[i].kind = "skill"
RowsOf(turns) == UNION {TurnFrom(i) : i \in turns}

Recent == {i \in Turns : Cardinality({j \in Turns : j >= i}) <= Preserve}
Protected == {i \in Turns \ Recent : Guarded(TurnFrom(i))}
Old == Turns \ (Recent \cup Protected)

-----------------------------------------------------------------------------
(* _determine_compaction_mode: where the last compaction ended, from the   *)
(* timestamp of the sidecar's last row and the number of its recent rows.  *)

Incremental == sidecar.keeps # {}
LastStamp == Stamp(Max(sidecar.keeps))
PrevArchiveLen == Max({0} \cup {n \in Rows : \A i \in 1..n : Stamp(i) <= LastStamp})
PrevRecent ==
    {i \in sidecar.keeps : \A j \in Turns : i \in TurnFrom(j) => ~Guarded(TurnFrom(j) \cap sidecar.keeps)}
PrevOldCount == PrevArchiveLen - Cardinality(PrevRecent)
TurnEnd(i) == Cardinality(RowsOf({j \in Old : j <= i}))
\* mutant: the turn that straddles the boundary counts as covered
NewlyOldLate ==
    IF Incremental THEN {i \in Old : TurnEnd(i) - Cardinality(TurnFrom(i)) > PrevOldCount} ELSE Old
NewlyOld == IF Incremental THEN {i \in Old : TurnEnd(i) > PrevOldCount} ELSE Old

\* compact_history up to the call of the model
Compact ==
    /\ ~summing.on
    /\ Cardinality(Turns) > Preserve /\ Old # {} /\ NewlyOld # {}
    /\ summing' = [on |-> TRUE,
                   becomes |-> [covers |-> sidecar.covers \cup RowsOf(NewlyOld),
                                keeps |-> RowsOf(Protected \cup Recent)]]
    /\ UNCHANGED <<archive, sidecar, history, reloads>>

\* _rebuild_history: the sidecar is written before the history is replaced.
\* A row that came meanwhile is in neither.
Rebuild ==
    /\ summing.on
    /\ sidecar' = summing.becomes /\ history' = summing.becomes
    /\ summing' = [on |-> FALSE, becomes |-> Empty]
    /\ UNCHANGED <<archive, reloads>>

\* the model fails, or returns nothing, or the sidecar cannot be written
\* mutant: the history is replaced although the sidecar was not
SummaryFailsLate ==
    /\ summing.on
    /\ history' = [summing.becomes EXCEPT !.covers = sidecar.covers]
    /\ summing' = [on |-> FALSE, becomes |-> Empty]
    /\ UNCHANGED <<archive, sidecar, reloads>>
SummaryFails ==
    /\ summing.on
    /\ summing' = [on |-> FALSE, becomes |-> Empty]
    /\ UNCHANGED <<archive, sidecar, history, reloads>>

-----------------------------------------------------------------------------
(* restore_history *)

Newer == IF Incremental THEN {i \in Rows : Stamp(i) > LastStamp} ELSE Rows
Restored == [sidecar EXCEPT !.keeps = @ \cup Newer]

Restart ==
    /\ reloads < MaxReloads /\ reloads' = reloads + 1
    /\ history' = Restored
    /\ summing' = [on |-> FALSE, becomes |-> Empty]
    /\ UNCHANGED <<archive, sidecar>>

Next ==
    \/ \E kind \in Kinds \ {"event"} : Say(kind)
    \/ \E skew \in Skews : JobEvent(skew)
    \/ Compact \/ Rebuild \/ SummaryFails \/ Restart

Spec == Init /\ [][Next]_memoryVars

-----------------------------------------------------------------------------
(* Properties *)

Accounted(memory, rows) == rows \subseteq memory.covers \cup memory.keeps
Messages == {i \in Rows : archive[i].kind # "event"}
InOrder == \A i, j \in Rows : i < j => Stamp(i) < Stamp(j)
SkillUsed == Guarded(Rows)

\* What leaves the history was summarised, and an activated skill stays word for
\* word: after any sequence of turns, failed and successful compactions and
\* restarts, the agent has every message of the conversation or its summary, and
\* a restart would load every row, once.  Excepted is what the code is known to
\* lose: rows with timestamps out of order, turns after the activation of a skill.
NothingForgotten ==
    InOrder =>
        /\ {i \in Rows : archive[i].kind = "skill"} \subseteq history.keeps
        /\ sidecar.covers \cap sidecar.keeps = {} /\ (Incremental => sidecar.keeps \cap Newer = {})
        /\ ~SkillUsed => Accounted(history, Messages) /\ Accounted(Restored, Rows)

\* compaction.py:590: "folds only newly-old turns into the existing summary"
OldTurnsAreSummarised == InOrder => Accounted(history, Messages)
=============================================================================
