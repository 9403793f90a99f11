----------------------------- MODULE AgentTurn -----------------------------
(***************************************************************************)
(* What one turn of the agent does between the start and the settling that *)
(* TurnQueue treats as one step: the loop of TurnRunner with its iteration *)
(* budget, the tool batches of execute_tool_calls, the ways a cancellation *)
(* or an exception takes out of it, and the outcome run() reports.         *)
(*                                                                         *)
(* Two histories are kept, and most of what can go wrong is a difference   *)
(* between them: the archive on disk, and the list in memory that the      *)
(* prompts are built from.  The windows in which cancel_turn finds no      *)
(* agent task, or finds it in the finally block of run(), are TurnQueue's. *)
(***************************************************************************)
EXTENDS Integers, Sequences, FiniteSets

CONSTANTS
    MaxTurns,    \* turns of the conversation
    NumCalls,    \* tool calls of a batch
    Slots,       \* config.agent.max_concurrent_tools
    Budget,      \* config.agent.max_tool_iterations when each turn starts: a
                 \* child has its own, and the configuration is reloaded
    Retries,     \* config.reflection.max_retries
    MaxCancels, MaxCrashes

ASSUME Parameters ==
    /\ MaxTurns \in Nat \ {0} /\ NumCalls \in Nat \ {0} /\ Slots \in Nat \ {0}
    /\ Budget \in [1..MaxTurns -> Nat] /\ Retries \in Nat
    /\ MaxCancels \in Nat /\ MaxCrashes \in Nat

VARIABLES
    child,        \* the turn of a delegated child: ctx.cancelled is its parent's
    pc,           \* where run() and the agent loop under it are suspended
    turn,         \* the turn in flight, or the last one
    outcome,      \* the reason of each turn's turn_complete
    steered,      \* turns that gave way to a steering message
    archive,      \* the rows on disk
    memory,       \* state.history
    budget,       \* IterationBudget.remaining
    batch,        \* tool batches so far: tool_call ids are unique to one
    emptyRetries, reflectionRetries,
    tool,         \* the task of each call of the batch
    orphans,      \* tool bodies still running after their task was cancelled
    event,        \* ctx.cancelled is set
    kill,         \* a CancelledError is on its way to the agent task
    observed,     \* state.cancel_observed_by_agent
    latch,        \* state.cancel_marker_written
    result,       \* termination of result_holder[0]
    cancels, crashes

conv    == <<child, turn, outcome, steered>>
rows    == <<archive, memory>>
loop    == <<budget, batch, emptyRetries, reflectionRetries>>
tools   == <<tool, orphans>>
signals == <<event, kill, observed>>
ending  == <<latch, result>>
bounds  == <<cancels, crashes>>
vars    == <<conv, pc, rows, loop, tools, signals, ending, bounds>>

Calls == 1..NumCalls
Kinds == {"user", "calls", "tool", "answer", "synthetic", "note",
          "cancelled", "cancel_marker", "turn_aborted"}
Rows  == [kind : Kinds, turn : 1..MaxTurns, batch : Nat, call : 0..NumCalls]

Prompts == {"llm", "present", "summary", "grace"}   \* an LLM call is out
Awaits  == Prompts \cup {"compose", "recompose", "announce", "tools", "watch", "nudge",
                         "stop", "widget", "confirm", "reflect", "compact",
                         "deliver", "unwound", "failing"}
PC == Awaits \cup {"idle", "starting", "head", "return", "settle"}
Outcomes == {"completed", "cancelled", "failed"}

TypeOK ==
    /\ child \in BOOLEAN /\ pc \in PC
    /\ turn \in 0..MaxTurns
    /\ outcome \in [1..MaxTurns -> Outcomes \cup {"none", "lost"}]
    /\ steered \subseteq 1..MaxTurns
    /\ archive \in Seq(Rows) /\ memory \in Seq(Rows)
    /\ budget \in Nat /\ batch \in Nat
    /\ emptyRetries \in 0..1 /\ reflectionRetries \in 0..Retries
    /\ tool \in [Calls -> {"none", "waiting", "running", "closing", "ended", "gone"}]
    /\ orphans \subseteq (1..MaxTurns) \X Nat \X Calls
    /\ event \in BOOLEAN /\ kill \in BOOLEAN /\ observed \in BOOLEAN
    /\ latch \in BOOLEAN /\ result \in {"none", "ok", "cancelled", "error"}
    /\ cancels \in 0..MaxCancels /\ crashes \in 0..MaxCrashes

Init ==
    /\ child \in BOOLEAN /\ pc = "idle" /\ turn = 0
    /\ outcome = [t \in 1..MaxTurns |-> "none"]
    /\ steered = {}
    /\ archive = <<>> /\ memory = <<>>
    /\ budget = 0 /\ batch = 0 /\ emptyRetries = 0 /\ reflectionRetries = 0
    /\ tool = [c \in Calls |-> "none"] /\ orphans = {}
    /\ event = FALSE /\ kill = FALSE /\ observed = FALSE
    /\ latch = FALSE /\ result = "none"
    /\ cancels = 0 /\ crashes = 0

-----------------------------------------------------------------------------
(* Rows and steps *)

Row(kind) == [kind |-> kind, turn |-> turn, batch |-> 0, call |-> 0]
ToolRow(c) == [kind |-> "tool", turn |-> turn, batch |-> batch, call |-> c]
ToolRows == [c \in Calls |-> ToolRow(c)]

\* history.append and _archive of one message
Say(kind) == memory' = Append(memory, Row(kind)) /\ archive' = Append(archive, Row(kind))
Remember(kind) == memory' = Append(memory, Row(kind)) /\ UNCHANGED archive

\* a step of the agent task itself
Step(from, to) == pc \in from /\ ~kill /\ pc' = to

\* the TurnRunner of the turn is gone, and its counters with it
LoopOver == budget' = 0 /\ batch' = 0 /\ emptyRetries' = 0 /\ reflectionRetries' = 0

\* _write_cancel_marker_once
WriteMarkerOnce ==
    /\ archive' = IF latch THEN archive ELSE Append(archive, Row("cancel_marker"))
    /\ latch' = TRUE

\* _check_cancelled of agent.py: the text goes to memory, the manager is told
SeeCancel ==
    /\ pc' = "return" /\ observed' = TRUE
    /\ Remember("cancelled")

-----------------------------------------------------------------------------
(* A turn begins *)

\* mutant: the latch of the marker outlives its turn
StartTurnLatched ==
    /\ pc = "idle" /\ turn < (IF child THEN 1 ELSE MaxTurns) /\ pc' = "starting"
    /\ turn' = turn + 1
    /\ memory' = IF memory # <<>> THEN memory ELSE archive
    /\ event' = FALSE /\ kill' = FALSE /\ observed' = FALSE /\ result' = "none"
    /\ UNCHANGED <<child, outcome, steered, archive, loop, tools, latch, bounds>>

\* _start_turn: the accounting is reset and the history loaded, from disk only
\* when there is none in memory
StartTurn ==
    /\ pc = "idle" /\ turn < (IF child THEN 1 ELSE MaxTurns) /\ pc' = "starting"
    /\ turn' = turn + 1
    /\ memory' = IF memory # <<>> THEN memory ELSE archive
    /\ event' = FALSE /\ kill' = FALSE /\ observed' = FALSE
    /\ latch' = FALSE /\ result' = "none"
    /\ UNCHANGED <<child, outcome, steered, archive, loop, tools, bounds>>

\* the task is created and the counters of TurnRunner.run are set
Begin ==
    /\ Step({"starting"}, "compose")
    /\ budget' = Budget[turn] /\ batch' = 0 /\ emptyRetries' = 0 /\ reflectionRetries' = 0
    /\ UNCHANGED <<conv, rows, tools, signals, ending, bounds>>

\* the user's message joins the history once the context is composed, and once
\* more when an overflow makes the loop compose again
Compose ==
    /\ Step({"compose", "recompose"}, "head")
    /\ Say("user")
    /\ UNCHANGED <<conv, loop, tools, signals, ending, bounds>>

-----------------------------------------------------------------------------
(* The loop *)

\* mutant: the budget is spent without a look at what remains
IterateUnchecked ==
    /\ pc = "head"
    /\ budget' = budget - 1
    /\ IF event THEN SeeCancel ELSE pc' = "llm" /\ UNCHANGED <<rows, observed>>
    /\ UNCHANGED <<conv, batch, emptyRetries, reflectionRetries, tools, event, kill, ending, bounds>>

\* consume(), then the cancel check; an exhausted budget leaves the grace call
Iterate ==
    /\ pc = "head"
    /\ IF budget = 0
       THEN pc' = "grace" /\ UNCHANGED <<budget, rows, observed>>
       ELSE /\ budget' = budget - 1
            /\ IF event THEN SeeCancel ELSE pc' = "llm" /\ UNCHANGED <<rows, observed>>
    /\ UNCHANGED <<conv, batch, emptyRetries, reflectionRetries, tools, event, kill, ending, bounds>>

\* the check after every LLM call: a call in flight is cut short by the event
LlmCancelled ==
    /\ pc \in Prompts /\ ~kill /\ event /\ SeeCancel
    /\ UNCHANGED <<conv, loop, tools, event, kill, ending, bounds>>

LlmCalls ==
    /\ ~event /\ Step({"llm"}, "announce")
    /\ batch' = batch + 1
    /\ LET row == [Row("calls") EXCEPT !.batch = batch + 1]
       IN  memory' = Append(memory, row) /\ archive' = Append(archive, row)
    /\ UNCHANGED <<conv, budget, emptyRetries, reflectionRetries, tools, signals, ending, bounds>>

\* mutant: every empty response is retried, and refunded
LlmEmptyUnbounded ==
    /\ ~event /\ Step({"llm"}, "head")
    /\ budget' = budget + 1
    /\ UNCHANGED <<conv, rows, batch, emptyRetries, reflectionRetries, tools, signals, ending, bounds>>

\* the first empty response of a turn is retried at no cost
LlmEmpty ==
    /\ ~event /\ emptyRetries < 1 /\ Step({"llm"}, "head")
    /\ emptyRetries' = emptyRetries + 1 /\ budget' = budget + 1
    /\ UNCHANGED <<conv, rows, batch, reflectionRetries, tools, signals, ending, bounds>>

LlmText ==
    /\ ~event /\ Step({"llm"}, "reflect")
    /\ UNCHANGED <<conv, rows, loop, tools, signals, ending, bounds>>

LlmOverflow ==
    /\ Step({"llm"}, "recompose")
    /\ UNCHANGED <<conv, rows, loop, tools, signals, ending, bounds>>

\* the judge sends the answer back
Retry ==
    /\ ~child /\ reflectionRetries < Retries /\ Step({"reflect"}, "head")
    /\ reflectionRetries' = reflectionRetries + 1
    /\ memory' = memory \o <<Row("answer"), Row("synthetic")>>
    /\ archive' = archive \o <<Row("answer"), Row("synthetic")>>
    /\ UNCHANGED <<conv, budget, batch, emptyRetries, tools, signals, ending, bounds>>

\* the final answer: of the model, of the grace call (or the notice in its
\* place), or of the loop breaker
Answer ==
    /\ (pc = "grace" => ~event) /\ Step({"reflect", "grace", "stop"}, "compact")
    /\ Say("answer")
    /\ UNCHANGED <<conv, loop, tools, signals, ending, bounds>>

\* the grace call raises: the notice, whatever the event says
GraceFails ==
    /\ Step({"grace"}, "compact") /\ Say("answer")
    /\ UNCHANGED <<conv, loop, tools, signals, ending, bounds>>

Compact ==
    /\ Step({"compact"}, "return")
    /\ UNCHANGED <<conv, rows, loop, tools, signals, ending, bounds>>

-----------------------------------------------------------------------------
(* A batch of tool calls *)

\* finish_reason "length", "error" or "interrupted": every call is answered
\* with an error
RejectCalls ==
    /\ Step({"announce"}, "head")
    /\ memory' = memory \o ToolRows /\ archive' = archive \o ToolRows
    /\ UNCHANGED <<conv, loop, tools, signals, ending, bounds>>

\* _check_cancelled of tool_execution.py: this copy archives the text and tells
\* the manager nothing
ToolsCancelled ==
    /\ event /\ pc' = "return"
    /\ Say("cancelled")

StartTools ==
    /\ pc = "announce" /\ ~kill
    /\ IF event
       THEN ToolsCancelled /\ UNCHANGED tool
       ELSE pc' = "tools" /\ tool' = [c \in Calls |-> "waiting"] /\ UNCHANGED rows
    /\ UNCHANGED <<conv, loop, orphans, signals, ending, bounds>>

\* the semaphore lets the tasks in first come first served
ToolStarts(c) ==
    /\ pc = "tools" /\ tool[c] = "waiting"
    /\ \A d \in 1..(c - 1) : tool[d] # "waiting"
    /\ Cardinality({d \in Calls : tool[d] \in {"running", "closing"}}) < Slots
    /\ tool' = [tool EXCEPT ![c] = "running"]
    /\ UNCHANGED <<conv, pc, rows, loop, orphans, signals, ending, bounds>>

\* result, error or timeout: tool_end is published
ToolEnds(c) ==
    /\ pc = "tools" /\ tool[c] = "running" /\ tool' = [tool EXCEPT ![c] = "closing"]
    /\ UNCHANGED <<conv, pc, rows, loop, orphans, signals, ending, bounds>>

\* the task archives its own row, in the order the tools finish
ToolCloses(c) ==
    /\ pc = "tools" /\ tool[c] = "closing" /\ tool' = [tool EXCEPT ![c] = "ended"]
    /\ archive' = Append(archive, ToolRow(c))
    /\ UNCHANGED <<conv, pc, memory, loop, orphans, signals, ending, bounds>>

\* an exception past the try block of the task
ToolFails(c) ==
    /\ pc = "tools" /\ tool[c] = "closing" /\ tool' = [tool EXCEPT ![c] = "gone"]
    /\ UNCHANGED <<conv, pc, rows, loop, orphans, signals, ending, bounds>>

\* the body of a tool task that was cancelled comes to its own end
OrphanEnds ==
    /\ \E o \in orphans : orphans' = orphans \ {o}
    /\ UNCHANGED <<conv, pc, rows, loop, tool, signals, ending, bounds>>

\* CancelledError in every task of the batch: one that waits for the semaphore
\* or publishes tool_end is gone without a row; one that awaits the tool says
\* so, and asyncio.wait leaves the tool's own task running
CancelTools ==
    /\ tool' = [c \in Calls |->
                  CASE tool[c] \in {"waiting", "closing"} -> "gone"
                    [] tool[c] = "running" -> "closing"
                    [] OTHER -> tool[c]]
    /\ orphans' = orphans \cup {<<turn, batch, c>> : c \in {d \in Calls : tool[d] = "running"}}

BatchDone == \A c \in Calls : tool[c] \in {"ended", "gone"}

\* gather is over: the watcher is cancelled and awaited
Gathered ==
    /\ BatchDone /\ Step({"tools"}, "watch")
    /\ UNCHANGED <<conv, rows, loop, tools, signals, ending, bounds>>

\* where a collected batch leads: out of the loop if a steering message came
\* meanwhile; another iteration, a nudge or the stop of the loop breaker; what a
\* tool's end_turn asks for
AfterBatch ==
    \/ /\ ~child /\ pc' = "return" /\ steered' = steered \cup {turn}
    \/ /\ pc' \in {"head", "nudge", "stop"} \cup
                  (IF \E c \in Calls : tool[c] = "ended"
                   THEN {"widget", "present", "summary"} ELSE {})
       /\ UNCHANGED steered

\* the rows of the tasks that raised, in the order of the calls
ErrorRows ==
    LET gone == {c \in Calls : tool[c] = "gone"}
        order == {s \in [1..Cardinality(gone) -> gone] :
                    \A i, j \in DOMAIN s : i < j => s[i] < s[j]}
    IN  {[i \in DOMAIN s |-> ToolRow(s[i])] : s \in order}

\* mutant: a task that raised leaves no row
CollectResultsOnly ==
    /\ pc = "watch" /\ kill' = FALSE
    /\ IF event
       THEN ToolsCancelled /\ UNCHANGED steered
       ELSE /\ AfterBatch
            /\ memory' = memory \o SelectSeq(ToolRows, LAMBDA r : tool[r.call] = "ended")
            /\ UNCHANGED archive
    /\ tool' = [c \in Calls |-> "none"]
    /\ UNCHANGED <<child, turn, outcome, loop, orphans, event, observed, ending, bounds>>

\* the await of the watcher swallows a CancelledError of the agent task itself;
\* then the check, and the results in the order of the calls, an exception as
\* an error row
Collect ==
    /\ pc = "watch" /\ kill' = FALSE
    /\ IF event
       THEN ToolsCancelled /\ UNCHANGED steered
       ELSE /\ AfterBatch
            /\ memory' = memory \o ToolRows
            /\ \E s \in ErrorRows : archive' = archive \o s
    /\ tool' = [c \in Calls |-> "none"]
    /\ UNCHANGED <<child, turn, outcome, loop, orphans, event, observed, ending, bounds>>

Nudged ==
    /\ Step({"nudge"}, "head")
    /\ UNCHANGED <<conv, rows, loop, tools, signals, ending, bounds>>

-----------------------------------------------------------------------------
(* The end-turn signals *)

WidgetAnswered ==
    /\ Step({"widget"}, "head") /\ Say("synthetic")
    /\ UNCHANGED <<conv, loop, tools, signals, ending, bounds>>

\* the event fires, or nobody can be asked: the turn is to end
WidgetDropped ==
    /\ Step({"widget"}, "summary")
    /\ UNCHANGED <<conv, rows, loop, tools, signals, ending, bounds>>

Presented ==
    /\ ~event /\ Step({"present"}, "confirm") /\ Say("answer")
    /\ UNCHANGED <<conv, loop, tools, signals, ending, bounds>>

\* approved: go on; denied: a last call.  The note is for the model alone
Confirmed ==
    /\ \E to \in {"head", "summary"} : Step({"confirm"}, to)
    /\ Remember("note")
    /\ UNCHANGED <<conv, loop, tools, signals, ending, bounds>>

Summarised ==
    /\ ~event /\ Step({"summary"}, "return") /\ Say("answer")
    /\ UNCHANGED <<conv, loop, tools, signals, ending, bounds>>

-----------------------------------------------------------------------------
(* The end of run() *)

\* the loop returned: the marker if the agent saw the cancellation, then
\* message_complete
Return ==
    /\ Step({"return"}, "deliver")
    /\ result' = "ok"
    /\ IF observed THEN WriteMarkerOnce ELSE UNCHANGED <<archive, latch>>
    /\ LoopOver
    /\ UNCHANGED <<conv, memory, tools, signals, bounds>>

\* mutant: the marker has no latch
UnwindUnlatched ==
    /\ kill /\ kill' = FALSE /\ pc \in Awaits \ {"watch"}
    /\ (pc = "tools" => BatchDone)
    /\ IF pc \in {"unwound", "failing"}
       THEN pc' = "settle" /\ UNCHANGED <<archive, ending>>
       ELSE /\ pc' = "unwound" /\ result' = IF result = "none" THEN "cancelled" ELSE result
            /\ archive' = Append(archive, Row("cancel_marker")) /\ latch' = TRUE
    /\ tool' = [c \in Calls |-> "none"]
    /\ LoopOver
    /\ UNCHANGED <<conv, memory, orphans, event, observed, bounds>>

\* CancelledError reaches run(), from gather only once the whole batch is done;
\* inside a handler it goes on to the finally block
Unwind ==
    /\ kill /\ kill' = FALSE /\ pc \in Awaits \ {"watch"}
    /\ (pc = "tools" => BatchDone)
    /\ IF pc \in {"unwound", "failing"}
       THEN pc' = "settle" /\ UNCHANGED <<archive, ending>>
       ELSE /\ pc' = "unwound" /\ result' = IF result = "none" THEN "cancelled" ELSE result
            /\ WriteMarkerOnce
    /\ tool' = [c \in Calls |-> "none"]
    /\ LoopOver
    /\ UNCHANGED <<conv, memory, orphans, event, observed, bounds>>

\* an exception: of an LLM call, of composing or of a confirmation
Fail ==
    /\ Step({"compose", "recompose", "llm", "present", "summary", "widget", "confirm"}, "failing")
    /\ result' = "error"
    /\ archive' = Append(archive, Row("turn_aborted"))
    /\ LoopOver
    /\ UNCHANGED <<conv, memory, tools, signals, latch, bounds>>

Delivered ==
    /\ Step({"deliver", "unwound", "failing"}, "settle")
    /\ UNCHANGED <<conv, rows, loop, tools, signals, ending, bounds>>

\* mutant: the reason is computed after the reset of cancel_event
SettleAfterReset ==
    /\ pc = "settle" /\ pc' = "idle"
    /\ outcome' = [outcome EXCEPT ![turn] =
                     IF result = "error" THEN "failed" ELSE "completed"]
    /\ UNCHANGED <<child, turn, steered, rows, loop, tools, signals, ending, bounds>>

\* turn_complete: state.cancel_event is never set for a child, whose event is
\* its parent's
Settle ==
    /\ pc = "settle" /\ pc' = "idle"
    /\ outcome' = [outcome EXCEPT ![turn] =
                     IF (event /\ ~child) \/ observed THEN "cancelled"
                     ELSE IF result = "error" THEN "failed" ELSE "completed"]
    /\ UNCHANGED <<child, turn, steered, rows, loop, tools, signals, ending, bounds>>

-----------------------------------------------------------------------------
(* The environment *)

\* cancel_turn: the event, and the agent task if there is one
CancelTurn ==
    /\ pc \in Awaits \cup {"starting"} /\ ~child
    /\ cancels < MaxCancels /\ cancels' = cancels + 1
    /\ event' = TRUE /\ kill' = (pc # "starting")
    /\ IF pc = "tools" THEN CancelTools ELSE UNCHANGED tools
    /\ UNCHANGED <<conv, pc, rows, loop, observed, ending, crashes>>

\* the parent of a child is cancelled: only the event; the watcher of the batch
\* cancels its tasks
CancelParent ==
    /\ child /\ ~event /\ pc \in Awaits \cup {"starting"}
    /\ cancels < MaxCancels /\ cancels' = cancels + 1
    /\ event' = TRUE
    /\ IF pc = "tools" THEN CancelTools ELSE UNCHANGED tools
    /\ UNCHANGED <<conv, pc, rows, loop, kill, observed, ending, crashes>>

\* the process dies and is restarted: the turn is lost, the archive stays
Crash ==
    /\ turn > 0 /\ crashes < MaxCrashes /\ crashes' = crashes + 1
    /\ pc' = "idle"
    /\ outcome' = IF pc = "idle" THEN outcome ELSE [outcome EXCEPT ![turn] = "lost"]
    /\ memory' = <<>> /\ orphans' = {} /\ kill' = FALSE
    /\ tool' = [c \in Calls |-> "none"]
    /\ UNCHANGED <<child, turn, steered, archive, loop, event, observed, ending, cancels>>

-----------------------------------------------------------------------------
AgentStep ==
    \/ Begin \/ Compose \/ Iterate
    \/ LlmCancelled \/ LlmCalls \/ LlmEmpty \/ LlmText \/ LlmOverflow
    \/ Retry \/ Answer \/ GraceFails \/ Compact
    \/ RejectCalls \/ StartTools \/ Gathered \/ Collect \/ Nudged
    \/ WidgetAnswered \/ WidgetDropped \/ Presented \/ Confirmed \/ Summarised
    \/ Return \/ Unwind \/ Fail \/ Delivered \/ Settle

ToolStep(c) == ToolStarts(c) \/ ToolEnds(c) \/ ToolCloses(c) \/ ToolFails(c)

Next ==
    \/ StartTurn \/ AgentStep
    \/ \E c \in Calls : ToolStep(c)
    \/ OrphanEnds
    \/ CancelTurn \/ CancelParent \/ Crash

Spec == Init /\ [][Next]_vars

(* The event loop does not idle while a step is ready; LLM calls and tools   *)
(* come to an end, and the user answers.                                     *)
Fairness == WF_vars(AgentStep \/ \E c \in Calls : ToolStep(c))

FairSpec == Spec /\ Fairness

-----------------------------------------------------------------------------
(* Properties *)

Settled(t) == outcome[t] \in Outcomes
Markers == {"cancel_marker", "turn_aborted"}

\* No prompt goes out with a tool call of this turn unanswered or answered
\* twice: the providers refuse it.  The rows come from the tools' tasks, from
\* the collector for a task that raised, and from a truncated response.
CallsAnsweredInTurn ==
    pc \in Prompts =>
        \A b \in 1..batch, c \in Calls :
            Cardinality({i \in 1..Len(memory) :
                           memory[i] = [kind |-> "tool", turn |-> turn, batch |-> b, call |-> c]}) = 1

\* The archive never leaves a settled turn open for the next one to fulfil
\* again: its last row is an answer, a notice of cancellation or a marker, or
\* the result of a tool if a steering message took its place.
ClosedInArchive ==
    \A t \in 1..MaxTurns :
        Settled(t) =>
            \E i \in 1..Len(archive) :
                /\ archive[i].turn = t
                /\ \/ archive[i].kind \in {"answer", "cancelled"} \cup Markers
                   \/ archive[i].kind = "tool" /\ t \in steered
                /\ \A j \in (i + 1)..Len(archive) : archive[j].turn # t

\* A turn has at most one marker, and nothing of the turn follows it.
MarkerOnceLast ==
    \A i \in 1..Len(archive) :
        archive[i].kind \in Markers =>
            \A j \in (i + 1)..Len(archive) : archive[j].turn # archive[i].turn

\* What turn_complete says agrees with the archive: a completed turn has no
\* marker, a failed one ends with turn_aborted.
OutcomeMatchesArchive ==
    \A t \in 1..MaxTurns :
        /\ outcome[t] = "completed" =>
             \A i \in 1..Len(archive) : archive[i].kind \in Markers => archive[i].turn # t
        /\ outcome[t] = "failed" =>
             \E i \in 1..Len(archive) : archive[i].kind = "turn_aborted" /\ archive[i].turn = t

\* The loop is bounded: a turn that started is settled, whatever the model, the
\* tools and the judge say, and wherever it is cancelled.
Terminates == \A t \in 1..MaxTurns : turn = t ~> outcome[t] # "none"

\* docs/conversations.md: the composer remaps the cancel marker "to user before
\* sending history to the LLM", so that the next turn does not fulfil the
\* cancelled request again.  Fails: the marker is on disk only, and a history
\* in memory is never read again.
MarkerIsSeen ==
    pc \in Prompts =>
        \A i \in 1..Len(archive) :
            archive[i].kind \in Markers /\ archive[i].turn < turn =>
                \E j \in 1..Len(memory) :
                    memory[j].turn = archive[i].turn /\ memory[j].kind \in Markers \cup {"cancelled"}

=============================================================================
