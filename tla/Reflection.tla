----------------------------- MODULE Reflection -----------------------------
(***************************************************************************)
(* How a turn comes to its answer: the judge that may send it back, what    *)
(* the judge is told, the notice on an answer that was given up on, the     *)
(* grace turn and the notes a turn is cut off with, and the record that is *)
(* kept of all that.  A row of the history is its kind and the turn it     *)
(* belongs to; the ways a cancellation takes out of a turn are AgentTurn's. *)
(***************************************************************************)
EXTENDS Integers, Sequences, FiniteSets

CONSTANTS
    Kinds,          \* the turns there are, of "watched", "scheduled", "child"
    Visibilities,   \* of "hidden", "visible", "debug": reflection.visibility
    MaxIterations,  \* agent.max_tool_iterations
    MaxRetries,     \* reflection.max_retries
    MaxTurns, MaxOverflows

Bounds ==
    /\ Kinds \subseteq {"watched", "scheduled", "child"}
    /\ Visibilities \subseteq {"hidden", "visible", "debug"}
    /\ {MaxIterations, MaxRetries, MaxTurns, MaxOverflows} \subseteq Nat

VARIABLES
    at,         \* where the turn is suspended
    turn, kind, visibility,
    budget,     \* IterationBudget.remaining
    empties, retries,   \* empty_retries, reflection_retries
    last,       \* the verdict in last_reflection
    first,      \* the answer in reflection_first_response has been judged
    history,
    start,      \* turn_start_index
    parts,      \* accumulated_text_parts
    judged,     \* what the judge was told last: the tools of this turn, those of which others
    delivered,  \* the answer of the last turn: the texts it is made of
    metrics,    \* what the reflection_turn event of the turn said
    live, kept, \* the verdicts shown as they came, and the rows of role "reflection"
    verdicts, tools, calls, overflows,  \* of this turn, for the properties and the bound
    mishaps     \* what the code lets happen: see the properties

loopVars   == <<budget, empties, retries, last, first>>
rowVars    == <<history, start, parts, judged>>
recordVars == <<metrics, live, kept>>
turnVars   == <<turn, kind, visibility>>
ghostVars  == <<verdicts, tools, calls, overflows, mishaps>>
vars == <<at, turnVars, loopVars, rowVars, delivered, recordVars, ghostVars>>

Verdicts == {"pass", "fail", "error"}
Outcomes == {"none", "passed_first", "passed_after_retry", "loop_exhausted", "errored",
             "skipped_empty"}
Texts == {"answer", "closing", "note", "notice", "preamble"}
Rows  == [kind : {"user", "synthetic", "tool", "text", "summary"}, turn : 0..MaxTurns]

TypeOK ==
    /\ Bounds
    /\ at \in {"over", "loop", "judge", "grace"}
    /\ turn \in 0..MaxTurns /\ kind \in Kinds /\ visibility \in Visibilities
    /\ budget \in 0..MaxIterations /\ empties \in 0..1 /\ retries \in 0..MaxRetries
    /\ last \in Verdicts \cup {"none"} /\ first \in BOOLEAN
    /\ history \in Seq(Rows) /\ start \in 0..Len(history) /\ parts \in 0..MaxIterations
    /\ judged.tools \in Nat /\ judged.others \subseteq 1..MaxTurns
    /\ delivered \in Seq(Texts)
    /\ metrics \in Outcomes /\ live \in Seq(Verdicts) /\ kept \in Seq(Verdicts)
    /\ verdicts \in Seq(Verdicts) /\ tools \in Nat /\ calls \in Nat
    /\ overflows \in 0..MaxOverflows
    /\ mishaps \subseteq {"approved", "moved", "unkept"}

R(k) == [kind |-> k, turn |-> turn]
Untold == [tools |-> 0, others |-> {}]

Init ==
    /\ at = "over" /\ turn = 0 /\ kind \in Kinds /\ visibility \in Visibilities
    /\ budget = 0 /\ empties = 0 /\ retries = 0 /\ last = "none" /\ first = FALSE
    /\ history = <<>> /\ start = 0 /\ parts = 0 /\ judged = Untold
    /\ delivered = <<>> /\ metrics = "none" /\ live = <<>> /\ kept = <<>>
    /\ verdicts = <<>> /\ tools = 0 /\ calls = 0 /\ overflows = 0 /\ mishaps = {}

-----------------------------------------------------------------------------

\* run(): the message is composed into the history, and the turn starts after it.
NewTurn ==
    /\ at = "over" /\ turn < MaxTurns
    /\ turn' = turn + 1 /\ kind' \in Kinds /\ visibility' \in Visibilities
    /\ at' = "loop" /\ budget' = MaxIterations
    /\ empties' = 0 /\ retries' = 0 /\ last' = "none" /\ first' = FALSE /\ parts' = 0
    /\ history' = Append(history, [kind |-> "user", turn |-> turn + 1])
    /\ start' = Len(history')
    /\ delivered' = <<>> /\ metrics' = "none" /\ live' = <<>> /\ kept' = <<>>
    /\ verdicts' = <<>> /\ tools' = 0 /\ calls' = 0
    /\ UNCHANGED <<judged, overflows, mishaps>>

Iterates == at = "loop" /\ budget > 0
Asked == calls' = calls + 1

\* A response with calls: their results, perhaps after a word to the user.
CallTools ==
    /\ Iterates /\ Asked /\ budget' = budget - 1
    /\ \E said \in {0, 1} : parts' = parts + said
    /\ history' = history \o <<R("text"), R("tool")>> /\ tools' = tools + 1
    /\ UNCHANGED <<at, turnVars, empties, retries, last, first, start, judged, delivered,
                   recordVars, verdicts, overflows, mishaps>>

\* The prompt is too long: the history is compacted, and composed again with the
\* message; the turn is taken to start after that.
Overflow ==
    /\ Iterates /\ Asked /\ overflows < MaxOverflows
    /\ overflows' = overflows + 1 /\ budget' = budget - 1
    /\ \E n \in DOMAIN history :
         history' = <<[kind |-> "summary", turn |-> 0]>> \o
                    SubSeq(history, n + 1, Len(history)) \o <<R("user")>>
    /\ start' = Len(history')
    /\ mishaps' = IF tools > 0 THEN mishaps \cup {"moved"} ELSE mishaps
    /\ UNCHANGED <<at, turnVars, empties, retries, last, first, parts, judged, delivered,
                   recordVars, verdicts, tools>>

\* mutant: as often as it is empty
RetryEmptyAlways ==
    /\ Iterates /\ Asked /\ empties' = 1
    /\ UNCHANGED <<at, turnVars, budget, retries, last, first, rowVars, delivered, recordVars,
                   verdicts, tools, overflows, mishaps>>

\* An empty response is asked for again, once, and costs no iteration.
RetryEmpty ==
    /\ Iterates /\ Asked /\ empties = 0 /\ empties' = 1
    /\ UNCHANGED <<at, turnVars, budget, retries, last, first, rowVars, delivered, recordVars,
                   verdicts, tools, overflows, mishaps>>

Ends(texts) == at' = "over" /\ delivered' = texts

\* mutant: the exhausted verdict is looked for where it has been cleared
ClassifiedLate(exhausted, final) ==
    IF ~first THEN (IF final = <<>> THEN "skipped_empty" ELSE "none")
    ELSE IF last' = "error" THEN "errored"
    ELSE IF retries = 0 THEN "passed_first" ELSE "passed_after_retry"

\* classify_outcome
Classified(exhausted, final) ==
    IF ~first THEN (IF final = <<>> THEN "skipped_empty" ELSE "none")
    ELSE IF exhausted THEN "loop_exhausted"
    ELSE IF last' = "error" THEN "errored"
    ELSE IF retries = 0 THEN "passed_first" ELSE "passed_after_retry"

\* mutant: rejections only
KeptRejections ==
    IF last' = "fail" /\ visibility # "hidden" THEN Append(kept, last') ELSE kept

\* The rows of role "reflection": by then the last verdict is no rejection.
KeptVerdict ==
    IF last' # "none" /\ (visibility = "debug" \/ (visibility = "visible" /\ last' = "fail"))
    THEN Append(kept, last') ELSE kept

\* The answer is archived, recorded and delivered.
Answer(text, exhausted) ==
    /\ Ends(text) /\ history' = Append(history, R("text"))
    /\ kept' = KeptVerdict
    /\ metrics' = IF kind = "child" THEN "none" ELSE Classified(exhausted, text)
    /\ mishaps' = mishaps
         \cup (IF metrics' = "passed_after_retry" /\ text = <<>> THEN {"approved"} ELSE {})
         \cup (IF \E i \in DOMAIN live : live[i] = "fail" THEN {"unkept"} ELSE {})
    /\ UNCHANGED <<turnVars, empties, retries, start, parts, judged, live>>

\* _should_reflect
ShouldReflect(text) == kind # "child" /\ retries < MaxRetries /\ text # <<>>

\* mutant: one retry too many
ExhaustedPast == retries > MaxRetries /\ last = "fail"

\* _reflection_skip: an answer that comes after the last retry was rejected too is
\* not judged, and says that it may be wrong.
Exhausted == retries >= MaxRetries /\ last = "fail"

Unjudged ==
    /\ Iterates
    /\ \E text \in {<<>>, <<"answer">>} :
         /\ text = <<>> => empties = 1
         /\ ~ShouldReflect(text)
         /\ last' = "none"
         /\ Answer(IF Exhausted THEN text \o <<"notice">> ELSE text, Exhausted)
    /\ Asked /\ budget' = budget - 1
    /\ UNCHANGED <<first, verdicts, tools, overflows>>

\* build_tool_summary and build_prior_turn_summary: the results after the start of
\* the turn, and those of the three turns before it.
Indices(from, to) == {i \in from..to : history[i].kind = "tool"}
PriorStarts == {i \in 1..(start - 1) : history[i].kind = "user"}
LastStarts  == {i \in PriorStarts : Cardinality({j \in PriorStarts : j > i}) < 3}
\* mutant: from the beginning of the history
SinceEver == Indices(1, Len(history))

ThisTurn == Indices(start + 1, Len(history))
Told ==
    [tools  |-> Cardinality(ThisTurn),
     others |-> IF LastStarts = {} THEN {}
                ELSE LET from == CHOOSE i \in LastStarts : \A j \in LastStarts : i <= j
                     IN {history[i].turn : i \in Indices(from, start - 1)}]

\* A candidate goes to the judge.
Candidate ==
    /\ Iterates /\ ShouldReflect(<<"answer">>)
    /\ Asked /\ budget' = budget - 1 /\ at' = "judge"
    /\ judged' = Told /\ first' = TRUE
    /\ UNCHANGED <<turnVars, empties, retries, last, history, start, parts, delivered, recordVars,
                   verdicts, tools, overflows, mishaps>>

\* reflection_result, as the web page and Mattermost show it
Shown(v) ==
    IF visibility = "debug" \/ (visibility = "visible" /\ v = "fail")
    THEN Append(live, v) ELSE live

\* evaluate_response: a judge that fails, or says nothing that can be read, passes.
Accepted ==
    /\ at = "judge"
    /\ \E v \in {"pass", "error"} :
         /\ last' = v /\ verdicts' = Append(verdicts, v)
         /\ Ends(<<"answer">>) /\ history' = Append(history, R("text"))
         /\ live' = Shown(v) /\ kept' = KeptVerdict
         /\ metrics' = Classified(FALSE, <<"answer">>)
         /\ mishaps' = IF \E i \in DOMAIN live : live[i] = "fail" THEN mishaps \cup {"unkept"}
                       ELSE mishaps
    /\ UNCHANGED <<turnVars, budget, empties, retries, first, start, parts, judged, tools, calls,
                   overflows>>

\* A rejection: the candidate and the critique are rows, and the loop goes on.
Rejected ==
    /\ at = "judge" /\ at' = "loop"
    /\ last' = "fail" /\ verdicts' = Append(verdicts, "fail") /\ live' = Shown("fail")
    /\ retries' = retries + 1
    /\ history' = history \o <<R("text"), R("synthetic")>>
    /\ UNCHANGED <<turnVars, budget, empties, first, start, parts, judged, delivered, metrics,
                   kept, tools, calls, overflows, mishaps>>

\* The turn is stopped: neither a row nor a record, but the marker of the manager.
Cancelled ==
    /\ at # "over" /\ Ends(<<>>)
    /\ UNCHANGED <<turnVars, loopVars, rowVars, recordVars, ghostVars>>

\* A tool ends the turn: a last call without tools sums up.
EndTurn ==
    /\ Iterates /\ calls' = calls + 2 /\ budget' = budget - 1 /\ tools' = tools + 1
    /\ history' = history \o <<R("text"), R("tool"), R("text")>> /\ Ends(<<"closing">>)
    /\ UNCHANGED <<turnVars, empties, retries, last, first, start, parts, judged, recordVars,
                   verdicts, overflows, mishaps>>

\* mutant: the note after what the turn has said
WithNoteLast ==
    IF kind = "watched" THEN <<"note">>
    ELSE [i \in 1..parts |-> "preamble"] \o <<"note">>

\* _finalize_with_note: the note is archived; who did not watch is also given what
\* the turn has said, after the note.
WithNote ==
    IF kind = "watched" THEN <<"note">>
    ELSE <<"note">> \o [i \in 1..parts |-> "preamble"]

NoteEnds ==
    /\ Ends(WithNote) /\ history' = Append(history, R("text"))
    /\ UNCHANGED <<turnVars, empties, retries, last, first, start, parts, judged, recordVars,
                   verdicts, overflows, mishaps>>

\* The loop breaker stops a turn after a batch.
LoopBreak ==
    /\ at = "loop" /\ tools > 0 /\ history[Len(history)].kind = "tool"
    /\ NoteEnds /\ UNCHANGED <<budget, tools, calls>>

BudgetGone ==
    /\ at = "loop" /\ budget = 0 /\ at' = "grace" /\ Asked
    /\ UNCHANGED <<turnVars, loopVars, rowVars, delivered, recordVars, verdicts, tools, overflows,
                   mishaps>>

\* The grace turn closes the answer; when it fails or is empty, a note does.
Grace ==
    /\ at = "grace"
    /\ \/ /\ Ends(<<"closing">>) /\ history' = Append(history, R("text"))
          /\ UNCHANGED <<turnVars, empties, retries, last, first, start, parts, judged,
                         recordVars, verdicts, overflows, mishaps>>
       \/ NoteEnds
    /\ UNCHANGED <<budget, tools, calls>>

Next == \/ NewTurn \/ CallTools \/ Overflow \/ RetryEmpty \/ Unjudged \/ Candidate
        \/ Accepted \/ Rejected \/ Cancelled \/ EndTurn \/ LoopBreak \/ BudgetGone \/ Grace

Spec == Init /\ [][Next]_vars

-----------------------------------------------------------------------------

Judged == at = "over" /\ delivered # <<>> /\ delivered[1] \in {"answer", "notice"}
LastVerdict == IF verdicts = <<>> THEN "none" ELSE verdicts[Len(verdicts)]

\* An answer carries the notice exactly when the judge had the last word, and
\* rejected: a turn whose retries are used up does not pass for a good one, and one
\* that passed, or that nobody judged, does not warn.
NoticeIsHonest ==
    Judged => (delivered[Len(delivered)] = "notice" <=> LastVerdict = "fail")

\* The record of a turn says what became of it, as docs/reflection.md puts it: who
\* approved, after how many rejections, or that the retries ran out.  What the code
\* lets through: an answer that is empty after a rejection is recorded as approved
\* ("approved").
RecordIsRight ==
    /\ metrics # "none" =>
         \/ "approved" \in mishaps
         \/ metrics = (CASE LastVerdict = "none" -> "skipped_empty"
                         [] LastVerdict = "fail" -> "loop_exhausted"
                         [] LastVerdict = "error" -> "errored"
                         [] LastVerdict = "pass" /\ Len(verdicts) = 1 -> "passed_first"
                         [] OTHER -> "passed_after_retry")
    /\ Judged /\ kind # "child" /\ verdicts # <<>> => metrics # "none"

\* The judge is told of every tool result of the turn, and of no other as one of it.
\* What the code lets through: a prompt that overflows in the middle of a turn moves
\* the start of the turn behind them ("moved").
JudgeSeesTheTurn ==
    at = "judge" /\ "moved" \notin mishaps => judged.tools = tools /\ turn \notin judged.others

\* Who reads only the result of a turn finds in it that the turn was cut off, first,
\* and all that the turn has said before.
CutTurnsAreTold ==
    at = "over" /\ kind # "watched" /\ (\E i \in DOMAIN delivered : delivered[i] = "note") =>
        delivered[1] = "note" /\ Len(delivered) = 1 + parts

\* What a page has shown of the verdicts is what it shows after a reload.  What the
\* code lets through: no row is kept of a rejection ("unkept").
VerdictsAreKept ==
    Judged /\ kind # "child" /\ "unkept" \notin mishaps => live = kept

\* Retries of every sort do not keep a turn going: an empty response is free once.
CallsAreBounded == calls <= MaxIterations + 2
=============================================================================
