------------------------------ MODULE Composer ------------------------------
(***************************************************************************)
(* context_composer.py under the turns of one conversation: what a turn    *)
(* puts before the user's message (pages and files the message refers to,  *)
(* the scratchpad's notes, pages found by retrieval), what of it goes to   *)
(* the archive and what into the history in memory, and the cursors that   *)
(* keep an item from being put there again.                                *)
(*                                                                         *)
(* A composition suspends while the skills are rediscovered, while rows    *)
(* are published and resources read, and while the retrieval embeds the    *)
(* message.  A turn that overflows compacts and composes again.            *)
(***************************************************************************)
EXTENDS Integers, Sequences, FiniteSets, SequencesExt

CONSTANTS
    Pages,        \* vault pages a message refers to
    Files,        \* workspace files and MCP resources a message refers to
    Finds,        \* pages the retrieval finds
    RefSets,      \* what a message may refer to: sets of those pages and files
    NoteLimit,    \* notes.context_max_entries
    Preserve,     \* compaction.preserve_turns
    MaxNotes, MaxTime, MaxTurns, MaxOverflows, MaxDeaths   \* bounds

VARIABLES
    notes,     \* the notes file: the second each note was written in
    now,       \* the clock, in seconds
    catalog,   \* config.system_prompt changed under the conversation
    phase,     \* the await the turn is suspended at
    want,      \* what the message refers to
    cursor,    \* ctx.composer.injection_cursors: notes_ts and notes_boundary
    before,    \* cursors_before of the composition under way
    saved,     \* the cursors in PersistedTurnState
    draft,     \* rows composed so far
    injected,  \* injected_paths
    baseline,  \* baseline_system_context: none, or whether it has the change
    history,   \* the rows in memory
    archive,   \* the rows on disk
    compacted, \* the sidecar: its rows, the length of the archive then, and the turn
    prompt,    \* the rows of the last composition
    noted,     \* the notes there were at that time
    turns, overflows, deaths,
    unsaved    \* a turn compacted and ended without saving its cursors

composing == <<want, before, draft, injected, baseline>>
disk == <<archive, compacted>>
counters == <<turns, overflows, deaths>>
composerVars == <<notes, now, catalog, phase, want, cursor, before, saved, draft, injected,
                  baseline, history, archive, compacted, prompt, noted, turns, overflows, deaths, unsaved>>

Cursors == [ts : 0..MaxTime, boundary : SUBSET (1..MaxNotes)]
NoCursor == [ts |-> 0, boundary |-> {}]
Rows == [kind : {"page", "file", "notes", "found", "update", "user", "answer", "summary"},
         of : SUBSET (Pages \cup Files \cup Finds \cup 1..MaxNotes)]
Row(kind, of) == [kind |-> kind, of |-> of]
\* what the rows of a kind carry
In(rows, kind) == UNION {rows[i].of : i \in {j \in DOMAIN rows : rows[j].kind = kind}}

TypeOK ==
    /\ notes \in Seq(1..MaxTime) /\ now \in 1..MaxTime
    /\ phase \in {"idle", "refresh", "mentions", "retrieve", "announce", "call"}
    /\ want \subseteq Pages \cup Files
    /\ {cursor, before, saved} \subseteq Cursors
    /\ \A rows \in {draft, history, archive, compacted.rows, prompt} : rows \in Seq(Rows)
    /\ injected \subseteq Finds
    /\ baseline \in {"none", "old", "new"}
    /\ noted \in 0..MaxNotes
    /\ unsaved \in BOOLEAN

Init ==
    /\ notes = <<>> /\ now = 1 /\ catalog = FALSE
    /\ phase = "idle" /\ want = {}
    /\ cursor = NoCursor /\ before = NoCursor /\ saved = NoCursor
    /\ draft = <<>> /\ injected = {} /\ baseline = "none"
    /\ history = <<>> /\ archive = <<>> /\ compacted = [rows |-> <<>>, upTo |-> 0, turn |-> 0]
    /\ prompt = <<>> /\ noted = 0
    /\ turns = 0 /\ overflows = 0 /\ deaths = 0 /\ unsaved = FALSE

-----------------------------------------------------------------------------
(* The pieces of a composition *)

\* read_notes: the most recent ones that fit
Recent(n) == {i \in 1..n : i > n - NoteLimit}

\* mutant: an item of the second of the mark counts as seen
UnseenLater(c) ==
    LET unseen == {i \in Recent(Len(notes)) : notes[i] > c.ts}
        newest == CHOOSE i \in unseen : \A j \in unseen : j <= i
        ts == IF unseen = {} THEN c.ts ELSE notes[newest]
    IN  [items |-> unseen,
         cursor |-> [ts |-> ts,
                     boundary |-> {i \in unseen : notes[i] = ts}
                                  \cup IF ts = c.ts THEN c.boundary ELSE {}]]

\* _select_unseen: newer than the mark, or of its second and not in its boundary
Unseen(c) ==
    LET unseen == {i \in Recent(Len(notes)) :
                      notes[i] > c.ts \/ (notes[i] = c.ts /\ i \notin c.boundary)}
        newest == CHOOSE i \in unseen : \A j \in unseen : j <= i
        ts == IF unseen = {} THEN c.ts ELSE notes[newest]
    IN  [items |-> unseen,
         cursor |-> [ts |-> ts,
                     boundary |-> {i \in unseen : notes[i] = ts}
                                  \cup IF ts = c.ts THEN c.boundary ELSE {}]]

\* one row per reference, unless the history in memory has it
References(kind, refs) ==
    SetToSeq({Row(kind, {r}) : r \in (want \cap refs) \ In(history, kind)})

PageRows == References("page", Pages)
FileRows == References("file", Files)
NoteRows(items) == IF items = {} THEN <<>> ELSE <<Row("notes", items)>>
FoundRows(fresh) == IF fresh = {} THEN <<>> ELSE <<Row("found", fresh)>>

\* what _compose_vault_retrieval leaves of what was found
Fresh(found) == found \ (In(history, "found") \cup injected)

\* the rows that are archived, and not put into the history in memory
ArchiveOnly == {"file", "update"}
InMemory(rows) == SelectSeq(rows, LAMBDA r : r.kind \notin ArchiveOnly)

-----------------------------------------------------------------------------
(* The system messages ahead of the rows, which update_iteration_tools keeps  *)
(* up to date before each call of the model                                  *)

IndexOf(m, kind) ==
    IF \E i \in 1..Len(m) : m[i] = kind THEN CHOOSE i \in 1..Len(m) : m[i] = kind ELSE 0
\* where the first of the two messages goes: after the prompt and the guide
BaseTarget(m) == IF Len(m) > 1 /\ m[2] = "guide" THEN 3 ELSE 2

SyncDeferred(m, wanted) ==
    LET d == IndexOf(m, "deferred")
        g == IndexOf(m, "guidance")
    IN  IF wanted
        THEN IF d # 0 THEN m ELSE InsertAt(m, IF g # 0 THEN g ELSE BaseTarget(m), "deferred")
        ELSE IF d # 0 THEN RemoveAt(m, d) ELSE m

SyncGuidance(m, base, wanted) ==
    LET d == IndexOf(m, "deferred")
        g == IndexOf(m, "guidance")
    IN  IF wanted
        THEN IF g # 0 THEN m ELSE InsertAt(m, IF d # 0 THEN d + 1 ELSE base, "guidance")
        ELSE IF g # 0 THEN RemoveAt(m, g) ELSE m

\* sync_tool_messages: the target is computed before either is touched
SyncToolMessages(m, deferred, guided) ==
    SyncGuidance(SyncDeferred(m, deferred), BaseTarget(m), guided)

\* the system messages of a composition
Layout(guide, deferred, guided) ==
    <<"prompt">> \o (IF guide THEN <<"guide">> ELSE <<>>)
    \o (IF deferred THEN <<"deferred">> ELSE <<>>)
    \o (IF guided THEN <<"guidance">> ELSE <<>>)

-----------------------------------------------------------------------------
(* Turns *)

\* fork of a context: a new ComposerState, with the saved cursors
StartTurn ==
    /\ phase = "idle" /\ turns < MaxTurns
    /\ turns' = turns + 1
    /\ want' \in RefSets
    /\ cursor' = saved /\ before' = saved
    /\ injected' = {} /\ baseline' = "none" /\ draft' = <<>>
    /\ phase' = "refresh"
    /\ UNCHANGED <<notes, now, catalog, saved, history, disk, prompt, noted,
                   overflows, deaths, unsaved>>

\* rediscover_skills ran in a thread; the change of the system prompt is noted,
\* and the pages the message refers to are read
Refreshed ==
    /\ phase = "refresh"
    /\ baseline' = IF catalog THEN "new" ELSE "old"
    /\ draft' = (IF baseline = "old" /\ catalog THEN <<Row("update", {})>> ELSE <<>>)
                \o PageRows
    /\ phase' = "mentions"
    /\ UNCHANGED <<notes, now, catalog, want, cursor, before, saved, injected, history, disk,
                   prompt, noted, counters, unsaved>>

\* the files and resources are read, and the unseen notes after them
Mentions ==
    /\ phase = "mentions"
    /\ LET unseen == Unseen(cursor)
       IN  /\ draft' = draft \o FileRows \o NoteRows(unseen.items)
           /\ cursor' = unseen.cursor
    /\ noted' = Len(notes)
    /\ phase' = "retrieve"
    /\ UNCHANGED <<notes, now, catalog, want, before, saved, injected, baseline, history,
                   disk, prompt, counters, unsaved>>

\* the retrieval finds pages, or fails, and the result is published
Retrieve ==
    /\ phase = "retrieve"
    /\ \E found \in SUBSET Finds :
         LET fresh == Fresh(found)
         IN  /\ draft' = draft \o FoundRows(fresh)
             /\ injected' = injected \cup fresh
    /\ phase' = "announce"
    /\ UNCHANGED <<notes, now, catalog, want, cursor, before, saved, baseline, history, disk,
                   prompt, noted, counters, unsaved>>

\* mutant: the pages referred to are left out of the history too
ComposedArchiveOnly ==
    /\ phase = "announce"
    /\ LET rows == Append(draft, Row("user", want))
       IN  /\ prompt' = history \o rows
           /\ history' = history \o SelectSeq(rows, LAMBDA r : r.kind = "user")
           /\ archive' = archive \o rows
    /\ phase' = "call"
    /\ UNCHANGED <<notes, now, catalog, composing, cursor, saved, compacted, noted, counters,
                   unsaved>>

\* the end of compose(), and the agent archives what it is given
Composed ==
    /\ phase = "announce"
    /\ LET rows == Append(draft, Row("user", want))
       IN  /\ prompt' = history \o rows
           /\ history' = history \o InMemory(rows)
           /\ archive' = archive \o rows
    /\ phase' = "call"
    /\ UNCHANGED <<notes, now, catalog, composing, cursor, saved, compacted, noted, counters,
                   unsaved>>

-----------------------------------------------------------------------------
(* The loop *)

\* the notes tool, and the clock
AddNote ==
    /\ phase = "call" /\ Len(notes) < MaxNotes
    /\ now' \in now..MaxTime
    /\ notes' = Append(notes, now')
    /\ UNCHANGED <<catalog, phase, composing, cursor, saved, history, disk, prompt, noted, counters, unsaved>>

\* a skill is installed, or another conversation refreshes the catalog
ChangeCatalog ==
    /\ ~catalog /\ catalog' = TRUE
    /\ UNCHANGED <<notes, now, phase, composing, cursor, saved, history, disk, prompt, noted, counters, unsaved>>

Users(rows) == Cardinality({i \in DOMAIN rows : rows[i].kind = "user"})

\* _split_into_turns: the rows ahead of a user message belong to the turn before
RecentRows(rows) ==
    LET users == {i \in DOMAIN rows : rows[i].kind = "user"}
        first == CHOOSE i \in users : Cardinality({j \in users : j >= i}) = Preserve
    IN  IF Cardinality(users) < Preserve THEN rows ELSE SubSeq(rows, first, Len(rows))

\* mutant: the marks survive the compaction
ResetNothing == cursor
\* reset_for_compaction, of the cursors
Reset == NoCursor

\* compact_history rebuilds the history from the archive
Compact(disk1) ==
    LET rows == <<Row("summary", {})>> \o RecentRows(disk1)
    IN  /\ overflows < MaxOverflows /\ Users(disk1) > Preserve
        /\ overflows' = overflows + 1
        /\ history' = rows
        /\ compacted' = [rows |-> rows, upTo |-> Len(disk1), turn |-> turns]

\* the context was too long: compacted or not, the turn composes again
Overflow ==
    /\ phase = "call" /\ draft' = <<>> /\ phase' = "refresh"
    /\ \/ Compact(archive) /\ injected' = {} /\ cursor' = Reset /\ before' = Reset
       \/ /\ overflows < MaxOverflows /\ overflows' = overflows + 1
          /\ before' = cursor
          /\ UNCHANGED <<history, compacted, injected, cursor>>
    /\ UNCHANGED <<notes, now, catalog, want, saved, baseline, archive, prompt, noted,
                   turns, deaths, unsaved>>

\* the context of the turn goes
TurnEnds ==
    /\ phase' = "idle"
    /\ want' = {} /\ draft' = <<>> /\ injected' = {} /\ baseline' = "none"
    /\ cursor' = NoCursor /\ before' = NoCursor
    /\ prompt' = <<>> /\ noted' = 0

\* the answer, perhaps a compaction after it, and _save_conversation_state
Answer ==
    /\ phase = "call"
    /\ archive' = Append(archive, Row("answer", {}))
    /\ \/ /\ history' = Append(history, Row("answer", {})) /\ saved' = cursor
          /\ UNCHANGED <<compacted, overflows>>
       \/ Compact(archive') /\ saved' = Reset
    /\ TurnEnds
    /\ UNCHANGED <<notes, now, catalog, turns, deaths, unsaved>>

\* mutant: a composition that is cut short keeps what it advanced
CutKeepsMarks ==
    /\ phase # "idle"
    /\ saved' = cursor
    /\ TurnEnds
    /\ UNCHANGED <<notes, now, catalog, history, disk, counters, unsaved>>

\* the turn is cancelled, or fails: compose() takes its marks back
Cut ==
    /\ phase # "idle"
    /\ saved' = IF phase = "call" THEN cursor ELSE before
    /\ TurnEnds
    /\ UNCHANGED <<notes, now, catalog, history, disk, counters, unsaved>>

\* a CancelledError in the finally block of the turn: nothing is saved
CutTwice ==
    /\ phase # "idle" /\ TurnEnds
    /\ unsaved' = (unsaved \/ compacted.turn = turns)
    /\ UNCHANGED <<notes, now, catalog, saved, history, disk, counters>>

\* restore_history: the sidecar and what is newer, or the archive; the marks are gone
Restart ==
    /\ deaths < MaxDeaths /\ deaths' = deaths + 1
    /\ saved' = NoCursor /\ unsaved' = FALSE
    /\ history' = compacted.rows \o SubSeq(archive, compacted.upTo + 1, Len(archive))
    /\ TurnEnds
    /\ UNCHANGED <<notes, now, catalog, disk, turns, overflows>>

Next ==
    \/ StartTurn \/ Refreshed \/ Mentions \/ Retrieve \/ Composed \/ AddNote
    \/ ChangeCatalog \/ Overflow \/ Answer \/ Cut \/ CutTwice \/ Restart

Spec == Init /\ [][Next]_composerVars

-----------------------------------------------------------------------------
(* Properties *)

\* Each of the recent notes is in the prompt: put there now, or by an earlier
\* turn and still in the history.  A composition that was cut short, a
\* compaction and a restart each take the row away, and must take the mark with
\* it.  The exception is a turn that compacted and never saved its marks.
NotesReachThePrompt ==
    phase = "call" /\ ~unsaved => Recent(noted) \subseteq In(prompt, "notes")

\* So is what the message refers to.
ReferencesAreThere ==
    phase = "call" => want \subseteq In(prompt, "page") \cup In(prompt, "file")

\* A page that was referred to or found is in the history once, whoever put it
\* there: this composition, an earlier turn, or an earlier process.
OncePerPage ==
    \A i, j \in DOMAIN history :
        i < j /\ history[i].kind = history[j].kind /\ history[i].kind \in {"page", "found"} =>
            history[i].of \cap history[j].of = {}

\* The list of deferred tools and the guidance come and go with the tools of an
\* iteration, and stay in their order between the system prompt and the history.
LayoutHolds ==
    \A guide, d1, g1, d2, g2 \in BOOLEAN :
        SyncToolMessages(Layout(guide, d1, g1) \o <<"user">>, d2, g2) =
            Layout(guide, d2, g2) \o <<"user">>
=============================================================================
