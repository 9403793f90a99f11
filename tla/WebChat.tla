------------------------------ MODULE WebChat ------------------------------
(***************************************************************************)
(* A conversation as the pages of the web client see it                    *)
(* (web/websocket.py): a page takes the archive for the past and the       *)
(* manager's events for what follows.  Streamed text goes to the pages     *)
(* piece by piece; the end of a message replaces it by the whole text,     *)
(* which the socket's handler has collected in a buffer of its own.        *)
(* Events of the event bus are forwarded by tasks, next to the turn.       *)
(***************************************************************************)
EXTENDS Integers, FiniteSets

CONSTANTS
    Pages,      \* web sockets
    MaxRounds,  \* rounds of the turn
    MaxPieces,  \* pieces a round's text is streamed in
    MaxOpens    \* bound on how often pages are opened

VARIABLES
    doing,     \* where the turn is
    round,
    streamed,  \* the pieces of the round so far
    turnText,  \* partial_assistant_chunks: all pieces of the turn
    kept,      \* partial_assistant_archived
    rows,      \* assistant rows of the archive: a round and its pieces
    forwards,  \* rounds whose text_before_tools waits to be forwarded
    stream,    \* pages that are subscribed
    buffer,    \* streaming_buffer of a socket
    clearing,  \* sockets that have sent their buffer and not cleared it
    loading,   \* the history a page is about to be sent
    loaded,    \* pages that have their history
    shows,     \* the messages on a page, with the round each is of
    opens,
    partial,   \* what a page has only the end of
    unsaid     \* pieces that no row will hold

turnVars == <<doing, round, streamed, turnText, kept>>
socketVars == <<stream, buffer, clearing, loading, loaded>>
chatVars == <<turnVars, rows, forwards, socketVars, shows, opens, partial, unsaid>>

Pieces == (1..MaxRounds) \X (1..MaxPieces)
Row == [round : 1..MaxRounds, text : SUBSET Pieces]
NoHistory == {[round |-> 0, text |-> {}]}

TypeOK ==
    /\ doing \in {"idle", "streaming", "tools", "answered", "completing", "done"}
    /\ round \in 0..MaxRounds /\ streamed \subseteq turnText /\ turnText \subseteq Pieces
    /\ kept \in BOOLEAN /\ rows \subseteq Row /\ forwards \subseteq 1..round
    /\ clearing \cup loaded \subseteq stream /\ stream \subseteq Pages
    /\ buffer \in [Pages -> SUBSET turnText] /\ opens \in 0..MaxOpens
    /\ \A p \in Pages :
        /\ shows[p] \subseteq Row
        /\ loading[p] = NoHistory \/ loading[p] \subseteq rows
        /\ p \notin stream => buffer[p] = {}
    /\ partial \subseteq Pages \X (1..MaxRounds) /\ unsaid \subseteq turnText

Init ==
    /\ doing = "idle" /\ round = 0 /\ streamed = {} /\ turnText = {} /\ kept = FALSE
    /\ rows = {} /\ forwards = {} /\ stream = {} /\ buffer = [p \in Pages |-> {}]
    /\ clearing = {} /\ loading = [p \in Pages |-> NoHistory] /\ shows = [p \in Pages |-> {}]
    /\ loaded = {} /\ opens = 0 /\ partial = {} /\ unsaid = {}

-----------------------------------------------------------------------------
(* The turn. *)

StartRound ==
    /\ doing \in {"idle", "tools"} /\ round < MaxRounds
    /\ doing' = "streaming" /\ round' = round + 1 /\ streamed' = {}
    /\ UNCHANGED <<turnText, kept, rows, forwards, socketVars, shows, opens, partial, unsaid>>

\* on_stream_chunk: the turn waits until every page has the piece; the tasks that
\* forward the last round's events were started before, and run before it
Chunk ==
    LET piece == <<round, Cardinality(streamed) + 1>>
    IN /\ doing = "streaming" /\ Cardinality(streamed) < MaxPieces /\ forwards = {}
       /\ streamed' = streamed \cup {piece} /\ turnText' = turnText \cup {piece}
       /\ buffer' = [p \in Pages |-> IF p \in stream THEN buffer[p] \cup {piece} ELSE {}]
       /\ partial' = partial \cup {<<p, round>> : p \in clearing}
    /\ UNCHANGED <<doing, round, kept, rows, forwards, stream, clearing, loading, loaded, shows, opens, unsaid>>

\* _handle_tool_calls: the row is written, then the event is published
TextBeforeTools ==
    /\ doing = "streaming" /\ streamed # {}
    /\ rows' = rows \cup {[round |-> round, text |-> streamed]} /\ kept' = TRUE
    /\ forwards' = forwards \cup {round} /\ doing' = "tools"
    /\ UNCHANGED <<round, streamed, turnText, socketVars, shows, opens, partial, unsaid>>

\* the answer is archived; what follows before the event may take a while
Answer ==
    /\ doing = "streaming" /\ streamed # {}
    /\ rows' = rows \cup {[round |-> round, text |-> streamed]} /\ kept' = TRUE
    /\ doing' = "answered"
    /\ UNCHANGED <<round, streamed, turnText, forwards, socketVars, shows, opens, partial, unsaid>>

\* message_complete goes to the pages with the whole answer
MessageComplete ==
    /\ doing = "answered" /\ doing' = "completing"
    /\ shows' = [p \in Pages |-> IF p \in stream
                 THEN shows[p] \cup {[round |-> round, text |-> streamed]} ELSE shows[p]]
    /\ buffer' = [p \in Pages |-> {}]
    /\ UNCHANGED <<round, streamed, turnText, kept, rows, forwards, stream, clearing, loading, loaded, opens,
                   partial, unsaid>>

\* mutant: the marker is all that is written
MarkerOnly == UNCHANGED rows /\ unsaid' = IF kept THEN streamed ELSE {}

\* _write_cancel_marker_once: the text of the turn so far becomes a row, unless
\* the turn has written one
CancelMarker ==
    /\ rows' = IF turnText = {} \/ kept THEN rows
               ELSE rows \cup {[round |-> round, text |-> turnText]}
    /\ unsaid' = IF kept THEN streamed ELSE {}

\* the turn is stopped; the pages get "[cancelled]" in the place of the text
CancelTurn ==
    /\ doing = "streaming"
    /\ CancelMarker
    /\ kept' = (kept \/ turnText # {}) /\ doing' = "completing"
    /\ buffer' = [p \in Pages |-> {}]
    /\ partial' = partial \cup (Pages \X {round})
    /\ UNCHANGED <<round, streamed, turnText, forwards, stream, clearing, loading, loaded, shows, opens>>

\* the finally clause waits for the forwards; turn_complete empties the buffers
TurnComplete ==
    /\ doing = "completing" /\ forwards = {} /\ clearing = {}
    /\ doing' = "done" /\ buffer' = [p \in Pages |-> {}]
    /\ UNCHANGED <<round, streamed, turnText, kept, rows, forwards, stream, clearing, loading, loaded, shows,
                   opens, partial, unsaid>>

-----------------------------------------------------------------------------
(* The forwarded events. *)

\* a socket that has collected text sends it, one that has none sends the event's
Sends(p, full) ==
    [round |-> full.round, text |-> IF buffer[p] = {} THEN full.text ELSE buffer[p]]

\* text_before_tools reaches the pages; the buffer is cleared once it is sent
Forward(r) ==
    LET full == CHOOSE row \in rows : row.round = r
    IN /\ r \in forwards /\ forwards' = forwards \ {r} /\ clearing = {}
       /\ shows' = [p \in Pages |-> IF p \in stream THEN shows[p] \cup {Sends(p, full)} ELSE shows[p]]
       /\ partial' = partial \cup {<<p, r>> : p \in {q \in stream : ~(full.text \subseteq Sends(q, full).text)}}
       /\ clearing' = {p \in stream : buffer[p] # {}}
    /\ UNCHANGED <<turnVars, rows, stream, buffer, loading, loaded, opens, unsaid>>

Cleared(p) ==
    /\ p \in clearing /\ clearing' = clearing \ {p}
    /\ buffer' = [buffer EXCEPT ![p] = {}]
    /\ UNCHANGED <<turnVars, rows, forwards, stream, loading, loaded, shows, opens, partial, unsaid>>

-----------------------------------------------------------------------------
(* The pages. *)

\* select_conv answers, and then subscribes
Select(p) ==
    /\ opens < MaxOpens /\ p \notin stream /\ opens' = opens + 1
    /\ stream' = stream \cup {p} /\ shows' = [shows EXCEPT ![p] = {}]
    /\ UNCHANGED <<turnVars, rows, forwards, buffer, clearing, loading, loaded, partial, unsaid>>

\* mutant: the socket subscribes when the history is sent
LoadUnsubscribed(p) == loading' = [loading EXCEPT ![p] = rows] /\ UNCHANGED stream

\* load_history reads the archive and subscribes before it waits
LoadHistory(p) ==
    /\ loading' = [loading EXCEPT ![p] = rows]
    /\ stream' = stream \cup {p}

Load(p) ==
    /\ loading[p] = NoHistory
    /\ p \in stream \/ opens < MaxOpens
    /\ opens' = IF p \in stream THEN opens ELSE opens + 1
    /\ shows' = IF p \in stream THEN shows ELSE [shows EXCEPT ![p] = {}]
    /\ partial' = IF p \in stream THEN partial ELSE partial \ ({p} \X (1..MaxRounds))
    /\ LoadHistory(p)
    /\ UNCHANGED <<turnVars, rows, forwards, buffer, clearing, loaded, unsaid>>

\* the page puts the history before what it has
HistorySent(p) ==
    /\ loading[p] # NoHistory
    /\ shows' = [shows EXCEPT ![p] = @ \cup loading[p]]
    /\ loading' = [loading EXCEPT ![p] = NoHistory] /\ stream' = stream \cup {p}
    /\ loaded' = loaded \cup {p}
    /\ UNCHANGED <<turnVars, rows, forwards, buffer, clearing, opens, partial, unsaid>>

\* the socket closes, and its handler unsubscribes
Disconnect(p) ==
    /\ p \in stream /\ stream' = stream \ {p} /\ loaded' = loaded \ {p}
    /\ buffer' = [buffer EXCEPT ![p] = {}] /\ clearing' = clearing \ {p}
    /\ loading' = [loading EXCEPT ![p] = NoHistory] /\ shows' = [shows EXCEPT ![p] = {}]
    /\ partial' = partial \ ({p} \X (1..MaxRounds))
    /\ UNCHANGED <<turnVars, rows, forwards, opens, unsaid>>

Next ==
    \/ StartRound \/ Chunk \/ TextBeforeTools \/ Answer \/ MessageComplete \/ CancelTurn
    \/ TurnComplete
    \/ \E r \in forwards : Forward(r)
    \/ \E p \in Pages : Cleared(p) \/ Select(p) \/ Load(p) \/ HistorySent(p) \/ Disconnect(p)

Spec == Init /\ [][Next]_chatVars

-----------------------------------------------------------------------------
(* Properties. *)

\* Once a turn is over, a page that has loaded its history shows every message
\* of the archive: none falls between the history and the events.  It shows the
\* whole of it, unless the page came while the round was being streamed, a piece
\* came before the buffer was cleared, or the turn was cancelled.
PagesShowTheArchive ==
    doing = "done" => \A p \in loaded, row \in rows :
        row \in shows[p] \/ <<p, row.round>> \in partial

\* What was streamed to the pages is in the archive when the turn is over,
\* unless it was cut short after a row of the same turn.
StreamedIsKept ==
    doing = "done" => turnText \ unsaid \subseteq UNION {row.text : row \in rows}
=============================================================================
