------------------------------- MODULE Canvas -------------------------------
(***************************************************************************)
(* The canvas of one conversation (canvas.py) and the shells behind its    *)
(* terminal tabs (terminals.py).  canvas.json is read, changed and written *)
(* without a suspension, except by clear_canvas, which reads it, kills the *)
(* shells of its tabs with a second's grace each, and then writes.  A tab  *)
(* that is closed kills its shell first, a /terminal command opens its tab *)
(* first; shells also end by themselves.                                   *)
(***************************************************************************)
EXTENDS Integers, Sequences, FiniteSets, SequencesExt

CONSTANTS
    Calls,       \* calls of the tools, the HTTP routes and /terminal
    NoCall,      \* no such call
    MaxSessions, \* max_sessions_per_conv
    MaxRestarts  \* bound on restarts

VARIABLES
    tabs, active, nextId,  \* canvas.json; a tab is its number and its maker
    sessions,  \* _sessions: tab number -> the call whose shell it is
    shell,     \* the shell of a call
    step,      \* where a call is suspended
    mine,      \* the number of the tab it opened, or is closing
    queue,     \* clear_canvas: tabs it has still to look at
    victim,    \* the call whose shell it is killing
    saved,     \* clear_canvas: next_tab_id as it was read
    given,     \* <<number, call>>: every tab there has been
    rewound,   \* a clear wrote a counter that was out of date
    orphans,   \* shells whose tab went before, or unseen while, they were registered
    restarts

canvasVars == <<tabs, active, nextId, sessions, shell, step, mine, queue, victim,
                saved, given, rewound, orphans, restarts>>
file == <<tabs, active, nextId, given>>
bounds == <<rewound, restarts>>

Ids == 1..Cardinality(Calls)
Tab(id, c, kind) == [id |-> id, by |-> c, kind |-> kind]

TypeOK ==
    /\ tabs \in Seq([id : Ids, by : Calls, kind : {"page", "terminal"}])
    /\ IF tabs = <<>> THEN active = 0 ELSE \E i \in DOMAIN tabs : tabs[i].id = active
    /\ nextId \in 1..Cardinality(Calls) + 1
    /\ sessions \in [Ids -> Calls \cup {NoCall}]
    /\ shell \in [Calls -> {"none", "alive", "dead", "gone"}]
    /\ step \in [Calls -> {"idle", "opening", "closing", "clearing", "done"}]
    /\ mine \in [Calls -> Ids \cup {0}] /\ queue \in [Calls -> Seq(Ids)]
    /\ victim \in [Calls -> Calls \cup {NoCall}]
    /\ saved \in [Calls -> Nat] /\ given \subseteq Ids \X Calls
    /\ rewound \in BOOLEAN /\ orphans \subseteq Calls /\ restarts \in 0..MaxRestarts

Init ==
    /\ tabs = <<>> /\ active = 0 /\ nextId = 1
    /\ sessions = [i \in Ids |-> NoCall] /\ shell = [c \in Calls |-> "none"]
    /\ step = [c \in Calls |-> "idle"] /\ mine = [c \in Calls |-> 0]
    /\ queue = [c \in Calls |-> <<>>] /\ victim = [c \in Calls |-> NoCall]
    /\ saved = [c \in Calls |-> 0] /\ given = {}
    /\ rewound = FALSE /\ orphans = {} /\ restarts = 0

Goes(c, from, to) == step[c] = from /\ step' = [step EXCEPT ![c] = to]
Alive == {c \in Calls : shell[c] = "alive"}

-----------------------------------------------------------------------------
(* Opening *)

\* new_tab up to its emit
AddTab(c, kind) ==
    /\ tabs' = Append(tabs, Tab(nextId, c, kind))
    /\ active' = nextId /\ nextId' = nextId + 1
    /\ given' = given \cup {<<nextId, c>>}
    /\ mine' = [mine EXCEPT ![c] = nextId]

NewTab(c) ==
    /\ Goes(c, "idle", "done") /\ AddTab(c, "page")
    /\ UNCHANGED <<sessions, shell, queue, victim, saved, orphans, bounds>>

\* /terminal: the sessions are counted before the tab is opened and announced
TerminalTab(c) ==
    /\ Cardinality({i \in Ids : sessions[i] # NoCall}) < MaxSessions
    /\ Goes(c, "idle", "opening") /\ AddTab(c, "terminal")
    /\ UNCHANGED <<sessions, shell, queue, victim, saved, orphans, bounds>>

HasTab(c) == \E i \in DOMAIN tabs : tabs[i].id = mine[c] /\ tabs[i].by = c

\* spawn, whether the tab is still there or not
Spawn(c) ==
    /\ Goes(c, "opening", "done")
    /\ shell' = [shell EXCEPT ![c] = "alive"]
    /\ sessions' = [sessions EXCEPT ![mine[c]] = c]
    /\ orphans' = IF HasTab(c) THEN orphans ELSE orphans \cup {c}
    /\ UNCHANGED <<file, mine, queue, victim, saved, bounds>>

-----------------------------------------------------------------------------
(* Closing *)

\* mutant: the tab that was active stays so when it is closed
DropTabStaysActive(id) ==
    /\ tabs' = SelectSeq(tabs, LAMBDA t : t.id # id)
    /\ active' = active

\* the neighbour to the left, else to the right, of the active tab
DropTab(id) ==
    LET at == {i \in DOMAIN tabs : tabs[i].id = id}
        i == CHOOSE j \in at : \A k \in at : j <= k
        rest == RemoveAt(tabs, i)
    IN  IF at = {} THEN UNCHANGED <<tabs, active>>
        ELSE /\ tabs' = rest
             /\ active' = IF active # id THEN active
                          ELSE IF rest = <<>> THEN 0
                          ELSE rest[IF i > 1 THEN i - 1 ELSE 1].id

SpawnFails(c) ==
    /\ Goes(c, "opening", "done") /\ DropTab(mine[c])
    /\ UNCHANGED <<nextId, given, sessions, shell, mine, queue, victim, saved, orphans, bounds>>

\* mutant: the tab goes, its shell stays
CloseTabOnly(c) ==
    \E i \in DOMAIN tabs :
        /\ Goes(c, "idle", "done") /\ DropTab(tabs[i].id)
        /\ UNCHANGED <<mine, victim, nextId, given, sessions, shell, queue, saved, orphans, bounds>>

\* close_tab: a terminal with a session is hung up first, another tab goes at once
CloseTab(c) ==
    \E i \in DOMAIN tabs : LET t == tabs[i] IN
        /\ IF t.kind = "terminal" /\ sessions[t.id] # NoCall
           THEN /\ Goes(c, "idle", "closing")
                /\ mine' = [mine EXCEPT ![c] = t.id]
                /\ victim' = [victim EXCEPT ![c] = sessions[t.id]]
                /\ UNCHANGED <<tabs, active>>
           ELSE Goes(c, "idle", "done") /\ DropTab(t.id) /\ UNCHANGED <<mine, victim>>
        /\ UNCHANGED <<nextId, given, sessions, shell, queue, saved, orphans, bounds>>

Killed(s) == IF shell[s] = "alive" THEN [shell EXCEPT ![s] = "dead"] ELSE shell

\* the grace is over: SIGKILL, and the file is read again
Closed(c) ==
    /\ Goes(c, "closing", "done") /\ DropTab(mine[c])
    /\ shell' = Killed(victim[c])
    /\ UNCHANGED <<nextId, given, sessions, mine, queue, victim, saved, orphans, bounds>>

-----------------------------------------------------------------------------
(* clear_canvas *)

\* the first shell among those tabs to kill; none: the file is written
ToKill(ids) == SelectInSeq(ids, LAMBDA id : sessions[id] # NoCall)
Terminals(s) == SelectSeq(s, LAMBDA t : t.kind = "terminal")
IdsOf(s) == [i \in DOMAIN s |-> s[i].id]

\* mutant: the counter starts again
EmptyFileAnew(c, counter) ==
    /\ tabs' = <<>> /\ active' = 0 /\ nextId' = 1
    /\ rewound' = (rewound \/ counter < nextId)
    /\ orphans' = orphans \cup {s \in Alive \ {victim[c]} : HasTab(s)}
    /\ step' = [step EXCEPT ![c] = "done"]
    /\ UNCHANGED <<queue, victim>>

\* empty_canvas_state with the counter that was read
EmptyFile(c, counter) ==
    /\ tabs' = <<>> /\ active' = 0 /\ nextId' = counter
    /\ rewound' = (rewound \/ counter < nextId)
    /\ orphans' = orphans \cup {s \in Alive \ {victim[c]} : HasTab(s)}
    /\ step' = [step EXCEPT ![c] = "done"]
    /\ UNCHANGED <<queue, victim>>

KillNext(c, ids, counter) ==
    IF ToKill(ids) = 0 THEN EmptyFile(c, counter)
    ELSE /\ victim' = [victim EXCEPT ![c] = sessions[ids[ToKill(ids)]]]
         /\ queue' = [queue EXCEPT ![c] = SubSeq(ids, ToKill(ids) + 1, Len(ids))]
         /\ step' = [step EXCEPT ![c] = "clearing"]
         /\ UNCHANGED <<tabs, active, nextId, rewound, orphans>>

Clear(c) ==
    /\ step[c] = "idle" /\ tabs # <<>>
    /\ saved' = [saved EXCEPT ![c] = nextId]
    /\ KillNext(c, IdsOf(Terminals(tabs)), nextId)
    /\ UNCHANGED <<given, sessions, shell, mine, restarts>>

Cleared(c) ==
    /\ step[c] = "clearing"
    /\ shell' = Killed(victim[c])
    /\ KillNext(c, queue[c], saved[c])
    /\ UNCHANGED <<given, sessions, mine, saved, restarts>>

-----------------------------------------------------------------------------
(* The shells *)

\* the user leaves it, or the hangup ends it
ShellExits(c) ==
    /\ shell[c] = "alive" /\ shell' = [shell EXCEPT ![c] = "dead"]
    /\ UNCHANGED <<file, sessions, step, mine, queue, victim, saved, orphans, bounds>>

\* _on_eof, to its end: whatever session has the key of the tab is forgotten
Eof(c) ==
    /\ shell[c] = "dead" /\ shell' = [shell EXCEPT ![c] = "gone"]
    /\ sessions' = [sessions EXCEPT ![mine[c]] = NoCall]
    /\ UNCHANGED <<file, step, mine, queue, victim, saved, orphans, bounds>>

\* the registry and the shells are gone, the file is not
Restart ==
    /\ restarts < MaxRestarts /\ restarts' = restarts + 1
    /\ sessions' = [i \in Ids |-> NoCall]
    /\ shell' = [c \in Calls |-> IF shell[c] = "none" THEN "none" ELSE "gone"]
    /\ step' = [c \in Calls |-> IF step[c] = "idle" THEN "idle" ELSE "done"]
    /\ UNCHANGED <<file, mine, queue, victim, saved, orphans, rewound>>

Next ==
    \/ Restart
    \/ \E c \in Calls :
         \/ NewTab(c) \/ TerminalTab(c) \/ Spawn(c) \/ SpawnFails(c)
         \/ CloseTab(c) \/ Closed(c) \/ Clear(c) \/ Cleared(c)
         \/ ShellExits(c) \/ Eof(c)

Spec == Init /\ [][Next]_canvasVars

-----------------------------------------------------------------------------
(* Properties *)

\* canvas.py: "closed-then-recreated tab IDs never rebind", so that the URL of a
\* tab never shows another one, over closes, clears and restarts.  The exception
\* is a clear that waited for a shell while a tab was opened: it writes the
\* counter it had read.
TabIdsNeverRebind ==
    \A p, q \in given : p[1] = q[1] /\ p # q => rewound

\* A live shell is reachable: it has its session and its tab, or is about to be
\* killed.  Nobody could end another one before the server does.  The exceptions
\* are a shell registered when its tab was closed already or a clear had passed
\* it by, and what becomes of the tabs after a clear with an old counter.
ShellsAreReachable ==
    ~rewound => \A s \in Alive \ orphans :
        \/ sessions[mine[s]] = s /\ HasTab(s)
        \/ \E c \in Calls : step[c] \in {"closing", "clearing"} /\ victim[c] = s
=============================================================================
