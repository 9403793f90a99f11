------------------------------ MODULE MCStores --------------------------------
(***************************************************************************)
(* The stores of decafclaw, for TLC.  The modules share no state: a        *)
(* behaviour exercises one of them (focus) and leaves the others as they   *)
(* were at the start.                                                      *)
(***************************************************************************)
EXTENDS Integers, Sequences, FiniteSets, TLC

CONSTANTS
    Admins, Movers, NoTool, Workers, MaxToolCalls, MaxToolCancels,      \* FileLocks
    Calls, NoCall, MaxSessions, MaxRestarts,                            \* Canvas
    Pages, Gated, NoPage, Ops, MaxTexts, MaxTime, MaxFails,             \* Vault
    Preserve, Skews, MaxRows, MaxReloads,                               \* Compaction
    Mentioned, Files, Finds, RefSets, NoteLimit, MaxNotes,             \* Composer
    MaxTurns, MaxOverflows, MaxDeaths,
    Paths, NoPath, MaxVersions, MaxWrites, MaxRequests, MaxNetFails,    \* FileEditor
    Wikis, MaxEdits, MaxAgentWrites, MaxCalls, MaxTicks, MaxErrors,     \* WikiWriter
    MaxVisits,
    Threads                                                             \* ConversationIndex

VARIABLES
    focus,
    tool, fifo, running, registry, refs, locked, phase, mine, entry, file, base, seen,
    overwrote, strays, thrown,
    tabs, active, nextId, sessions, shell, step, tabOf, queue, victim, saved, given,
    rewound, orphans, restarts,
    text, mtime, texts, now, index, does, at, page, target, saw, todo, later, tab, lost,
    excused, failed, overlapped,
    archive, sidecar, history, summing, reloads,
    notes, clock, catalog, stage, want, cursor, before, marks, draft, injected, baseline,
    memory, rows, compacted, prompt, noted, turns, overflows, deaths, unsaved,
    workspace, writes, versions, pane, pad, wire, requests, typed, astray, netFails, unseen,
    dropped,
    pageFile, ticks, view, mutex, pended, calls, edits, agentWrites, errors, visits, due,
    wrongs, unshown,
    listed, made, folders, assigned, archives, kids, busy, userTurns, deleting, titlers,
    attempted, latest, sidebar, asked, changes, retitles, moves, strayed,
    second, inbox, shelved, readLog, noticed, tasks, dayPage, told, line, bellWire,
    fetches, posts, bell, read, missed, posted, looks, breaks, mishaps,
    conf, halfWritten, sig, polling, daemon, liveConfig, materialized, found, supply,
    refreshes, picker, panel, asks, answers, applied, authored, flags, untold,
    confEdits, toggles, supplies, started, reboots, faults, stumbles

lockVars == <<tool, fifo, running, registry, refs, locked, phase, mine, entry, file, base,
              seen, overwrote, strays, thrown>>
canvasVars == <<tabs, active, nextId, sessions, shell, step, tabOf, queue, victim, saved,
                given, rewound, orphans, restarts>>
vaultVars == <<text, mtime, texts, now, index, does, at, page, target, saw, todo, later,
               tab, lost, excused, failed, overlapped>>
memoryVars == <<archive, sidecar, history, summing, reloads>>
promptVars == <<notes, clock, catalog, stage, want, cursor, before, marks, draft, injected,
                baseline, memory, rows, compacted, prompt, noted, turns, overflows, deaths,
                unsaved>>
editorVars == <<workspace, writes, versions, pane, pad, wire, requests, typed, astray,
                netFails, unseen, dropped>>
wikiVars == <<pageFile, ticks, view, mutex, pended, calls, edits, agentWrites, errors,
              visits, due, wrongs, unshown>>
threadVars == <<listed, made, folders, assigned, archives, kids, busy, userTurns, deleting,
                titlers, attempted, latest, sidebar, asked, changes, retitles, moves,
                strayed>>
noticeVars == <<second, inbox, shelved, readLog, noticed, tasks, dayPage, told, line,
                bellWire, fetches, posts, bell, read, missed, posted, looks, breaks,
                mishaps>>
modelVars == <<conf, halfWritten, sig, polling, daemon, liveConfig, materialized,
               found, supply, refreshes, picker, panel, asks, answers, applied,
               authored, flags, untold, confEdits, toggles, supplies, started, reboots,
               faults, stumbles>>

Locks  == INSTANCE FileLocks
Tabs   == INSTANCE Canvas WITH
        mine <- tabOf
Wiki   == INSTANCE Vault
Memory == INSTANCE Compaction
Prompt == INSTANCE Composer WITH
        Pages <- Mentioned, now <- clock, phase <- stage, saved <- marks,
        history <- memory, archive <- rows
Editor == INSTANCE FileEditor
Writer == INSTANCE WikiWriter
\* the index of conversations three times: the sidebar, the titles, the folders
Shelf  == INSTANCE ConversationIndex WITH
        Names <- {"a"}, Cadence <- {}, MaxUserTurns <- 1, MaxEdits <- 3, MaxRetitles <- 0,
        MaxVisits <- 1,
        index <- listed, running <- busy, page <- sidebar, requests <- asked, edits <- changes,
        visits <- moves, astray <- strayed
Titles == INSTANCE ConversationIndex WITH
        Names <- {}, Cadence <- {1, 2}, MaxUserTurns <- 2, MaxEdits <- 3, MaxRetitles <- 1,
        MaxVisits <- 0,
        index <- listed, running <- busy, page <- sidebar, requests <- asked, edits <- changes,
        visits <- moves, astray <- strayed
Tree   == INSTANCE ConversationIndex WITH
        Names <- {"a", "b"}, Cadence <- {}, MaxUserTurns <- 0, MaxEdits <- 5,
        MaxRetitles <- 0, MaxVisits <- 0,
        index <- listed, running <- busy, page <- sidebar, requests <- asked, edits <- changes,
        visits <- moves, astray <- strayed
\* the notifications three times: files and channels, the badge, the open panel
Notices == INSTANCE Notifications WITH
        Urgent <- {1}, Retention <- 0, ListLimit <- 1,
        Channels <- {"page", "dm", "mail"}, Watched <- FALSE, MaxNotices <- 2,
        MaxClock <- 1, MaxPosts <- 2, MaxLooks <- 0, MaxBreaks <- 1, wire <- bellWire
Bell == INSTANCE Notifications WITH
        Urgent <- {1}, Retention <- 0, ListLimit <- 1, Channels <- {}, Watched <- TRUE,
        MaxNotices <- 1, MaxClock <- 0, MaxPosts <- 1, MaxLooks <- 1, MaxBreaks <- 1,
        wire <- bellWire
Panel == INSTANCE Notifications WITH
        Urgent <- {1}, Retention <- 0, ListLimit <- 1, Channels <- {}, Watched <- TRUE,
        MaxNotices <- 2, MaxClock <- 0, MaxPosts <- 2, MaxLooks <- 1, MaxBreaks <- 0,
        wire <- bellWire
\* the catalog of models: edits of config.json, discovery, and twice the page
Edits == INSTANCE ModelCatalog WITH
        GatewayOf <- [a |-> "p"], Own <- {"own"}, Pointers <- {"default"},
        Seed <- [default |-> "own"], Watched <- FALSE, MaxEdits <- 2, MaxSupplies <- 0,
        MaxChanges <- 1, MaxRefreshes <- 1, MaxRestarts <- 1, MaxFaults <- 0,
        text <- conf, torn <- halfWritten, phase <- daemon, sidecar <- found,
        changes <- toggles, edits <- confEdits, restarts <- reboots,
        mishaps <- stumbles, live <- liveConfig, behind <- untold
Found == INSTANCE ModelCatalog WITH
        GatewayOf <- [a |-> "p", b |-> "q"], Own <- {"own"},
        Pointers <- {"default", "aux"}, Seed <- [default |-> "own", aux |-> "own"],
        Watched <- FALSE, MaxEdits <- 0, MaxSupplies <- 1, MaxChanges <- 1,
        MaxRefreshes <- 2, MaxRestarts <- 0, MaxFaults <- 1, text <- conf,
        torn <- halfWritten, phase <- daemon, sidecar <- found, changes <- toggles,
        edits <- confEdits, restarts <- reboots, mishaps <- stumbles,
        live <- liveConfig, behind <- untold
Picks == INSTANCE ModelCatalog WITH
        GatewayOf <- [a |-> "p"], Own <- {"own"}, Pointers <- {"default"},
        Seed <- [default |-> "own"], Watched <- TRUE, MaxEdits <- 0, MaxSupplies <- 0,
        MaxChanges <- 2, MaxRefreshes <- 2, MaxRestarts <- 1, MaxFaults <- 0,
        text <- conf, torn <- halfWritten, phase <- daemon, sidecar <- found,
        changes <- toggles, edits <- confEdits, restarts <- reboots,
        mishaps <- stumbles, live <- liveConfig, behind <- untold
Shows == INSTANCE ModelCatalog WITH
        GatewayOf <- [a |-> "p"], Own <- {"own"}, Pointers <- {"default"},
        Seed <- [default |-> "own"], Watched <- TRUE, MaxEdits <- 0, MaxSupplies <- 0,
        MaxChanges <- 2, MaxRefreshes <- 2, MaxRestarts <- 0, MaxFaults <- 1,
        text <- conf, torn <- halfWritten, phase <- daemon, sidecar <- found,
        changes <- toggles, edits <- confEdits, restarts <- reboots,
        mishaps <- stumbles, live <- liveConfig, behind <- untold

allVars == <<focus, lockVars, canvasVars, vaultVars, memoryVars, promptVars, editorVars,
             wikiVars, threadVars, noticeVars, modelVars>>

Some(S) == CHOOSE x \in S : TRUE

Init ==
    /\ focus \in {"locks", "canvas", "vault", "memory", "prompt", "editor", "writer", "shelf",
                 "titles", "tree",
                  "notices", "bell", "panel",
                  "edits", "found", "picks", "shows"}
    /\ Locks!Init
    /\ Tabs!Init
    /\ Wiki!Init
    /\ Memory!Init
    /\ Prompt!Init
    /\ Editor!Init /\ workspace[Some(Paths)].text # 0   \* the paths are alike
    /\ Writer!Init /\ view.page = Some(Wikis)           \* and so are the pages
    /\ Shelf!Init /\ sidebar.open = (focus = "shelf")   \* a page of it is open, or none
    /\ IF focus = "notices" THEN Notices!Init ELSE Bell!Init
    /\ IF focus = "found" THEN Found!Init ELSE Edits!Init

\* the stores that are not exercised stay as they are
Elsewhere ==
    /\ UNCHANGED focus
    /\ IF focus = "locks"  THEN TRUE ELSE UNCHANGED lockVars
    /\ IF focus = "canvas" THEN TRUE ELSE UNCHANGED canvasVars
    /\ IF focus = "vault"  THEN TRUE ELSE UNCHANGED vaultVars
    /\ IF focus = "memory" THEN TRUE ELSE UNCHANGED memoryVars
    /\ IF focus = "prompt" THEN TRUE ELSE UNCHANGED promptVars
    /\ IF focus = "editor" THEN TRUE ELSE UNCHANGED editorVars
    /\ IF focus = "writer" THEN TRUE ELSE UNCHANGED wikiVars
    /\ IF focus \in {"shelf", "titles", "tree"} THEN TRUE ELSE UNCHANGED threadVars
    /\ IF focus \in {"notices", "bell", "panel"} THEN TRUE ELSE UNCHANGED noticeVars
    /\ IF focus \in {"edits", "found", "picks", "shows"} THEN TRUE ELSE UNCHANGED modelVars

LockStep   == focus = "locks"  /\ Locks!Next  /\ Elsewhere
CanvasStep == focus = "canvas" /\ Tabs!Next   /\ Elsewhere
VaultStep  == focus = "vault"  /\ Wiki!Next   /\ Elsewhere
MemoryStep == focus = "memory" /\ Memory!Next /\ Elsewhere
PromptStep == focus = "prompt" /\ Prompt!Next /\ Elsewhere
EditorStep == focus = "editor" /\ Editor!Next /\ Elsewhere
WriterStep == focus = "writer" /\ Writer!Next /\ Elsewhere
ShelfStep  == focus = "shelf"  /\ Shelf!Next  /\ Elsewhere
TitlesStep == focus = "titles" /\ Titles!Next /\ Elsewhere
TreeStep   == focus = "tree"   /\ Tree!Next   /\ Elsewhere
NoticeStep == focus = "notices" /\ Notices!Next /\ Elsewhere
BellStep == focus = "bell" /\ Bell!Next /\ Elsewhere
PanelStep == focus = "panel" /\ Panel!Next /\ Elsewhere
EditsStep == focus = "edits" /\ Edits!Next /\ Elsewhere
FoundStep == focus = "found" /\ Found!Next /\ Elsewhere
PicksStep == focus = "picks" /\ Picks!Next /\ Elsewhere
ShowsStep == focus = "shows" /\ Shows!Next /\ Elsewhere

Next == LockStep \/ CanvasStep \/ VaultStep \/ MemoryStep \/ PromptStep \/ EditorStep \/
        WriterStep \/ ShelfStep \/ TitlesStep \/ TreeStep \/
        NoticeStep \/ BellStep \/ PanelStep \/
        EditsStep \/ FoundStep \/ PicksStep \/ ShowsStep

Spec == Init /\ [][Next]_allVars

-----------------------------------------------------------------------------
(* Values of the constants. *)

\* a row of a background job bears a time two rows off, either way, or not
MCSkews == {-2, 0, 2}

\* a message refers to a page and a file, or to nothing
MCRefSets == {{}, Mentioned \cup Files}

\* the calls are alike in every store
Symmetry == Permutations(Ops)

-----------------------------------------------------------------------------
(* Properties.  Each is about the store that the behaviour exercises. *)

\* The types of every store's variables.
TypeOK ==
    /\ focus = "locks"  => Locks!TypeOK
    /\ focus = "canvas" => Tabs!TypeOK
    /\ focus = "vault"  => Wiki!TypeOK
    /\ focus = "memory" => Memory!TypeOK
    /\ focus = "prompt" => Prompt!TypeOK
    /\ focus = "editor" => Editor!TypeOK
    /\ focus = "writer" => Writer!TypeOK
    /\ focus = "shelf"  => Shelf!TypeOK
    /\ focus = "titles" => Titles!TypeOK
    /\ focus = "tree"   => Tree!TypeOK
    /\ focus \in {"notices", "bell", "panel"} => Notices!TypeOK
    /\ focus \in {"edits", "picks", "shows"} => Edits!TypeOK
    /\ focus = "found" => Found!TypeOK

\* What was written stays until somebody who has seen it replaces it: under a
\* file lock no write undoes a change made since its approval, compaction drops
\* no row from memory that the archive's readers will not bring back, no text of
\* the vault or of a file is lost to a call that was to notice it and did not,
\* no edit made in the browser vanishes, the recent notes and the pages a message
\* refers to reach the prompt, and a conversation stays in the listings, under the
\* title that its user gave it.  No notification is lost, nor that it was read; and
\* no switch of a model, and no edit of config.json.
NothingIsLost ==
    /\ focus = "locks"  => Locks!NoLostUpdate
    /\ focus = "memory" => Memory!NothingForgotten
    /\ focus = "vault"  => Wiki!NoUnseenLoss
    /\ focus = "prompt" => Prompt!NotesReachThePrompt /\ Prompt!ReferencesAreThere
    /\ focus = "editor" => Editor!NoBlindSave /\ Editor!EditsAreKept
    /\ focus = "writer" => Writer!NoEditVanishes /\ Writer!NoBlindFields
    /\ focus = "shelf"  => Shelf!EveryThreadIsListed
    /\ focus = "titles" => Titles!EveryThreadIsListed /\ Titles!TitlesStand
    /\ focus = "tree"   => Tree!EveryThreadIsListed
    /\ focus \in {"notices", "bell", "panel"} =>
         IF focus = "notices" THEN Notices!RecordsAreKept /\ Notices!ReadMeansRead
         ELSE Panel!ReadMeansRead
    /\ focus \in {"edits", "found", "picks", "shows"} =>
         IF focus = "found" THEN Found!FlagsStay ELSE Edits!FlagsStay /\ Edits!EditsAreApplied

\* Two places that hold the same thing agree once nothing is under way: the
\* search index and the pages, the tabs and the shells they show, the number of
\* a tab and the tab, an editor's mtime and its text, the list of tools in the
\* system messages and the tools of the iteration, the sidebar and the index of
\* conversations, the bell and the inbox of notifications, the models that are offered
\* and those that run; a page is in the history once, and of a deleted conversation
\* nothing is left anywhere.
CopiesAgree ==
    /\ focus = "vault"  => Wiki!IndexFollows
    /\ focus = "canvas" => Tabs!ShellsAreReachable /\ Tabs!TabIdsNeverRebind
    /\ focus = "prompt" => Prompt!OncePerPage /\ Prompt!LayoutHolds
    /\ focus = "editor" => Editor!MtimeNamesText
    /\ focus = "shelf"  => Shelf!SidebarIsRight /\ Shelf!DeletedIsGone
    /\ focus = "titles" => Titles!DeletedIsGone
    /\ focus \in {"notices", "bell", "panel"} =>
         IF focus = "notices" THEN Notices!ChannelsGetTheirs ELSE Bell!BellIsRight
    /\ focus \in {"edits", "found", "picks", "shows"} =>
         IF focus = "found"
         THEN Found!ConfigsAreRight /\ Found!OfferedModelsRun /\ Found!PointersHold
         ELSE Edits!ConfigsAreRight /\ Edits!OfferedModelsRun /\ Edits!PointersHold
              /\ Edits!ViewsAreRight

\* No cycle of file locks and pool workers: some call can always go on; and one
\* write of a page's fields is out at a time.
NobodyIsStuck ==
    /\ focus = "locks"  => Locks!NobodyIsStuck
    /\ focus = "writer" => Writer!OneWriteAtATime
=============================================================================
