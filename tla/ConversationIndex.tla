--------------------------- MODULE ConversationIndex ---------------------------
(***************************************************************************)
(* The conversations of a web user: the index (web/conversations.py), the  *)
(* folders (web/conversation_folders.py), their titles                     *)
(* (web/auto_titling.py), the routes of http_server.py on them, and the    *)
(* sidebar of one page with the listings of its store.                     *)
(*                                                                         *)
(* A route runs in one go from the body of its request to its answer,      *)
(* deletion apart, which waits for terminals.  A folder is a path, the     *)
(* empty path the top level.  Paths are at most two names long, so that a  *)
(* folder is moved below itself only if it has no subfolders.              *)
(***************************************************************************)
EXTENDS Integers, Sequences, FiniteSets, TLC

CONSTANTS
    Threads,                        \* conversations
    Names,                          \* names of folders
    Cadence,                        \* TITLING_TURNS
    MaxUserTurns, MaxEdits, MaxRetitles, MaxVisits   \* bounds

VARIABLES
    index,       \* web_conversations.json
    made,        \* conversations that were ever made
    folders, assigned,   \* conversation_folders.json
    archives, kids,      \* conversations that have files, and those with a child's among them
    running,     \* conversations with a turn
    userTurns,   \* user messages in the archive
    deleting,    \* deletions that wait for terminals
    titlers,     \* titles that are being generated
    attempted, latest,   \* cadence points that were tried, and the last that was answered
    page,        \* the section and folder on show, and the listings of the store
    requests,    \* requests of the page that are not answered yet
    edits, retitles, visits,
    astray       \* ways to go wrong that the behaviour has met

stored == <<index, made, folders, assigned, archives, kids>>
turns == <<running, userTurns>>
titling == <<titlers, attempted, latest, retitles>>
shown == <<page, requests, visits>>
indexVars == <<stored, turns, deleting, titling, shown, edits, astray>>

Top == <<>>
FolderPaths == {<<n>> : n \in Names} \cup {<<n, m>> : n, m \in Names}
Unchanged == <<"unchanged">>

\* custom is the flag of the index; named is whether the user has named it since
\* asking for a title; at and newest count the user turns that a title is made of
NewEntry == [archived |-> FALSE, custom |-> FALSE, title |-> "new", named |-> FALSE,
             at |-> 0, newest |-> 0]

TypeOK ==
    /\ DOMAIN index \subseteq made /\ made \subseteq Threads
    /\ \A t \in DOMAIN index :
         index[t] \in [archived : BOOLEAN, custom : BOOLEAN, named : BOOLEAN,
                       title : {"new", "first", "user", "auto", "asked"},
                       at : 0..MaxUserTurns, newest : 0..MaxUserTurns]
    /\ folders \subseteq FolderPaths /\ DOMAIN assigned \subseteq Threads
    /\ archives \cup kids \cup running \cup deleting \subseteq made
    /\ \A w \in titlers : w.of \in made /\ w.turn \in 0..MaxUserTurns
    /\ page.folder \in FolderPaths \cup {Top} /\ page.rows \cup DOMAIN page.sessions \subseteq made

Init ==
    /\ index = [t \in {} |-> NewEntry] /\ made = {}
    /\ folders = {} /\ assigned = [t \in {} |-> Top]
    /\ archives = {} /\ kids = {}
    /\ running = {} /\ userTurns = [t \in Threads |-> 0]
    /\ deleting = {} /\ titlers = {} /\ retitles = 0
    /\ attempted = [t \in Threads |-> {}] /\ latest = [t \in Threads |-> 0]
    /\ \E open \in BOOLEAN : page =
         [open |-> open, section |-> "chats", folder |-> Top, cur |-> Top, rows |-> {},
          sessions |-> [t \in {} |-> FALSE], regrouped |-> FALSE]
    /\ requests = {} /\ edits = 0 /\ visits = 0 /\ astray = {}

-----------------------------------------------------------------------------
(* What is listed *)

Below(p, q) == Len(p) >= Len(q) /\ SubSeq(p, 1, Len(q)) = q    \* p is q or a folder in it
Prefixes(p) == {SubSeq(p, 1, k) : k \in 1..Len(p)}
FolderOf(t) == IF t \in DOMAIN assigned THEN assigned[t] ELSE Top

\* list_folders
Subfolders(f) == {g \in folders : Len(g) = Len(f) + 1 /\ Below(g, f)}
\* list_conversations
Listing(f) == {t \in DOMAIN index : ~index[t].archived /\ FolderOf(t) = f}
\* list_sessions: the same, with whether children are found in the files
Groups(rows) == [t \in rows |-> t \in kids]
\* list_archived_conversations: its folders are those of the conversations
ArchivedListing(f) == {t \in DOMAIN index : index[t].archived /\ FolderOf(t) = f}
ArchivedSubfolders(f) ==
    {SubSeq(FolderOf(t), 1, Len(f) + 1) :
        t \in {u \in DOMAIN index : /\ index[u].archived
                                    /\ Below(FolderOf(u), f) /\ FolderOf(u) # f}}
\* the folders that can be opened from the top, one after the other
Opened(sub) == {Top} \cup sub[Top] \cup UNION {sub[f] : f \in sub[Top]}

-----------------------------------------------------------------------------
(* What the page asks for *)

Edited == edits < MaxEdits /\ edits' = edits + 1

\* two requests of a page at once
Crossed == IF requests = {} /\ deleting = {} THEN astray ELSE astray \cup {"crossed"}

\* a request that is served, and its answer on the way
Request(kind, f, rows) == [kind |-> kind, folder |-> f, rows |-> rows, groups |-> Groups(rows)]
Asked(r) == IF page.open THEN requests' = requests \cup {r} /\ astray' = Crossed
                         ELSE UNCHANGED <<requests, astray>>

\* an edit, of the page if one is open: it asks for the listing again, not for the groups
Edit ==
    /\ Asked(Request("edit", Top, {}))
    /\ page' = [page EXCEPT !.regrouped = TRUE]
    /\ UNCHANGED <<visits, turns, deleting, titling>>

-----------------------------------------------------------------------------
(* The routes *)

Without(f, t) == [x \in DOMAIN f \ {t} |-> f[x]]
With(f, t, v) == (t :> v) @@ f
\* set_folder
Placed(t, f) == assigned' = IF f = Top THEN Without(assigned, t) ELSE With(assigned, t, f)

\* create_conversation, of the folder on show
Create ==
    /\ Edited /\ made # Threads /\ page.section = "chats"
    /\ page.folder \in folders \cup {Top}
    /\ LET t == CHOOSE x \in Threads : x \notin made
       IN  /\ index' = With(index, t, NewEntry) /\ made' = made \cup {t}
           /\ Placed(t, page.folder)
           /\ Asked(Request("created", Top, {t}))
    /\ page' = [page EXCEPT !.regrouped = TRUE]
    /\ UNCHANGED <<folders, archives, kids, visits, turns, deleting, titling>>

\* rename_conversation: a title, a folder, or both
Patch(t, titled, f) ==
    /\ Edited /\ t \in DOMAIN index /\ f \in folders \cup {Top, Unchanged}
    /\ titled \/ f # Unchanged
    /\ index' = IF titled THEN [index EXCEPT ![t].title = "user", ![t].custom = TRUE,
                                             ![t].named = TRUE]
                ELSE index
    /\ IF f = Unchanged THEN UNCHANGED assigned ELSE Placed(t, f)
    /\ Edit /\ UNCHANGED <<made, folders, archives, kids>>

Archive(t) ==
    /\ Edited /\ t \in DOMAIN index /\ page.section = "chats"
    /\ index' = [index EXCEPT ![t].archived = TRUE]
    /\ Edit /\ UNCHANGED <<made, folders, assigned, archives, kids>>

Unarchive(t) ==
    /\ Edited /\ t \in DOMAIN index /\ index[t].archived /\ page.section = "archived"
    /\ index' = [index EXCEPT ![t].archived = FALSE]
    /\ UNCHANGED <<made, folders, assigned, archives, kids, turns, deleting, titling, shown, astray>>

\* delete_conversation, up to the end of the terminals and the wakes
DeleteBegins(t) ==
    /\ Edited /\ t \in DOMAIN index /\ page.section = "archived"
    /\ deleting' = deleting \cup {t}
    /\ UNCHANGED <<stored, turns, titling, shown, astray>>

\* mutant: the assignment is dropped before the wait for the terminals
Forgotten(t) ==
    /\ archives' = archives \ {t} /\ kids' = kids \ {t}
    /\ index' = Without(index, t)
    /\ UNCHANGED assigned
\* delete_conversation_files, the children's with them, and the entries
Forgets(t) ==
    /\ archives' = archives \ {t} /\ kids' = kids \ {t}
    /\ index' = Without(index, t)
    /\ assigned' = Without(assigned, t)

DeleteEnds(t) ==
    /\ t \in deleting /\ deleting' = deleting \ {t}
    /\ Forgets(t)
    /\ astray' = IF t \in running THEN astray \cup {"running"} ELSE astray
    /\ UNCHANGED <<made, folders, turns, titling, shown, edits>>

\* create_folder, with those it is in
CreateFolder(p) ==
    /\ Edited /\ p \notin folders
    /\ folders' = folders \cup Prefixes(p)
    /\ Edit /\ UNCHANGED <<index, made, assigned, archives, kids>>

\* mutant: conversations do not keep a folder
DeleteAnyFolder(p) ==
    /\ Edited /\ p \in folders /\ Subfolders(p) = {}
    /\ folders' = folders \ {p}
    /\ Edit /\ UNCHANGED <<index, made, assigned, archives, kids>>
\* delete_folder: an empty one
DeleteFolder(p) ==
    /\ Edited /\ p \in folders /\ Subfolders(p) = {}
    /\ \A t \in DOMAIN assigned : assigned[t] # p
    /\ folders' = folders \ {p}
    /\ Edit /\ UNCHANGED <<index, made, assigned, archives, kids>>

\* rename_folder: what is in p goes to q, which may be there; what q is in may not
RenameFolder(p, q) ==
    LET moved(g) == IF Below(g, p) THEN q \o SubSeq(g, Len(p) + 1, Len(g)) ELSE g
        now == {moved(g) : g \in folders}
    IN  /\ Edited /\ p \in folders /\ p # q /\ now \subseteq FolderPaths
        /\ folders' = now
        /\ assigned' = [t \in DOMAIN assigned |-> moved(assigned[t])]
        /\ Asked(Request("edit", Top, {}))
        /\ page' = [page EXCEPT !.regrouped = TRUE]
        /\ UNCHANGED <<index, made, archives, kids, visits, turns, deleting, titling>>

-----------------------------------------------------------------------------
(* Turns and titles *)

\* _handle_send: the first message is a title, until there is a better one
TurnStarts(t) ==
    /\ t \in DOMAIN index /\ t \notin running /\ userTurns[t] < MaxUserTurns
    /\ running' = running \cup {t} /\ archives' = archives \cup {t}
    /\ userTurns' = [userTurns EXCEPT ![t] = @ + 1]
    /\ index' = IF index[t].title = "new" THEN [index EXCEPT ![t].title = "first"] ELSE index
    /\ UNCHANGED <<made, folders, assigned, kids, deleting, titling, shown, edits, astray>>

\* what a turn writes; nobody stops the turn of a conversation that is deleted
TurnWrites(t) ==
    /\ t \in running
    /\ archives' = archives \cup {t}
    /\ kids' \in {kids, kids \cup {t}}
    /\ <<archives, kids>>' # <<archives, kids>>
    /\ UNCHANGED <<index, made, folders, assigned, turns, deleting, titling, shown, edits, astray>>

\* maybe_auto_title, up to the call of the model: once for each point of the cadence
Due(t) == /\ t \in DOMAIN index /\ ~index[t].custom
          /\ userTurns[t] \in Cadence \ attempted[t]

\* mutant: the listing asked for is that of the top
RefreshTop == Request("view", Top, Listing(Top))
\* the listing that the store has is asked for again
Refresh == Request("view", page.cur, Listing(page.cur))

\* the turn ends, before a page that may be subscribed
TurnEnds(t) ==
    /\ t \in running /\ running' = running \ {t}
    /\ \E watched \in BOOLEAN :
         /\ IF watched /\ Due(t)
            THEN /\ titlers' = titlers \cup {[of |-> t, asked |-> FALSE, turn |-> userTurns[t]]}
                 /\ attempted' = [attempted EXCEPT ![t] = @ \cup {userTurns[t]}]
            ELSE UNCHANGED <<titlers, attempted>>
         /\ IF watched /\ page.open
            THEN Asked(Refresh) /\ page' = [page EXCEPT !.regrouped = FALSE]
            ELSE UNCHANGED <<requests, page, astray>>
    /\ UNCHANGED <<stored, userTurns, deleting, latest, retitles, visits, edits>>

\* a title that is set, and the title it replaces
Titled(w, by, custom) ==
    index' = [index EXCEPT ![w.of].title = by, ![w.of].custom = custom, ![w.of].at = w.turn,
                           ![w.of].newest = IF w.turn > @ THEN w.turn ELSE @]

\* mutant: an answer is taken whatever was answered in between
CurrentAlways(w) == TRUE
\* no newer point of the cadence was answered
Current(w) == w.turn >= latest[w.of]

\* the rest of maybe_auto_title: the user may have renamed it in between
AutoTitled(w) ==
    /\ w \in titlers /\ ~w.asked /\ titlers' = titlers \ {w}
    /\ IF Current(w)
       THEN /\ latest' = [latest EXCEPT ![w.of] = w.turn]
            /\ IF w.of \in DOMAIN index /\ ~index[w.of].custom
               THEN /\ Titled(w, "auto", FALSE)
                    /\ astray' = IF index[w.of].title = "asked" /\ index[w.of].at > w.turn
                                 THEN astray \cup {"older"} ELSE astray
               ELSE UNCHANGED <<index, astray>>
       ELSE UNCHANGED <<latest, index, astray>>
    /\ UNCHANGED <<made, folders, assigned, archives, kids, turns, deleting, attempted, retitles,
                   shown, edits>>

\* the model fails, or has nothing to say
TitleFails(w) ==
    /\ w \in titlers /\ titlers' = titlers \ {w}
    /\ \/ UNCHANGED latest
       \/ ~w.asked /\ Current(w) /\ latest' = [latest EXCEPT ![w.of] = w.turn]
    /\ UNCHANGED <<stored, turns, deleting, attempted, retitles, shown, edits, astray>>

\* retitle_conversation: the user asks for a title
Retitle(t) ==
    /\ retitles < MaxRetitles /\ retitles' = retitles + 1
    /\ t \in DOMAIN index /\ t \in archives
    /\ titlers' = titlers \cup {[of |-> t, asked |-> TRUE, turn |-> userTurns[t]]}
    /\ index' = [index EXCEPT ![t].named = FALSE]
    /\ UNCHANGED <<made, folders, assigned, archives, kids, turns, deleting, attempted, latest,
                   shown, edits, astray>>

\* it is set whatever the title is by now, and is no longer the user's
Retitled(w) ==
    /\ w \in titlers /\ w.asked /\ titlers' = titlers \ {w}
    /\ IF w.of \in DOMAIN index
       THEN /\ Titled(w, "asked", FALSE)
            /\ astray' = astray \cup (IF index[w.of].named THEN {"overtaken"} ELSE {})
                                \cup (IF index[w.of].newest > w.turn THEN {"older"} ELSE {})
       ELSE UNCHANGED <<index, astray>>
    /\ UNCHANGED <<made, folders, assigned, archives, kids, turns, deleting, attempted, latest,
                   retitles, shown, edits>>

-----------------------------------------------------------------------------
(* The page *)

\* #navigateChatFolder
Navigate(f) ==
    /\ page.open /\ visits < MaxVisits /\ visits' = visits + 1
    /\ page' = [page EXCEPT !.section = "chats", !.folder = f, !.regrouped = FALSE]
    /\ Asked(Request("view", f, Listing(f)))
    /\ UNCHANGED <<stored, turns, deleting, titling, edits>>

\* #renderSessionGroups: the groups, or the rows if there are none
OnShow == IF DOMAIN page.sessions # {} THEN DOMAIN page.sessions ELSE page.rows

OpenArchived ==
    /\ page.section = "chats"
    /\ page' = [page EXCEPT !.section = "archived"]
    /\ UNCHANGED <<stored, turns, deleting, titling, requests, visits, edits, astray>>

\* an answer: after an edit the listing is asked for again
Answered(r) ==
    /\ r \in requests
    /\ CASE r.kind = "edit" ->
              /\ requests' = (requests \ {r}) \cup
                             {Request("list", page.cur, Listing(page.cur))}
              /\ UNCHANGED page
         [] r.kind = "created" ->
              /\ requests' = requests \ {r}
              /\ page' = [page EXCEPT !.rows = @ \cup r.rows]
         [] r.kind = "list" ->
              /\ requests' = requests \ {r}
              /\ page' = [page EXCEPT !.rows = r.rows, !.cur = r.folder]
         [] r.kind = "view" ->
              /\ requests' = requests \ {r}
              /\ page' = [page EXCEPT !.rows = r.rows, !.cur = r.folder, !.sessions = r.groups]
    /\ UNCHANGED <<stored, turns, deleting, titling, visits, edits, astray>>

Next ==
    \/ Create \/ OpenArchived
    \/ \E t \in Threads :
         \/ Archive(t) \/ Unarchive(t) \/ DeleteBegins(t) \/ DeleteEnds(t)
         \/ TurnStarts(t) \/ TurnWrites(t) \/ TurnEnds(t) \/ Retitle(t)
         \/ \E titled \in BOOLEAN, f \in FolderPaths \cup {Top, Unchanged} : Patch(t, titled, f)
    \/ \E p \in FolderPaths :
         \/ CreateFolder(p) \/ DeleteFolder(p) \/ \E q \in FolderPaths : RenameFolder(p, q)
    \/ \E w \in titlers : AutoTitled(w) \/ Retitled(w) \/ TitleFails(w)
    \/ \E f \in folders \cup {Top} : Navigate(f)
    \/ \E r \in requests : Answered(r)

Spec == Init /\ [][Next]_indexVars

-----------------------------------------------------------------------------
(* Properties *)

\* A conversation that is not deleted can be found in the sidebar, whatever was
\* renamed, moved and archived; unless a folder was moved into one that is not there.
EveryThreadIsListed ==
    /\ \A t \in DOMAIN index : ~index[t].archived =>
         \/ \E f \in Opened([f \in FolderPaths \cup {Top} |-> Subfolders(f)]) : t \in Listing(f)
         \/ FolderOf(t) \in folders /\ \E p \in Prefixes(FolderOf(t)) : p \notin folders
    /\ \A t \in DOMAIN index : index[t].archived =>
         \E f \in Opened([f \in FolderPaths \cup {Top} |-> ArchivedSubfolders(f)]) : t \in ArchivedListing(f)

\* The title that the user gave stays until the user asks for another, and a
\* title is not replaced by one made of less of the conversation.
TitlesStand ==
    \A t \in DOMAIN index :
        /\ index[t].named => index[t].title = "user" \/ "overtaken" \in astray
        /\ index[t].title \in {"auto", "asked"} =>
             index[t].at = index[t].newest \/ "older" \in astray

\* Of a deleted conversation nothing is left, but what its turn writes.
DeletedIsGone ==
    \A t \in made \ DOMAIN index :
        /\ t \notin DOMAIN assigned
        /\ t \in archives \cup kids => "running" \in astray

\* Who waits for the answer before the next click sees the folder of the
\* breadcrumbs, with all that is in it; and the groups agree with the list, but
\* for the edits since the last turn or the last click on a folder.
SidebarIsRight ==
    page.open /\ requests = {} /\ deleting = {} /\ "crossed" \notin astray /\ page.section = "chats" =>
        /\ page.cur = page.folder /\ page.rows = Listing(page.folder)
        /\ page.regrouped \/ OnShow = page.rows
=============================================================================
