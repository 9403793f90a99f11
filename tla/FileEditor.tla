------------------------------ MODULE FileEditor ------------------------------
(***************************************************************************)
(* A workspace file open in the browser (file-page.js with file-editor.js),*)
(* the workspace routes of http_server.py and the tools of                 *)
(* workspace_tools.py that write the same files.                           *)
(*                                                                         *)
(* The editor saves with the mtime it last saw, and the route refuses the  *)
(* save when the file has another one.  Requests are served and answered   *)
(* in any order; a route runs on the event loop, a tool in a worker        *)
(* thread, under locks the routes do not take.  Two writes of one file are *)
(* more than the tolerated millisecond apart, so every write has an mtime  *)
(* of its own.                                                             *)
(***************************************************************************)
EXTENDS Integers, FiniteSets

CONSTANTS
    Paths, NoPath,
    MaxVersions, MaxWrites, MaxRequests, MaxNetFails   \* bounds

VARIABLES
    workspace,  \* the text and mtime of each file; text 0: no file
    writes,     \* mtimes given out
    versions,   \* texts made up
    pane,       \* <file-page>
    pad,        \* <file-editor>: mounted or not, its text and timer
    wire,       \* requests that are not answered yet
    requests,   \* requests sent
    typed,      \* texts the user typed
    astray,     \* an answer reached a page that had moved on, or a save a file that was gone
    netFails,
    unseen,     \* texts replaced by a save of somebody who never saw them
    dropped     \* texts typed and neither saved nor given up

files == <<workspace, writes>>
ghosts == <<astray, netFails, unseen>>
editorVars == <<workspace, writes, versions, pane, pad, wire, requests, typed, astray,
                netFails, unseen, dropped>>

Texts == 0..MaxVersions
NoFile == [text |-> 0, mtime |-> 0]
NoFiles == [p \in Paths |-> NoFile]
Unmounted == [on |-> FALSE, mount |-> 0, doc |-> 0, saved |-> 0, timer |-> FALSE]
Exists(p) == workspace[p].text # 0
\* hasPendingChanges
Pending == pad.on /\ (pad.timer \/ pad.doc # pad.saved)

TypeOK ==
    /\ workspace \in [Paths -> [text : Texts, mtime : 0..MaxWrites]]
    /\ pane \in [path : Paths \cup {NoPath}, modified : 0..MaxWrites, loading : BOOLEAN,
                 error : BOOLEAN, conflict : BOOLEAN]
    /\ pad \in [on : BOOLEAN, mount : 0..MaxRequests, doc : Texts, saved : Texts, timer : BOOLEAN]
    /\ wire \subseteq [n : 1..MaxRequests, kind : {"get", "probe", "save", "rename", "delete"},
                       path : Paths, to : Paths \cup {NoPath}, text : Texts, base : Texts,
                       modified : 0..MaxWrites, mount : 0..MaxRequests,
                       at : {"sent", "checked", "ok", "conflict", "error"},
                       got : [text : Texts, mtime : 0..MaxWrites]]
    /\ \A r, s \in wire : r.n = s.n => r = s

\* a file, and no pane
Init ==
    /\ \E p \in Paths :
         workspace = [NoFiles EXCEPT ![p] = [text |-> 1, mtime |-> 1]]
    /\ writes = 1 /\ versions = 1
    /\ pane = [path |-> NoPath, modified |-> 0, loading |-> FALSE, error |-> FALSE,
               conflict |-> FALSE]
    /\ pad = Unmounted
    /\ wire = {} /\ requests = 0
    /\ typed = {} /\ astray = FALSE /\ netFails = 0 /\ unseen = {} /\ dropped = {}

-----------------------------------------------------------------------------
(* The page and its editor *)

Request(kind, path) ==
    [n |-> requests + 1, kind |-> kind, path |-> path, to |-> NoPath, text |-> pad.doc,
     base |-> pad.saved, modified |-> pane.modified, mount |-> pad.mount, at |-> "sent",
     got |-> NoFile]

\* a request takes the place of the one that was answered
Send(others, r) ==
    /\ requests < MaxRequests /\ requests' = requests + 1
    /\ wire' = others \cup {r}

\* disconnectedCallback clears the timer and saves nothing
Unmount == pad' = [Unmounted EXCEPT !.mount = pad.mount]

\* what an unmount throws away of a text that was there before
Unsaved(doc) == IF pad.on /\ pad.doc # pad.saved /\ pad.doc = doc THEN {doc} ELSE {}

\* firstUpdated
Mounted(text) ==
    [on |-> TRUE, mount |-> pad.mount + 1, doc |-> text, saved |-> text, timer |-> FALSE]

\* the path of the page changes: the file is fetched
Show(others, p) ==
    /\ Send(others, Request("get", p))
    /\ pane' = [pane EXCEPT !.path = p, !.loading = TRUE, !.error = FALSE, !.conflict = FALSE]
    /\ Unmount

\* the user opens another file, of those that are listed
Open ==
    /\ \E p \in Paths \ {pane.path} : Exists(p) /\ Show(wire, p)
    /\ UNCHANGED <<files, versions, typed, ghosts, dropped>>

\* the Reload button of the conflict
Reload ==
    /\ pane.conflict /\ pad.on
    /\ Send(wire, Request("get", pane.path))
    /\ pane' = [pane EXCEPT !.loading = TRUE, !.error = FALSE]
    /\ Unmount
    /\ UNCHANGED <<files, versions, typed, ghosts, dropped>>

Type ==
    /\ pad.on /\ versions < MaxVersions
    /\ versions' = versions + 1 /\ typed' = typed \cup {versions'}
    /\ pad' = [pad EXCEPT !.doc = versions', !.timer = TRUE]
    /\ UNCHANGED <<files, pane, wire, requests, ghosts, dropped>>

To(r, path) == [r EXCEPT !.to = path]

\* the timer, or Ctrl+S: #save takes the text and mtime of this moment
Save ==
    /\ pad.on /\ Pending
    /\ Send(wire, Request("save", pane.path))
    /\ pad' = [pad EXCEPT !.timer = FALSE]
    /\ UNCHANGED <<files, versions, pane, typed, ghosts, dropped>>

\* mutant: the file is moved first
RenameUnflushed ==
    /\ pane.path # NoPath /\ ~pane.loading
    /\ \E q \in Paths \ {pane.path} : Send(wire, To(Request("rename", pane.path), q))
    /\ UNCHANGED <<files, versions, pane, pad, typed, ghosts, dropped>>

\* #submitRename: flushSave first, if there is something to save
Rename ==
    /\ pane.path # NoPath /\ ~pane.loading
    /\ \E q \in Paths \ {pane.path} :
         Send(wire, To(Request(IF pad.doc # pad.saved THEN "save" ELSE "rename", pane.path), q))
    /\ pad' = [pad EXCEPT !.timer = FALSE]
    /\ UNCHANGED <<files, versions, pane, typed, ghosts, dropped>>

Delete ==
    /\ pane.path # NoPath /\ ~pane.loading
    /\ Send(wire, Request("delete", pane.path))
    /\ UNCHANGED <<files, versions, pane, pad, typed, ghosts, dropped>>

\* mutant: the view is refreshed whatever was typed
TurnCompleteAlways ==
    /\ pane.path # NoPath
    /\ Send(wire, Request("probe", pane.path))
    /\ UNCHANGED <<files, versions, pane, pad, typed, ghosts, dropped>>

\* the agent ended a turn: the page looks whether the file changed
TurnComplete ==
    /\ pane.path # NoPath /\ ~Pending
    /\ Send(wire, Request("probe", pane.path))
    /\ UNCHANGED <<files, versions, pane, pad, typed, ghosts, dropped>>

-----------------------------------------------------------------------------
(* The routes *)

Served(r, as) == wire' = (wire \ {r}) \cup {as}
\* no handler is between its check and its write
LoopFree == \A r \in wire : r.at # "checked"
Write(p, text) ==
    /\ writes < MaxWrites /\ writes' = writes + 1
    /\ workspace' = [workspace EXCEPT ![p] = [text |-> text, mtime |-> writes']]

ServeGet(r) ==
    /\ r.kind \in {"get", "probe"} /\ r.at = "sent"
    /\ Served(r, IF Exists(r.path)
                 THEN [r EXCEPT !.at = "ok", !.got = workspace[r.path]]
                 ELSE [r EXCEPT !.at = "error"])
    /\ UNCHANGED <<files, astray>>

\* mutant: a save is written whatever it was based on
CheckNothing(r) ==
    /\ r.kind = "save" /\ r.at = "sent"
    /\ Served(r, [r EXCEPT !.at = "checked", !.got = workspace[r.path]])
    /\ UNCHANGED <<files, astray>>

\* the check is made only of a file that is there
CheckSave(r) ==
    /\ r.kind = "save" /\ r.at = "sent"
    /\ Served(r, [r EXCEPT !.at =
                     IF Exists(r.path) /\ workspace[r.path].mtime # r.modified
                     THEN "conflict" ELSE "checked", !.got = workspace[r.path]])
    /\ astray' = (astray \/ ~Exists(r.path))
    /\ UNCHANGED files

\* rename keeps the mtime; a target that exists refuses it
ServeRename(r) ==
    /\ r.kind = "rename" /\ r.at = "sent"
    /\ IF Exists(r.path) /\ ~Exists(r.to)
       THEN /\ workspace' = [workspace EXCEPT ![r.to] = workspace[r.path],
                                              ![r.path] = NoFile]
            /\ Served(r, [r EXCEPT !.at = "ok"])
       ELSE /\ Served(r, [r EXCEPT !.at = "error"])
            /\ UNCHANGED workspace
    /\ UNCHANGED <<writes, astray>>

ServeDelete(r) ==
    /\ r.kind = "delete" /\ r.at = "sent"
    /\ Served(r, [r EXCEPT !.at = IF Exists(r.path) THEN "ok" ELSE "error"])
    /\ workspace' = [workspace EXCEPT ![r.path] = NoFile]
    /\ UNCHANGED <<writes, astray>>

Serve ==
    /\ LoopFree
    /\ \E r \in wire : ServeGet(r) \/ CheckSave(r) \/ ServeRename(r) \/ ServeDelete(r)
    /\ UNCHANGED <<versions, pane, pad, requests, typed, netFails, unseen, dropped>>

\* write_text, after the check: a tool may have written in between
SaveWritten ==
    /\ \E r \in wire :
         /\ r.at = "checked"
         /\ LET old == workspace[r.path]
            IN  /\ unseen' = IF old.text \in typed \cup {0, r.base} \/ old # r.got
                             THEN unseen ELSE unseen \cup {old.text}
                /\ Write(r.path, r.text)
         /\ Served(r, [r EXCEPT !.at = "ok", !.got = workspace'[r.path]])
    /\ UNCHANGED <<versions, pane, pad, requests, typed, astray, netFails, dropped>>

\* the request, or the answer to it, gets lost
NetFails ==
    /\ netFails < MaxNetFails /\ netFails' = netFails + 1
    /\ \E r \in wire : r.at \in {"sent", "ok"} /\ Served(r, [r EXCEPT !.at = "error", !.got = NoFile])
    /\ UNCHANGED <<files, versions, pane, pad, requests, typed, astray, unseen, dropped>>

-----------------------------------------------------------------------------
(* The answers *)

\* #fetchFile: the answer is for whatever the page shows by now
Fetched(r) ==
    /\ r.kind = "get"
    /\ astray' = (astray \/ r.path # pane.path \/ ~pane.loading)
    /\ IF r.at = "ok"
       THEN /\ pane' = [pane EXCEPT !.modified = r.got.mtime, !.loading = FALSE, !.conflict = FALSE]
            /\ pad' = IF pane.loading /\ ~pane.error THEN Mounted(r.got.text) ELSE pad
       ELSE /\ pane' = [pane EXCEPT !.loading = FALSE, !.error = TRUE]
            /\ Unmount
    /\ wire' = wire \ {r} /\ UNCHANGED <<requests, dropped>>

\* _onTurnComplete after its probe: what was typed meanwhile is not looked at
Probed(r) ==
    /\ r.kind = "probe"
    /\ IF r.at = "ok" /\ r.path = pane.path /\ ~pane.loading /\ r.got.mtime # r.modified
       THEN /\ pane' = [pane EXCEPT !.modified = r.got.mtime, !.error = FALSE, !.conflict = FALSE]
            /\ pad' = Mounted(r.got.text)
            /\ dropped' = dropped \cup Unsaved(r.text)
       ELSE UNCHANGED <<pane, pad, dropped>>
    /\ wire' = wire \ {r} /\ UNCHANGED <<requests, astray>>

\* mutant: the mtime of the conflict is adopted
SaveAnsweredAdopts(r) ==
    /\ r.kind = "save"
    /\ astray' = (astray \/ ~(pad.on /\ pad.mount = r.mount))
    /\ pane' = [pane EXCEPT !.modified = r.got.mtime, !.conflict = @ \/ r.at = "conflict"]
    /\ pad' = IF r.at = "ok" /\ pad.on /\ pad.mount = r.mount THEN [pad EXCEPT !.saved = r.text] ELSE pad
    /\ wire' = wire \ {r} /\ UNCHANGED <<requests, dropped>>

\* an editor that is gone still tells the page of its save; a rename that waited
\* for a save goes on whatever became of it, with the file the page shows by now
SaveAnswered(r) ==
    /\ r.kind = "save"
    /\ astray' = (astray \/ ~(pad.on /\ pad.mount = r.mount))
    /\ pane' = CASE r.at = "ok" -> [pane EXCEPT !.modified = r.got.mtime]
                 [] r.at = "conflict" -> [pane EXCEPT !.conflict = TRUE]
                 [] OTHER -> pane
    /\ pad' = IF r.at = "ok" /\ pad.on /\ pad.mount = r.mount THEN [pad EXCEPT !.saved = r.text] ELSE pad
    /\ IF r.to = NoPath \/ pane.path = NoPath
       THEN wire' = wire \ {r} /\ UNCHANGED requests
       ELSE Send(wire \ {r}, [To(Request("rename", pane.path), r.to) EXCEPT
                                 !.text = IF r.at = "ok" THEN r.text ELSE 0,
                                 !.modified = pane'.modified])
    /\ UNCHANGED dropped

\* the page opens the file under its new name
Renamed(r) ==
    /\ r.kind = "rename" /\ UNCHANGED astray
    /\ IF r.at = "ok" /\ r.to # pane.path
       THEN /\ Show(wire \ {r}, r.to)
            /\ dropped' = dropped \cup Unsaved(r.text)
       ELSE wire' = wire \ {r} /\ UNCHANGED <<requests, pane, pad, dropped>>

\* the pane closes, whatever it shows by now
Deleted(r) ==
    /\ r.kind = "delete"
    /\ IF r.at = "ok"
       THEN /\ pane' = [pane EXCEPT !.path = NoPath, !.loading = FALSE, !.error = FALSE,
                                    !.conflict = FALSE]
            /\ Unmount
       ELSE UNCHANGED <<pane, pad>>
    /\ wire' = wire \ {r} /\ UNCHANGED <<requests, astray, dropped>>

Answered ==
    /\ \E r \in wire :
         /\ r.at \in {"ok", "conflict", "error"}
         /\ Fetched(r) \/ Probed(r) \/ SaveAnswered(r) \/ Renamed(r) \/ Deleted(r)
    /\ UNCHANGED <<files, versions, typed, netFails, unseen>>

-----------------------------------------------------------------------------
(* The tools of the agent *)

\* workspace_write, _edit, _insert, _replace_lines and _append
ToolWrites ==
    /\ versions < MaxVersions /\ versions' = versions + 1
    /\ \E p \in Paths : Write(p, versions')
    /\ UNCHANGED <<pane, pad, wire, requests, typed, ghosts, dropped>>

\* workspace_move, _copy (which keeps the mtime) and _delete
ToolMoves ==
    /\ \E p \in Paths, q \in Paths \cup {NoPath}, keep \in BOOLEAN :
         /\ Exists(p) /\ p # q /\ (q = NoPath => ~keep)
         /\ q # NoPath => ~Exists(q)
         /\ workspace' = [f \in Paths |-> IF f = q THEN workspace[p]
                                          ELSE IF f = p /\ ~keep THEN NoFile ELSE workspace[f]]
    /\ UNCHANGED <<writes, versions, pane, pad, wire, requests, typed, ghosts, dropped>>

Next ==
    \/ Open \/ Reload \/ Type \/ Save \/ Rename \/ Delete \/ TurnComplete
    \/ Serve \/ SaveWritten \/ NetFails \/ Answered \/ ToolWrites \/ ToolMoves

Spec == Init /\ [][Next]_editorVars

-----------------------------------------------------------------------------
(* Properties *)

\* A save replaces a text only if this page showed it or wrote it: the file's
\* mtime stands for its text.  That holds as long as no answer reached a page
\* that had moved on to something else, and no save recreated the file.
NoBlindSave == astray \/ unseen = {}

\* While the page believes it has the file's mtime, what it shows as saved is the
\* file's text; with the same exception.
MtimeNamesText ==
    LET f == workspace[pane.path]
    IN  pad.on /\ pane.path # NoPath /\ ~astray /\ Exists(pane.path) /\ f.mtime = pane.modified =>
            f.text = pad.saved

\* What was typed before the page refreshed itself after a turn, or before the
\* user renamed the file and its save succeeded, is not thrown away.
EditsAreKept == dropped = {}
=============================================================================
