------------------------------- MODULE Vault -------------------------------
(***************************************************************************)
(* The pages of the vault and their search index.  Writers are the agent's *)
(* tools (skills/vault/tools.py), which may wait for the user's approval   *)
(* first, and the requests of the editor in the browser (http_server.py),  *)
(* which carry the modification time the editor knows.  A writer changes   *)
(* the file and drops its index entries in one go, and then awaits the     *)
(* embedding of the new text.                                              *)
(***************************************************************************)
EXTENDS Integers, FiniteSets, Sequences

CONSTANTS
    Pages,     \* page names
    Gated,     \* those the agent changes with an approval only
    NoPage,    \* no page
    Ops,       \* calls of tools and requests; each name is used once
    MaxTexts,  \* bound on the texts written
    MaxTime,   \* bound on the clock, in seconds
    MaxFails   \* bound on the embeddings that fail

VARIABLES
    text,      \* the text of a page, numbered as written; 0 if there is no file
    mtime,     \* st_mtime of the file
    texts,     \* texts written so far
    now,       \* the clock
    index,     \* the texts indexed for a page
    does, at,  \* what a call is and where it is suspended
    page, target, \* its pages
    saw,       \* the texts of the two pages when it asked for approval
    todo,      \* texts whose embedding it awaits
    later,     \* the page it reindexes after that
    tab,       \* the page open in the editor: the text it shows, the time it sends
    lost,      \* texts that were replaced or deleted by a call that had not seen them
    excused,   \* lost texts for which the code has no check
    failed,    \* texts whose embedding failed
    overlapped \* pages changed while a text of theirs was being embedded

vaultVars == <<text, mtime, texts, now, index, does, at, page, target, saw, todo, later, tab,
               lost, excused, failed, overlapped>>
opVars == <<does, at, page, target, saw>>

Texts == 1..MaxTexts
Kinds == {"none", "write", "patch", "move", "rename", "delete", "save", "create", "reindex"}

TypeOK ==
    /\ text \in [Pages -> 0..MaxTexts] /\ mtime \in [Pages -> 0..MaxTime]
    /\ texts \in 0..MaxTexts /\ now \in 0..MaxTime
    /\ index \in [Pages -> SUBSET Texts]
    /\ does \in [Ops -> Kinds] /\ at \in [Ops -> {"idle", "gate", "embed", "done"}]
    /\ {page[o] : o \in Ops} \cup {target[o] : o \in Ops} \subseteq Pages \cup {NoPage}
    /\ saw \in [Ops -> [Pages -> 0..MaxTexts]]
    /\ todo \in [Ops -> SUBSET (Pages \X Texts)] /\ later \in [Ops -> Pages \cup {NoPage}]
    /\ tab \in [page : Pages \cup {NoPage}, text : 0..MaxTexts, time : 0..MaxTime, own : BOOLEAN]
    /\ {lost, excused, failed} \subseteq SUBSET Texts /\ overlapped \subseteq Pages

NoTab == [page |-> NoPage, text |-> 0, time |-> 0, own |-> TRUE]

Init ==
    /\ text = [p \in Pages |-> 0] /\ mtime = [p \in Pages |-> 0] /\ texts = 0 /\ now = 0
    /\ index = [p \in Pages |-> {}]
    /\ does = [o \in Ops |-> "none"] /\ at = [o \in Ops |-> "idle"]
    /\ page = [o \in Ops |-> NoPage] /\ target = [o \in Ops |-> NoPage]
    /\ saw = [o \in Ops |-> [p \in Pages |-> 0]]
    /\ todo = [o \in Ops |-> {}] /\ later = [o \in Ops |-> NoPage]
    /\ tab = NoTab
    /\ lost = {} /\ excused = {} /\ failed = {} /\ overlapped = {}

Exists(p) == text[p] # 0
Embedding(p) == \E o \in Ops : \E w \in todo[o] : w[1] = p

Tick == now < MaxTime /\ now' = now + 1
        /\ UNCHANGED <<text, mtime, texts, index, opVars, todo, later, tab, lost, excused, failed, overlapped>>

-----------------------------------------------------------------------------
(* What the calls do to the files: a text is written, a file is moved or   *)
(* deleted; the entries of the page are dropped and the call goes on to    *)
(* the embedding.                                                          *)

\* mutant: the entries are dropped when the new text has been embedded
DropLater(dropped) == UNCHANGED index
Drop(dropped) == index' = [p \in Pages |-> IF p \in dropped THEN {} ELSE index[p]]

Changes(changed) ==
    overlapped' = overlapped \cup {p \in changed : Embedding(p)}
Put(o, p) ==
    /\ texts < MaxTexts /\ texts' = texts + 1
    /\ text' = [text EXCEPT ![p] = texts + 1] /\ mtime' = [mtime EXCEPT ![p] = now]
    /\ Drop({p}) /\ Changes({p})
    /\ todo' = [todo EXCEPT ![o] = {<<p, texts + 1>>}]
    /\ at' = [at EXCEPT ![o] = "embed"]

\* vault_write replaces the text, vault_section and vault_update_frontmatter edit it
Write(o, p) == Put(o, p) /\ UNCHANGED later
Patch(o, p) == Exists(p) /\ Put(o, p) /\ UNCHANGED later

\* vault_move_lines edits two pages and reindexes them one after the other
Move(o, p, q) ==
    /\ Exists(p) /\ Exists(q) /\ p # q /\ texts + 2 <= MaxTexts /\ texts' = texts + 2
    /\ text' = [text EXCEPT ![q] = texts + 1, ![p] = texts + 2]
    /\ mtime' = [mtime EXCEPT ![q] = now, ![p] = now]
    /\ Drop({q}) /\ Changes({p, q})
    /\ todo' = [todo EXCEPT ![o] = {<<q, texts + 1>>}] /\ later' = [later EXCEPT ![o] = p]
    /\ at' = [at EXCEPT ![o] = "embed"]

\* the entries of the old name are dropped
Rename(o, p, q) ==
    /\ Exists(p)
    /\ text' = [text EXCEPT ![q] = text[p], ![p] = 0] /\ mtime' = [mtime EXCEPT ![q] = mtime[p]]
    /\ Drop({p}) /\ overlapped' = overlapped \cup {r \in {p, q} : Embedding(r)}
                                            \cup (IF Exists(q) THEN {q} ELSE {})
    /\ todo' = [todo EXCEPT ![o] = {<<q, text[p]>>}]
    /\ at' = [at EXCEPT ![o] = "embed"]
    /\ UNCHANGED <<texts, later>>

Delete(o, p) ==
    /\ Exists(p)
    /\ text' = [text EXCEPT ![p] = 0] /\ Drop({p}) /\ Changes({p})
    /\ at' = [at EXCEPT ![o] = "done"]
    /\ UNCHANGED <<mtime, texts, todo, later>>

-----------------------------------------------------------------------------
(* The agent's tools                                                       *)

Call(o, kind, p, q) ==
    /\ does' = [does EXCEPT ![o] = kind]
    /\ page' = [page EXCEPT ![o] = p] /\ target' = [target EXCEPT ![o] = q]
\* the texts a call destroys: known ones, or unseen ones that no check protects
Known == UNCHANGED <<lost, excused>>
Overtaken(o, destroyed) ==
    lost' = lost \cup destroyed /\ excused' = excused \cup destroyed

Ask(o, kind, p, q) ==
    /\ at[o] = "idle" /\ {p, q} \cap Gated # {}
    /\ kind \in {"write"} \/ Exists(p)
    /\ kind = "rename" => p # q /\ ~Exists(q)
    /\ kind # "rename" => p = q
    /\ Call(o, kind, p, q)
    /\ at' = [at EXCEPT ![o] = "gate"] /\ saw' = [saw EXCEPT ![o] = text]
    /\ UNCHANGED <<text, mtime, texts, now, index, todo, later, tab, lost, excused, failed, overlapped>>

Run(o, kind, p, q) ==
    \/ kind = "write" /\ Write(o, p)
    \/ kind = "patch" /\ Patch(o, p)
    \/ kind = "delete" /\ Delete(o, p)
    \/ kind = "rename" /\ Rename(o, p, q)

\* the approval comes: nothing is looked at again
Approved(o) ==
    LET p == page[o]
        q == target[o]
        destroyed == CASE does[o] \in {"write", "delete"} -> {text[p]}
                       [] does[o] = "rename" -> {text[q]}
                       [] OTHER -> {}
    IN  /\ at[o] = "gate"
        /\ Run(o, does[o], p, q)
        /\ Overtaken(o, destroyed \ {0, saw[o][p], saw[o][q]})
        /\ UNCHANGED <<now, does, page, target, saw, tab, failed>>

\* it is denied, or the file is gone and the tool fails
Refused(o) ==
    /\ at[o] = "gate"
    /\ at' = [at EXCEPT ![o] = "done"]
    /\ UNCHANGED <<text, mtime, texts, now, index, does, page, target, saw, todo, later, tab,
                   lost, excused, failed, overlapped>>

\* a page of the agent, a granted folder: no gate
Direct(o, kind, p, q) ==
    /\ at[o] = "idle" /\ {p, q} \cap Gated = {}
    /\ IF kind = "move" THEN Move(o, p, q)
       ELSE /\ kind = "rename" => p # q /\ ~Exists(q)
            /\ kind # "rename" => p = q
            /\ Run(o, kind, p, q)
    /\ Call(o, kind, p, q) /\ Known
    /\ UNCHANGED <<now, saw, tab, failed>>

-----------------------------------------------------------------------------
(* The editor: vault_read, vault_write, _vault_rename, vault_create,       *)
(* vault_delete of http_server.py                                          *)

Open(p) ==
    /\ Exists(p) /\ tab' = [page |-> p, text |-> text[p], time |-> mtime[p], own |-> TRUE]
    /\ UNCHANGED <<text, mtime, texts, now, index, opVars, todo, later, lost, excused, failed, overlapped>>

\* the file's time may be a second past the one the request carries
\* mutant: the time is compared with the clock
ConflictNow(p) == Exists(p) /\ tab.time > now
Conflict(p) == Exists(p) /\ mtime[p] > tab.time + 1

\* a save: what it replaces unseen was written within that second, or the time it
\* carries is not that of the text the editor shows
Save(o) ==
    LET p == tab.page
        unseen == {text[p]} \ {0, tab.text}
    IN  /\ at[o] = "idle" /\ tab.page # NoPage /\ ~\E s \in Ops : does[s] = "save" /\ at[s] = "embed"
        /\ ~Conflict(p)
        /\ Write(o, p) /\ Call(o, "save", p, p)
        /\ lost' = lost \cup unseen
        /\ excused' = IF ~tab.own \/ mtime[p] <= tab.time + 1 THEN excused \cup unseen ELSE excused
        /\ UNCHANGED <<now, saw, tab, failed>>

Request(o, kind, p, q) ==
    /\ at[o] = "idle"
    /\ \/ kind = "create" /\ ~Exists(p) /\ p = q /\ Write(o, p)
       \/ kind = "rename" /\ p # q /\ ~Exists(q) /\ Rename(o, p, q)
       \/ kind = "delete" /\ p = q /\ Delete(o, p)
    /\ Call(o, kind, p, q) /\ Known
    /\ UNCHANGED <<now, saw, tab, failed>>

\* reindex_vault, which a search starts when the index is empty
Reindex(o) ==
    /\ at[o] = "idle" /\ \A p \in Pages : index[p] = {}
    /\ todo' = [todo EXCEPT ![o] = {<<p, text[p]>> : p \in {r \in Pages : Exists(r)}}]
    /\ todo'[o] # {}
    /\ does' = [does EXCEPT ![o] = "reindex"] /\ at' = [at EXCEPT ![o] = "embed"]
    /\ UNCHANGED <<text, mtime, texts, now, index, page, target, saw, later, tab, lost, excused,
                   failed, overlapped>>

-----------------------------------------------------------------------------
(* index_entry returns: the entry is inserted, or the embedding failed.    *)
(* The response to a save carries the time of the file by then.            *)

Embedded(o, w) ==
    LET rest == todo[o] \ {w}
        next == IF rest = {} THEN later[o] ELSE NoPage
        again == next # NoPage /\ Exists(next)
    IN  /\ at[o] = "embed" /\ w \in todo[o]
        /\ \E ok \in BOOLEAN :
             /\ ok \/ Cardinality(failed) < MaxFails
             /\ failed' = IF ok THEN failed ELSE failed \cup {w[2]}
             /\ index' = [p \in Pages |->
                            IF again /\ p = next THEN {}
                            ELSE IF ok /\ p = w[1] THEN index[p] \cup {w[2]} ELSE index[p]]
        /\ todo' = [todo EXCEPT ![o] = IF again THEN {<<next, text[next]>>} ELSE rest]
        /\ later' = IF rest = {} THEN [later EXCEPT ![o] = NoPage] ELSE later
        /\ at' = IF rest = {} /\ ~again THEN [at EXCEPT ![o] = "done"] ELSE at
        /\ tab' = IF does[o] = "save" /\ tab.page = w[1]
                  THEN [tab EXCEPT !.text = w[2], !.time = mtime[w[1]], !.own = text[w[1]] = w[2]]
                  ELSE tab
        /\ UNCHANGED <<text, mtime, texts, now, does, page, target, saw, lost, excused, overlapped>>

Next ==
    \/ Tick \/ \E p \in Pages : Open(p)
    \/ \E o \in Ops :
         \/ \E kind \in {"write", "patch", "rename", "delete"}, p, q \in Pages : Ask(o, kind, p, q)
         \/ \E kind \in {"write", "patch", "rename", "delete", "move"}, p, q \in Pages : Direct(o, kind, p, q)
         \/ \E kind \in {"create", "rename", "delete"}, p, q \in Pages : Request(o, kind, p, q)
         \/ Approved(o) \/ Refused(o) \/ Save(o) \/ Reindex(o)
         \/ \E w \in todo[o] : Embedded(o, w)

Spec == Init /\ [][Next]_vaultVars

-----------------------------------------------------------------------------
(* Properties *)

Pending(p) == Embedding(p) \/ \E o \in Ops : later[o] = p
\* However the calls on a page overlap, its text can be found by a search when
\* the embeddings are over, unless its own failed; and where none overlapped,
\* nothing else is found, a page that was renamed or deleted least of all.
IndexFollows ==
    \A p \in Pages : ~Pending(p) =>
        /\ Exists(p) /\ text[p] \notin failed => text[p] \in index[p]
        /\ p \notin overlapped => index[p] \subseteq {text[p]}

\* A save, a rename or an approved change destroys no text that its author has
\* not seen, except in the windows the code leaves: an approval that comes after
\* the page has changed, a change within the second of tolerance, a save whose
\* answer carried the time of somebody else's text.
NoUnseenLoss == lost \subseteq excused
=============================================================================
