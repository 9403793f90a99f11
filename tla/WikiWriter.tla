------------------------------ MODULE WikiWriter -------------------------------
(***************************************************************************)
(* Editing the frontmatter of a vault page in the browser: wiki-page.js    *)
(* and the WikiWriteMutex that its metadata writes go through, beside the  *)
(* body saves of wiki-editor.js, PUT /api/vault and an agent that writes   *)
(* the same pages.                                                         *)
(*                                                                         *)
(* One field stands for the frontmatter: a typed control patches it, the   *)
(* raw editor replaces it.  One metadata write is out at a time; a write   *)
(* that waits has taken its page and mtime already.  The route refuses a   *)
(* write whose mtime is more than a second older than the file's; a tick   *)
(* is longer than that.                                                    *)
(***************************************************************************)
EXTENDS Integers, Sequences, SequencesExt

CONSTANTS
    Wikis,                                                     \* pages of the vault
    MaxEdits, MaxAgentWrites, MaxCalls, MaxTicks, MaxErrors, MaxVisits    \* bounds

VARIABLES
    pageFile,   \* the field of each page, when it was written, and the file's mtime
    ticks,
    view,       \* <wiki-page>: the page, its field, the mtime of that, _modified, _loading
    mutex,      \* pendingFields, metaError, lastMetaAttempt
    pended,     \* #metaTimer
    calls,      \* requests under way, oldest first
    edits, agentWrites, errors, visits,
    due,        \* the user's last edit, until it is written, told of or given up
    wrongs,     \* which of the ways to go wrong a behaviour has met
    unshown     \* values of the agent replaced by somebody who never saw them

counted == <<edits, agentWrites, errors>>
wikiVars == <<pageFile, ticks, view, mutex, pended, calls, edits, agentWrites, errors, visits,
              due, wrongs, unshown>>

Mtimes == 0..MaxTicks
ByUser(k) == 2 * k - 1
ByAgent(k) == 2 * k
Values == 0..ByAgent(MaxEdits + MaxAgentWrites)
IsAgents(v) == v # 0 /\ v % 2 = 0
Metadata == {"patch", "raw", "overwrite"}
Idle == [pending |-> 0, error |-> "none", attempt |-> "none", raw |-> 0]

TypeOK ==
    /\ pageFile \in [Wikis -> [field : Values, wrote : Mtimes, mtime : Mtimes]]
    /\ view \in [page : Wikis, field : Values, since : Mtimes, modified : Mtimes, loading : BOOLEAN]
    /\ mutex \in [pending : Values, error : {"none", "conflict", "error"},
                  attempt : {"none", "patch", "raw"}, raw : Values]
    /\ calls \in Seq([kind : Metadata \cup {"get", "body"}, page : Wikis, value : Values,
                      base : Values, since : Mtimes, modified : Mtimes, target : BOOLEAN,
                      raw : Values, of : {"patch", "raw"},
                      at : {"waiting", "sent", "written", "ok", "conflict", "error"}])
    /\ Len(calls) <= MaxCalls
    /\ due \in Values
    /\ wrongs \subseteq {"strayed", "overtook", "late"}

Init ==
    /\ pageFile = [p \in Wikis |-> [field |-> 0, wrote |-> 1, mtime |-> 1]]
    /\ ticks = 1
    /\ \E p \in Wikis :
         view = [page |-> p, field |-> 0, since |-> 1, modified |-> 1, loading |-> FALSE]
    /\ mutex = Idle /\ pended = FALSE /\ calls = <<>>
    /\ edits = 0 /\ agentWrites = 0 /\ errors = 0 /\ visits = 0
    /\ due = 0 /\ wrongs = {} /\ unshown = {}

-----------------------------------------------------------------------------
(* The mutex *)

Call(kind, value) ==
    [kind |-> kind, page |-> view.page, value |-> value, base |-> view.field,
     since |-> view.since, modified |-> view.modified, target |-> FALSE, raw |-> 0,
     of |-> "patch", at |-> "sent"]

\* metaInFlight
InFlight(cs) == \E i \in DOMAIN cs : cs[i].kind \in Metadata /\ cs[i].at # "waiting"

\* mutant: nobody waits
EnterNow(cs, c) == Append(cs, c)

\* _writeMeta
Enter(cs, c) ==
    Append(cs, IF c.kind \in Metadata /\ InFlight(cs) THEN [c EXCEPT !.at = "waiting"] ELSE c)

\* release: the one that has waited longest goes out
Woken(cs) ==
    LET waiting == {i \in DOMAIN cs : cs[i].at = "waiting"}
    IN  IF InFlight(cs) \/ waiting = {} THEN cs
        ELSE [cs EXCEPT ![CHOOSE i \in waiting : \A j \in waiting : i <= j].at = "sent"]

\* flush: what is pending goes out, unless a conflict is open
Blocked(m) == m.error = "conflict" \/ m.pending = 0
Taken(m) == IF m.error = "conflict" THEN m ELSE [m EXCEPT !.pending = 0]
Flush(m, cs, c) ==
    IF Blocked(m) THEN cs ELSE Enter(cs, [c EXCEPT !.kind = "patch", !.value = m.pending])

\* saveRaw, after its first flush: the error refuses it
RawOut(m, cs, c, raw) ==
    IF m.error # "none" THEN cs
    ELSE Enter(cs, [c EXCEPT !.kind = "raw", !.value = raw, !.raw = 0])
SaveRaw(m, cs, c, raw) ==
    IF Blocked(m) THEN RawOut(m, cs, c, raw) ELSE Flush(m, cs, [c EXCEPT !.raw = raw])

-----------------------------------------------------------------------------
(* The page *)

Room == Len(calls) < MaxCalls
\* an edit the user makes, and the page takes
NewEdit ==
    /\ ~view.loading /\ edits < MaxEdits
    /\ edits' = edits + 1 /\ due' = ByUser(edits')

\* _onMetadataChange
EditField ==
    /\ NewEdit
    /\ mutex' = [mutex EXCEPT !.pending = due']
    /\ pended' = (pended \/ mutex.error # "conflict")
    /\ UNCHANGED <<visits, pageFile, ticks, view, calls, agentWrites, errors, wrongs, unshown>>

\* the timer
FlushMetadata ==
    /\ pended /\ Room /\ pended' = FALSE
    /\ mutex' = Taken(mutex)
    /\ calls' = Flush(mutex, calls, Call("patch", 0))
    /\ UNCHANGED <<visits, pageFile, ticks, view, counted, due, wrongs, unshown>>

\* _onMetadataRawSave; the raw editor keeps what is refused
RawSave ==
    /\ NewEdit /\ Room
    /\ mutex.error = "none" \/ ~Blocked(mutex)
    /\ mutex' = Taken(mutex)
    /\ calls' = SaveRaw(mutex, calls, Call("raw", 0), due')
    /\ UNCHANGED <<visits, pageFile, ticks, view, pended, agentWrites, errors, wrongs, unshown>>

\* the buttons of an error: Overwrite sends without an mtime
Overwrite ==
    /\ mutex.error # "none" /\ ~view.loading /\ Room
    /\ LET c == [Call("overwrite", 0) EXCEPT !.of = mutex.attempt]
       IN  CASE mutex.attempt = "raw" ->
                    /\ mutex' = [mutex EXCEPT !.attempt = "none", !.raw = 0]
                    /\ calls' = Enter(calls, [c EXCEPT !.value = mutex.raw])
             [] mutex.attempt = "patch" /\ mutex.pending # 0 ->
                    /\ mutex' = [mutex EXCEPT !.attempt = "none", !.pending = 0]
                    /\ calls' = Enter(calls, [c EXCEPT !.value = mutex.pending])
             [] OTHER ->
                    /\ mutex' = [mutex EXCEPT !.attempt = "none", !.error = "none"]
                    /\ UNCHANGED calls
    /\ UNCHANGED <<visits, pageFile, ticks, view, pended, counted, due, wrongs, unshown>>

Retry ==
    /\ mutex.error # "none" /\ ~view.loading /\ Room
    /\ LET m == [mutex EXCEPT !.error = "none"]
       IN  /\ mutex' = Taken(m)
           /\ calls' = IF m.attempt = "raw" THEN SaveRaw(m, calls, Call("raw", 0), m.raw)
                       ELSE Flush(m, calls, Call("patch", 0))
    /\ UNCHANGED <<visits, pageFile, ticks, view, pended, counted, due, wrongs, unshown>>

\* _fetchPage
Fetch(cs, p) ==
    /\ visits < MaxVisits /\ visits' = visits + 1
    /\ mutex' = Idle
    /\ view' = [view EXCEPT !.page = p, !.loading = TRUE, !.field = 0]
    /\ calls' = Append(cs, [Call("get", 0) EXCEPT !.page = p])

Reload ==
    /\ mutex.error # "none" /\ ~view.loading /\ Room
    /\ Fetch(calls, view.page)
    /\ due' = 0
    /\ UNCHANGED <<pageFile, ticks, pended, counted, wrongs, unshown>>

\* mutant: what is pending goes with the page
NavigateUnflushed ==
    /\ Room
    /\ \E p \in Wikis \ {view.page} : Fetch(calls, p)
    /\ UNCHANGED <<pageFile, ticks, pended, counted, due, wrongs, unshown>>

\* willUpdate: flush for the page that is left; a conflict becomes an orphan's notice
Navigate ==
    /\ Len(calls) + 1 < MaxCalls
    /\ \E p \in Wikis \ {view.page} :
         Fetch(Flush(mutex, calls, [Call("patch", 0) EXCEPT !.target = TRUE]), p)
    /\ pended' = FALSE
    /\ due' = IF mutex.error = "conflict" /\ due = mutex.pending THEN 0 ELSE due
    /\ UNCHANGED <<pageFile, ticks, counted, wrongs, unshown>>

\* wiki-editor.js saves the body, with the same mtime
SaveBody ==
    /\ ~view.loading /\ Room /\ edits < MaxEdits /\ edits' = edits + 1
    /\ \A i \in DOMAIN calls : calls[i].kind # "body"
    /\ calls' = Append(calls, Call("body", 0))
    /\ UNCHANGED <<visits, pageFile, ticks, view, mutex, pended, agentWrites, errors, due, wrongs, unshown>>

-----------------------------------------------------------------------------
(* PUT and GET /api/vault, and the agent *)

Serve ==
    /\ \E i \in DOMAIN calls :
         LET c == calls[i]
             f == pageFile[c.page]
         IN  /\ c.at = "sent"
             /\ CASE c.kind = "get" ->
                         /\ calls' = [calls EXCEPT ![i] = [c EXCEPT !.at = "ok", !.value = f.field,
                                                             !.modified = f.mtime, !.since = f.mtime]]
                         /\ UNCHANGED <<pageFile, due, unshown>>
                  [] c.kind # "get" /\ c.kind # "overwrite" /\ f.mtime > c.modified ->
                         /\ calls' = [calls EXCEPT ![i].at = "conflict"]
                         /\ UNCHANGED <<pageFile, due, unshown>>
                  [] OTHER ->
                         /\ pageFile' = [pageFile EXCEPT ![c.page] =
                              IF c.kind = "body" THEN [f EXCEPT !.mtime = ticks]
                              ELSE [field |-> c.value, wrote |-> ticks, mtime |-> ticks]]
                         /\ calls' = [calls EXCEPT ![i].at = "written", ![i].since = ticks]
                         /\ due' = IF due = c.value THEN 0 ELSE due
                         /\ unshown' = IF c.kind \in {"patch", "raw"} /\ IsAgents(f.field)
                                          /\ f.field # c.base /\ f.wrote > c.since
                                       THEN unshown \cup {f.field} ELSE unshown
    /\ UNCHANGED <<visits, ticks, view, mutex, pended, counted, wrongs>>

\* after the index was told, the mtime of the answer is read
Stat ==
    /\ \E i \in DOMAIN calls :
         /\ calls[i].at = "written"
         /\ LET mtime == pageFile[calls[i].page].mtime
            IN  /\ calls' = [calls EXCEPT ![i].at = "ok", ![i].modified = mtime]
                /\ wrongs' = IF mtime > calls[i].since THEN wrongs \cup {"late"} ELSE wrongs
    /\ UNCHANGED <<visits, pageFile, ticks, view, mutex, pended, counted, due, unshown>>

AgentWrites ==
    /\ agentWrites < MaxAgentWrites /\ agentWrites' = agentWrites + 1
    /\ \E p \in Wikis : pageFile' = [pageFile EXCEPT ![p] =
                            [field |-> ByAgent(agentWrites'), wrote |-> ticks, mtime |-> ticks]]
    /\ UNCHANGED <<visits, ticks, view, mutex, pended, calls, edits, errors, due, wrongs, unshown>>

Tick ==
    /\ ticks < MaxTicks /\ ticks' = ticks + 1
    /\ UNCHANGED <<visits, pageFile, view, mutex, pended, calls, counted, due, wrongs, unshown>>

NetFails ==
    /\ errors < MaxErrors /\ errors' = errors + 1
    /\ \E i \in DOMAIN calls : calls[i].at = "sent" /\ calls' = [calls EXCEPT ![i].at = "error"]
    /\ UNCHANGED <<visits, pageFile, ticks, view, mutex, pended, edits, agentWrites, due, wrongs, unshown>>

-----------------------------------------------------------------------------
(* The answers *)

Done(c) == c.at \in {"ok", "conflict", "error"}
Ok(c) == c.at = "ok"
Error(c) == IF c.at = "conflict" THEN "conflict" ELSE "error"

Fetched(c, rest) ==
    /\ c.kind = "get"
    /\ view' = [view EXCEPT !.loading = FALSE, !.field = c.value,
                            !.modified = IF Ok(c) THEN c.modified ELSE @,
                            !.since = IF Ok(c) THEN c.since ELSE @]
    /\ wrongs' = IF c.page # view.page \/ ~view.loading \/ ~Ok(c) THEN wrongs \cup {"strayed"}
                                                                 ELSE wrongs
    /\ calls' = rest /\ UNCHANGED <<mutex, due>>

\* _onSaved takes the mtime, whatever page it is of
BodySaved(c, rest) ==
    /\ c.kind = "body"
    /\ view' = IF Ok(c) THEN [view EXCEPT !.modified = c.modified,
                                          !.since = IF c.page = view.page THEN c.since ELSE @]
                        ELSE view
    /\ wrongs' = IF Ok(c) /\ c.page # view.page THEN wrongs \cup {"strayed"} ELSE wrongs
    /\ calls' = rest /\ UNCHANGED <<mutex, due>>

\* mutant: the answer of a page left long ago is taken too
AdoptedAlways(c) ==
    IF Ok(c) THEN [view EXCEPT !.modified = c.modified,
                               !.since = IF c.page = view.page THEN c.since ELSE @] ELSE view

\* #apiPut takes the answer of the page on show
Adopted(c) ==
    IF Ok(c) /\ c.page = view.page
    THEN [view EXCEPT !.field = c.value, !.modified = c.modified, !.since = c.since] ELSE view
Settled(c) ==
    IF Ok(c) /\ ~c.target THEN [mutex EXCEPT !.error = "none", !.attempt = "none", !.raw = 0]
                          ELSE mutex
Again(c) == [c EXCEPT !.at = "sent", !.raw = 0, !.target = FALSE]

\* mutant: the edit that failed is gone
FailedPatchForgets(c) ==
    [mutex EXCEPT !.error = Error(c), !.attempt = "patch"]

\* pendingFields = { ...fields, ...pendingFields }
FailedPatch(c) ==
    [mutex EXCEPT !.error = Error(c), !.attempt = "patch",
                  !.pending = IF @ = 0 THEN c.value ELSE @]

\* what failed comes back to the page on show, and over what waits behind it
Astray(c, rest) ==
    IF Ok(c) \/ c.target THEN {}
    ELSE (IF c.page # view.page THEN {"strayed"} ELSE {})
         \cup (IF \E i \in DOMAIN rest : rest[i].at = "waiting" THEN {"overtook"} ELSE {})

PatchAnswered(c, rest) ==
    /\ c.kind = "patch"
    /\ view' = Adopted(c)
    /\ mutex' = IF Ok(c) \/ c.target THEN Settled(c) ELSE FailedPatch(c)
    /\ calls' = IF c.raw # 0 /\ Ok(c) THEN RawOut(mutex', Woken(rest), Again(c), c.raw) ELSE Woken(rest)
    /\ due' = IF ~Ok(c) /\ ((c.target /\ due = c.value) \/ due = c.raw) THEN 0 ELSE due
    /\ wrongs' = wrongs \cup Astray(c, rest)

\* a refused raw save stays in its editor
RawAnswered(c, rest) ==
    /\ c.kind = "raw" /\ view' = Adopted(c)
    /\ LET m == IF c.at = "conflict"
                THEN [mutex EXCEPT !.error = "conflict", !.attempt = "raw", !.raw = c.value]
                ELSE Settled(c)
       IN  IF Ok(c) THEN mutex' = Taken(m) /\ calls' = Flush(m, Woken(rest), Again(c))
                    ELSE mutex' = m /\ calls' = Woken(rest)
    /\ due' = IF ~Ok(c) /\ due = c.value THEN 0 ELSE due
    /\ UNCHANGED wrongs

OverwriteAnswered(c, rest) ==
    /\ c.kind = "overwrite" /\ view' = Adopted(c)
    /\ LET m == IF Ok(c) THEN Settled(c)
                ELSE IF c.of = "patch" THEN [FailedPatch(c) EXCEPT !.error = "error"]
                ELSE [mutex EXCEPT !.error = "error", !.attempt = "raw", !.raw = c.value]
       IN  IF Ok(c) THEN mutex' = Taken(m) /\ calls' = Flush(m, Woken(rest), Again(c))
                    ELSE mutex' = m /\ calls' = Woken(rest)
    /\ wrongs' = wrongs \cup Astray(c, rest)
    /\ UNCHANGED due

Answered ==
    /\ \E i \in DOMAIN calls :
         LET c == calls[i]
             rest == RemoveAt(calls, i)
         IN  /\ Done(c)
             /\ \/ Fetched(c, rest) \/ BodySaved(c, rest) \/ PatchAnswered(c, rest)
                \/ RawAnswered(c, rest) \/ OverwriteAnswered(c, rest)
    /\ UNCHANGED <<visits, pageFile, ticks, pended, counted, unshown>>

Next ==
    \/ EditField \/ FlushMetadata \/ RawSave \/ Overwrite \/ Retry \/ Reload \/ Navigate
    \/ SaveBody \/ Serve \/ Stat \/ AgentWrites \/ Tick \/ NetFails \/ Answered

Spec == Init /\ [][Next]_wikiVars

-----------------------------------------------------------------------------
(* Properties *)

\* The user's last edit of the metadata is never gone before it is written, or
\* the user was told of its failure: it is pending, or in a call.  The ways to
\* lose it are a write that fails after its page was left, or while a later
\* write of the same field waits behind it.
NoEditVanishes ==
    due # 0 /\ wrongs \cap {"strayed", "overtook"} = {} =>
        \/ due = mutex.pending
        \/ \E i \in DOMAIN calls : due \in {calls[i].value, calls[i].raw}

\* A metadata write that carries an mtime replaces nothing of the agent's that
\* the page did not show, but for what the agent wrote within the same second,
\* as long as every mtime the page took was that of what it showed.
NoBlindFields == wrongs \cap {"strayed", "late"} = {} => unshown = {}

\* Metadata writes go out one by one.
OneWriteAtATime ==
    \A i, j \in DOMAIN calls :
        calls[i].kind \in Metadata /\ calls[i].at # "waiting"
        /\ calls[j].kind \in Metadata /\ calls[j].at # "waiting" => i = j
=============================================================================
