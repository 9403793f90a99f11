----------------------------- MODULE ModelCatalog -----------------------------
(***************************************************************************)
(* The catalog of discovered models: model_catalog.py and its routes, the  *)
(* watcher that applies edits of config.json to the running process        *)
(* (config_watcher.py), how a turn finds its model, and two views of one   *)
(* browser page: the picker of the chat and the panel of the catalog       *)
(* (model-catalog.js).                                                     *)
(*                                                                         *)
(* Three places hold the models: config.json (the hand-authored ones), the *)
(* sidecar (what the gateways reported, with the flags of the user), and   *)
(* the live configuration, which is the first with the enabled ones of the *)
(* second.  The code has no suspension point between loading the sidecar   *)
(* and applying it, so a change is one step; discovery is several.         *)
(***************************************************************************)
EXTENDS Integers, Sequences, FiniteSets, SequencesExt

CONSTANTS
    GatewayOf,      \* the provider that serves each model that can be discovered
    Own,            \* names of models that are only ever written by hand
    Pointers,       \* "default", "reflection", "aux", ...: the pointers of the sidecar
    Seed,           \* what config.json says for each of them
    Watched,        \* whether a browser page is open
    MaxEdits, MaxSupplies, MaxChanges, MaxRefreshes, MaxRestarts, MaxFaults   \* bounds

Models == DOMAIN GatewayOf
Gateways == {GatewayOf[m] : m \in Models}
Keys == Models \cup Own
Unset == ""

SeedFits == Seed \in [Pointers -> Keys \cup {Unset}] /\ Unset \notin Keys

VARIABLES
    text, torn,     \* config.json; whether it is half written
    sig, polling,   \* the signature the watcher keeps; the one it has just taken
    phase,          \* loaded, up, or stopping for a restart
    live,           \* the running Config: model_configs, providers, http
    materialized,   \* catalog_materialized
    sidecar,        \* model_catalog.json
    supply,         \* what the gateways would report
    refreshes,      \* discoveries under way
    picker,         \* the picker of the page: whether connected, models, default
    panel,          \* what the panel shows, and whether it is busy
    asks, answers,  \* the panel's requests and what comes back
    applied, authored, flags, behind,                       \* ghosts
    edits, changes, supplies, started, restarts, faults,
    mishaps         \* ghost: ways to go wrong the behaviour has met

fileVars == <<text, torn, sig, polling, phase>>
liveVars == <<live, materialized, sidecar, applied, authored, flags>>
pageVars == <<picker, panel, asks, answers, behind>>
counts == <<edits, changes, supplies, started, restarts, faults>>
catalogVars == <<fileVars, liveVars, pageVars, supply, refreshes, counts, mishaps>>

Texts == [hand : SUBSET Keys, gateways : SUBSET Gateways, port : {1, 2}]
\* load_config of a file that does not parse: the defaults of the dataclasses, with
\* none of the user's models and providers
Defaults == [hand |-> {}, gateways |-> {}, port |-> 1]
Loaded == IF torn THEN Defaults ELSE text
\* _file_signature: a hash of the content
Signature == [text |-> text, torn |-> torn]
NoPoll == [text |-> Defaults, torn |-> TRUE]

-----------------------------------------------------------------------------
(* The catalog and the configuration *)

\* mutant: every enabled key belongs to the catalog
ClaimedAll(configs, owned, cat) == {k \in Models : cat.found[k] = "on"}

\* apply_catalog creates what is enabled and not there, and owns only that
Claimed(configs, owned, cat) ==
    {k \in Models : cat.found[k] = "on" /\ (configs[k] = "none" \/ k \in owned)}

Pruned(configs, owned, cat) ==
    [k \in Keys |-> CASE k \in Models /\ k \in Claimed(configs, owned, cat) /\ configs[k] = "none" -> "found"
                      [] k \in owned /\ cat.found[k] # "on" -> "none"
                      [] OTHER -> configs[k]]

Applied(configs, owned, cat) ==
    /\ live' = [live EXCEPT !.configs = Pruned(configs, owned, cat)]
    /\ materialized' = Claimed(configs, owned, cat)
    /\ applied' = TRUE

Written(hand) == [k \in Keys |-> IF k \in hand THEN "hand" ELSE "none"]

\* picker_models: the hand-authored, and what the file says is enabled
PickerModels(configs, owned, cat) ==
    {k \in Keys : configs[k] # "none" /\ k \notin owned} \cup {k \in Models : cat.found[k] = "on"}

\* mutant: the pointer is not checked against the models there are
EffectiveUnchecked(p, configs, cat) == IF cat.pointer[p] # Unset THEN cat.pointer[p] ELSE Seed[p]

\* effective_default_model, and the judges: the pointer if it can be selected, or the seed
Effective(p, configs, cat) ==
    IF cat.pointer[p] # Unset /\ configs[cat.pointer[p]] # "none" THEN cat.pointer[p] ELSE Seed[p]

\* effective_aux_approval_model: the seed too must be a model; then the global default
EffectiveAux(configs, cat) ==
    LET e == Effective("aux", configs, cat)
    IN  IF e # Unset /\ configs[e] # "none" THEN e ELSE Effective("default", configs, cat)

\* catalog_payload; an inherited judge of approvals is not named
Payload(configs, owned, cat) ==
    [found |-> cat.found, failed |-> cat.failed, pointer |-> cat.pointer,
     models |-> PickerModels(configs, owned, cat),
     effective |-> [p \in Pointers |->
        IF p # "aux" THEN Effective(p, configs, cat)
        ELSE IF cat.pointer["aux"] = Unset /\ Seed["aux"] = Unset THEN Unset
        ELSE EffectiveAux(configs, cat)]]

NoView == [found |-> [m \in Models |-> "absent"], failed |-> {}, models |-> {},
           pointer |-> [p \in Pointers |-> Unset], effective |-> [p \in Pointers |-> Unset]]

\* what is sent to the pickers
Offer(configs, owned, cat) ==
    [on |-> TRUE, models |-> PickerModels(configs, owned, cat),
     default |-> IF "default" \in Pointers THEN Effective("default", configs, cat) ELSE Unset]

\* mutant: nothing is published
AnnounceNothing == UNCHANGED picker

\* models_changed: every socket is sent the list again; panels are not told
Announce ==
    picker' = IF picker.on THEN Offer(live'.configs, materialized', sidecar') ELSE picker

\* who does not know of the change: the panel, unless it made it
Unaware(by) == behind' = IF by = "panel" THEN {} ELSE {"panel"}

Answered(by, kind) ==
    answers' = IF by = "panel"
               THEN Append(answers, [kind |-> kind, good |-> TRUE,
                                     view |-> Payload(live'.configs, materialized', sidecar')])
               ELSE answers

\* save_catalog; a failed write is logged, and the change applied all the same
Saved(cat, good) ==
    /\ Applied(live.configs, materialized, cat)
    /\ IF good THEN sidecar' = cat /\ UNCHANGED <<faults, mishaps>>
       ELSE /\ faults < MaxFaults /\ faults' = faults + 1
            /\ mishaps' = mishaps \cup {"unsaved"} /\ UNCHANGED sidecar

Init ==
    /\ text = [hand |-> Own, gateways |-> Gateways, port |-> 1] /\ torn = FALSE
    /\ sig = Signature /\ polling = NoPoll /\ phase = "loaded"
    /\ live = [configs |-> Written(Own), gateways |-> Gateways, port |-> 1]
    /\ materialized = {} /\ authored = Own /\ applied = FALSE
    /\ sidecar = [found |-> [m \in Models |-> "absent"], failed |-> {},
                  pointer |-> [p \in Pointers |-> Unset]]
    /\ flags = [m \in Models |-> "none"]
    /\ supply = [m \in Models |-> "full"] /\ refreshes = <<>>
    /\ picker = [on |-> FALSE, models |-> {}, default |-> Unset]
    /\ panel = [open |-> FALSE, view |-> NoView, busy |-> FALSE]
    /\ asks = <<>> /\ answers = <<>> /\ behind = {}
    /\ edits = 0 /\ changes = 0 /\ supplies = 0 /\ started = 0 /\ restarts = 0 /\ faults = 0
    /\ mishaps = {}

TypeOK ==
    /\ SeedFits
    /\ text \in Texts /\ torn \in BOOLEAN
    /\ sig \in [text : Texts, torn : BOOLEAN] /\ polling \in [text : Texts, torn : BOOLEAN]
    /\ phase \in {"loaded", "up", "stopping"}
    /\ live \in [configs : [Keys -> {"none", "hand", "found"}], gateways : SUBSET Gateways,
                 port : {1, 2}]
    /\ materialized \subseteq Models /\ authored \subseteq Keys
    /\ sidecar.found \in [Models -> {"absent", "off", "on"}] /\ sidecar.failed \subseteq Gateways
    /\ sidecar.pointer \in [Pointers -> Keys \cup {Unset}]
    /\ supply \in [Models -> {"absent", "plain", "full"}]
    /\ \A r \in ToSet(refreshes) : r.asked \subseteq Gateways /\ r.by \in {"boot", "panel", "tab"}
    /\ picker.on \in BOOLEAN /\ picker.models \subseteq Keys
    /\ panel.busy \in BOOLEAN /\ behind \subseteq {"picker", "panel"}
    /\ \A a \in ToSet(asks) \cup ToSet(answers) : a.kind \in {"fetch", "model", "all", "point", "discover"}

-----------------------------------------------------------------------------
(* Discovery *)

Served(g) == {m \in Models : GatewayOf[m] = g}

\* refresh_catalog asks the registered providers at the same time
Refresh(by) ==
    /\ started < MaxRefreshes /\ started' = started + 1
    /\ refreshes' = Append(refreshes, [by |-> by, asked |-> live.gateways, got |-> <<>>])

\* _discover_provider: what the gateway has now, or an error
Reports(i, g) ==
    /\ i \in DOMAIN refreshes
    /\ g \in refreshes[i].asked \ {x.gateway : x \in ToSet(refreshes[i].got)}
    /\ \E good \in BOOLEAN :
         /\ good \/ faults < MaxFaults
         /\ faults' = IF good THEN faults ELSE faults + 1
         /\ refreshes' = [refreshes EXCEPT ![i].got = Append(@,
                            [gateway |-> g, good |-> good, has |-> [m \in Served(g) |-> supply[m]]])]
    /\ UNCHANGED <<fileVars, liveVars, pageVars, supply, edits, changes, supplies, started,
                   restarts, mishaps>>

\* default_enabled: chat, tools, a window, and confirmed live
DefaultFlag(offer) == IF offer = "full" THEN "on" ELSE "off"

\* mutant: a refresh starts from the defaults again
MergedAnew(cat, res) ==
    [cat EXCEPT !.failed = @ \ {res.gateway},
        !.found = [m \in Models |-> IF m \notin DOMAIN res.has THEN @[m]
                                    ELSE IF res.has[m] = "absent" THEN "absent"
                                    ELSE DefaultFlag(res.has[m])]]

\* _merge_discovered: the flags of the models that are still there stay; after an error
\* everything stays
Merged(cat, res) ==
    IF ~res.good THEN [cat EXCEPT !.failed = @ \cup {res.gateway}]
    ELSE [cat EXCEPT !.failed = @ \ {res.gateway},
            !.found = [m \in Models |-> IF m \notin DOMAIN res.has THEN @[m]
                                        ELSE IF res.has[m] = "absent" THEN "absent"
                                        ELSE IF @[m] # "absent" THEN @[m]
                                        ELSE DefaultFlag(res.has[m])]]

\* under the lock the file is loaded again, and the results are merged into that
FinishRefresh(i) ==
    /\ i \in DOMAIN refreshes
    /\ Len(refreshes[i].got) = Cardinality(refreshes[i].asked)
    /\ \E good \in BOOLEAN :
         LET cat == FoldLeft(Merged, sidecar, refreshes[i].got)
         IN  /\ Saved(cat, good)
             /\ flags' = [m \in Models |-> IF cat.found[m] = "absent" THEN "none" ELSE flags[m]]
    /\ refreshes' = RemoveAt(refreshes, i)
    /\ Announce /\ Unaware(refreshes[i].by) /\ Answered(refreshes[i].by, "discover")
    /\ UNCHANGED <<fileVars, authored, panel, asks, supply, edits, changes, supplies, started,
                   restarts>>

GatewayChanges(m) ==
    /\ supplies < MaxSupplies /\ supplies' = supplies + 1
    /\ \E offer \in {"absent", "plain", "full"} \ {supply[m]} : supply' = [supply EXCEPT ![m] = offer]
    /\ UNCHANGED <<fileVars, liveVars, pageVars, refreshes, edits, changes, started, restarts,
                   faults, mishaps>>

-----------------------------------------------------------------------------
(* Changes by the user, from the panel or from another tab *)

Op(kind, what, to) == [kind |-> kind, what |-> what, to |-> to]
UserOps ==
    {Op("model", m, to) : m \in Models, to \in {"on", "off"}} \cup
    {Op("all", g, to) : g \in Gateways, to \in {"on", "off"}} \cup
    {Op("point", p, to) : p \in Pointers, to \in Keys \cup {Unset}}

Touched(op) ==
    CASE op.kind = "model" -> {op.what} \cap {m \in Models : sidecar.found[m] # "absent"}
      [] op.kind = "all" -> {m \in Served(op.what) : sidecar.found[m] # "absent"}
      [] op.kind = "point" -> {}

\* 404 for a model that is not in the catalog, 400 for a name that is not offered
Refused(op) ==
    IF op.kind = "point"
    THEN op.to # Unset /\ op.to \notin PickerModels(live.configs, materialized, sidecar)
    ELSE Touched(op) = {}

\* set_model_enabled, set_provider_models_enabled, and the setters of the four pointers
Set(cat, op) ==
    IF op.kind = "point" THEN [cat EXCEPT !.pointer[op.what] = op.to]
    ELSE [cat EXCEPT !.found = [m \in Models |-> IF m \in Touched(op) THEN op.to ELSE @[m]]]

Change(by, op, good) ==
    /\ Saved(Set(sidecar, op), good)
    /\ flags' = [m \in Models |-> IF m \in Touched(op) THEN op.to ELSE flags[m]]
    /\ Announce /\ Unaware(by) /\ Answered(by, op.kind)

TabChanges(op) ==
    /\ changes < MaxChanges /\ changes' = changes + 1
    /\ ~Refused(op)
    /\ \E good \in BOOLEAN : Change("tab", op, good)
    /\ UNCHANGED <<fileVars, authored, panel, asks, supply, refreshes, edits, supplies, started,
                   restarts>>

TabRefreshes ==
    /\ ~Watched /\ phase # "loaded" /\ Refresh("tab")
    /\ UNCHANGED <<fileVars, liveVars, pageVars, supply, edits, changes, supplies, restarts,
                   faults, mishaps>>

-----------------------------------------------------------------------------
(* config.json and its watcher; the start of the process *)

\* an editor writes the file in one go, or truncates it first
Edit(new) ==
    /\ edits < MaxEdits /\ edits' = edits + 1 /\ ~torn
    /\ text' = new /\ torn' \in BOOLEAN /\ (new = text => torn')
    /\ mishaps' = mishaps \cup (IF phase = "loaded" THEN {"early"} ELSE {})
                         \cup (IF polling # NoPoll THEN {"raced"} ELSE {})
                         \cup (IF new.gateways # Gateways THEN {"removed"} ELSE {})
    /\ UNCHANGED <<sig, polling, phase, liveVars, pageVars, supply, refreshes, changes, supplies,
                   started, restarts, faults>>

EditAway(k) == Edit([text EXCEPT !.hand = IF k \in @ THEN @ \ {k} ELSE @ \cup {k}])
EditGateways(g) == Edit([text EXCEPT !.gateways = IF g \in @ THEN @ \ {g} ELSE @ \cup {g}])
EditPort == Edit([text EXCEPT !.port = 3 - @])
SaveAgain == Edit(text)

Completes ==
    /\ torn /\ torn' = FALSE
    /\ mishaps' = IF phase = "loaded" THEN mishaps \cup {"early"} ELSE mishaps
    /\ UNCHANGED <<text, sig, polling, phase, liveVars, pageVars, supply, refreshes, counts>>

\* mutant: the signature of a torn file is kept
PollSeesTorn ==
    /\ phase = "up" /\ polling = NoPoll /\ Signature # sig
    /\ IF torn THEN sig' = [Signature EXCEPT !.torn = FALSE] /\ UNCHANGED polling
       ELSE polling' = Signature /\ UNCHANGED sig
    /\ UNCHANGED <<text, torn, phase, liveVars, pageVars, supply, refreshes, counts, mishaps>>

\* the poll: the file has changed, and it parses
PollSees ==
    /\ phase = "up" /\ polling = NoPoll /\ Signature # sig
    /\ ~torn /\ polling' = Signature
    /\ UNCHANGED <<text, torn, sig, phase, liveVars, pageVars, supply, refreshes, counts, mishaps>>

\* _reapply_model_catalog: the reload has dropped what the catalog had put there
Reapplied(hand) ==
    LET written == Written(hand)
    IN  /\ materialized' = Claimed(written, {}, sidecar) /\ applied' = TRUE
        /\ live' = [live EXCEPT !.gateways = Loaded.gateways,
                                !.configs = Pruned(written, {}, sidecar)]

\* the rest of the poll reads the file again: it is another process that writes it.
\* A change of http stops this one; the others are applied, and no picker is told
PollLoads ==
    /\ phase = "up" /\ polling # NoPoll /\ polling' = NoPoll /\ sig' = polling
    /\ IF Loaded.port # live.port
       THEN phase' = "stopping" /\ UNCHANGED <<live, materialized, applied, authored>>
       ELSE /\ authored' = Loaded.hand /\ UNCHANGED phase
            /\ IF Written(Loaded.hand) # live.configs THEN Reapplied(Loaded.hand)
               ELSE /\ live' = [live EXCEPT !.gateways = Loaded.gateways]
                    /\ UNCHANGED <<materialized, applied>>
    /\ behind' = IF live' = live THEN behind ELSE {"picker", "panel"}
    /\ UNCHANGED <<text, torn, sidecar, flags, picker, panel, asks, answers, supply, refreshes,
                   counts, mishaps>>

Failure(kind) == [kind |-> kind, good |-> FALSE, view |-> NoView]
Kinds(q) == [i \in DOMAIN q |-> q[i].kind]
\* what the panel still waits for
Unfinished ==
    Kinds(asks) \o Kinds(answers)
        \o [i \in DOMAIN SelectSeq(refreshes, LAMBDA r : r.by = "panel") |-> "discover"]

\* the process ends, of a crash or after the grace of the watcher, and starts again
Restart ==
    /\ restarts < MaxRestarts /\ restarts' = restarts + 1
    /\ phase' = "loaded" /\ polling' = NoPoll /\ sig' = Signature
    /\ live' = [configs |-> Written(Loaded.hand), gateways |-> Loaded.gateways,
                port |-> Loaded.port]
    /\ materialized' = {} /\ authored' = Loaded.hand /\ applied' = FALSE
    /\ refreshes' = <<>> /\ picker' = [picker EXCEPT !.on = FALSE]
    /\ asks' = <<>> /\ answers' = [i \in DOMAIN Unfinished |-> Failure(Unfinished[i])]
    /\ behind' = {"panel"}
    /\ UNCHANGED <<text, torn, sidecar, flags, panel, supply, edits, changes, supplies, started,
                   faults, mishaps>>

\* run_all: the watcher takes its first signature, and discovery is kicked off
WatcherStarts ==
    /\ phase = "loaded" /\ phase' = "up" /\ sig' = Signature
    /\ Refresh("boot")
    /\ UNCHANGED <<text, torn, polling, liveVars, pageVars, supply, edits, changes, supplies,
                   restarts, faults, mishaps>>

-----------------------------------------------------------------------------
(* The page *)

outside == <<fileVars, liveVars, supply, refreshes, edits, supplies, started, restarts>>

\* a new socket is sent the list, and so is a conversation that is selected, when
\* there is one
Connect ==
    /\ Watched /\ phase # "loaded"
    /\ LET offer == Offer(live.configs, materialized, sidecar)
       IN  IF offer.models # {} THEN picker' = offer /\ behind' = behind \ {"picker"}
           ELSE picker' = [picker EXCEPT !.on = TRUE] /\ behind' = behind \cup {"picker"}
    /\ UNCHANGED <<outside, panel, asks, answers, changes, faults, mishaps>>

OpenPanel ==
    /\ Watched /\ ~panel.open
    /\ panel' = [panel EXCEPT !.open = TRUE]
    /\ asks' = Append(asks, Op("fetch", Unset, Unset))
    /\ UNCHANGED <<outside, picker, answers, behind, changes, faults, mishaps>>

Asks(op) ==
    /\ panel.open /\ ~panel.busy /\ changes < MaxChanges /\ changes' = changes + 1
    /\ panel' = [panel EXCEPT !.busy = TRUE]
    /\ asks' = Append(asks, op)
    /\ UNCHANGED <<outside, picker, answers, behind, faults, mishaps>>

\* the button is there while the catalog still loads
ClickRefresh == Asks(Op("discover", Unset, Unset))

\* what the panel offers
Click(op) ==
    /\ CASE op.kind = "model" -> panel.view.found[op.what] \notin {"absent", op.to}
         [] op.kind = "all" -> \E m \in Served(op.what) : panel.view.found[m] # "absent"
         [] op.kind = "point" -> /\ panel.view # NoView /\ op.to # panel.view.pointer[op.what]
                                 /\ op.to \in panel.view.models \cup {Unset}
    /\ Asks(op)

ServeFetch(i) ==
    /\ i \in DOMAIN asks /\ asks[i].kind = "fetch" /\ phase # "loaded"
    /\ asks' = RemoveAt(asks, i)
    /\ answers' = Append(answers, [kind |-> "fetch", good |-> TRUE,
                                   view |-> Payload(live.configs, materialized, sidecar)])
    /\ behind' = behind \ {"panel"}
    /\ UNCHANGED <<outside, picker, panel, changes, faults, mishaps>>

ServeDiscover(i) ==
    /\ i \in DOMAIN asks /\ asks[i].kind = "discover" /\ phase # "loaded"
    /\ asks' = RemoveAt(asks, i)
    /\ Refresh("panel")
    /\ UNCHANGED <<fileVars, liveVars, picker, panel, answers, behind, supply, edits, changes,
                   supplies, restarts, faults, mishaps>>

ServeChange(i) ==
    /\ i \in DOMAIN asks /\ asks[i].kind \in {"model", "all", "point"} /\ phase # "loaded"
    /\ asks' = RemoveAt(asks, i)
    /\ IF Refused(asks[i])
       THEN /\ answers' = Append(answers, Failure(asks[i].kind))
            /\ UNCHANGED <<live, materialized, applied, sidecar, flags, picker, behind, faults,
                           mishaps>>
       ELSE \E good \in BOOLEAN : Change("panel", asks[i], good)
    /\ UNCHANGED <<fileVars, authored, panel, supply, refreshes, edits, changes, supplies,
                   started, restarts>>

AskFails(i) ==
    /\ i \in DOMAIN asks /\ faults < MaxFaults /\ faults' = faults + 1
    /\ asks' = RemoveAt(asks, i) /\ answers' = Append(answers, Failure(asks[i].kind))
    /\ UNCHANGED <<outside, picker, panel, behind, changes, mishaps>>

\* the handlers go on: a change that failed asks for the catalog again
Arrives(i) ==
    /\ i \in DOMAIN answers /\ answers' = RemoveAt(answers, i)
    /\ LET a == answers[i]
       IN  /\ panel' = [panel EXCEPT !.busy = @ /\ a.kind = "fetch",
                                     !.view = IF a.good THEN a.view ELSE @]
           /\ asks' = IF a.good \/ a.kind \in {"fetch", "discover"} THEN asks
                      ELSE Append(asks, Op("fetch", Unset, Unset))
           /\ mishaps' = mishaps \cup (IF i > 1 THEN {"crossed"} ELSE {})
                                \cup (IF ~a.good THEN {"failed"} ELSE {})
    /\ UNCHANGED <<outside, picker, behind, changes, faults>>

Next ==
    \/ \E i \in DOMAIN refreshes : FinishRefresh(i) \/ \E g \in Gateways : Reports(i, g)
    \/ \E m \in Models : GatewayChanges(m)
    \/ \E op \in UserOps : TabChanges(op) \/ Click(op)
    \/ \E k \in Keys : EditAway(k)
    \/ \E g \in Gateways : EditGateways(g)
    \/ EditPort \/ SaveAgain \/ Completes \/ PollSees \/ PollLoads
    \/ Restart \/ WatcherStarts \/ TabRefreshes \/ Connect \/ OpenPanel \/ ClickRefresh
    \/ \E i \in DOMAIN asks : ServeFetch(i) \/ ServeDiscover(i) \/ ServeChange(i) \/ AskFails(i)
    \/ \E i \in DOMAIN answers : Arrives(i)

Spec == Init /\ [][Next]_catalogVars

-----------------------------------------------------------------------------
(* Properties *)

\* _handle_set_model, _resolve_model_override and _resolve: the model a turn runs on
\* when its conversation has picked one; if that cannot be found, the default
TurnModel(k) ==
    IF live.configs[k] = "none" THEN Effective("default", live.configs, sidecar)
    ELSE IF live.configs[k] = "found" /\ GatewayOf[k] \notin live.gateways THEN Unset
    ELSE k

\* What the picker offers can be run.  Not so before the catalog has been applied
\* for the first time since the start, after a failed save, and for the models of
\* a provider that is not configured any more.
OfferedModelsRun ==
    applied /\ "unsaved" \notin mishaps =>
        \A k \in PickerModels(live.configs, materialized, sidecar) :
            TurnModel(k) = k \/ (k \in Models /\ GatewayOf[k] \notin live.gateways)

\* The models of the running process are the hand-authored ones of the
\* configuration it has loaded, which the catalog neither replaces nor removes, and
\* those that the catalog enables; and it owns those alone.
ConfigsAreRight ==
    /\ {k \in Keys : live.configs[k] = "hand"} = authored
    /\ materialized = {k \in Keys : live.configs[k] = "found"}
    /\ applied /\ "unsaved" \notin mishaps =>
          materialized = {m \in Models : sidecar.found[m] = "on"} \ authored

\* A model stays switched on, or off, as the user left it: discovery may remove it,
\* and changes no flag.
FlagsStay ==
    \A m \in Models : flags[m] # "none" /\ "unsaved" \notin mishaps => sidecar.found[m] = flags[m]

\* A pointer of the sidecar is in force while its model is offered, and never leads
\* to a model that is not; then what config.json says applies.
PointersHold ==
    applied /\ "unsaved" \notin mishaps =>
        \A p \in Pointers \ {"aux"} :
            Effective(p, live.configs, sidecar) =
                IF sidecar.pointer[p] \in PickerModels(live.configs, materialized, sidecar)
                THEN sidecar.pointer[p] ELSE Seed[p]

\* An edit of config.json reaches the process: the poll after it applies it, or
\* stops the process.  Not so for an edit between the start's load and the first
\* signature ("early"), nor for a save that crosses a poll ("raced").
EditsAreApplied ==
    phase = "up" /\ polling = NoPoll /\ sig = Signature /\ ~torn
            /\ mishaps \cap {"early", "raced"} = {} =>
        authored = text.hand /\ live.gateways = text.gateways /\ live.port = text.port

\* The page's two views are right when nothing is under way, unless it was not told.
ViewsAreRight ==
    /\ picker.on /\ "picker" \notin behind =>
          picker = Offer(live.configs, materialized, sidecar)
    /\ panel.open /\ asks = <<>> /\ answers = <<>> /\ "panel" \notin behind
            /\ mishaps \cap {"crossed", "failed"} = {}
            /\ (\A r \in ToSet(refreshes) : r.by # "panel") =>
          panel.view = Payload(live.configs, materialized, sidecar) /\ ~panel.busy
=============================================================================
