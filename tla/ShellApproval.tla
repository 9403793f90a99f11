----------------------------- MODULE ShellApproval -----------------------------
(***************************************************************************)
(* Who lets a shell command run: the security monitor, the patterns that   *)
(* the user allows, the auxiliary model with its guidance, the user        *)
(* (tools/shell_tools.py, security_monitor.py); the guidance, made of      *)
(* presets and rules of the conversation, with what is kept of it between  *)
(* turns and over a restart (conversation_manager.py, approval_state.py);  *)
(* the file of presets (shell_presets.py), and the page that edits it      *)
(* (presets-store.js, preset-manager.js).                                  *)
(*                                                                         *)
(* There is one command and one pattern that matches it.  A rule is a      *)
(* number, the text of a preset a set of rules.  A preset that is not      *)
(* there has no rules.  The contexts of a batch of tool calls share the    *)
(* lists of the turn.                                                      *)
(***************************************************************************)
EXTENDS Integers, FiniteSets

CONSTANTS
    Presets,                         \* custom presets
    Calls,                           \* tool calls of a turn at once
    DevPresets,                      \* presets of the mode "dev"; "default" has none
    MaxTurns, MaxAsks, MaxRules, MaxPuts, MaxLoads, MaxCrashes, MaxFails   \* bounds

VARIABLES
    texts,      \* shell_approval_presets.json
    allowed,    \* shell_allow_patterns.json has the pattern
    kept,       \* ConversationState.persisted
    sidecar,    \* approval_state/<conversation>.json, if there
    live,       \* the context of the turn
    calls,      \* its tool calls
    turns, asks, rules, puts, crashes, fails,
    decided,    \* what the user has decided of the guidance
    owed,       \* rules that were put in a preset, and not replaced by who had seen them
    ran,        \* the last command that ran, and on whose word
    list,       \* presets-store.js: what it shows, and its requests
    served,     \* changes of texts
    mishaps     \* ways to go wrong that the behaviour has met

counts == <<turns, asks, rules, puts, crashes, fails>>
presetVars == <<texts, owed, served>>
stateVars == <<kept, sidecar, decided>>
turnVars == <<live, calls>>
shellVars == <<presetVars, allowed, stateVars, turnVars, counts, ran, list, mishaps>>

Modes == {"default", "dev"}
PresetsOf(m) == IF m = "dev" THEN DevPresets ELSE {}
RuleIds == 1..MaxRules

\* ApprovalState, of which a context and PersistedTurnState have a copy each
Policy(x) == [mode |-> x.mode, on |-> x.on, off |-> x.off, rules |-> x.rules]
Default == [mode |-> "default", on |-> {}, off |-> {}, rules |-> {}]
Policies == [mode : Modes, on : SUBSET Presets, off : SUBSET Presets, rules : SUBSET RuleIds]
\* cache: llm_approved_shell_patterns, each with the guidance it was approved under
States == [mode : Modes, on : SUBSET Presets, off : SUBSET Presets, rules : SUBSET RuleIds,
           cache : SUBSET SUBSET RuleIds]
AsState(p) == [mode |-> p.mode, on |-> p.on, off |-> p.off, rules |-> p.rules, cache |-> {}]
NoTurnUp == [running |-> FALSE, attended |-> FALSE, state |-> AsState(Default)]
Idle == [at |-> "idle", verdict |-> "allow", under |-> {}, act |-> <<>>]

TypeOK ==
    /\ texts \in [Presets -> SUBSET RuleIds] /\ allowed \in BOOLEAN
    /\ kept \in States /\ sidecar \subseteq Policies /\ Cardinality(sidecar) <= 1 /\ decided \in Policies
    /\ live \in [running : BOOLEAN, attended : BOOLEAN, state : States]
    /\ \A c \in Calls : calls[c].at \in {"idle", "monitor", "review", "aux", "ask", "guide"}
                        /\ calls[c].under \subseteq RuleIds
    /\ owed \subseteq Presets \X RuleIds

Init ==
    /\ texts \in [Presets -> {{}, {1}}] /\ rules = 1 /\ owed = {} /\ served = 0
    /\ allowed = FALSE
    /\ kept = AsState(Default) /\ sidecar = {} /\ decided = Default
    /\ live = NoTurnUp /\ calls = [c \in Calls |-> Idle]
    /\ turns = 0 /\ asks = 0 /\ puts = 0 /\ crashes = 0 /\ fails = 0
    /\ ran = {} /\ mishaps = {}
    /\ list = [shown |-> texts, at |-> 0, own |-> 0, seq |-> 0, newest |-> 0, loads |-> 0,
               fetches |-> {}, put |-> <<>>, edit |-> <<>>]

-----------------------------------------------------------------------------
(* The guidance *)

\* resolve_aux_approval_guidance
Active(p) == p.on \ p.off
Guidance(p, t) == p.rules \cup UNION {t[q] : q \in Active(p)}

\* mutant: a conversation that is at its defaults is not written
PersistNoDefault(p) == sidecar' = IF p = Default THEN sidecar ELSE {p}
\* _persist_approval_state: no file for a conversation that never left its defaults
Persist(p) == sidecar' = IF sidecar = {} /\ p = Default THEN {} ELSE {p}

\* the file cannot be written: the next change tries again
Saved(p) == \/ Persist(p) /\ UNCHANGED fails
            \/ /\ fails < MaxFails /\ fails' = fails + 1
               /\ UNCHANGED sidecar

\* the conversation as it is now
Now == IF live.running THEN live.state ELSE kept

-----------------------------------------------------------------------------
(* Turns *)

\* _start_turn, _restore_per_conv_state, and _setup_turn_state of agent.py, which
\* puts the presets of the mode on if none are
StartTurn ==
    /\ ~live.running /\ turns < MaxTurns /\ turns' = turns + 1
    /\ \E attended \in BOOLEAN : live' =
         [running |-> TRUE, attended |-> attended,
          state |-> [kept EXCEPT !.on = IF @ = {} THEN PresetsOf(kept.mode) ELSE @]]
    /\ UNCHANGED <<presetVars, allowed, stateVars, calls, asks, rules, puts, crashes, fails, ran,
                   list, mishaps>>

\* _save_conversation_state
Keep == kept' = live.state

\* the turn ends, or is cancelled with its calls
EndTurn ==
    /\ live.running /\ live' = NoTurnUp /\ calls' = [c \in Calls |-> Idle]
    /\ Keep /\ Saved(Policy(live.state))
    /\ UNCHANGED <<presetVars, allowed, decided, turns, asks, rules, puts, crashes, ran, list,
                   mishaps>>

\* a restart; _get_or_create reads the file
Crash ==
    /\ crashes < MaxCrashes /\ crashes' = crashes + 1
    /\ live' = NoTurnUp /\ calls' = [c \in Calls |-> Idle]
    /\ kept' = AsState(CHOOSE p \in sidecar \cup {Default} : p \in sidecar \/ sidecar = {})
    /\ mishaps' = IF live.running \/ fails > 0 THEN mishaps \cup {"lost"} ELSE mishaps
    /\ UNCHANGED <<presetVars, allowed, sidecar, decided, turns, asks, rules, puts, fails, ran, list>>

-----------------------------------------------------------------------------
(* A command: check_shell_approval *)

Call(c, s) == calls' = [calls EXCEPT ![c] = s]
\* tool_shell runs it, in one go
Executes(c, basis, under) ==
    /\ Call(c, Idle)
    /\ ran' = {[verdict |-> calls[c].verdict, basis |-> basis,
                         attended |-> live.attended,
                         current |-> under \subseteq Guidance(live.state, texts)]}
    /\ mishaps' = IF under \subseteq Guidance(live.state, texts) \/ basis = "cache"
                  THEN mishaps ELSE mishaps \cup {"raced"}
Denied(c) == Call(c, Idle) /\ UNCHANGED <<ran, mishaps>>

\* mutant: the user is asked on a turn that nobody attends
AsksAnyway(c, v) ==
    Call(c, [calls[c] EXCEPT !.at = "ask", !.verdict = v]) /\ UNCHANGED <<ran, mishaps>>
\* the user is asked, if there is one
AsksUser(c, v) ==
    IF live.attended
    THEN Call(c, [calls[c] EXCEPT !.at = "ask", !.verdict = v]) /\ UNCHANGED <<ran, mishaps>>
    ELSE Denied(c)

\* evaluate_command, the patterns, and evaluate_command_llm for an ambiguous command
Shell(c) ==
    /\ live.running /\ calls[c].at = "idle" /\ asks < MaxAsks /\ asks' = asks + 1
    /\ \E verdict \in {"block", "ask", "allow", "ambiguous"} :
         CASE verdict = "block" -> Denied(c)
           [] verdict # "block" /\ allowed -> Executes(c, "pattern", {})
           [] OTHER -> /\ Call(c, [Idle EXCEPT !.at = "monitor", !.verdict = verdict])
                       /\ UNCHANGED <<ran, mishaps>>
    /\ UNCHANGED <<presetVars, allowed, stateVars, live, turns, rules, puts, crashes, fails, list>>

\* the model's classification, which is ASK if there is none
Monitor(c) ==
    /\ calls[c].at = "monitor"
    /\ \E verdict \in IF calls[c].verdict = "ambiguous" THEN {"block", "ask", "allow"}
                      ELSE {calls[c].verdict} :
         CASE verdict = "block" -> Denied(c)
           [] verdict = "ask" -> AsksUser(c, "ask")
           [] verdict = "allow" -> /\ Call(c, [calls[c] EXCEPT !.at = "review", !.verdict = "allow"])
                                   /\ UNCHANGED <<ran, mishaps>>
    /\ UNCHANGED <<presetVars, allowed, stateVars, live, counts, list>>

\* the rest up to the auxiliary model, whose prompt has the guidance of this moment
Review(c) ==
    /\ calls[c].at = "review"
    /\ IF live.state.cache # {}
       THEN \E e \in live.state.cache : Executes(c, "cache", e)
       ELSE /\ Call(c, [calls[c] EXCEPT !.at = "aux", !.under = Guidance(live.state, texts)])
            /\ UNCHANGED <<ran, mishaps>>
    /\ UNCHANGED <<presetVars, allowed, stateVars, live, counts, list>>

\* its answer is remembered, and the command runs; or the user is asked
Approves(c) ==
    /\ calls[c].at = "aux"
    /\ live' = [live EXCEPT !.state.cache = @ \cup {calls[c].under}]
    /\ Executes(c, "aux", calls[c].under)
    /\ UNCHANGED <<presetVars, allowed, stateVars, counts, list>>

Declines(c) ==
    /\ calls[c].at = "aux"
    /\ AsksUser(c, "allow")
    /\ UNCHANGED <<presetVars, allowed, stateVars, live, counts, list>>

\* the user's answer: no, yes, always, yes and why
Answer(c) ==
    /\ calls[c].at = "ask"
    /\ \/ Denied(c) /\ UNCHANGED <<allowed, live, decided, rules>>
       \/ Executes(c, "user", {}) /\ UNCHANGED <<live, decided, rules>> /\ allowed' \in {allowed, TRUE}
       \/ /\ calls[c].verdict = "allow" /\ rules < MaxRules /\ rules' = rules + 1
          /\ live' = [live EXCEPT !.state.rules = @ \cup {rules'}]
          /\ decided' = [decided EXCEPT !.rules = @ \cup {rules'}]
          /\ Executes(c, "user", {}) /\ UNCHANGED allowed
    /\ UNCHANGED <<presetVars, kept, sidecar, turns, asks, puts, crashes, fails, list>>

\* tool_shell_patterns: a pattern is removed without asking
Forget ==
    /\ live.running /\ allowed /\ allowed' = FALSE
    /\ UNCHANGED <<presetVars, stateVars, turnVars, counts, ran, list, mishaps>>

-----------------------------------------------------------------------------
(* The guidance from the conversation: tool_shell_guidance *)

\* what is asked of the user; save_preset has the rules of this moment
Acts == {<<"mode", m>> : m \in Modes} \cup {<<"enable", p>> : p \in Presets}
        \cup {<<"disable", p>> : p \in Presets} \cup {<<"remove", r>> : r \in live.state.rules}
        \cup {<<"save", p, live.state.rules>> : p \in IF live.state.rules = {} THEN {} ELSE Presets}

Guide(c) ==
    /\ live.running /\ live.attended /\ calls[c].at = "idle" /\ asks < MaxAsks /\ asks' = asks + 1
    /\ \E act \in Acts :
         /\ act[1] = "enable" => texts[act[2]] # {}
         /\ Call(c, [Idle EXCEPT !.at = "guide", !.act = act])
    /\ UNCHANGED <<presetVars, allowed, stateVars, live, turns, rules, puts, crashes, fails, ran,
                   list, mishaps>>

\* an act on the context and on what the user has decided; what narrows empties the cache
Acted(act, s) ==
    CASE act[1] = "mode"    -> [s EXCEPT !.mode = act[2], !.on = PresetsOf(act[2]), !.off = {}]
      [] act[1] = "enable"  -> [s EXCEPT !.on = @ \cup {act[2]}, !.off = @ \ {act[2]}]
      [] act[1] = "disable" -> [s EXCEPT !.on = @ \ {act[2]}, !.off = @ \cup {act[2]}]
      [] act[1] = "remove"  -> [s EXCEPT !.rules = @ \ {act[2]}]
      [] act[1] = "save"    -> s
Clearing(act) == act[1] \in {"mode", "disable", "remove"}

\* mutant: the rules take the place of those that are there
AppendReplaces(act) ==
    IF act[1] = "save"
    THEN /\ texts' = [texts EXCEPT ![act[2]] = act[3]]
         /\ owed' = owed \cup ({act[2]} \X act[3])
         /\ served' = served + 1
    ELSE UNCHANGED presetVars
\* append_rules_from_tool: what is there stays
Appended(act) ==
    IF act[1] = "save"
    THEN /\ texts' = [texts EXCEPT ![act[2]] = @ \cup act[3]]
         /\ owed' = owed \cup ({act[2]} \X act[3])
         /\ served' = served + 1
    ELSE UNCHANGED presetVars

GuideAnswered(c) ==
    /\ calls[c].at = "guide" /\ Call(c, Idle)
    /\ LET act == calls[c].act
           s == Acted(act, live.state)
           now == IF Clearing(act) THEN [s EXCEPT !.cache = {}] ELSE s
       IN  \/ UNCHANGED <<presetVars, stateVars, live, fails>>
           \/ /\ live' = [live EXCEPT !.state = now]
              /\ decided' = Acted(act, decided)
              /\ Appended(act)
              /\ IF act[1] = "mode"   \* set_flag, and the file at once
                 THEN /\ kept' = [Acted(act, kept) EXCEPT !.cache = {}]
                      /\ Saved(Policy(kept'))
                 ELSE UNCHANGED <<kept, sidecar, fails>>
    /\ UNCHANGED <<allowed, turns, asks, rules, puts, crashes, ran, list, mishaps>>

\* _handle_set_mode: not while a turn runs
SetMode(m) ==
    /\ ~live.running /\ puts < MaxPuts /\ puts' = puts + 1
    /\ kept' = [Acted(<<"mode", m>>, kept) EXCEPT !.cache = {}]
    /\ decided' = Acted(<<"mode", m>>, decided)
    /\ Saved(Policy(kept'))
    /\ UNCHANGED <<presetVars, allowed, turnVars, turns, asks, rules, crashes, ran, list, mishaps>>

-----------------------------------------------------------------------------
(* The presets page *)

\* mutant: the context of a turn is left alone
InvalidateKept(p) ==
    /\ kept' = IF p \in Active(kept) THEN [kept EXCEPT !.cache = {}] ELSE kept
    /\ UNCHANGED live
\* _invalidate_conversations_for_preset: by what was kept, not by the context
Invalidate(p) ==
    IF p \in Active(kept)
    THEN /\ kept' = [kept EXCEPT !.cache = {}]
         /\ live' = [live EXCEPT !.state.cache = {}]
    ELSE UNCHANGED <<kept, live>>

\* the text of p becomes t; the page had seen base
Replaced(p, t, base) ==
    /\ texts' = [texts EXCEPT ![p] = t] /\ served' = served + 1
    /\ owed' = (owed \ ({p} \X base)) \cup ({p} \X t)
    /\ Invalidate(p)
    /\ mishaps' = mishaps
         \cup (IF live.running /\ p \in Active(live.state) \ Active(kept) THEN {"unseen"} ELSE {})
         \cup (IF \E r \in texts[p] \ (base \cup t) : <<p, r>> \in owed THEN {"blind"} ELSE {})

\* load: one fetch at a time, as far as it knows
Load ==
    /\ list.newest = 0 /\ list.loads < MaxLoads
    /\ list' = [list EXCEPT !.seq = @ + 1, !.newest = list.seq + 1, !.loads = @ + 1,
                            !.fetches = @ \cup {[seq |-> list.seq + 1, at |-> -1, got |-> texts]}]
    /\ UNCHANGED <<presetVars, allowed, stateVars, turnVars, counts, ran, mishaps>>

\* shell_presets_list
Listed ==
    /\ \E f \in list.fetches :
         /\ f.at = -1
         /\ list' = [list EXCEPT !.fetches =
                       (@ \ {f}) \cup {[f EXCEPT !.at = served, !.got = texts]}]
    /\ UNCHANGED <<presetVars, allowed, stateVars, turnVars, counts, ran, mishaps>>

\* fetchLatest: the answer of a fetch that is not the last is not shown
Fetched ==
    /\ \E f \in list.fetches :
         /\ f.at >= 0
         /\ list' = [list EXCEPT !.fetches = @ \ {f}, !.newest = 0,
                       !.shown = IF f.seq = list.seq THEN f.got ELSE @,
                       !.at = IF f.seq = list.seq THEN f.at ELSE @]
    /\ UNCHANGED <<presetVars, allowed, stateVars, turnVars, counts, ran, mishaps>>

\* #startEdit
StartEdit(p) ==
    /\ list.edit = <<>> /\ list.put = <<>> /\ puts < MaxPuts
    /\ list' = [list EXCEPT !.edit = <<p, list.shown[p]>>]
    /\ UNCHANGED <<presetVars, allowed, stateVars, turnVars, counts, ran, mishaps>>

\* #saveEdit, served by shell_presets_put: one rule in the place of the old ones
Put ==
    /\ list.edit # <<>> /\ list.put = <<>> /\ puts < MaxPuts /\ puts' = puts + 1
    /\ rules < MaxRules /\ rules' = rules + 1
    /\ Replaced(list.edit[1], {rules'}, list.edit[2])
    /\ list' = [list EXCEPT !.put = <<"done", served'>>, !.edit = <<>>]
    /\ UNCHANGED <<allowed, sidecar, decided, calls, turns, asks, crashes, fails, ran>>

\* shell_presets_delete
Delete(p) ==
    /\ list.edit = <<>> /\ list.put = <<>> /\ puts < MaxPuts /\ puts' = puts + 1
    /\ list.shown[p] # {} /\ texts[p] # {}
    /\ Replaced(p, {}, list.shown[p])
    /\ list' = [list EXCEPT !.put = <<"done", served'>>]
    /\ UNCHANGED <<allowed, sidecar, decided, calls, turns, asks, rules, crashes, fails, ran>>

\* mutant: the list is fetched again under the number of the fetch before
Refetch(l) == [l EXCEPT !.newest = l.seq, !.fetches = @ \cup {[seq |-> l.seq, at |-> -1, got |-> texts]}]
\* savePreset, deletePreset: older fetches are not to be shown
Renewed(l) == [l EXCEPT !.seq = @ + 1, !.newest = l.seq + 1,
                        !.fetches = @ \cup {[seq |-> l.seq + 1, at |-> -1, got |-> texts]}]

PutAnswered ==
    /\ list.put # <<>>
    /\ list' = Renewed([list EXCEPT !.put = <<>>, !.own = list.put[2]])
    /\ UNCHANGED <<presetVars, allowed, stateVars, turnVars, counts, ran, mishaps>>

Next ==
    \/ StartTurn \/ EndTurn \/ Crash \/ Forget
    \/ \E c \in Calls :
         \/ Shell(c) \/ Monitor(c) \/ Review(c) \/ Approves(c) \/ Declines(c) \/ Answer(c)
         \/ Guide(c) \/ GuideAnswered(c)
    \/ \E m \in Modes : SetMode(m)
    \/ Load \/ Listed \/ Fetched \/ Put \/ PutAnswered
    \/ \E p \in Presets : StartEdit(p) \/ Delete(p)

Spec == Init /\ [][Next]_shellVars

-----------------------------------------------------------------------------
(* Properties *)

\* The cache has no approval that was given under guidance the user has taken
\* back since, in whatever order calls, answers and the page's changes come; but
\* for the answer to a question that was out at the time, and for a preset that
\* only the turn at hand has put on.
CacheFollowsGuidance ==
    \A under \in Now.cache :
        under \subseteq Guidance(Now, texts) \/ mishaps \cap {"raced", "unseen"} # {}

\* Between turns, and after a restart, the guidance is what the user decided last;
\* unless the restart came in the middle of a turn, or the file was not written.
GuidanceIsTheUsers ==
    ~live.running /\ "lost" \notin mishaps =>
        /\ kept.mode = decided.mode /\ kept.rules = decided.rules
        /\ Active(kept) = Active(decided)

\* A command that the monitor has doubts about runs on the user's word only, a
\* command of a turn that nobody attends never does, and the auxiliary model's
\* word stands for the guidance of the moment.
RunsAreWarranted ==
    \A r \in ran :
        /\ r.verdict = "ask" => r.basis \in {"user", "pattern"}
        /\ r.basis = "user" => r.attended
        /\ r.current \/ mishaps \cap {"raced", "unseen"} # {}

\* A rule that was saved in a preset stays there until somebody who has seen it
\* there replaces it; unless an edit was begun before.
RulesSurvive == \A o \in owed : o[2] \in texts[o[1]] \/ "blind" \in mishaps

\* With no request under way the page shows its own changes, in whatever order
\* the answers came.
ListShowsOwnChanges ==
    list.fetches = {} /\ list.put = <<>> => list.at >= list.own
=============================================================================
