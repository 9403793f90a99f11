------------------------------ MODULE SkillTools -------------------------------
(***************************************************************************)
(* The tools of skills in one conversation: tools/skill_tools.py, the      *)
(* catalog of skills/__init__.py, and what of them a turn leaves to the    *)
(* next (conversation_manager.py, persistence.py).                         *)
(*                                                                         *)
(* A skill is a directory with a SKILL.md and a tools.py that anybody may  *)
(* edit at any time.  Activation loads it and binds its tools (extra,      *)
(* declared); a second activation reloads it.  The bindings are kept       *)
(* between turns; contributions, the record of who bound what, is not.  A  *)
(* restart forgets both: the sidecar of the last turn says what to         *)
(* restore, and of an agent's own (workspace) skill only the code with the *)
(* hash that was noted.                                                    *)
(***************************************************************************)
EXTENDS Integers, Sequences, FiniteSets, SequencesExt

CONSTANTS
    Trusted, Own,                        \* always-loaded skills; workspace skills
    ToolNames,
    NoSkill,
    MaxSkillEdits, MaxSkillTurns, MaxSkillRestarts     \* bounds

VARIABLES
    code,            \* each skill on disk: generation (its hash), tools, loads, listed
    catalog,         \* config.discovered_skills
    granted,         \* skill_permissions.json: the hash of an "always"
    inTurn, skillTurns, skillRestarts,
    activated,       \* ctx.skills.activated: the hash noted, 0 for a skill that is not
    extra,           \* ctx.tools.extra: the skill and generation a name is bound to
    declared,        \* ctx.tools.extra_definitions: per name, first to last
    contributions,   \* ctx.tools.skill_contributions, in the order of activation
    noted,           \* the sidecar skills.json
    doing,           \* an activation under way
    generation,      \* the generation of each skill bound last
    agreed,          \* the generations somebody activated
    raced,           \* skills edited while they were being activated
    unsure           \* skills bound over an earlier turn's, or beside a namesake

Skills == Trusted \cup Own
skillCtx == <<activated, extra, declared, contributions>>
skillVars == <<code, catalog, granted, inTurn, skillTurns, skillRestarts, skillCtx, noted,
               doing, generation, agreed, raced, unsure>>

Generations == 0..(MaxSkillEdits + 1)
\* a tool's own name, or <skill>__<tool>
NameIds == [of : Skills \cup {NoSkill}, tool : ToolNames]
Plain(tools) == {[of |-> NoSkill, tool |-> n] : n \in tools}
Providers == [skill : Skills, gen : Generations]
Unbound == [skill |-> NoSkill, gen |-> 0]
Quiet == [at |-> "none", gen |-> 0, tools |-> {}]

TypeOK ==
    /\ code \in [Skills -> [gen : Generations, tools : SUBSET ToolNames, loads : BOOLEAN,
                            listed : BOOLEAN]]
    /\ catalog \subseteq Skills /\ granted \in [Skills -> Generations]
    /\ activated \in [Skills -> Generations] /\ noted \in [Skills -> Generations]
    /\ extra \in [NameIds -> Providers \cup {Unbound}]
    /\ declared \in [NameIds -> Seq(Providers)]
    /\ contributions \in Seq([skill : Skills, gen : Generations, names : SUBSET NameIds])
    /\ doing \in [Skills -> [at : {"none", "asked", "init"}, gen : Generations,
                             tools : SUBSET ToolNames]]
    /\ generation \in [Skills -> Generations]
    /\ agreed \in [Skills -> SUBSET Generations]
    /\ raced \subseteq Skills /\ unsure \subseteq Skills

Nobody == [s \in Skills |-> 0]

Init ==
    /\ \E n \in ToolNames : code = [s \in Skills |-> [gen |-> 1, tools |-> {n}, loads |-> TRUE,
                                                     listed |-> TRUE]]
    /\ catalog = Skills /\ granted = Nobody
    /\ inTurn = FALSE /\ skillTurns = 0 /\ skillRestarts = 0
    /\ activated = Nobody /\ noted = Nobody
    /\ extra = [n \in NameIds |-> Unbound] /\ declared = [n \in NameIds |-> <<>>]
    /\ contributions = <<>>
    /\ doing = [s \in Skills |-> Quiet]
    /\ generation = Nobody /\ agreed = [s \in Skills |-> {}]
    /\ raced = {} /\ unsure = {}

-----------------------------------------------------------------------------
(* The tool context *)

Context ==
    [activated |-> activated, extra |-> extra, declared |-> declared,
     contributions |-> contributions, generation |-> generation, unsure |-> unsure]
Become(c) ==
    /\ activated' = c.activated /\ extra' = c.extra /\ declared' = c.declared
    /\ contributions' = c.contributions /\ generation' = c.generation /\ unsure' = c.unsure

\* skill_tool_names
NamesOf(c, s) == UNION {e.names : e \in {x \in Range(c.contributions) : x.skill = s}}

\* the others that provide a name and are active, the latest first
OtherProviders(c, s, n) ==
    Reverse(SelectSeq(c.contributions, LAMBDA e : e.skill # s /\ n \in e.names
                                                  /\ c.activated[e.skill] # 0))
AsProvider(e) == [skill |-> e.skill, gen |-> e.gen]

\* mutant: what the skill bound before stays
RetractNothing(c, s) == c

\* _retract_skill_tools
Retract(c, s) ==
    LET stale == NamesOf(c, s)
        heir(n) == OtherProviders(c, s, n)
    IN  [c EXCEPT
            !.extra = [n \in NameIds |->
                IF n \notin stale THEN c.extra[n]
                ELSE IF heir(n) = <<>> THEN Unbound ELSE AsProvider(Head(heir(n)))],
            !.declared = [n \in NameIds |->
                IF n \notin stale THEN c.declared[n]
                ELSE IF heir(n) = <<>> THEN <<>> ELSE <<AsProvider(Head(heir(n)))>>]]

\* _register_skill_tools
Register(c, s, gen, names) ==
    LET r == Retract(c, s)
        me == [skill |-> s, gen |-> gen]
        \* bound in an earlier turn, and nobody knows by now
        carried == {x \in Skills : NamesOf(c, x) = {}
                      /\ \E n \in NameIds : c.extra[n].skill = x /\ (x = s \/ n \in names)}
    IN  [r EXCEPT
            !.extra = [n \in NameIds |-> IF n \in names THEN me ELSE r.extra[n]],
            !.declared = [n \in NameIds |->
                IF n \in names THEN Append(r.declared[n], me) ELSE r.declared[n]],
            !.contributions =
                Append(SelectSeq(r.contributions, LAMBDA e : e.skill # s),
                       [skill |-> s, gen |-> gen, names |-> names]),
            !.generation = [@ EXCEPT ![s] = gen],
            !.unsure = @ \cup (IF carried # {} THEN carried \cup {s} ELSE {})]

\* activate_skill_internal: a name that another skill has is prefixed, the hash
\* is noted of what is on disk by then
Activate(c, s, gen, tools) ==
    LET taken == UNION {e.names : e \in {x \in Range(c.contributions) : x.skill # s}}
        names == {[of |-> IF n \in taken THEN s ELSE NoSkill, tool |-> n.tool] : n \in Plain(tools)}
        r == Register(c, s, gen, names)
    IN  [r EXCEPT !.activated = [@ EXCEPT ![s] = code[s].gen]]

\* mutant: the hash is not compared
RestoreUnchecked(c, s, existing) ==
    IF c.activated[s] = 0 \/ s \notin catalog \/ ~code[s].loads
       \/ Plain(code[s].tools) \subseteq existing
    THEN c ELSE Register(c, s, code[s].gen, Plain(code[s].tools))

\* one skill of restore_skills: its tools under their own names, whoever has them
Restore(c, s, existing) ==
    IF c.activated[s] = 0 \/ s \notin catalog THEN c
    ELSE IF s \in Own /\ c.activated[s] # code[s].gen
         THEN [c EXCEPT !.activated = [@ EXCEPT ![s] = 0]]
    ELSE IF ~code[s].loads \/ Plain(code[s].tools) \subseteq existing THEN c
    ELSE LET names == Plain(code[s].tools)
             beside == {e.skill : e \in {x \in Range(c.contributions) :
                                            x.skill # s /\ x.names \cap names # {}}}
         IN  [Register(c, s, code[s].gen, names) EXCEPT
                 !.unsure = @ \cup beside \cup (IF beside # {} THEN {s} ELSE {})]

\* activate_always_loaded
AlwaysLoaded(c, s) ==
    IF s \in Trusted \cap catalog /\ c.activated[s] = 0 /\ code[s].loads
    THEN Activate(c, s, code[s].gen, code[s].tools) ELSE c

-----------------------------------------------------------------------------
(* Turns *)

Orders == {q \in [1..Cardinality(Skills) -> Skills] : Range(q) = Skills}

\* _restore_per_conv_state and _setup_turn_state; restore goes through a set
BeginTurn ==
    /\ ~inTurn /\ skillTurns < MaxSkillTurns
    /\ inTurn' = TRUE /\ skillTurns' = skillTurns + 1
    /\ \E order \in Orders :
         LET merged == [s \in Skills |-> IF activated[s] # 0 THEN activated[s] ELSE noted[s]]
             existing == {n \in NameIds : extra[n] # Unbound}
             fresh == [Context EXCEPT !.activated = merged, !.contributions = <<>>]
             restored == FoldLeft(LAMBDA c, s : Restore(c, s, existing), fresh, order)
         IN  Become(FoldLeft(AlwaysLoaded, restored, order))
    /\ agreed' = [s \in Skills |->
                    IF s \in Trusted THEN agreed[s] \cup {generation'[s]} ELSE agreed[s]]
    /\ UNCHANGED <<code, catalog, granted, skillRestarts, noted, doing, raced>>

\* the end of a turn, cancelled or not; an empty dict is not written
EndTurn ==
    /\ inTurn /\ inTurn' = FALSE
    /\ doing' = [s \in Skills |-> Quiet]
    /\ noted' = IF activated = Nobody THEN noted ELSE activated
    /\ UNCHANGED <<code, catalog, granted, skillTurns, skillRestarts, skillCtx, generation,
                   agreed, raced, unsure>>

Restart ==
    /\ skillRestarts < MaxSkillRestarts /\ skillRestarts' = skillRestarts + 1
    /\ inTurn' = FALSE
    /\ doing' = [s \in Skills |-> Quiet]
    /\ activated' = Nobody /\ contributions' = <<>>
    /\ extra' = [n \in NameIds |-> Unbound] /\ declared' = [n \in NameIds |-> <<>>]
    /\ generation' = Nobody /\ unsure' = {}
    /\ catalog' = {s \in Skills : code[s].listed}
    /\ UNCHANGED <<code, granted, skillTurns, noted, agreed, raced>>

-----------------------------------------------------------------------------
(* The calls of a turn, which run side by side *)

\* rediscover_skills
Refresh ==
    /\ inTurn /\ catalog # {s \in Skills : code[s].listed}
    /\ catalog' = {s \in Skills : code[s].listed}
    /\ UNCHANGED <<code, granted, inTurn, skillTurns, skillRestarts, skillCtx, noted, doing,
                   generation, agreed, raced, unsure>>

\* a skill that is not in the catalog is looked for once more
Found(s) == /\ s \in catalog \/ code[s].listed
            /\ catalog' = IF s \in catalog THEN catalog ELSE {x \in Skills : code[x].listed}

Loading(s) == [at |-> "init", gen |-> code[s].gen, tools |-> code[s].tools]

\* mutant: a reload drops the old tools before it has the new ones
ImportRetracting(s) ==
    /\ Become(Retract(Context, s))
    /\ doing' = [doing EXCEPT ![s] = IF code[s].loads THEN Loading(s) ELSE Quiet]

\* _load_native_tools; a tools.py that fails leaves everything as it was
Import(s) ==
    /\ doing' = [doing EXCEPT ![s] = IF code[s].loads THEN Loading(s) ELSE Quiet]
    /\ UNCHANGED <<skillCtx, generation, unsure>>

\* activate_skill: reload, or activate what needs no question, or ask
Call(s) ==
    /\ inTurn /\ doing[s].at = "none" /\ Found(s)
    /\ \/ /\ activated[s] # 0 \/ s \in Trusted \/ granted[s] = code[s].gen
          /\ Import(s)
       \/ /\ activated[s] = 0 /\ s \in Own /\ granted[s] # code[s].gen
          /\ doing' = [doing EXCEPT ![s] = [Quiet EXCEPT !.at = "asked", !.gen = code[s].gen]]
          /\ UNCHANGED <<skillCtx, generation, unsure>>
    /\ UNCHANGED <<code, granted, inTurn, skillTurns, skillRestarts, noted, agreed, raced>>

\* the user's answer: the hash of an "always" is that of the question
Answer(s) ==
    /\ doing[s].at = "asked"
    /\ \/ \E always \in BOOLEAN :
            /\ granted' = IF always THEN [granted EXCEPT ![s] = doing[s].gen] ELSE granted
            /\ Import(s)
       \/ /\ doing' = [doing EXCEPT ![s] = Quiet]
          /\ UNCHANGED <<granted, skillCtx, generation, unsure>>
    /\ UNCHANGED <<code, catalog, inTurn, skillTurns, skillRestarts, noted, agreed, raced>>

\* init has returned, or has raised
Bind(s) ==
    /\ doing[s].at = "init"
    /\ doing' = [doing EXCEPT ![s] = Quiet]
    /\ \/ /\ Become(Activate(Context, s, doing[s].gen, doing[s].tools))
          /\ agreed' = [agreed EXCEPT ![s] = @ \cup {doing[s].gen}]
          /\ raced' = IF code[s].gen # doing[s].gen THEN raced \cup {s} ELSE raced
       \/ UNCHANGED <<skillCtx, generation, unsure, agreed, raced>>
    /\ UNCHANGED <<code, catalog, granted, inTurn, skillTurns, skillRestarts, noted>>

\* somebody edits a skill on disk
Edit ==
    /\ \E s \in Skills, tools \in SUBSET ToolNames, loads, listed \in BOOLEAN :
         /\ code[s].gen <= MaxSkillEdits /\ (\A x \in Skills \ {s} : code[x].gen = 1)
         /\ tools # {}
         /\ code' = [code EXCEPT ![s] = [gen |-> @.gen + 1, tools |-> tools, loads |-> loads,
                                         listed |-> listed]]
    /\ UNCHANGED <<catalog, granted, inTurn, skillTurns, skillRestarts, skillCtx, noted, doing,
                   generation, agreed, raced, unsure>>

Next ==
    \/ BeginTurn \/ EndTurn \/ Restart \/ Refresh \/ Edit
    \/ \E s \in Skills : Call(s) \/ Answer(s) \/ Bind(s)

Spec == Init /\ [][Next]_skillVars

-----------------------------------------------------------------------------
(* Properties *)

Bound == {n \in NameIds : extra[n] # Unbound}

\* A name bound to a skill is bound to the generation of it that was loaded
\* last: a reload leaves no tool of the code it replaces, as long as the skill
\* was activated in the same turn.
ReloadReplaces ==
    \A n \in Bound : extra[n].skill \notin unsure => extra[n].gen = generation[extra[n].skill]

\* The declaration the model is shown of a name is the first one, and it is of
\* the code that runs when the model calls it.
SchemaMatchesCode ==
    \A n \in Bound :
        ({extra[n].skill} \cup {p.skill : p \in Range(declared[n])}) \cap unsure = {}
        => declared[n] # <<>> /\ declared[n][1] = extra[n]

\* What an active skill bound in this turn can be called, through a reload that
\* fails as well.
ActiveIsCallable ==
    \A e \in Range(contributions) :
        inTurn /\ activated[e.skill] # 0 => \A n \in e.names : extra[n] # Unbound

\* A workspace skill runs no code that nobody activated: a restore takes it up
\* again only if it is what ran before, unless it was edited while it was being
\* activated.
RestoreRunsWhatRan ==
    \A s \in Own \ raced : generation[s] \in agreed[s] \cup {0}
=============================================================================
