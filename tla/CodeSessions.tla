---------------------------- MODULE CodeSessions ----------------------------
(***************************************************************************)
(* The sessions of the coding agents (contrib/skills/claude_code and       *)
(* opencode): one per working directory, found by its id, forgotten when   *)
(* idle for too long.  A call looks its session up, may wait for the       *)
(* user's consent, runs a process in the directory and only then touches   *)
(* the session again.                                                      *)
(***************************************************************************)
EXTENDS Integers, FiniteSets

CONSTANTS
    Coders,       \* calls of the session tools
    Dirs,         \* working directories
    NoDir,        \* no directory
    MaxSessions,  \* sessions that are ever created
    Timeout,      \* timeout_sec, in steps of the clock
    Budget,       \* budget_usd
    MaxTicks      \* bound on the clock

VARIABLES
    product,   \* which of the two skills it is
    sessions,  \* SessionManager.sessions, the ids in it
    created,   \* ids given out
    cwd,       \* the directory of a session
    cwdTo,     \* cwd_to_session
    idle,      \* steps since last_active
    consented, \* sessions with approved = True
    spent,     \* total_cost_usd
    allowed,   \* kinds of call the user always allows
    does,      \* what a call does
    step,      \* where it waits
    uses,      \* its session
    agents,    \* calls whose process runs in the directory
    granted,   \* sessions the user once said yes to
    outlived,  \* calls whose session was forgotten while they waited or ran
    ticks

managerVars == <<sessions, created, cwd, cwdTo, idle>>
callVars == <<does, step, uses, agents>>
sessionVars == <<product, managerVars, consented, spent, allowed, callVars, granted,
                 outlived, ticks>>

Ids == 1..MaxSessions
Kinds == {"setup", "send", "exec"}

TypeOK ==
    /\ product \in {"claude_code", "opencode"}
    /\ sessions \subseteq 1..created /\ created \in 0..MaxSessions
    /\ cwd \in [Ids -> Dirs \cup {NoDir}] /\ cwdTo \in [Dirs -> Ids \cup {0}]
    /\ idle \in [Ids -> 0..MaxTicks] /\ consented \subseteq Ids /\ granted \subseteq Ids
    /\ spent \in [Ids -> 0..Budget + Cardinality(Coders)] /\ allowed \subseteq Kinds
    /\ does \in [Coders -> Kinds] /\ uses \in [Coders -> Ids \cup {0}]
    /\ step \in [Coders -> {"none", "probing", "asking", "ready", "running", "done"}]
    /\ agents \subseteq Coders /\ outlived \subseteq Coders /\ ticks \in 0..MaxTicks

Init ==
    /\ product \in {"claude_code", "opencode"}
    /\ sessions = {} /\ created = 0 /\ cwd = [s \in Ids |-> NoDir]
    /\ cwdTo = [d \in Dirs |-> 0] /\ idle = [s \in Ids |-> 0]
    /\ consented = {} /\ granted = {} /\ spent = [s \in Ids |-> 0] /\ allowed = {}
    /\ does = [c \in Coders |-> "send"] /\ step = [c \in Coders |-> "none"]
    /\ uses = [c \in Coders |-> 0] /\ agents = {} /\ outlived = {} /\ ticks = 0

-----------------------------------------------------------------------------
(* SessionManager. *)

Expired(s) == idle[s] > Timeout

\* mutant: only the session itself is dropped
RemoveSessionOnly(gone) ==
    /\ sessions' = sessions \ gone
    /\ UNCHANGED cwdTo
    /\ outlived' = outlived \cup {c \in Coders :
           uses[c] \in gone /\ (step[c] \in {"probing", "asking", "ready"} \/ c \in agents)}

\* _remove: the session leaves both indexes, with no word to calls that use it
Remove(gone) ==
    /\ sessions' = sessions \ gone
    /\ cwdTo' = [d \in Dirs |-> IF cwdTo[d] \in gone THEN 0 ELSE cwdTo[d]]
    /\ outlived' = outlived \cup {c \in Coders :
           uses[c] \in gone /\ (step[c] \in {"probing", "asking", "ready"} \/ c \in agents)}

\* get: a session that has been idle for too long is removed by whoever asks
Found(s) == s \in sessions /\ ~Expired(s)
Forget(s) == Remove(sessions \cap {s})

Touched(s) == idle' = IF s \in sessions THEN [idle EXCEPT ![s] = 0] ELSE idle

-----------------------------------------------------------------------------
(* The tools. *)

\* create, for a directory that has no session, or an expired one
Create(c, d, setup) ==
    LET old == {cwdTo[d]} \cap sessions
        new == created + 1
    IN /\ step[c] = "none" /\ created < MaxSessions
       /\ \A s \in old : Expired(s)
       /\ created' = new
       /\ sessions' = (sessions \ old) \cup {new}
       /\ cwdTo' = [cwdTo EXCEPT ![d] = new] /\ cwd' = [cwd EXCEPT ![new] = d]
       /\ idle' = [idle EXCEPT ![new] = 0]
       /\ outlived' = outlived \cup {e \in Coders :
              uses[e] \in old /\ (step[e] \in {"probing", "asking", "ready"} \/ e \in agents)}
       /\ uses' = [uses EXCEPT ![c] = new] /\ does' = [does EXCEPT ![c] = "setup"]
       /\ step' = [step EXCEPT ![c] = IF setup THEN "probing" ELSE "done"]
       /\ UNCHANGED <<product, consented, spent, allowed, agents, granted, ticks>>

\* the tool's lookup, before it waits for anybody
Lookup(c, s, what) ==
    /\ step[c] = "none" /\ s \in 1..created
    /\ does' = [does EXCEPT ![c] = what]
    /\ IF Found(s)
       THEN /\ uses' = [uses EXCEPT ![c] = s] /\ UNCHANGED <<sessions, cwdTo, outlived>>
            /\ step' = [step EXCEPT ![c] = "probing"]
       ELSE /\ Forget(s) /\ step' = [step EXCEPT ![c] = "done"] /\ UNCHANGED uses
    /\ UNCHANGED <<product, created, cwd, idle, consented, spent, allowed, agents, granted, ticks>>

\* no question for what is always allowed; exec needs none in a session that
\* has been consented to
Ask(c) ==
    /\ step[c] = "probing"
    /\ LET always == does[c] \in allowed
           asks == ~always /\ ~(does[c] = "exec" /\ uses[c] \in consented)
       IN /\ step' = [step EXCEPT ![c] = IF asks THEN "asking" ELSE "ready"]
          /\ consented' = IF always THEN consented \cup {uses[c]} ELSE consented
          /\ granted' = IF always THEN granted \cup {uses[c]} ELSE granted
    /\ UNCHANGED <<product, managerVars, spent, allowed, does, uses, agents, outlived, ticks>>

\* mutant: the session counts as consented to whatever the answer
ConsentedAnyway(c, yes, always) ==
    /\ consented' = consented \cup {uses[c]}
    /\ step' = [step EXCEPT ![c] = IF yes THEN "ready" ELSE "done"]
    /\ allowed' = IF yes /\ always THEN allowed \cup {does[c]} ELSE allowed

Consented(c, yes, always) ==
    /\ consented' = IF yes THEN consented \cup {uses[c]} ELSE consented
    /\ step' = [step EXCEPT ![c] = IF yes THEN "ready" ELSE "done"]
    /\ allowed' = IF yes /\ always THEN allowed \cup {does[c]} ELSE allowed

Answer(c, yes, always) ==
    /\ step[c] = "asking"
    /\ Consented(c, yes, always)
    /\ granted' = IF yes THEN granted \cup {uses[c]} ELSE granted
    /\ UNCHANGED <<product, managerVars, spent, does, uses, agents, outlived, ticks>>

\* the budget is checked last; the session itself is not looked up again
Launch(c) ==
    /\ step[c] = "ready"
    /\ IF does[c] = "send" /\ spent[uses[c]] >= Budget
       THEN step' = [step EXCEPT ![c] = "done"] /\ UNCHANGED agents
       ELSE step' = [step EXCEPT ![c] = "running"] /\ agents' = agents \cup {c}
    /\ UNCHANGED <<product, managerVars, consented, spent, allowed, does, uses, granted,
                   outlived, ticks>>

\* claude_code: the result reports a total, which replaces the one there was
ClaudeDone(c) ==
    /\ product = "claude_code" /\ does[c] = "send"
    /\ \E total \in 0..Budget : spent' = [spent EXCEPT ![uses[c]] = total]

\* opencode: every step that is finished adds its cost
OpencodeDone(c) ==
    /\ product = "opencode" /\ does[c] = "send"
    /\ spent' = [spent EXCEPT ![uses[c]] = @ + 1]

\* exec, and a setup command, cost nothing
CommandDone(c) == does[c] # "send" /\ UNCHANGED spent

Ends(c) ==
    /\ step[c] = "running"
    /\ step' = [step EXCEPT ![c] = "done"] /\ agents' = agents \ {c}
    /\ UNCHANGED <<product, sessions, created, cwd, cwdTo, consented, allowed, does, uses,
                   granted, outlived, ticks>>

Completes(c) ==
    /\ Ends(c)
    /\ ClaudeDone(c) \/ OpencodeDone(c) \/ CommandDone(c)
    /\ IF does[c] = "setup" THEN UNCHANGED idle ELSE Touched(uses[c])

\* a failed send returns without a touch
Fails(c) == does[c] = "send" /\ Ends(c) /\ UNCHANGED <<idle, spent>>

\* the turn is stopped: the call unwinds where it waits.  opencode's process
\* is not killed and runs on.
Unwind(c) ==
    /\ step[c] \in {"asking", "running"}
    /\ step' = [step EXCEPT ![c] = "done"]
    /\ agents' = IF product = "opencode" \/ does[c] = "exec" THEN agents ELSE agents \ {c}
    /\ UNCHANGED <<product, managerVars, consented, spent, allowed, does, uses, granted,
                   outlived, ticks>>

StrayEnds(c) ==
    /\ c \in agents /\ step[c] = "done" /\ agents' = agents \ {c}
    /\ UNCHANGED <<product, managerVars, consented, spent, allowed, does, step, uses, granted,
                   outlived, ticks>>

\* push_file and pull_file copy without waiting
CopyFile(c, s) ==
    /\ step[c] = "none" /\ s \in sessions /\ ~Expired(s)
    /\ Touched(s) /\ step' = [step EXCEPT ![c] = "done"]
    /\ UNCHANGED <<product, sessions, created, cwd, cwdTo, consented, spent, allowed, does,
                   uses, agents, granted, outlived, ticks>>

StopSession(c, s) ==
    /\ step[c] = "none" /\ s \in sessions
    /\ Remove({s}) /\ step' = [step EXCEPT ![c] = "done"]
    /\ UNCHANGED <<product, created, cwd, idle, consented, spent, allowed, does, uses, agents,
                   granted, ticks>>

ListActive(c) ==
    /\ step[c] = "none" /\ \E s \in sessions : Expired(s)
    /\ Remove({s \in sessions : Expired(s)}) /\ step' = [step EXCEPT ![c] = "done"]
    /\ UNCHANGED <<product, created, cwd, idle, consented, spent, allowed, does, uses, agents,
                   granted, ticks>>

Tick ==
    /\ ticks < MaxTicks /\ ticks' = ticks + 1
    /\ idle' = [s \in Ids |-> IF s \in sessions THEN idle[s] + 1 ELSE idle[s]]
    /\ UNCHANGED <<product, sessions, created, cwd, cwdTo, consented, spent, allowed, callVars,
                   granted, outlived>>

Next ==
    \/ Tick
    \/ \E c \in Coders :
        \/ \E d \in Dirs, setup \in BOOLEAN : Create(c, d, setup)
        \/ \E s \in Ids, what \in {"send", "exec"} : Lookup(c, s, what)
        \/ \E yes, always \in BOOLEAN : Answer(c, yes, always)
        \/ Ask(c) \/ Launch(c) \/ Completes(c) \/ Fails(c) \/ Unwind(c) \/ StrayEnds(c)
        \/ \E s \in Ids : CopyFile(c, s) \/ StopSession(c, s)
        \/ ListActive(c)

Spec == Init /\ [][Next]_sessionVars

-----------------------------------------------------------------------------
(* Properties. *)

\* A directory has one session, the one its index leads to; and agents that run
\* in a directory at the same time are of one session, unless that of one was
\* forgotten while it waited or ran.
DirectoriesHaveOneSession ==
    /\ \A s \in sessions : cwdTo[cwd[s]] = s
    /\ \A d \in Dirs : cwdTo[d] # 0 => cwdTo[d] \in sessions /\ cwd[cwdTo[d]] = d
    /\ \A c, e \in agents \ outlived : cwd[uses[c]] = cwd[uses[e]] => uses[c] = uses[e]

\* Whatever runs in a directory, the user has said yes to its session, for this
\* call, an earlier one or for always.
NothingRunsUnasked == \A c \in agents : uses[c] \in granted
=============================================================================
