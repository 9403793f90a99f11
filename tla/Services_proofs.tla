---------------------------- MODULE Services_proofs ----------------------------
(***************************************************************************)
(* Proofs about services that share no state with each other, each an      *)
(* instance of its module: the sessions of the coding agents, the two      *)
(* timers, the connection to an MCP server, the background processes, the  *)
(* canvas with its terminals, and the vault with its index.                *)
(***************************************************************************)
EXTENDS Integers, FiniteSets, Sequences, FiniteSetTheorems, SequenceTheorems,
        WellFoundedInduction, TLAPS

CONSTANTS Coders, Dirs, NoDir, MaxSessions, Timeout, Budget, MaxTicks
CONSTANTS Schedules, Runs, Heartbeat, MaxTime, MaxCrashes
CONSTANTS Ops, NoOp, MaxRetries, MaxOpCancels
CONSTANTS Calls, NoCall, MaxShells, MaxRestarts
CONSTANTS Pages, Gated, NoPage, Editors, MaxTexts, MaxClock, MaxFails
CONSTANTS Convs, Jobs, Tools, NoJob, MaxManagers, MaxAborts
VARIABLES product, sessions, created, cwd, cwdTo, idle, consented, spent, allowed, does, step,
          uses, agents, granted, outlived, ticks
VARIABLES mattermost, up, now, lastRun, running_tasks, beat, runDoes, of, byTimer, conv, told, cut,
          unwritten, raced, torn, ran, twice
VARIABLES op, at, agen, open, how, holds, status, generation, settled, stack, session, tools,
          retries, backoff, task, closed, disowned, abandoned, opCancels
VARIABLES manager, managers, jobs, proc, reader, jobStatus, finalized, lateJobs, jobTold, jobDoes,
          jobAt, with, on, sweep, stale, strays, jobCut, aborts
VARIABLES tabs, active, nextId, tabShells, shell, tabStep, tabOf, queue, victim, saved, given,
          rewound, orphans, restarts
VARIABLES text, mtime, texts, clock, index, opDoes, opAt, page, target, saw, embeds, later, tab,
          lost, excused, failed, overlapped

Coding == INSTANCE CodeSessions
Timers == INSTANCE Schedules WITH does <- runDoes
Servers == INSTANCE McpClient
Shells == INSTANCE BackgroundJobs WITH
            status <- jobStatus, does <- jobDoes, at <- jobAt, overdue <- lateJobs,
            told <- jobTold, cut <- jobCut
Tabs == INSTANCE Canvas WITH
            MaxSessions <- MaxShells, sessions <- tabShells, step <- tabStep, mine <- tabOf
Wiki == INSTANCE Vault WITH
            Ops <- Editors, MaxTime <- MaxClock, now <- clock, does <- opDoes, at <- opAt,
            todo <- embeds

LEMMA SameCardinality == \A S : Coding!Cardinality(S) = Cardinality(S)
BY DEF Coding!Cardinality, Cardinality
LEMMA SameCardinalities == \A S : Timers!Cardinality(S) = Cardinality(S)
BY DEF Timers!Cardinality, Cardinality
LEMMA ServersCardinality == \A S : Servers!Cardinality(S) = Cardinality(S)
BY DEF Servers!Cardinality, Cardinality
LEMMA TabsCardinality == \A S : Tabs!Cardinality(S) = Cardinality(S)
BY DEF Tabs!Cardinality, Cardinality

CodingBounds ==
    /\ {MaxSessions, Timeout, Budget, MaxTicks} \subseteq Nat /\ IsFiniteSet(Coders)
    /\ NoDir \notin Dirs

-----------------------------------------------------------------------------
(* The sessions of the coding agents *)

AwaitsOrRuns(c) == step[c] \in {"probing", "asking", "ready"} \/ c \in agents

\* A session and the directory that leads to it agree.
OneEach ==
    /\ \A s \in sessions : cwd[s] \in Dirs /\ cwdTo[cwd[s]] = s
    /\ \A d \in Dirs : cwdTo[d] # 0 => cwdTo[d] \in sessions /\ cwd[cwdTo[d]] = d

\* A call that waits or whose process runs has a session, which is still there
\* unless it was forgotten meanwhile.
CallsHaveSessions ==
    /\ \A c \in agents : step[c] \in {"running", "done"}
    /\ \A c \in Coders : AwaitsOrRuns(c) =>
         uses[c] \in 1..created /\ (c \notin outlived => uses[c] \in sessions)
    /\ \A c \in Coders : step[c] = "running" => uses[c] \in 1..created

\* Consent is the user's, and a call that may start has it.
ConsentIsGranted ==
    /\ consented \subseteq granted
    /\ \A c \in Coders : step[c] = "ready" \/ c \in agents => uses[c] \in granted

\* What a session has cost is its budget and one for each call that is over.
CodersDone == {c \in Coders : step[c] = "done"}
CostsAreBounded ==
    /\ \A s \in Coding!Ids : spent[s] <= Budget + Cardinality(CodersDone)
    /\ \A s \in Coding!Ids : idle[s] <= ticks

CodingInv ==
    Coding!TypeOK /\ OneEach /\ CallsHaveSessions /\ ConsentIsGranted /\ CostsAreBounded

LEMMA CodingInit == CodingBounds /\ Coding!Init => CodingInv
<1> SUFFICES ASSUME CodingBounds, Coding!Init  PROVE CodingInv
  OBVIOUS
<1>1. Cardinality(Coders) \in Nat /\ Cardinality(CodersDone) \in Nat
  BY FS_CardinalityType, FS_Subset DEF CodingBounds, CodersDone
<1>2. OneEach /\ CallsHaveSessions /\ ConsentIsGranted
  BY DEF CodingBounds, Coding!Init, Coding!Ids, OneEach, CallsHaveSessions, ConsentIsGranted, AwaitsOrRuns
<1>3. CostsAreBounded
  BY <1>1 DEF CodingBounds, Coding!Init, Coding!Ids, CostsAreBounded
<1>4. Coding!TypeOK
  <2>1. spent \in [Coding!Ids -> 0..Budget + Cardinality(Coders)]
    BY <1>1 DEF CodingBounds, Coding!Init
  <2>2. created \in 0..MaxSessions /\ sessions \subseteq 1..created /\ ticks \in 0..MaxTicks
    BY DEF CodingBounds, Coding!Init
  <2>3. idle \in [Coding!Ids -> 0..MaxTicks]
    BY DEF CodingBounds, Coding!Init
  <2>4. cwd \in [Coding!Ids -> Dirs \cup {NoDir}] /\ cwdTo \in [Dirs -> Coding!Ids \cup {0}]
    BY DEF Coding!Init
  <2>5. /\ does \in [Coders -> Coding!Kinds] /\ uses \in [Coders -> Coding!Ids \cup {0}]
        /\ step \in [Coders -> {"none", "probing", "asking", "ready", "running", "done"}]
    BY DEF Coding!Init, Coding!Kinds
  <2>6. /\ product \in {"claude_code", "opencode"} /\ consented \subseteq Coding!Ids
        /\ granted \subseteq Coding!Ids /\ allowed \subseteq Coding!Kinds
        /\ agents \subseteq Coders /\ outlived \subseteq Coders
    BY DEF Coding!Init
  <2> QED  BY <2>1, <2>2, <2>3, <2>4, <2>5, <2>6, SameCardinality DEF Coding!TypeOK
<1> QED  BY <1>2, <1>3, <1>4 DEF CodingInv

LEMMA DoneCounts ==
    ASSUME CodingBounds
    PROVE  /\ IsFiniteSet(CodersDone) /\ Cardinality(CodersDone) \in Nat
           /\ Cardinality(CodersDone) <= Cardinality(Coders) /\ Cardinality(Coders) \in Nat
<1>1. CodersDone \subseteq Coders  BY DEF CodersDone
<1> QED  BY <1>1, FS_Subset, FS_CardinalityType DEF CodingBounds

\* A call that is over stays so: the number of those only grows.
LEMMA DoneStays ==
    ASSUME CodingBounds, \A c \in Coders : step[c] = "done" => step'[c] = "done"
    PROVE  /\ Cardinality(CodersDone) \in Nat /\ Cardinality(CodersDone') \in Nat
           /\ Cardinality(CodersDone) <= Cardinality(CodersDone')
           /\ Cardinality(CodersDone') <= Cardinality(Coders) /\ Cardinality(Coders) \in Nat
<1>1. CodersDone \subseteq CodersDone' /\ CodersDone' \subseteq Coders  BY DEF CodersDone
<1>2. IsFiniteSet(CodersDone')  BY <1>1, FS_Subset DEF CodingBounds
<1> QED  BY <1>1, <1>2, FS_Subset, FS_CardinalityType DEF CodingBounds

\* and with a call that is over now it grows by one
LEMMA DoneByOne ==
    ASSUME CodingBounds, NEW c \in Coders, step[c] # "done", step' = [step EXCEPT ![c] = "done"],
           Coding!TypeOK
    PROVE  Cardinality(CodersDone') = Cardinality(CodersDone) + 1
<1>1. CodersDone' = CodersDone \cup {c} /\ c \notin CodersDone  BY DEF CodersDone, Coding!TypeOK
<1> QED  BY <1>1, DoneCounts, FS_AddElement

-----------------------------------------------------------------------------
\* Removing sessions keeps the directories and the calls in order.
LEMMA CodingRemove ==
    ASSUME CodingInv, CodingBounds, NEW gone \in SUBSET sessions, Coding!Remove(gone),
           UNCHANGED <<cwd, created, agents, uses>>,
           \A c \in Coders : step'[c] \in {"probing", "asking", "ready"} => step[c] = step'[c],
           \A c \in Coders : step'[c] = "running" => step[c] = "running",
           \A c \in agents : step[c] = "done" => step'[c] = "done",
           \A c \in agents : step[c] = "running" => step'[c] \in {"running", "done"}
    PROVE  OneEach' /\ CallsHaveSessions' /\ sessions' \subseteq 1..created'
           /\ cwdTo' \in [Dirs -> Coding!Ids \cup {0}] /\ outlived' \subseteq Coders
<1> USE DEF CodingInv, CodingBounds, Coding!Remove, Coding!TypeOK, Coding!Ids
<1>1. OneEach'  BY DEF OneEach
<1>2. CallsHaveSessions'  BY DEF CallsHaveSessions, AwaitsOrRuns
<1>3. cwdTo' \in [Dirs -> Coding!Ids \cup {0}]  OBVIOUS
<1> QED  BY <1>1, <1>2, <1>3

\* The costs stay in their bounds while they are not touched.
LEMMA CostsStay ==
    ASSUME CodingBounds, Coding!TypeOK, CostsAreBounded, spent' = spent,
           \A c \in Coders : step[c] = "done" => step'[c] = "done",
           \A s \in Coding!Ids : idle'[s] <= ticks'
    PROVE  CostsAreBounded'
<1>1. \A s \in Coding!Ids : spent[s] \in Nat
  BY DoneCounts, SameCardinality DEF CodingBounds, Coding!TypeOK
<1> QED  BY <1>1, DoneStays DEF CostsAreBounded, CodingBounds

LEMMA CostsAsBefore ==
    ASSUME CodingBounds, Coding!TypeOK, CostsAreBounded, UNCHANGED <<spent, idle, ticks>>,
           \A c \in Coders : step[c] = "done" => step'[c] = "done"
    PROVE  CostsAreBounded'
<1>1. \A s \in Coding!Ids : idle'[s] <= ticks'  BY DEF CostsAreBounded
<1> QED  BY <1>1, CostsStay

LEMMA CodingStep == CodingBounds /\ CodingInv /\ [Coding!Next]_(Coding!sessionVars) => CodingInv'
<1> SUFFICES ASSUME CodingBounds, CodingInv, [Coding!Next]_(Coding!sessionVars)  PROVE CodingInv'
  OBVIOUS
<1>t. Coding!TypeOK /\ OneEach /\ CallsHaveSessions /\ ConsentIsGranted /\ CostsAreBounded
  BY DEF CodingInv
<1> USE DEF CodingBounds, Coding!Ids
<1>1. ASSUME NEW c \in Coders, NEW d \in Dirs, NEW setup \in BOOLEAN, Coding!Create(c, d, setup)
      PROVE  CodingInv'
  <2> DEFINE new == created + 1
             old == {cwdTo[d]} \cap sessions
  <2>1. /\ step[c] = "none" /\ new \in 1..MaxSessions /\ new \notin sessions
        /\ sessions' = (sessions \ old) \cup {new} /\ created' = new
        /\ cwdTo' = [cwdTo EXCEPT ![d] = new] /\ cwd' = [cwd EXCEPT ![new] = d]
        /\ uses' = [uses EXCEPT ![c] = new] /\ does' = [does EXCEPT ![c] = "setup"]
        /\ step' = [step EXCEPT ![c] = IF setup THEN "probing" ELSE "done"]
        /\ idle' = [idle EXCEPT ![new] = 0]
        /\ outlived' = outlived \cup {e \in Coders : uses[e] \in old /\ AwaitsOrRuns(e)}
        /\ UNCHANGED <<product, consented, spent, allowed, agents, granted, ticks>>
    BY <1>1, <1>t DEF Coding!Create, Coding!TypeOK, AwaitsOrRuns
  <2>2. c \notin agents  BY <1>t, <2>1 DEF CallsHaveSessions
  <2>3. OneEach'
    <3>1. \A s \in sessions' : cwd'[s] \in Dirs /\ cwdTo'[cwd'[s]] = s
      BY <1>t, <2>1 DEF OneEach, Coding!TypeOK
    <3>2. \A e \in Dirs : cwdTo'[e] # 0 => cwdTo'[e] \in sessions' /\ cwd'[cwdTo'[e]] = e
      BY <1>t, <2>1 DEF OneEach, Coding!TypeOK
    <3> QED  BY <3>1, <3>2 DEF OneEach
  <2>4. CallsHaveSessions'
    <3>1. \A e \in Coders \ {c} : uses'[e] = uses[e] /\ step'[e] = step[e]
      BY <1>t, <2>1 DEF Coding!TypeOK
    <3>2. uses'[c] = new /\ step'[c] \in {"probing", "done"}  BY <1>t, <2>1 DEF Coding!TypeOK
    <3> QED  BY <1>t, <2>1, <2>2, <3>1, <3>2 DEF CallsHaveSessions, AwaitsOrRuns, Coding!TypeOK
  <2>5. ConsentIsGranted'  BY <1>t, <2>1, <2>2 DEF ConsentIsGranted, Coding!TypeOK
  <2>6. CostsAreBounded'
    <3>1. \A e \in Coders : step[e] = "done" => step'[e] = "done"
      BY <1>t, <2>1 DEF Coding!TypeOK
    <3>2. \A s \in Coding!Ids : spent'[s] = spent[s] /\ spent[s] \in Nat
      BY <1>t, <2>1, DoneCounts, SameCardinality DEF Coding!TypeOK
    <3>3. \A s \in Coding!Ids : idle'[s] <= ticks'
      BY <1>t, <2>1 DEF CostsAreBounded, Coding!TypeOK
    <3> QED  BY <1>t, <3>1, <3>2, <3>3, DoneStays DEF CostsAreBounded
  <2>7. Coding!TypeOK'
    <3>1. cwd' \in [Coding!Ids -> Dirs \cup {NoDir}] /\ cwdTo' \in [Dirs -> Coding!Ids \cup {0}]
      BY <1>t, <2>1 DEF Coding!TypeOK
    <3>2. /\ does' \in [Coders -> Coding!Kinds] /\ uses' \in [Coders -> Coding!Ids \cup {0}]
          /\ step' \in [Coders -> {"none", "probing", "asking", "ready", "running", "done"}]
      BY <1>t, <2>1 DEF Coding!TypeOK, Coding!Kinds
    <3>3. sessions' \subseteq 1..created' /\ created' \in 0..MaxSessions
      <4>1. created \in Nat /\ sessions \subseteq 1..created  BY <1>t DEF Coding!TypeOK
      <4>2. sessions' \subseteq sessions \cup {new} /\ created' = new  BY <2>1
      <4>3. new \in 1..MaxSessions  BY <2>1
      <4>4. 1..created \subseteq 1..new /\ new \in 1..new /\ new \in 0..MaxSessions  BY <4>1, <4>3
      <4> HIDE DEF new
      <4> QED  BY <4>1, <4>2, <4>4
    <3>4. idle' \in [Coding!Ids -> 0..MaxTicks] /\ outlived' \subseteq Coders
      BY <1>t, <2>1 DEF Coding!TypeOK
    <3> QED  BY <1>t, <2>1, <3>1, <3>2, <3>3, <3>4 DEF Coding!TypeOK
  <2> QED  BY <2>3, <2>4, <2>5, <2>6, <2>7 DEF CodingInv
<1>2. ASSUME NEW c \in Coders, NEW s \in 1..MaxSessions, NEW what \in {"send", "exec"},
             Coding!Lookup(c, s, what)
      PROVE  CodingInv'
  <2>1. /\ step[c] = "none" /\ s \in 1..created /\ does' = [does EXCEPT ![c] = what]
        /\ UNCHANGED <<product, created, cwd, idle, consented, spent, allowed, agents, granted, ticks>>
    BY <1>2 DEF Coding!Lookup
  <2>2. c \notin agents  BY <1>t, <2>1 DEF CallsHaveSessions
  <2>3. CASE Coding!Found(s)
    <3>1. /\ uses' = [uses EXCEPT ![c] = s] /\ UNCHANGED <<sessions, cwdTo, outlived>>
          /\ step' = [step EXCEPT ![c] = "probing"] /\ s \in sessions
      BY <1>2, <2>3 DEF Coding!Lookup, Coding!Found
    <3>2. OneEach'  BY <1>t, <2>1, <3>1 DEF OneEach
    <3>3. CallsHaveSessions'
      BY <1>t, <2>1, <2>2, <3>1 DEF CallsHaveSessions, AwaitsOrRuns, Coding!TypeOK
    <3>4. ConsentIsGranted'  BY <1>t, <2>1, <2>2, <3>1 DEF ConsentIsGranted, Coding!TypeOK
    <3>5. \A e \in Coders : step[e] = "done" => step'[e] = "done"
      BY <1>t, <2>1, <3>1 DEF Coding!TypeOK
    <3>6. Coding!TypeOK'  BY <1>t, <2>1, <3>1 DEF Coding!TypeOK, Coding!Kinds
    <3> QED  BY <1>t, <2>1, <3>2, <3>3, <3>4, <3>5, <3>6, CostsAsBefore DEF CodingInv
  <2>4. CASE ~Coding!Found(s)
    <3>1. /\ Coding!Remove(sessions \cap {s}) /\ step' = [step EXCEPT ![c] = "done"] /\ UNCHANGED uses
      BY <1>2, <2>4 DEF Coding!Lookup, Coding!Forget
    <3>2. \A e \in Coders : step'[e] = IF e = c THEN "done" ELSE step[e]
      BY <1>t, <3>1 DEF Coding!TypeOK
    <3>3. /\ OneEach' /\ CallsHaveSessions' /\ sessions' \subseteq 1..created'
          /\ cwdTo' \in [Dirs -> Coding!Ids \cup {0}] /\ outlived' \subseteq Coders
      BY <1>t, <2>1, <2>2, <3>1, <3>2, CodingRemove DEF CodingInv
    <3>4. ConsentIsGranted'  BY <1>t, <2>1, <3>1, <3>2 DEF ConsentIsGranted
    <3>5. Coding!TypeOK'  BY <1>t, <2>1, <3>1, <3>3 DEF Coding!TypeOK, Coding!Kinds
    <3> QED  BY <1>t, <2>1, <3>2, <3>3, <3>4, <3>5, CostsAsBefore DEF CodingInv
  <2> QED  BY <2>3, <2>4
<1>3. ASSUME NEW c \in Coders, NEW yes \in BOOLEAN, NEW always \in BOOLEAN, Coding!Answer(c, yes, always)
      PROVE  CodingInv'
  <2>1. /\ step[c] = "asking" /\ step' = [step EXCEPT ![c] = IF yes THEN "ready" ELSE "done"]
        /\ consented' = IF yes THEN consented \cup {uses[c]} ELSE consented
        /\ granted' = IF yes THEN granted \cup {uses[c]} ELSE granted
        /\ allowed' = IF yes /\ always THEN allowed \cup {does[c]} ELSE allowed
        /\ UNCHANGED <<product, sessions, created, cwd, cwdTo, idle, spent, does, uses, agents, outlived, ticks>>
    BY <1>3 DEF Coding!Answer, Coding!Consented, Coding!managerVars
  <2>2. \A e \in Coders : step'[e] = IF e = c THEN (IF yes THEN "ready" ELSE "done") ELSE step[e]
    BY <1>t, <2>1 DEF Coding!TypeOK
  <2>3. c \notin agents /\ uses[c] \in 1..created
    BY <1>t, <2>1 DEF CallsHaveSessions, AwaitsOrRuns
  <2>4. OneEach'  BY <1>t, <2>1 DEF OneEach
  <2>5. CallsHaveSessions'  BY <1>t, <2>1, <2>2, <2>3 DEF CallsHaveSessions, AwaitsOrRuns
  <2>6. ConsentIsGranted'  BY <1>t, <2>1, <2>2, <2>3 DEF ConsentIsGranted
  <2>7. Coding!TypeOK'
    <3>1. uses[c] \in 1..MaxSessions  BY <1>t, <2>3 DEF Coding!TypeOK
    <3>2. step' \in [Coders -> {"none", "probing", "asking", "ready", "running", "done"}]
      BY <1>t, <2>1 DEF Coding!TypeOK
    <3>3. consented' \subseteq Coding!Ids /\ granted' \subseteq Coding!Ids
      BY <1>t, <2>1, <3>1 DEF Coding!TypeOK
    <3>4. allowed' \subseteq Coding!Kinds  BY <1>t, <2>1 DEF Coding!TypeOK
    <3> QED  BY <1>t, <2>1, <3>2, <3>3, <3>4 DEF Coding!TypeOK
  <2> QED  BY <1>t, <2>1, <2>2, <2>4, <2>5, <2>6, <2>7, CostsAsBefore DEF CodingInv
<1>4. ASSUME NEW c \in Coders, Coding!Ask(c)  PROVE CodingInv'
  <2>1. PICK next \in {"asking", "ready"} :
        /\ step[c] = "probing" /\ step' = [step EXCEPT ![c] = next]
        /\ \/ consented' = consented \cup {uses[c]} /\ granted' = granted \cup {uses[c]}
           \/ UNCHANGED <<consented, granted>> /\ (next = "ready" => uses[c] \in consented)
        /\ UNCHANGED <<product, sessions, created, cwd, cwdTo, idle, spent, allowed, does, uses, agents,
                       outlived, ticks>>
    <3> DEFINE asks == does[c] \notin allowed /\ ~(does[c] = "exec" /\ uses[c] \in consented)
    <3>1. CASE asks
      BY <1>4, <3>1 DEF Coding!Ask, Coding!managerVars
    <3>2. CASE ~asks
      BY <1>4, <3>2 DEF Coding!Ask, Coding!managerVars
    <3> QED  BY <3>1, <3>2
  <2>2. \A e \in Coders : step'[e] = IF e = c THEN next ELSE step[e]
    BY <1>t, <2>1 DEF Coding!TypeOK
  <2>3. c \notin agents /\ uses[c] \in 1..created
    BY <1>t, <2>1 DEF CallsHaveSessions, AwaitsOrRuns
  <2>4. OneEach'  BY <1>t, <2>1 DEF OneEach
  <2>5. CallsHaveSessions'  BY <1>t, <2>1, <2>2, <2>3 DEF CallsHaveSessions, AwaitsOrRuns
  <2>6. ConsentIsGranted'  BY <1>t, <2>1, <2>2, <2>3 DEF ConsentIsGranted
  <2>7. Coding!TypeOK'
    <3>1. uses[c] \in 1..MaxSessions  BY <1>t, <2>3 DEF Coding!TypeOK
    <3> QED  BY <1>t, <2>1, <3>1 DEF Coding!TypeOK
  <2> QED  BY <1>t, <2>1, <2>2, <2>4, <2>5, <2>6, <2>7, CostsAsBefore DEF CodingInv
<1>5. ASSUME NEW c \in Coders, Coding!Launch(c)  PROVE CodingInv'
  <2>1. PICK next \in {"running", "done"} :
        /\ step[c] = "ready" /\ step' = [step EXCEPT ![c] = next]
        /\ agents' = IF next = "running" THEN agents \cup {c} ELSE agents
        /\ UNCHANGED <<product, sessions, created, cwd, cwdTo, idle, consented, spent, allowed, does, uses,
                       granted, outlived, ticks>>
    BY <1>5 DEF Coding!Launch, Coding!managerVars
  <2>2. \A e \in Coders : step'[e] = IF e = c THEN next ELSE step[e]
    BY <1>t, <2>1 DEF Coding!TypeOK
  <2>4. OneEach'  BY <1>t, <2>1 DEF OneEach
  <2>5. CallsHaveSessions'  BY <1>t, <2>1, <2>2 DEF CallsHaveSessions, AwaitsOrRuns
  <2>6. ConsentIsGranted'  BY <1>t, <2>1, <2>2 DEF ConsentIsGranted
  <2>7. Coding!TypeOK'  BY <1>t, <2>1 DEF Coding!TypeOK
  <2> QED  BY <1>t, <2>1, <2>2, <2>4, <2>5, <2>6, <2>7, CostsAsBefore DEF CodingInv
<1>6. ASSUME NEW c \in Coders, Coding!Completes(c) \/ Coding!Fails(c)  PROVE CodingInv'
  <2>1. /\ step[c] = "running" /\ step' = [step EXCEPT ![c] = "done"] /\ agents' = agents \ {c}
        /\ UNCHANGED <<product, sessions, created, cwd, cwdTo, consented, allowed, does, uses, granted,
                       outlived, ticks>>
    BY <1>6 DEF Coding!Completes, Coding!Fails, Coding!Ends
  <2>2. \A e \in Coders : step'[e] = IF e = c THEN "done" ELSE step[e]
    BY <1>t, <2>1 DEF Coding!TypeOK
  <2>3. \/ UNCHANGED spent
        \/ \E total \in 0..Budget : spent' = [spent EXCEPT ![uses[c]] = total]
        \/ spent' = [spent EXCEPT ![uses[c]] = @ + 1]
    BY <1>6 DEF Coding!Completes, Coding!Fails, Coding!ClaudeDone, Coding!OpencodeDone, Coding!CommandDone
  <2>4. OneEach'  BY <1>t, <2>1 DEF OneEach
  <2>5. CallsHaveSessions'  BY <1>t, <2>1, <2>2 DEF CallsHaveSessions, AwaitsOrRuns
  <2>6. ConsentIsGranted'  BY <1>t, <2>1, <2>2 DEF ConsentIsGranted
  <2>7. uses[c] \in 1..MaxSessions /\ spent \in [1..MaxSessions -> Nat]
    BY <1>t, <2>1, DoneCounts, SameCardinality DEF CallsHaveSessions, Coding!TypeOK
  <2>8. Cardinality(CodersDone') = Cardinality(CodersDone) + 1 /\ Cardinality(CodersDone) \in Nat
    BY <1>t, <2>1, DoneByOne, DoneCounts
  <2>9. \A s \in 1..MaxSessions : spent'[s] \in Nat /\ spent'[s] <= Budget + Cardinality(CodersDone')
    <3>1. \A s \in 1..MaxSessions : spent[s] <= Budget + Cardinality(CodersDone)
      BY <1>t DEF CostsAreBounded
    <3>2. CASE UNCHANGED spent  BY <2>7, <2>8, <3>1, <3>2
    <3>3. ASSUME NEW total \in 0..Budget, spent' = [spent EXCEPT ![uses[c]] = total]
          PROVE  \A s \in 1..MaxSessions : spent'[s] \in Nat /\ spent'[s] <= Budget + Cardinality(CodersDone')
      BY <2>7, <2>8, <3>1, <3>3
    <3>4. CASE spent' = [spent EXCEPT ![uses[c]] = @ + 1]  BY <2>7, <2>8, <3>1, <3>4
    <3> QED  BY <2>3, <3>2, <3>3, <3>4
  <2>10. DOMAIN spent' = 1..MaxSessions /\ spent' = [s \in DOMAIN spent' |-> spent'[s]]
    BY <2>3, <2>7
  <2>11. spent' \in [1..MaxSessions -> 0..Budget + Cardinality(Coders)]
    <3>1. /\ Cardinality(CodersDone') \in Nat /\ Cardinality(CodersDone') <= Cardinality(Coders)
          /\ Cardinality(Coders) \in Nat
      BY <2>2, DoneStays
    <3>2. ASSUME NEW s \in 1..MaxSessions  PROVE spent'[s] \in 0..Budget + Cardinality(Coders)
      <4>1. spent'[s] \in Nat /\ spent'[s] <= Budget + Cardinality(CodersDone')  BY <2>9
      <4> QED  BY <3>1, <4>1
    <3> QED  BY <2>10, <3>2
  <2>12. idle' = idle \/ \E s \in 1..MaxSessions : idle' = [idle EXCEPT ![s] = 0]
    BY <1>6, <2>7 DEF Coding!Completes, Coding!Fails, Coding!Touched
  <2>13. /\ idle' \in [1..MaxSessions -> 0..MaxTicks]
         /\ \A s \in 1..MaxSessions : idle'[s] <= ticks'
    <3>1. /\ idle \in [1..MaxSessions -> 0..MaxTicks] /\ ticks \in 0..MaxTicks /\ MaxTicks \in Nat
          /\ \A s \in 1..MaxSessions : idle[s] <= ticks
      BY <1>t DEF CostsAreBounded, Coding!TypeOK
    <3>2. ticks' = ticks  BY <2>1
    <3>3. CASE idle' = idle  BY <3>1, <3>2, <3>3
    <3>4. ASSUME NEW s \in 1..MaxSessions, idle' = [idle EXCEPT ![s] = 0]
          PROVE  /\ idle' \in [1..MaxSessions -> 0..MaxTicks]
                 /\ \A i \in 1..MaxSessions : idle'[i] <= ticks'
      BY <3>1, <3>2, <3>4
    <3> QED  BY <2>12, <3>3, <3>4
  <2>14. CostsAreBounded'  BY <2>9, <2>13 DEF CostsAreBounded
  <2>15. Coding!TypeOK'  BY <1>t, <2>1, <2>11, <2>13, SameCardinality DEF Coding!TypeOK
  <2> QED  BY <2>4, <2>5, <2>6, <2>14, <2>15 DEF CodingInv
<1>7. ASSUME NEW c \in Coders, Coding!Unwind(c) \/ Coding!StrayEnds(c)  PROVE CodingInv'
  <2>1. /\ step' = [step EXCEPT ![c] = "done"]
        /\ agents' \in {agents, agents \ {c}} /\ step[c] \in {"asking", "running", "done"}
        /\ UNCHANGED <<product, sessions, created, cwd, cwdTo, idle, consented, spent, allowed, does, uses,
                       granted, outlived, ticks>>
    BY <1>7, <1>t DEF Coding!Unwind, Coding!StrayEnds, Coding!managerVars, Coding!TypeOK
  <2>2. \A e \in Coders : step'[e] = IF e = c THEN "done" ELSE step[e]
    BY <1>t, <2>1 DEF Coding!TypeOK
  <2>4. OneEach'  BY <1>t, <2>1 DEF OneEach
  <2>5. CallsHaveSessions'  BY <1>t, <2>1, <2>2 DEF CallsHaveSessions, AwaitsOrRuns
  <2>6. ConsentIsGranted'  BY <1>t, <2>1, <2>2 DEF ConsentIsGranted
  <2>7. Coding!TypeOK'  BY <1>t, <2>1 DEF Coding!TypeOK
  <2> QED  BY <1>t, <2>1, <2>2, <2>4, <2>5, <2>6, <2>7, CostsAsBefore DEF CodingInv
<1>8. ASSUME NEW c \in Coders, NEW s \in 1..MaxSessions, Coding!CopyFile(c, s)  PROVE CodingInv'
  <2>1. /\ step[c] = "none" /\ step' = [step EXCEPT ![c] = "done"] /\ idle' = [idle EXCEPT ![s] = 0]
        /\ UNCHANGED <<product, sessions, created, cwd, cwdTo, consented, spent, allowed, does, uses, agents,
                       granted, outlived, ticks>>
    BY <1>8 DEF Coding!CopyFile, Coding!Touched
  <2>2. \A e \in Coders : step'[e] = IF e = c THEN "done" ELSE step[e]
    BY <1>t, <2>1 DEF Coding!TypeOK
  <2>4. OneEach'  BY <1>t, <2>1 DEF OneEach
  <2>5. CallsHaveSessions'  BY <1>t, <2>1, <2>2 DEF CallsHaveSessions, AwaitsOrRuns
  <2>6. ConsentIsGranted'  BY <1>t, <2>1, <2>2 DEF ConsentIsGranted
  <2>7. Coding!TypeOK'  BY <1>t, <2>1 DEF Coding!TypeOK
  <2>8. \A i \in 1..MaxSessions : idle'[i] <= ticks
    BY <1>t, <2>1 DEF CostsAreBounded, Coding!TypeOK
  <2> QED  BY <1>t, <2>1, <2>2, <2>4, <2>5, <2>6, <2>7, <2>8, CostsStay DEF CodingInv
<1>9. ASSUME NEW c \in Coders, NEW gone \in SUBSET sessions, Coding!Remove(gone),
             step[c] = "none", step' = [step EXCEPT ![c] = "done"],
             UNCHANGED <<product, created, cwd, idle, consented, spent, allowed, does, uses, agents, granted,
                         ticks>>
      PROVE  CodingInv'
  <2>2. \A e \in Coders : step'[e] = IF e = c THEN "done" ELSE step[e]
    BY <1>t, <1>9 DEF Coding!TypeOK
  <2>3. c \notin agents  BY <1>t, <1>9 DEF CallsHaveSessions
  <2>4. /\ OneEach' /\ CallsHaveSessions' /\ sessions' \subseteq 1..created'
        /\ cwdTo' \in [Dirs -> Coding!Ids \cup {0}] /\ outlived' \subseteq Coders
    BY <1>t, <1>9, <2>2, <2>3, CodingRemove DEF CodingInv
  <2>5. ConsentIsGranted'  BY <1>t, <1>9, <2>2 DEF ConsentIsGranted
  <2>6. Coding!TypeOK'  BY <1>t, <1>9, <2>4 DEF Coding!TypeOK
  <2> QED  BY <1>t, <1>9, <2>2, <2>4, <2>5, <2>6, CostsAsBefore DEF CodingInv
<1>10. ASSUME NEW c \in Coders, NEW s \in 1..MaxSessions, Coding!StopSession(c, s)  PROVE CodingInv'
  BY <1>9, <1>10 DEF Coding!StopSession
<1>11. ASSUME NEW c \in Coders, Coding!ListActive(c)  PROVE CodingInv'
  BY <1>9, <1>11 DEF Coding!ListActive
<1>12. CASE Coding!Tick
  <2>1. /\ ticks' = ticks + 1 /\ ticks' \in 0..MaxTicks /\ ticks \in Nat
        /\ idle' = [s \in 1..MaxSessions |-> IF s \in sessions THEN idle[s] + 1 ELSE idle[s]]
        /\ UNCHANGED <<product, sessions, created, cwd, cwdTo, consented, spent, allowed, does, step, uses,
                       agents, granted, outlived>>
    BY <1>12, <1>t DEF Coding!Tick, Coding!callVars, Coding!TypeOK
  <2>2. OneEach' /\ CallsHaveSessions' /\ ConsentIsGranted'
    BY <1>t, <2>1 DEF OneEach, CallsHaveSessions, ConsentIsGranted, AwaitsOrRuns
  <2>3. \A s \in 1..MaxSessions : idle'[s] \in 0..MaxTicks /\ idle'[s] <= ticks'
    <3>1. \A s \in 1..MaxSessions : idle[s] \in Nat /\ idle[s] <= ticks
      BY <1>t DEF CostsAreBounded, Coding!TypeOK
    <3> QED  BY <2>1, <3>1
  <2>4. idle' \in [1..MaxSessions -> 0..MaxTicks]  BY <2>1, <2>3
  <2>5. Coding!TypeOK'  BY <1>t, <2>1, <2>4 DEF Coding!TypeOK
  <2> QED  BY <1>t, <2>1, <2>2, <2>3, <2>5, CostsStay DEF CodingInv
<1>13. CASE UNCHANGED Coding!sessionVars
  <2>1. UNCHANGED <<product, sessions, created, cwd, cwdTo, idle, consented, spent, allowed, does, step, uses,
                    agents, granted, outlived, ticks>>
    BY <1>13 DEF Coding!sessionVars, Coding!managerVars, Coding!callVars
  <2>2. OneEach' /\ CallsHaveSessions' /\ ConsentIsGranted'
    BY <1>t, <2>1 DEF OneEach, CallsHaveSessions, ConsentIsGranted, AwaitsOrRuns
  <2>3. Coding!TypeOK'  BY <1>t, <2>1 DEF Coding!TypeOK
  <2>4. \A s \in 1..MaxSessions : idle'[s] <= ticks'  BY <1>t, <2>1 DEF CostsAreBounded
  <2> QED  BY <1>t, <2>1, <2>2, <2>3, <2>4, CostsStay DEF CodingInv
<1> QED
  BY <1>1, <1>2, <1>3, <1>4, <1>5, <1>6, <1>7, <1>8, <1>10, <1>11, <1>12, <1>13 DEF Coding!Next, Coding!Ids

LEMMA CodingCorrect == ASSUME CodingBounds  PROVE Coding!Spec => []CodingInv
<1>1. Coding!Init => CodingInv  BY CodingInit
<1>2. CodingInv /\ [Coding!Next]_(Coding!sessionVars) => CodingInv'  BY CodingStep
<1> QED  BY <1>1, <1>2, PTL DEF Coding!Spec

\* The registry of sessions, its index of directories and what every call does
\* stay in their ranges; what a session cost is its budget and a call each that
\* came after (SessionManager, and the tools of the two skills).
THEOREM CodingTypes ==
    ASSUME CodingBounds
    PROVE  Coding!Spec => []Coding!TypeOK
<1>1. CodingInv => Coding!TypeOK  BY DEF CodingInv
<1> QED  BY <1>1, CodingCorrect, PTL

\* A directory has one session, the one its index leads to, and the agents that
\* run in a directory at the same time are of one session, but for those whose
\* session was forgotten under them.
THEOREM CodingOneEach ==
    ASSUME CodingBounds
    PROVE  Coding!Spec => []Coding!DirectoriesHaveOneSession
<1>1. CodingInv => Coding!DirectoriesHaveOneSession
  <2> SUFFICES ASSUME CodingInv  PROVE Coding!DirectoriesHaveOneSession
    OBVIOUS
  <2>1. OneEach  BY DEF CodingInv
  <2>2. \A c \in agents \ outlived : uses[c] \in sessions
    BY DEF CodingInv, CallsHaveSessions, AwaitsOrRuns, Coding!TypeOK
  <2> QED  BY <2>1, <2>2 DEF OneEach, Coding!DirectoriesHaveOneSession
<1> QED  BY <1>1, CodingCorrect, PTL

\* No process of a coding agent runs in a directory whose session the user has
\* never said yes to.
THEOREM CodingConsented ==
    ASSUME CodingBounds
    PROVE  Coding!Spec => []Coding!NothingRunsUnasked
<1>1. CodingInv => Coding!NothingRunsUnasked
  BY DEF CodingInv, ConsentIsGranted, Coding!TypeOK, Coding!NothingRunsUnasked
<1> QED  BY <1>1, CodingCorrect, PTL

-----------------------------------------------------------------------------
(* The timers *)

TimersBounds == MaxTime \in Nat \ {0} /\ Heartbeat \notin Schedules

\* A run the timers did not start is none of theirs, and what is being prepared
\* is a schedule, in a conversation with a name.
RunsInOrder ==
    /\ \A r \in Runs : runDoes[r] = "none" => r \notin byTimer
    /\ \A r \in Runs : runDoes[r] = "preparing" => of[r] \in Schedules
    /\ \A r \in Runs : runDoes[r] \in {"preparing", "turn"} => conv[r] > 0
    /\ \A r \in Runs : runDoes[r] = "spawned" /\ of[r] \in Schedules => r \in byTimer

\* What the timer takes to be in flight is what its live runs run, each of them
\* something else.
InFlight ==
    /\ \A s \in running_tasks : \E r \in byTimer : of[r] = s /\ Timers!Alive(r)
    /\ \A r \in byTimer : Timers!Alive(r) /\ of[r] \in Schedules => of[r] \in running_tasks
    /\ \A q, r \in byTimer : Timers!Alive(q) /\ Timers!Alive(r) /\ of[q] = of[r] => q = r

\* The time on disk is that of the last run, but for a file that a crash
\* emptied; a run that has not begun has not run in this unit of the clock,
\* unless somebody ran it by hand since.
TimesOnDisk ==
    /\ \A s \in Schedules : ran[s] <= now /\ (lastRun[s] = ran[s] \/ s \in torn)
    /\ \A r \in Runs : runDoes[r] = "spawned" /\ of[r] \in Schedules =>
         ran[of[r]] < now \/ of[r] \in raced \cup torn
    /\ twice \subseteq torn

\* The lock is held by one run, and with Mattermost by the cycle under way.
OneBeat ==
    /\ beat = {} \/ \E r \in Runs : beat = {r}
    /\ mattermost => \A r \in Runs : of[r] = Heartbeat /\ runDoes[r] = "turn" => beat = {r}

TimersInv == Timers!TypeOK /\ RunsInOrder /\ InFlight /\ TimesOnDisk /\ OneBeat

LEMMA TimersInit == TimersBounds /\ Timers!Init => TimersInv
<1> SUFFICES ASSUME TimersBounds, Timers!Init  PROVE TimersInv
  OBVIOUS
<1>1. RunsInOrder /\ InFlight /\ OneBeat
  BY DEF Timers!Init, RunsInOrder, InFlight, OneBeat, Timers!Alive, Timers!Live
<1>2. TimesOnDisk
  BY DEF TimersBounds, Timers!Init, TimesOnDisk, Timers!Works
<1>3. Timers!TypeOK
  <2>1. /\ lastRun \in [Timers!Works -> 0..MaxTime] /\ of \in [Runs -> Timers!Works]
        /\ conv \in [Runs -> 0..MaxTime] /\ ran \in [Schedules -> 0..MaxTime] /\ now \in 1..MaxTime
    BY DEF TimersBounds, Timers!Init, Timers!Works
  <2>2. Cardinality(beat) <= 1  BY FS_EmptySet DEF Timers!Init
  <2>3. runDoes \in [Runs -> {"none", "ended"} \cup Timers!Live]
    BY DEF Timers!Init
  <2> QED  BY <2>1, <2>2, <2>3, SameCardinalities DEF Timers!Init, Timers!TypeOK
<1> QED  BY <1>1, <1>2, <1>3 DEF TimersInv

LEMMA RunsStep ==
    ASSUME TimersBounds, Timers!TypeOK, RunsInOrder, [Timers!Next]_(Timers!scheduleVars)
    PROVE  RunsInOrder'
<1> USE DEF TimersBounds, RunsInOrder, Timers!TypeOK, Timers!Works, Timers!Alive, Timers!Live, Timers!diskVars, Timers!runVars, Timers!verdicts
<1>1. ASSUME NEW r \in Runs, Timers!FirstStep(r)  PROVE RunsInOrder'
  BY <1>1 DEF Timers!FirstStep, Timers!Begin
<1>2. ASSUME NEW r \in Runs, Timers!WriteFails(r)  PROVE RunsInOrder'
  BY <1>2 DEF Timers!WriteFails, Timers!Discarded, Timers!Unwritten
<1>3. ASSUME NEW r \in Runs, Timers!EnqueueTurn(r)  PROVE RunsInOrder'
  BY <1>3 DEF Timers!EnqueueTurn
<1>4. ASSUME NEW r \in Runs, NEW s \in Schedules, Timers!RunNow(r, s)  PROVE RunsInOrder'
  BY <1>4 DEF Timers!RunNow, Timers!Unused
<1>5. ASSUME NEW r \in Runs, NEW silent \in BOOLEAN, Timers!RunEnds(r, silent)  PROVE RunsInOrder'
  BY <1>5 DEF Timers!RunEnds, Timers!Discarded
<1>6. ASSUME NEW r \in Runs, Timers!HeartbeatTick(r)  PROVE RunsInOrder'
  BY <1>6 DEF Timers!HeartbeatTick, Timers!Unused, Timers!Due
<1>7. ASSUME NEW r \in Runs, Timers!HeartbeatTrigger(r)  PROVE RunsInOrder'
  BY <1>7 DEF Timers!HeartbeatTrigger, Timers!Unused
<1>8. ASSUME NEW r \in Runs, Timers!GuardedHeartbeat(r)  PROVE RunsInOrder'
  BY <1>8 DEF Timers!GuardedHeartbeat, Timers!Guard
<1>9. ASSUME NEW r \in Runs, Timers!CycleEnds(r)  PROVE RunsInOrder'
  BY <1>9 DEF Timers!CycleEnds
<1>10. ASSUME NEW torn_ \in SUBSET Schedules, Timers!Exit(torn_)  PROVE RunsInOrder'
  BY <1>10 DEF Timers!Exit
<1>11. CASE Timers!ScheduleTick
  BY <1>11 DEF Timers!ScheduleTick, Timers!Unused, Timers!Due
<1>12. CASE Timers!Clock
  BY <1>12 DEF Timers!Clock
<1>13. CASE Timers!Shutdown
  BY <1>13 DEF Timers!Shutdown, Timers!Discarded
<1>14. CASE Timers!Start
  BY <1>14 DEF Timers!Start
<1>15. CASE UNCHANGED Timers!scheduleVars
  BY <1>15 DEF Timers!scheduleVars
<1> QED  BY <1>1, <1>2, <1>3, <1>4, <1>5, <1>6, <1>7, <1>8, <1>9, <1>10, <1>11, <1>12, <1>13, <1>14, <1>15 DEF Timers!Next

LEMMA FlightStep ==
    ASSUME TimersBounds, Timers!TypeOK, RunsInOrder, InFlight, [Timers!Next]_(Timers!scheduleVars)
    PROVE  InFlight'
<1> USE DEF TimersBounds, RunsInOrder, InFlight, Timers!TypeOK, Timers!Works, Timers!Alive, Timers!Live, Timers!diskVars, Timers!runVars, Timers!verdicts
<1>1. ASSUME NEW r \in Runs, Timers!FirstStep(r)  PROVE InFlight'
  BY <1>1 DEF Timers!FirstStep, Timers!Begin
<1>2. ASSUME NEW r \in Runs, Timers!WriteFails(r)  PROVE InFlight'
  BY <1>2 DEF Timers!WriteFails, Timers!Discarded, Timers!Unwritten
<1>3. ASSUME NEW r \in Runs, Timers!EnqueueTurn(r)  PROVE InFlight'
  BY <1>3 DEF Timers!EnqueueTurn
<1>4. ASSUME NEW r \in Runs, NEW s \in Schedules, Timers!RunNow(r, s)  PROVE InFlight'
  BY <1>4 DEF Timers!RunNow, Timers!Unused
<1>5. ASSUME NEW r \in Runs, NEW silent \in BOOLEAN, Timers!RunEnds(r, silent)  PROVE InFlight'
  BY <1>5 DEF Timers!RunEnds, Timers!Discarded
<1>6. ASSUME NEW r \in Runs, Timers!HeartbeatTick(r)  PROVE InFlight'
  BY <1>6 DEF Timers!HeartbeatTick, Timers!Unused, Timers!Due
<1>7. ASSUME NEW r \in Runs, Timers!HeartbeatTrigger(r)  PROVE InFlight'
  BY <1>7 DEF Timers!HeartbeatTrigger, Timers!Unused
<1>8. ASSUME NEW r \in Runs, Timers!GuardedHeartbeat(r)  PROVE InFlight'
  BY <1>8 DEF Timers!GuardedHeartbeat, Timers!Guard
<1>9. ASSUME NEW r \in Runs, Timers!CycleEnds(r)  PROVE InFlight'
  BY <1>9 DEF Timers!CycleEnds
<1>10. ASSUME NEW torn_ \in SUBSET Schedules, Timers!Exit(torn_)  PROVE InFlight'
  BY <1>10 DEF Timers!Exit
<1>11. CASE Timers!ScheduleTick
  <2> DEFINE due == {s \in Schedules \ running_tasks : Timers!Due(s)}
  <2>1. PICK pick \in [due -> Timers!Unused] :
          /\ \A s, t \in due : pick[s] = pick[t] => s = t
          /\ runDoes' = [r \in Runs |-> IF r \in {pick[s] : s \in due} THEN "spawned" ELSE runDoes[r]]
          /\ of' = [r \in Runs |-> IF r \in {pick[s] : s \in due}
                                   THEN CHOOSE s \in due : pick[s] = r ELSE of[r]]
          /\ byTimer' = byTimer \cup {pick[s] : s \in due}
          /\ running_tasks' = running_tasks \cup due
    BY <1>11 DEF Timers!ScheduleTick
  <2>2. \A s \in due : /\ pick[s] \in Runs /\ runDoes[pick[s]] = "none" /\ pick[s] \in byTimer'
                       /\ runDoes'[pick[s]] = "spawned" /\ of'[pick[s]] = s
    BY <2>1 DEF Timers!Unused
  <2>3. \A r \in byTimer : r \in Runs /\ r \in byTimer' /\ runDoes'[r] = runDoes[r] /\ of'[r] = of[r]
    <3>1. \A r \in byTimer : r \in Runs /\ runDoes[r] # "none"  OBVIOUS
    <3>2. \A r \in byTimer : r \notin {pick[s] : s \in due}  BY <2>2, <3>1
    <3> QED  BY <2>1, <3>1, <3>2
  <2>4. \A r \in byTimer' : r \in byTimer \/ \E s \in due : r = pick[s]
    BY <2>1
  <2> HIDE DEF due
  <2>5. \A s \in running_tasks' : \E r \in byTimer' : of'[r] = s /\ Timers!Alive(r)'
    <3> SUFFICES ASSUME NEW s \in running_tasks'
                 PROVE  \E r \in byTimer' : of'[r] = s /\ Timers!Alive(r)'
      OBVIOUS
    <3>1. CASE s \in due  BY <2>2, <3>1
    <3>2. CASE s \in running_tasks
      <4>1. PICK r \in byTimer : of[r] = s /\ Timers!Alive(r)  BY <3>2
      <4> QED  BY <2>3, <4>1
    <3> QED  BY <2>1, <3>1, <3>2
  <2>6. \A r \in byTimer' : Timers!Alive(r)' /\ of'[r] \in Schedules => of'[r] \in running_tasks'
    BY <2>1, <2>2, <2>3, <2>4
  <2>7. \A s \in due : s \in Schedules /\ s \notin running_tasks  BY DEF due
  <2>8. \A q, r \in byTimer' : Timers!Alive(q)' /\ Timers!Alive(r)' /\ of'[q] = of'[r] => q = r
    BY <2>2, <2>3, <2>4, <2>7
  <2> QED  BY <2>5, <2>6, <2>8
<1>12. CASE Timers!Clock
  BY <1>12 DEF Timers!Clock
<1>13. CASE Timers!Shutdown
  BY <1>13 DEF Timers!Shutdown, Timers!Discarded
<1>14. CASE Timers!Start
  BY <1>14 DEF Timers!Start
<1>15. CASE UNCHANGED Timers!scheduleVars
  BY <1>15 DEF Timers!scheduleVars
<1> QED  BY <1>1, <1>2, <1>3, <1>4, <1>5, <1>6, <1>7, <1>8, <1>9, <1>10, <1>11, <1>12, <1>13, <1>14, <1>15 DEF Timers!Next

LEMMA TimesStep ==
    ASSUME TimersBounds, Timers!TypeOK, RunsInOrder, InFlight, TimesOnDisk, [Timers!Next]_(Timers!scheduleVars)
    PROVE  TimesOnDisk'
<1> USE DEF TimersBounds, RunsInOrder, InFlight, TimesOnDisk, Timers!TypeOK, Timers!Works, Timers!Alive, Timers!Live, Timers!diskVars, Timers!runVars, Timers!verdicts
<1>1. ASSUME NEW r \in Runs, Timers!FirstStep(r)  PROVE TimesOnDisk'
  BY <1>1 DEF Timers!FirstStep, Timers!Begin
<1>2. ASSUME NEW r \in Runs, Timers!WriteFails(r)  PROVE TimesOnDisk'
  BY <1>2 DEF Timers!WriteFails, Timers!Discarded, Timers!Unwritten
<1>3. ASSUME NEW r \in Runs, Timers!EnqueueTurn(r)  PROVE TimesOnDisk'
  BY <1>3 DEF Timers!EnqueueTurn
<1>4. ASSUME NEW r \in Runs, NEW s \in Schedules, Timers!RunNow(r, s)  PROVE TimesOnDisk'
  BY <1>4 DEF Timers!RunNow, Timers!Unused
<1>5. ASSUME NEW r \in Runs, NEW silent \in BOOLEAN, Timers!RunEnds(r, silent)  PROVE TimesOnDisk'
  BY <1>5 DEF Timers!RunEnds, Timers!Discarded
<1>6. ASSUME NEW r \in Runs, Timers!HeartbeatTick(r)  PROVE TimesOnDisk'
  BY <1>6 DEF Timers!HeartbeatTick, Timers!Unused, Timers!Due
<1>7. ASSUME NEW r \in Runs, Timers!HeartbeatTrigger(r)  PROVE TimesOnDisk'
  BY <1>7 DEF Timers!HeartbeatTrigger, Timers!Unused
<1>8. ASSUME NEW r \in Runs, Timers!GuardedHeartbeat(r)  PROVE TimesOnDisk'
  BY <1>8 DEF Timers!GuardedHeartbeat, Timers!Guard
<1>9. ASSUME NEW r \in Runs, Timers!CycleEnds(r)  PROVE TimesOnDisk'
  BY <1>9 DEF Timers!CycleEnds
<1>10. ASSUME NEW torn_ \in SUBSET Schedules, Timers!Exit(torn_)  PROVE TimesOnDisk'
  BY <1>10 DEF Timers!Exit
<1>11. CASE Timers!ScheduleTick
  BY <1>11 DEF Timers!ScheduleTick, Timers!Unused, Timers!Due
<1>12. CASE Timers!Clock
  BY <1>12 DEF Timers!Clock
<1>13. CASE Timers!Shutdown
  BY <1>13 DEF Timers!Shutdown, Timers!Discarded
<1>14. CASE Timers!Start
  BY <1>14 DEF Timers!Start
<1>15. CASE UNCHANGED Timers!scheduleVars
  BY <1>15 DEF Timers!scheduleVars
<1> QED  BY <1>1, <1>2, <1>3, <1>4, <1>5, <1>6, <1>7, <1>8, <1>9, <1>10, <1>11, <1>12, <1>13, <1>14, <1>15 DEF Timers!Next

LEMMA BeatStep ==
    ASSUME TimersBounds, Timers!TypeOK, RunsInOrder, OneBeat, [Timers!Next]_(Timers!scheduleVars)
    PROVE  OneBeat'
<1> USE DEF TimersBounds, RunsInOrder, OneBeat, Timers!TypeOK, Timers!Works, Timers!Alive, Timers!Live, Timers!diskVars, Timers!runVars, Timers!verdicts
<1>1. ASSUME NEW r \in Runs, Timers!FirstStep(r)  PROVE OneBeat'
  BY <1>1 DEF Timers!FirstStep, Timers!Begin
<1>2. ASSUME NEW r \in Runs, Timers!WriteFails(r)  PROVE OneBeat'
  BY <1>2 DEF Timers!WriteFails, Timers!Discarded, Timers!Unwritten
<1>3. ASSUME NEW r \in Runs, Timers!EnqueueTurn(r)  PROVE OneBeat'
  BY <1>3 DEF Timers!EnqueueTurn
<1>4. ASSUME NEW r \in Runs, NEW s \in Schedules, Timers!RunNow(r, s)  PROVE OneBeat'
  BY <1>4 DEF Timers!RunNow, Timers!Unused
<1>5. ASSUME NEW r \in Runs, NEW silent \in BOOLEAN, Timers!RunEnds(r, silent)  PROVE OneBeat'
  BY <1>5 DEF Timers!RunEnds, Timers!Discarded
<1>6. ASSUME NEW r \in Runs, Timers!HeartbeatTick(r)  PROVE OneBeat'
  BY <1>6 DEF Timers!HeartbeatTick, Timers!Unused, Timers!Due
<1>7. ASSUME NEW r \in Runs, Timers!HeartbeatTrigger(r)  PROVE OneBeat'
  BY <1>7 DEF Timers!HeartbeatTrigger, Timers!Unused
<1>8. ASSUME NEW r \in Runs, Timers!GuardedHeartbeat(r)  PROVE OneBeat'
  BY <1>8 DEF Timers!GuardedHeartbeat, Timers!Guard
<1>9. ASSUME NEW r \in Runs, Timers!CycleEnds(r)  PROVE OneBeat'
  BY <1>9 DEF Timers!CycleEnds
<1>10. ASSUME NEW torn_ \in SUBSET Schedules, Timers!Exit(torn_)  PROVE OneBeat'
  BY <1>10 DEF Timers!Exit
<1>11. CASE Timers!ScheduleTick
  BY <1>11 DEF Timers!ScheduleTick, Timers!Unused, Timers!Due
<1>12. CASE Timers!Clock
  BY <1>12 DEF Timers!Clock
<1>13. CASE Timers!Shutdown
  BY <1>13 DEF Timers!Shutdown, Timers!Discarded
<1>14. CASE Timers!Start
  BY <1>14 DEF Timers!Start
<1>15. CASE UNCHANGED Timers!scheduleVars
  BY <1>15 DEF Timers!scheduleVars
<1> QED  BY <1>1, <1>2, <1>3, <1>4, <1>5, <1>6, <1>7, <1>8, <1>9, <1>10, <1>11, <1>12, <1>13, <1>14, <1>15 DEF Timers!Next

LEMMA TypesStep ==
    ASSUME TimersBounds, TimersInv, OneBeat', RunsInOrder', [Timers!Next]_(Timers!scheduleVars)
    PROVE  Timers!TypeOK'
<1> USE DEF TimersBounds, TimersInv, RunsInOrder, InFlight, Timers!Works, Timers!Live, Timers!diskVars, Timers!runVars, Timers!verdicts
<1>1. beat' \subseteq Runs /\ Timers!Cardinality(beat)' <= 1
  <2>1. beat' = {} \/ \E r \in Runs : beat' = {r}  BY DEF OneBeat
  <2>2. ASSUME NEW b, b = {} \/ \E r \in Runs : b = {r}
        PROVE  b \subseteq Runs /\ Timers!Cardinality(b) <= 1
    <3>1. CASE b = {}  BY <3>1, FS_EmptySet, SameCardinalities
    <3>2. ASSUME NEW r \in Runs, b = {r}  PROVE b \subseteq Runs /\ Timers!Cardinality(b) <= 1
      <4>1. Cardinality(b) = 1  BY <3>2, FS_Singleton
      <4> QED  BY <3>2, <4>1, SameCardinalities
    <3> QED  BY <2>2, <3>1, <3>2
  <2> QED  BY <2>1, <2>2
<1>2. ASSUME NEW r \in Runs, Timers!FirstStep(r)  PROVE Timers!TypeOK'
  BY <1>1, <1>2 DEF Timers!TypeOK, Timers!FirstStep, Timers!Begin
<1>3. ASSUME NEW r \in Runs, Timers!WriteFails(r)  PROVE Timers!TypeOK'
  BY <1>1, <1>3 DEF Timers!TypeOK, Timers!WriteFails, Timers!Discarded, Timers!Unwritten
<1>4. ASSUME NEW r \in Runs, Timers!EnqueueTurn(r)  PROVE Timers!TypeOK'
  BY <1>1, <1>4 DEF Timers!TypeOK, Timers!EnqueueTurn
<1>5. ASSUME NEW r \in Runs, NEW s \in Schedules, Timers!RunNow(r, s)  PROVE Timers!TypeOK'
  BY <1>1, <1>5 DEF Timers!TypeOK, Timers!RunNow, Timers!Unused
<1>6. ASSUME NEW r \in Runs, NEW silent \in BOOLEAN, Timers!RunEnds(r, silent)  PROVE Timers!TypeOK'
  BY <1>1, <1>6 DEF Timers!TypeOK, Timers!RunEnds, Timers!Discarded
<1>7. ASSUME NEW r \in Runs, Timers!HeartbeatTick(r)  PROVE Timers!TypeOK'
  BY <1>1, <1>7 DEF Timers!TypeOK, Timers!HeartbeatTick, Timers!Unused, Timers!Due
<1>8. ASSUME NEW r \in Runs, Timers!HeartbeatTrigger(r)  PROVE Timers!TypeOK'
  BY <1>1, <1>8 DEF Timers!TypeOK, Timers!HeartbeatTrigger, Timers!Unused
<1>9. ASSUME NEW r \in Runs, Timers!GuardedHeartbeat(r)  PROVE Timers!TypeOK'
  BY <1>1, <1>9 DEF Timers!TypeOK, Timers!GuardedHeartbeat, Timers!Guard
<1>10. ASSUME NEW r \in Runs, Timers!CycleEnds(r)  PROVE Timers!TypeOK'
  BY <1>1, <1>10 DEF Timers!TypeOK, Timers!CycleEnds
<1>11. ASSUME NEW torn_ \in SUBSET Schedules, Timers!Exit(torn_)  PROVE Timers!TypeOK'
  BY <1>1, <1>11 DEF Timers!TypeOK, Timers!Exit
<1>12. CASE Timers!ScheduleTick
  BY <1>1, <1>12 DEF Timers!TypeOK, Timers!ScheduleTick, Timers!Unused, Timers!Due
<1>13. CASE Timers!Clock
  BY <1>1, <1>13 DEF Timers!TypeOK, Timers!Clock
<1>14. CASE Timers!Shutdown
  BY <1>1, <1>14 DEF Timers!TypeOK, Timers!Shutdown, Timers!Discarded
<1>15. CASE Timers!Start
  BY <1>1, <1>15 DEF Timers!TypeOK, Timers!Start
<1>16. CASE UNCHANGED Timers!scheduleVars
  BY <1>1, <1>16 DEF Timers!TypeOK, Timers!scheduleVars
<1> QED  BY <1>2, <1>3, <1>4, <1>5, <1>6, <1>7, <1>8, <1>9, <1>10, <1>11, <1>12, <1>13, <1>14, <1>15, <1>16 DEF Timers!Next

LEMMA TimersCorrect == ASSUME TimersBounds  PROVE Timers!Spec => []TimersInv
<1>1. Timers!Init => TimersInv  BY TimersInit
<1>2. TimersInv /\ [Timers!Next]_(Timers!scheduleVars) => TimersInv'
  BY RunsStep, FlightStep, TimesStep, BeatStep, TypesStep DEF TimersInv
<1> QED  BY <1>1, <1>2, PTL DEF Timers!Spec

\* What the timers keep of schedules, runs and the lock stays in its range.
THEOREM TimersTypes ==
    ASSUME TimersBounds
    PROVE  Timers!Spec => []Timers!TypeOK
<1>1. TimersInv => Timers!TypeOK  BY DEF TimersInv
<1> QED  BY <1>1, TimersCorrect, PTL

\* A schedule that the timer skips as still running has a run that is alive
\* (_running_tasks of schedules.py), through failures, shutdowns and crashes.
THEOREM TimersNotStranded ==
    ASSUME TimersBounds
    PROVE  Timers!Spec => []Timers!NoScheduleIsStranded
<1>1. TimersInv => Timers!NoScheduleIsStranded
  BY DEF TimersInv, InFlight, Timers!NoScheduleIsStranded
<1> QED  BY <1>1, TimersCorrect, PTL

\* The timer runs an occurrence once, and one run of a schedule at a time.
THEOREM TimersRunOnce ==
    ASSUME TimersBounds
    PROVE  Timers!Spec => []Timers!OccurrencesRunOnce
<1>1. TimersInv => Timers!OccurrencesRunOnce
  BY DEF TimersInv, InFlight, TimesOnDisk, Timers!OccurrencesRunOnce
<1> QED  BY <1>1, TimersCorrect, PTL

\* With Mattermost one heartbeat cycle is under way at a time (_heartbeat_lock).
THEOREM TimersTakeTurns ==
    ASSUME TimersBounds
    PROVE  Timers!Spec => []Timers!CyclesTakeTurns
<1>1. TimersInv => Timers!CyclesTakeTurns
  BY DEF TimersInv, OneBeat, Timers!CyclesTakeTurns
<1> QED  BY <1>1, TimersCorrect, PTL

-----------------------------------------------------------------------------
(* The connection to an MCP server *)

ServersBounds == IsFiniteSet(Ops) /\ NoOp \notin Ops /\ MaxRetries \in Nat /\ MaxOpCancels \in Nat

Before == {"idle", "drain", "close", "told", "refresh"}
Connecting == {"connect", "list", "announce", "undo"}

\* what the steps need of the types
ServersTyped ==
    /\ at \in [Ops -> Servers!Places] /\ agen \in [Ops -> Nat] /\ generation \in Nat
    /\ open \in [Ops -> BOOLEAN] /\ op \in [Ops -> Servers!Kinds]
    /\ {stack, task} \subseteq Servers!Maybe

\* A generation is that of one attempt; who has not come to its attempt has none.
Numbers ==
    /\ \A o \in Ops : agen[o] <= generation
    /\ \A o, p \in Ops : agen[o] # 0 /\ agen[o] = agen[p] => o = p
    /\ \A o \in Ops : at[o] \in Before => agen[o] = 0
    /\ \A o \in Ops : at[o] \in Connecting \cup {"publish"} => agen[o] # 0

\* An open connection is that of the state or was lost by it, and one that is
\* about to open; a stack that came after that of the current attempt is a late
\* one's, which will never open.
OwnedStacks ==
    /\ \A a \in Ops : open[a] => at[a] \notin Before \cup {"publish", "connect"}
    /\ \A a \in Ops : open[a] \/ at[a] = "connect" => stack = a \/ a \in disowned
    /\ \A o \in Ops : Servers!Current(o) /\ at[o] \in Connecting /\ stack \notin {o, NoOp} =>
         stack \in disowned \/ (~open[stack] /\ at[stack] # "connect")

LEMMA NumbersStep ==
    ASSUME ServersBounds, ServersTyped, [Servers!Next]_(Servers!mcpVars), Numbers
    PROVE  Numbers'
<1> USE DEF ServersBounds, ServersTyped, Servers!Places, Servers!Maybe, Servers!Goto,
            Servers!fields, Servers!TaskRuns, Servers!Cancelled, Servers!Current, Servers!Live,
            Servers!Attempting, Numbers, Before, Connecting
<1>0. ASSUME NEW o \in Ops, NEW kind \in Servers!Kinds, Servers!Disconnect(o, kind)  PROVE Numbers'
  <2> USE <1>0 DEF Servers!Disconnect
  <2>1. CASE Servers!TaskRuns /\ Servers!CancelTask(o, "drain")
    BY <2>1 DEF Servers!CancelTask
  <2>2. CASE ~Servers!TaskRuns /\ stack # NoOp
    BY <2>2 DEF Servers!CloseOrReset
  <2>3. CASE ~Servers!TaskRuns /\ stack = NoOp
    BY <2>3 DEF Servers!CloseOrReset, Servers!ResetState, Servers!Lost
  <2> QED  BY <2>1, <2>2, <2>3
<1>s. ASSUME NEW o \in Ops, at[o] \in {"idle", "told"}, Servers!StartConnect(o),
           UNCHANGED <<open, stack, disowned>>
      PROVE  Numbers'
  BY <1>s DEF Servers!StartConnect, Servers!NewGeneration, Servers!CancelTask
<1>1. ASSUME NEW o \in Ops, Servers!Startup(o)  PROVE Numbers'
  BY <1>s, <1>1 DEF Servers!Startup, Servers!Kinds
<1>2. ASSUME NEW o \in Ops, Servers!Restart(o)  PROVE Numbers'
  BY <1>0, <1>2 DEF Servers!Restart, Servers!Kinds
<1>3. ASSUME NEW o \in Ops, Servers!Reconnect(o)  PROVE Numbers'
  BY <1>0, <1>3 DEF Servers!Reconnect, Servers!Kinds
<1>4. ASSUME NEW o \in Ops, Servers!Shutdown(o)  PROVE Numbers'
  BY <1>0, <1>4 DEF Servers!Shutdown, Servers!Kinds
<1>5. ASSUME NEW o \in Ops, Servers!Drained(o)  PROVE Numbers'
  <2> USE <1>5 DEF Servers!Drained
  <2>1. CASE stack # NoOp
    BY <2>1 DEF Servers!CloseOrReset
  <2>2. CASE stack = NoOp
    BY <2>2 DEF Servers!CloseOrReset, Servers!ResetState, Servers!Lost
  <2> QED  BY <2>1, <2>2
<1>6. ASSUME NEW o \in Ops, Servers!Closed(o)  PROVE Numbers'
  BY <1>6 DEF Servers!Closed, Servers!ResetState, Servers!Lost
<1>7. ASSUME NEW o \in Ops, Servers!After(o)  PROVE Numbers'
  <2> USE <1>7 DEF Servers!After
  <2>1. CASE op[o] = "shutdown"  BY <2>1
  <2>2. CASE op[o] = "restart"
    BY <1>s, <2>2
  <2>3. CASE op[o] = "call"
    <3>1. CASE closed  BY <2>3, <3>1
    <3>2. CASE ~closed  BY <2>3, <3>2 DEF Servers!NewGeneration
    <3> QED  BY <3>1, <3>2
  <2> QED  BY <2>1, <2>2, <2>3
<1>8. ASSUME NEW o \in Ops, Servers!Published(o)  PROVE Numbers'
  BY <1>8 DEF Servers!Published, Servers!Attempt, Servers!Over
<1>9. ASSUME NEW o \in Ops, Servers!SessionOpens(o)  PROVE Numbers'
  BY <1>9 DEF Servers!SessionOpens, Servers!Attempt, Servers!Undo
<1>10. ASSUME NEW o \in Ops, Servers!AttemptFails(o)  PROVE Numbers'
  BY <1>10 DEF Servers!AttemptFails, Servers!Attempt, Servers!Undo
<1>11. ASSUME NEW o \in Ops, Servers!Discovered(o)  PROVE Numbers'
  BY <1>11 DEF Servers!Discovered, Servers!Attempt, Servers!Undo
<1>12. ASSUME NEW o \in Ops, Servers!Announced(o)  PROVE Numbers'
  BY <1>12 DEF Servers!Announced, Servers!Attempt, Servers!Over
<1>13. ASSUME NEW o \in Ops, Servers!Undone(o)  PROVE Numbers'
  BY <1>13 DEF Servers!Undone, Servers!Attempt, Servers!Over
<1>14. ASSUME NEW o \in Ops, Servers!Call(o)  PROVE Numbers'
  BY <1>14 DEF Servers!Call, Servers!Idle
<1>15. ASSUME NEW o \in Ops, Servers!Refresh(o)  PROVE Numbers'
  BY <1>15 DEF Servers!Refresh, Servers!Idle
<1>16. ASSUME NEW o \in Ops, Servers!Refreshed(o)  PROVE Numbers'
  BY <1>16 DEF Servers!Refreshed, Servers!Idle
<1>17. ASSUME NEW o \in Ops, Servers!CancelCall(o)  PROVE Numbers'
  BY <1>17 DEF Servers!CancelCall, Servers!Undo
<1>18. ASSUME NEW o \in Ops, NEW fails \in BOOLEAN, Servers!CallReturns(o, fails)  PROVE Numbers'
  BY <1>18 DEF Servers!CallReturns, Servers!Idle
<1>19. CASE Servers!BackoffEnds  BY <1>19 DEF Servers!BackoffEnds
<1>20. CASE UNCHANGED Servers!mcpVars  BY <1>20 DEF Servers!mcpVars
<1> HIDE DEF ServersBounds, ServersTyped, Servers!Places, Servers!Maybe, Servers!Goto,
             Servers!fields, Servers!TaskRuns, Servers!Cancelled, Servers!Current, Servers!Live,
             Servers!Attempting, Numbers, Before, Connecting
<1> QED  BY <1>1, <1>2, <1>3, <1>4, <1>5, <1>6, <1>7, <1>8, <1>9, <1>10, <1>11, <1>12, <1>13,
            <1>14, <1>15, <1>16, <1>17, <1>18, <1>19, <1>20 DEF Servers!Next

LEMMA OwnStep ==
    ASSUME ServersBounds, ServersTyped, [Servers!Next]_(Servers!mcpVars), Numbers, OwnedStacks
    PROVE  OwnedStacks'
<1> USE DEF ServersBounds, ServersTyped, Servers!Places, Servers!Maybe, Servers!Goto,
            Servers!fields, Servers!TaskRuns, Servers!Cancelled, Servers!Current, Servers!Live,
            Servers!Attempting, Numbers, OwnedStacks, Before, Connecting
<1>0. ASSUME NEW o \in Ops, NEW kind \in Servers!Kinds, Servers!Disconnect(o, kind)
      PROVE OwnedStacks'
  <2> USE <1>0 DEF Servers!Disconnect
  <2>1. CASE Servers!TaskRuns /\ Servers!CancelTask(o, "drain")
    BY <2>1 DEF Servers!CancelTask
  <2>2. CASE ~Servers!TaskRuns /\ stack # NoOp
    BY <2>2 DEF Servers!CloseOrReset
  <2>3. CASE ~Servers!TaskRuns /\ stack = NoOp
    BY <2>3 DEF Servers!CloseOrReset, Servers!ResetState, Servers!Lost
  <2> QED  BY <2>1, <2>2, <2>3
<1>s. ASSUME NEW o \in Ops, at[o] \in {"idle", "told"}, Servers!StartConnect(o),
           UNCHANGED <<open, stack, disowned>>
      PROVE  OwnedStacks'
  BY <1>s DEF Servers!StartConnect, Servers!NewGeneration, Servers!CancelTask
<1>1. ASSUME NEW o \in Ops, Servers!Startup(o)  PROVE OwnedStacks'
  BY <1>s, <1>1 DEF Servers!Startup, Servers!Kinds
<1>2. ASSUME NEW o \in Ops, Servers!Restart(o)  PROVE OwnedStacks'
  BY <1>0, <1>2 DEF Servers!Restart, Servers!Kinds
<1>3. ASSUME NEW o \in Ops, Servers!Reconnect(o)  PROVE OwnedStacks'
  BY <1>0, <1>3 DEF Servers!Reconnect, Servers!Kinds
<1>4. ASSUME NEW o \in Ops, Servers!Shutdown(o)  PROVE OwnedStacks'
  BY <1>0, <1>4 DEF Servers!Shutdown, Servers!Kinds
<1>5. ASSUME NEW o \in Ops, Servers!Drained(o)  PROVE OwnedStacks'
  <2> USE <1>5 DEF Servers!Drained
  <2>1. CASE stack # NoOp
    BY <2>1 DEF Servers!CloseOrReset
  <2>2. CASE stack = NoOp
    BY <2>2 DEF Servers!CloseOrReset, Servers!ResetState, Servers!Lost
  <2> QED  BY <2>1, <2>2
<1>6. ASSUME NEW o \in Ops, Servers!Closed(o)  PROVE OwnedStacks'
  BY <1>6 DEF Servers!Closed, Servers!ResetState, Servers!Lost
<1>7. ASSUME NEW o \in Ops, Servers!After(o)  PROVE OwnedStacks'
  <2> USE <1>7 DEF Servers!After
  <2>1. CASE op[o] = "shutdown"  BY <2>1
  <2>2. CASE op[o] = "restart"
    BY <1>s, <2>2
  <2>3. CASE op[o] = "call"
    <3>1. CASE closed  BY <2>3, <3>1
    <3>2. CASE ~closed  BY <2>3, <3>2 DEF Servers!NewGeneration
    <3> QED  BY <3>1, <3>2
  <2> QED  BY <2>1, <2>2, <2>3
<1>8. ASSUME NEW o \in Ops, Servers!Published(o)  PROVE OwnedStacks'
  <2> USE <1>8 DEF Servers!Published, Servers!Attempt, Servers!Over
  <2>1. CASE Servers!Live(o)  BY <2>1
  <2>2. CASE ~Servers!Live(o) /\ Servers!Current(o)  BY <2>2
  <2>3. CASE ~Servers!Live(o) /\ ~Servers!Current(o)  BY <2>3
  <2> QED  BY <2>1, <2>2, <2>3
<1>9. ASSUME NEW o \in Ops, Servers!SessionOpens(o)  PROVE OwnedStacks'
  BY <1>9 DEF Servers!SessionOpens, Servers!Attempt, Servers!Undo
<1>10. ASSUME NEW o \in Ops, Servers!AttemptFails(o)  PROVE OwnedStacks'
  BY <1>10 DEF Servers!AttemptFails, Servers!Attempt, Servers!Undo
<1>11. ASSUME NEW o \in Ops, Servers!Discovered(o)  PROVE OwnedStacks'
  BY <1>11 DEF Servers!Discovered, Servers!Attempt, Servers!Undo
<1>12. ASSUME NEW o \in Ops, Servers!Announced(o)  PROVE OwnedStacks'
  BY <1>12 DEF Servers!Announced, Servers!Attempt, Servers!Over
<1>13. ASSUME NEW o \in Ops, Servers!Undone(o)  PROVE OwnedStacks'
  BY <1>13 DEF Servers!Undone, Servers!Attempt, Servers!Over
<1>14. ASSUME NEW o \in Ops, Servers!Call(o)  PROVE OwnedStacks'
  BY <1>14 DEF Servers!Call, Servers!Idle
<1>15. ASSUME NEW o \in Ops, Servers!Refresh(o)  PROVE OwnedStacks'
  BY <1>15 DEF Servers!Refresh, Servers!Idle
<1>16. ASSUME NEW o \in Ops, Servers!Refreshed(o)  PROVE OwnedStacks'
  BY <1>16 DEF Servers!Refreshed, Servers!Idle
<1>17. ASSUME NEW o \in Ops, Servers!CancelCall(o)  PROVE OwnedStacks'
  BY <1>17 DEF Servers!CancelCall, Servers!Undo
<1>18. ASSUME NEW o \in Ops, NEW fails \in BOOLEAN, Servers!CallReturns(o, fails)
       PROVE OwnedStacks'
  BY <1>18 DEF Servers!CallReturns, Servers!Idle
<1>19. CASE Servers!BackoffEnds  BY <1>19 DEF Servers!BackoffEnds
<1>20. CASE UNCHANGED Servers!mcpVars  BY <1>20 DEF Servers!mcpVars
<1> HIDE DEF ServersBounds, ServersTyped, Servers!Places, Servers!Maybe, Servers!Goto,
             Servers!fields, Servers!TaskRuns, Servers!Cancelled, Servers!Current, Servers!Live,
             Servers!Attempting, Numbers, OwnedStacks, Before, Connecting
<1> QED  BY <1>1, <1>2, <1>3, <1>4, <1>5, <1>6, <1>7, <1>8, <1>9, <1>10, <1>11, <1>12, <1>13,
            <1>14, <1>15, <1>16, <1>17, <1>18, <1>19, <1>20 DEF Servers!Next

LEMMA WaitStep ==
        ASSUME ServersBounds, ServersTyped, [Servers!Next]_(Servers!mcpVars), Numbers,
        Servers!WaitersAreReleased
    PROVE  Servers!WaitersAreReleased'
<1> USE DEF ServersBounds, ServersTyped, Servers!Places, Servers!Maybe, Servers!Goto,
            Servers!fields, Servers!TaskRuns, Servers!Cancelled, Servers!Current, Servers!Live,
            Servers!Attempting, Servers!WaitersAreReleased, Numbers
<1>0. ASSUME NEW o \in Ops, NEW kind \in Servers!Kinds, Servers!Disconnect(o, kind)
      PROVE Servers!WaitersAreReleased'
  <2> USE <1>0 DEF Servers!Disconnect
  <2>1. CASE Servers!TaskRuns /\ Servers!CancelTask(o, "drain")
    BY <2>1 DEF Servers!CancelTask
  <2>2. CASE ~Servers!TaskRuns /\ stack # NoOp
    BY <2>2 DEF Servers!CloseOrReset
  <2>3. CASE ~Servers!TaskRuns /\ stack = NoOp
    BY <2>3 DEF Servers!CloseOrReset, Servers!ResetState, Servers!Lost
  <2> QED  BY <2>1, <2>2, <2>3
<1>s. ASSUME NEW o \in Ops, at[o] \in {"idle", "told"}, Servers!StartConnect(o),
           UNCHANGED <<open, stack, disowned>>
      PROVE  Servers!WaitersAreReleased'
  BY <1>s DEF Servers!StartConnect, Servers!NewGeneration, Servers!CancelTask
<1>1. ASSUME NEW o \in Ops, Servers!Startup(o)  PROVE Servers!WaitersAreReleased'
  BY <1>s, <1>1 DEF Servers!Startup, Servers!Kinds
<1>2. ASSUME NEW o \in Ops, Servers!Restart(o)  PROVE Servers!WaitersAreReleased'
  BY <1>0, <1>2 DEF Servers!Restart, Servers!Kinds
<1>3. ASSUME NEW o \in Ops, Servers!Reconnect(o)  PROVE Servers!WaitersAreReleased'
  BY <1>0, <1>3 DEF Servers!Reconnect, Servers!Kinds
<1>4. ASSUME NEW o \in Ops, Servers!Shutdown(o)  PROVE Servers!WaitersAreReleased'
  BY <1>0, <1>4 DEF Servers!Shutdown, Servers!Kinds
<1>5. ASSUME NEW o \in Ops, Servers!Drained(o)  PROVE Servers!WaitersAreReleased'
  <2> USE <1>5 DEF Servers!Drained
  <2>1. CASE stack # NoOp
    BY <2>1 DEF Servers!CloseOrReset
  <2>2. CASE stack = NoOp
    BY <2>2 DEF Servers!CloseOrReset, Servers!ResetState, Servers!Lost
  <2> QED  BY <2>1, <2>2
<1>6. ASSUME NEW o \in Ops, Servers!Closed(o)  PROVE Servers!WaitersAreReleased'
  BY <1>6 DEF Servers!Closed, Servers!ResetState, Servers!Lost
<1>7. ASSUME NEW o \in Ops, Servers!After(o)  PROVE Servers!WaitersAreReleased'
  <2> USE <1>7 DEF Servers!After
  <2>1. CASE op[o] = "shutdown"  BY <2>1
  <2>2. CASE op[o] = "restart"
    BY <1>s, <2>2
  <2>3. CASE op[o] = "call"
    <3>1. CASE closed  BY <2>3, <3>1
    <3>2. CASE ~closed  BY <2>3, <3>2 DEF Servers!NewGeneration
    <3> QED  BY <3>1, <3>2
  <2> QED  BY <2>1, <2>2, <2>3
<1>8. ASSUME NEW o \in Ops, Servers!Published(o)  PROVE Servers!WaitersAreReleased'
  BY <1>8 DEF Servers!Published, Servers!Attempt, Servers!Over
<1>9. ASSUME NEW o \in Ops, Servers!SessionOpens(o)  PROVE Servers!WaitersAreReleased'
  BY <1>9 DEF Servers!SessionOpens, Servers!Attempt, Servers!Undo
<1>10. ASSUME NEW o \in Ops, Servers!AttemptFails(o)  PROVE Servers!WaitersAreReleased'
  BY <1>10 DEF Servers!AttemptFails, Servers!Attempt, Servers!Undo
<1>11. ASSUME NEW o \in Ops, Servers!Discovered(o)  PROVE Servers!WaitersAreReleased'
  BY <1>11 DEF Servers!Discovered, Servers!Attempt, Servers!Undo
<1>12. ASSUME NEW o \in Ops, Servers!Announced(o)  PROVE Servers!WaitersAreReleased'
  BY <1>12 DEF Servers!Announced, Servers!Attempt, Servers!Over
<1>13. ASSUME NEW o \in Ops, Servers!Undone(o)  PROVE Servers!WaitersAreReleased'
  BY <1>13 DEF Servers!Undone, Servers!Attempt, Servers!Over
<1>14. ASSUME NEW o \in Ops, Servers!Call(o)  PROVE Servers!WaitersAreReleased'
  BY <1>14 DEF Servers!Call, Servers!Idle
<1>15. ASSUME NEW o \in Ops, Servers!Refresh(o)  PROVE Servers!WaitersAreReleased'
  BY <1>15 DEF Servers!Refresh, Servers!Idle
<1>16. ASSUME NEW o \in Ops, Servers!Refreshed(o)  PROVE Servers!WaitersAreReleased'
  BY <1>16 DEF Servers!Refreshed, Servers!Idle
<1>17. ASSUME NEW o \in Ops, Servers!CancelCall(o)  PROVE Servers!WaitersAreReleased'
  BY <1>17 DEF Servers!CancelCall, Servers!Undo
<1>18. ASSUME NEW o \in Ops, NEW fails \in BOOLEAN, Servers!CallReturns(o, fails)
       PROVE Servers!WaitersAreReleased'
  BY <1>18 DEF Servers!CallReturns, Servers!Idle
<1>19. CASE Servers!BackoffEnds  BY <1>19 DEF Servers!BackoffEnds
<1>20. CASE UNCHANGED Servers!mcpVars  BY <1>20 DEF Servers!mcpVars
<1> HIDE DEF ServersBounds, ServersTyped, Servers!Places, Servers!Maybe, Servers!Goto,
             Servers!fields, Servers!TaskRuns, Servers!Cancelled, Servers!Current, Servers!Live,
             Servers!Attempting, Servers!WaitersAreReleased, Numbers
<1> QED  BY <1>1, <1>2, <1>3, <1>4, <1>5, <1>6, <1>7, <1>8, <1>9, <1>10, <1>11, <1>12, <1>13,
            <1>14, <1>15, <1>16, <1>17, <1>18, <1>19, <1>20 DEF Servers!Next


Numbered == {o \in Ops : agen[o] # 0}

\* There have been as many generations as attempts.
Counted == generation = Cardinality(Numbered)

LEMMA CountedStep ==
    ASSUME ServersBounds, ServersTyped, [Servers!Next]_(Servers!mcpVars), Numbers, Counted
    PROVE  Counted' /\ agen' \in [Ops -> Nat]
<1>1. UNCHANGED <<agen, generation>>
      \/ \E o \in Ops : at[o] \in {"idle", "told"} /\ Servers!NewGeneration(o)
  <2> DEFINE Same == UNCHANGED <<agen, generation>>
             New(o) == at[o] \in {"idle", "told"} /\ Servers!NewGeneration(o)
  <2>1. ASSUME NEW o \in Ops, Servers!Startup(o) \/ Servers!After(o)
        PROVE  Same \/ New(o)
    BY <2>1 DEF Servers!Startup, Servers!After, Servers!StartConnect, Servers!fields
  <2>2. ASSUME NEW o \in Ops, NEW kind, Servers!Disconnect(o, kind)  PROVE Same
    BY <2>2 DEF Servers!Disconnect, Servers!CloseOrReset, Servers!ResetState, Servers!fields
  <2>3. ASSUME NEW o \in Ops, Servers!Restart(o) \/ Servers!Reconnect(o) \/ Servers!Shutdown(o)
        PROVE  Same
    BY <2>2, <2>3 DEF Servers!Restart, Servers!Reconnect, Servers!Shutdown
  <2>4. ASSUME NEW o \in Ops, Servers!Drained(o) \/ Servers!Closed(o)  PROVE Same
        BY <2>4 DEF Servers!Drained, Servers!Closed, Servers!CloseOrReset, Servers!ResetState,
                    Servers!fields
    <2>5. ASSUME NEW o \in Ops, Servers!Published(o) \/ Servers!SessionOpens(o) \/
      Servers!AttemptFails(o)
        PROVE  Same
        BY <2>5 DEF Servers!Published, Servers!SessionOpens, Servers!AttemptFails,
                    Servers!Attempt, Servers!fields
  <2>6. ASSUME NEW o \in Ops, Servers!Discovered(o) \/ Servers!Announced(o) \/ Servers!Undone(o)
        PROVE  Same
        BY <2>6 DEF Servers!Discovered, Servers!Announced, Servers!Undone, Servers!Attempt,
                    Servers!fields
    <2>7. ASSUME NEW o \in Ops, NEW fails \in BOOLEAN, Servers!Call(o) \/ Servers!CallReturns(o,
      fails)
        PROVE  Same
    BY <2>7 DEF Servers!Call, Servers!CallReturns, Servers!Idle, Servers!fields
  <2>8. ASSUME NEW o \in Ops, Servers!Refresh(o) \/ Servers!Refreshed(o) \/ Servers!CancelCall(o)
        PROVE  Same
    BY <2>8 DEF Servers!Refresh, Servers!Refreshed, Servers!CancelCall, Servers!Idle, Servers!fields
  <2>9. ASSUME Servers!BackoffEnds \/ UNCHANGED Servers!mcpVars  PROVE Same
    BY <2>9 DEF Servers!BackoffEnds, Servers!mcpVars, Servers!fields
  <2> HIDE DEF Same, New
  <2>10. Same \/ \E o \in Ops : New(o)
    BY <2>1, <2>3, <2>4, <2>5, <2>6, <2>7, <2>8, <2>9 DEF Servers!Next
  <2> QED  BY <2>10 DEF Same, New
<1>2. CASE UNCHANGED <<agen, generation>>
  BY <1>2 DEF Counted, Numbered, ServersTyped
<1>3. ASSUME NEW o \in Ops, at[o] \in {"idle", "told"}, Servers!NewGeneration(o)
      PROVE  Counted' /\ agen' \in [Ops -> Nat]
  <2>1. agen[o] = 0  BY <1>3 DEF Numbers, Before
  <2>2. Numbered' = Numbered \cup {o} /\ o \notin Numbered
    BY <1>3, <2>1 DEF Servers!NewGeneration, Numbered, ServersTyped
  <2>3. IsFiniteSet(Numbered)  BY FS_Subset DEF ServersBounds, Numbered
  <2>4. Cardinality(Numbered') = Cardinality(Numbered) + 1  BY <2>2, <2>3, FS_AddElement
  <2> QED  BY <1>3, <2>4 DEF Counted, Servers!NewGeneration, ServersTyped
<1> QED  BY <1>1, <1>2, <1>3

\* the types, but for those of the generations
PlacesTyped ==
    /\ op \in [Ops -> Servers!Kinds] /\ at \in [Ops -> Servers!Places]
    /\ open \in [Ops -> BOOLEAN] /\ holds \in [Ops -> Servers!Maybe]
    /\ how \in [Ops -> {"", "stale", "failed", "cancelled"}]
StateTyped ==
    /\ status \in {"connecting", "connected", "disconnected", "failed"} /\ settled \in BOOLEAN
    /\ retries \in Nat /\ backoff \in BOOLEAN /\ closed \in BOOLEAN /\ opCancels \in 0..MaxOpCancels
OwnersTyped ==
    /\ stack \in Servers!Maybe /\ session \in Servers!Maybe /\ tools \in Servers!Maybe
    /\ task \in Servers!Maybe
    /\ disowned \subseteq Ops /\ abandoned \subseteq Ops

LEMMA PlacesStep ==
    ASSUME ServersBounds, ServersTyped, [Servers!Next]_(Servers!mcpVars), PlacesTyped, OwnersTyped
    PROVE  PlacesTyped'
<1>t. {stack, task, session} \subseteq Servers!Maybe  BY DEF OwnersTyped
<1> USE <1>t
<1> USE DEF PlacesTyped, Servers!Places, Servers!Maybe, Servers!Goto, Servers!Cancelled,
            Servers!Kinds
<1>0. ASSUME NEW o \in Ops, NEW kind \in Servers!Kinds, Servers!Disconnect(o, kind)
      PROVE PlacesTyped'
  <2> USE <1>0 DEF Servers!Disconnect
  <2>1. CASE Servers!TaskRuns /\ Servers!CancelTask(o, "drain")
    BY <2>1 DEF Servers!CancelTask
  <2>2. CASE ~Servers!TaskRuns /\ stack # NoOp
    BY <2>2 DEF Servers!CloseOrReset
  <2>3. CASE ~Servers!TaskRuns /\ stack = NoOp
    BY <2>3 DEF Servers!CloseOrReset, Servers!ResetState, Servers!Lost
  <2> QED  BY <2>1, <2>2, <2>3
<1>s. ASSUME NEW o \in Ops, at[o] \in {"idle", "told"}, Servers!StartConnect(o),
           UNCHANGED <<open, holds, stack, session, tools, retries, backoff, closed,
                       disowned, abandoned, opCancels>>,
           op' \in [Ops -> Servers!Kinds]
      PROVE  PlacesTyped'
  BY <1>s DEF Servers!StartConnect, Servers!NewGeneration, Servers!CancelTask
<1>1. ASSUME NEW o \in Ops, Servers!Startup(o)  PROVE PlacesTyped'
  BY <1>s, <1>1 DEF Servers!Startup, Servers!Kinds
<1>2. ASSUME NEW o \in Ops, Servers!Restart(o)  PROVE PlacesTyped'
  BY <1>0, <1>2 DEF Servers!Restart, Servers!Kinds
<1>3. ASSUME NEW o \in Ops, Servers!Reconnect(o)  PROVE PlacesTyped'
  BY <1>0, <1>3 DEF Servers!Reconnect, Servers!Kinds
<1>4. ASSUME NEW o \in Ops, Servers!Shutdown(o)  PROVE PlacesTyped'
  BY <1>0, <1>4 DEF Servers!Shutdown, Servers!Kinds
<1>5. ASSUME NEW o \in Ops, Servers!Drained(o)  PROVE PlacesTyped'
  <2> USE <1>5 DEF Servers!Drained
  <2>1. CASE stack # NoOp
    BY <2>1 DEF Servers!CloseOrReset
  <2>2. CASE stack = NoOp
    BY <2>2 DEF Servers!CloseOrReset, Servers!ResetState, Servers!Lost
  <2> QED  BY <2>1, <2>2
<1>6. ASSUME NEW o \in Ops, Servers!Closed(o)  PROVE PlacesTyped'
  BY <1>6 DEF Servers!Closed, Servers!ResetState, Servers!Lost
<1>7. ASSUME NEW o \in Ops, Servers!After(o)  PROVE PlacesTyped'
  <2> USE <1>7 DEF Servers!After
  <2>1. CASE op[o] = "shutdown"  BY <2>1
  <2>2. CASE op[o] = "restart"
    BY <1>s, <2>2
  <2>3. CASE op[o] = "call"
    <3>1. CASE closed  BY <2>3, <3>1
    <3>2. CASE ~closed  BY <2>3, <3>2 DEF Servers!NewGeneration
    <3> QED  BY <3>1, <3>2
  <2> QED  BY <2>1, <2>2, <2>3
<1>8. ASSUME NEW o \in Ops, Servers!Published(o)  PROVE PlacesTyped'
  BY <1>8 DEF Servers!Published, Servers!Attempt, Servers!Over
<1>9. ASSUME NEW o \in Ops, Servers!SessionOpens(o)  PROVE PlacesTyped'
  BY <1>9 DEF Servers!SessionOpens, Servers!Attempt, Servers!Undo
<1>10. ASSUME NEW o \in Ops, Servers!AttemptFails(o)  PROVE PlacesTyped'
  BY <1>10 DEF Servers!AttemptFails, Servers!Attempt, Servers!Undo
<1>11. ASSUME NEW o \in Ops, Servers!Discovered(o)  PROVE PlacesTyped'
  BY <1>11 DEF Servers!Discovered, Servers!Attempt, Servers!Undo
<1>12. ASSUME NEW o \in Ops, Servers!Announced(o)  PROVE PlacesTyped'
  BY <1>12 DEF Servers!Announced, Servers!Attempt, Servers!Over
<1>13. ASSUME NEW o \in Ops, Servers!Undone(o)  PROVE PlacesTyped'
  BY <1>13 DEF Servers!Undone, Servers!Attempt, Servers!Over
<1>14. ASSUME NEW o \in Ops, Servers!Call(o)  PROVE PlacesTyped'
  BY <1>14 DEF Servers!Call, Servers!Idle
<1>15. ASSUME NEW o \in Ops, Servers!Refresh(o)  PROVE PlacesTyped'
  BY <1>15 DEF Servers!Refresh, Servers!Idle
<1>16. ASSUME NEW o \in Ops, Servers!Refreshed(o)  PROVE PlacesTyped'
  BY <1>16 DEF Servers!Refreshed, Servers!Idle
<1>17. ASSUME NEW o \in Ops, Servers!CancelCall(o)  PROVE PlacesTyped'
  BY <1>17 DEF Servers!CancelCall, Servers!Undo
<1>18. ASSUME NEW o \in Ops, NEW fails \in BOOLEAN, Servers!CallReturns(o, fails)
       PROVE PlacesTyped'
  BY <1>18 DEF Servers!CallReturns, Servers!Idle
<1>19. CASE Servers!BackoffEnds  BY <1>19 DEF Servers!BackoffEnds
<1>20. CASE UNCHANGED Servers!mcpVars  BY <1>20 DEF Servers!mcpVars
<1> HIDE DEF PlacesTyped, Servers!Places, Servers!Maybe, Servers!Goto, Servers!Cancelled,
             Servers!Kinds
<1> QED  BY <1>1, <1>2, <1>3, <1>4, <1>5, <1>6, <1>7, <1>8, <1>9, <1>10, <1>11, <1>12, <1>13,
            <1>14, <1>15, <1>16, <1>17, <1>18, <1>19, <1>20 DEF Servers!Next

LEMMA StateStep ==
    ASSUME ServersBounds, ServersTyped, [Servers!Next]_(Servers!mcpVars), PlacesTyped, StateTyped
    PROVE  StateTyped'
<1> USE DEF ServersBounds, StateTyped, Servers!fields
<1>0. ASSUME NEW o \in Ops, NEW kind \in Servers!Kinds, Servers!Disconnect(o, kind),
           backoff' \in BOOLEAN, closed' \in BOOLEAN  PROVE StateTyped'
  <2> USE <1>0 DEF Servers!Disconnect
  <2>1. CASE Servers!TaskRuns /\ Servers!CancelTask(o, "drain")
    BY <2>1 DEF Servers!CancelTask
  <2>2. CASE ~Servers!TaskRuns /\ stack # NoOp
    BY <2>2 DEF Servers!CloseOrReset
  <2>3. CASE ~Servers!TaskRuns /\ stack = NoOp
    BY <2>3 DEF Servers!CloseOrReset, Servers!ResetState, Servers!Lost
  <2> QED  BY <2>1, <2>2, <2>3
<1>s. ASSUME NEW o \in Ops, at[o] \in {"idle", "told"}, Servers!StartConnect(o),
           UNCHANGED <<open, holds, stack, session, tools, retries, backoff, closed,
                       disowned, abandoned, opCancels>>
      PROVE  StateTyped'
  BY <1>s DEF Servers!StartConnect, Servers!NewGeneration, Servers!CancelTask
<1>1. ASSUME NEW o \in Ops, Servers!Startup(o)  PROVE StateTyped'
  BY <1>s, <1>1 DEF Servers!Startup, Servers!Kinds
<1>2. ASSUME NEW o \in Ops, Servers!Restart(o)  PROVE StateTyped'
  BY <1>0, <1>2 DEF Servers!Restart, Servers!Kinds
<1>3. ASSUME NEW o \in Ops, Servers!Reconnect(o)  PROVE StateTyped'
  BY <1>0, <1>3 DEF Servers!Reconnect, Servers!Kinds
<1>4. ASSUME NEW o \in Ops, Servers!Shutdown(o)  PROVE StateTyped'
  BY <1>0, <1>4 DEF Servers!Shutdown, Servers!Kinds
<1>5. ASSUME NEW o \in Ops, Servers!Drained(o)  PROVE StateTyped'
  <2> USE <1>5 DEF Servers!Drained
  <2>1. CASE stack # NoOp
    BY <2>1 DEF Servers!CloseOrReset
  <2>2. CASE stack = NoOp
    BY <2>2 DEF Servers!CloseOrReset, Servers!ResetState, Servers!Lost
  <2> QED  BY <2>1, <2>2
<1>6. ASSUME NEW o \in Ops, Servers!Closed(o)  PROVE StateTyped'
  BY <1>6 DEF Servers!Closed, Servers!ResetState, Servers!Lost
<1>7. ASSUME NEW o \in Ops, Servers!After(o)  PROVE StateTyped'
  <2> USE <1>7 DEF Servers!After
  <2>1. CASE op[o] = "shutdown"  BY <2>1
  <2>2. CASE op[o] = "restart"
    BY <1>s, <2>2
  <2>3. CASE op[o] = "call"
    <3>1. CASE closed  BY <2>3, <3>1
    <3>2. CASE ~closed  BY <2>3, <3>2 DEF Servers!NewGeneration
    <3> QED  BY <3>1, <3>2
  <2> QED  BY <2>1, <2>2, <2>3
<1>8. ASSUME NEW o \in Ops, Servers!Published(o)  PROVE StateTyped'
  <2> USE <1>8 DEF Servers!Published, Servers!Attempt, Servers!Over
  <2>1. status' \in {"connecting", "connected", "disconnected", "failed"}
    OBVIOUS
  <2>2. settled' \in BOOLEAN  OBVIOUS
  <2>3. retries' \in Nat
    <3>1. retries' = retries \/ retries' = retries + 1  OBVIOUS
    <3> QED  BY <3>1
  <2>4. backoff' \in BOOLEAN /\ closed' \in BOOLEAN /\ opCancels' \in 0..MaxOpCancels
    OBVIOUS
  <2> HIDE <1>8
  <2> QED  BY <2>1, <2>2, <2>3, <2>4
<1>9. ASSUME NEW o \in Ops, Servers!SessionOpens(o)  PROVE StateTyped'
  BY <1>9 DEF Servers!SessionOpens, Servers!Attempt, Servers!Undo
<1>10. ASSUME NEW o \in Ops, Servers!AttemptFails(o)  PROVE StateTyped'
  BY <1>10 DEF Servers!AttemptFails, Servers!Attempt, Servers!Undo
<1>11. ASSUME NEW o \in Ops, Servers!Discovered(o)  PROVE StateTyped'
  <2> USE <1>11 DEF Servers!Discovered, Servers!Attempt, Servers!Undo
  <2>1. status' \in {"connecting", "connected", "disconnected", "failed"}
    OBVIOUS
  <2>2. settled' \in BOOLEAN  OBVIOUS
  <2>3. retries' \in Nat  OBVIOUS
  <2>4. backoff' \in BOOLEAN /\ closed' \in BOOLEAN /\ opCancels' \in 0..MaxOpCancels
    OBVIOUS
  <2> HIDE <1>11
  <2> QED  BY <2>1, <2>2, <2>3, <2>4
<1>12. ASSUME NEW o \in Ops, Servers!Announced(o)  PROVE StateTyped'
  BY <1>12 DEF Servers!Announced, Servers!Attempt, Servers!Over
<1>13. ASSUME NEW o \in Ops, Servers!Undone(o)  PROVE StateTyped'
  <2> USE <1>13 DEF Servers!Undone, Servers!Attempt, Servers!Over
  <2>1. status' \in {"connecting", "connected", "disconnected", "failed"}
    OBVIOUS
  <2>2. settled' \in BOOLEAN  OBVIOUS
  <2>3. retries' \in Nat  OBVIOUS
  <2>4. backoff' \in BOOLEAN /\ closed' \in BOOLEAN /\ opCancels' \in 0..MaxOpCancels
    OBVIOUS
  <2> HIDE <1>13
  <2> QED  BY <2>1, <2>2, <2>3, <2>4
<1>14. ASSUME NEW o \in Ops, Servers!Call(o)  PROVE StateTyped'
  BY <1>14 DEF Servers!Call, Servers!Idle
<1>15. ASSUME NEW o \in Ops, Servers!Refresh(o)  PROVE StateTyped'
  BY <1>15 DEF Servers!Refresh, Servers!Idle
<1>16. ASSUME NEW o \in Ops, Servers!Refreshed(o)  PROVE StateTyped'
  BY <1>16 DEF Servers!Refreshed, Servers!Idle
<1>17. ASSUME NEW o \in Ops, Servers!CancelCall(o)  PROVE StateTyped'
  BY <1>17 DEF Servers!CancelCall, Servers!Undo
<1>18. ASSUME NEW o \in Ops, NEW fails \in BOOLEAN, Servers!CallReturns(o, fails)  PROVE StateTyped'
  BY <1>18 DEF Servers!CallReturns, Servers!Idle
<1>19. CASE Servers!BackoffEnds  BY <1>19 DEF Servers!BackoffEnds
<1>20. CASE UNCHANGED Servers!mcpVars  BY <1>20 DEF Servers!mcpVars
<1> HIDE DEF ServersBounds, StateTyped, Servers!fields
<1> QED  BY <1>1, <1>2, <1>3, <1>4, <1>5, <1>6, <1>7, <1>8, <1>9, <1>10, <1>11, <1>12, <1>13,
            <1>14, <1>15, <1>16, <1>17, <1>18, <1>19, <1>20 DEF Servers!Next

LEMMA OwnersStep ==
    ASSUME ServersBounds, ServersTyped, [Servers!Next]_(Servers!mcpVars), PlacesTyped, OwnersTyped
    PROVE  OwnersTyped'
<1> USE DEF ServersBounds, PlacesTyped, OwnersTyped, Servers!Maybe, Servers!fields
<1>0. ASSUME NEW o \in Ops, NEW kind \in Servers!Kinds, Servers!Disconnect(o, kind)
      PROVE OwnersTyped'
  <2> USE <1>0 DEF Servers!Disconnect
  <2>1. CASE Servers!TaskRuns /\ Servers!CancelTask(o, "drain")
    BY <2>1 DEF Servers!CancelTask
  <2>2. CASE ~Servers!TaskRuns /\ stack # NoOp
    BY <2>2 DEF Servers!CloseOrReset
  <2>3. CASE ~Servers!TaskRuns /\ stack = NoOp
    BY <2>3 DEF Servers!CloseOrReset, Servers!ResetState, Servers!Lost
  <2> QED  BY <2>1, <2>2, <2>3
<1>s. ASSUME NEW o \in Ops, at[o] \in {"idle", "told"}, Servers!StartConnect(o),
           UNCHANGED <<open, holds, stack, session, tools, retries, backoff, closed,
                       disowned, abandoned, opCancels>>
      PROVE  OwnersTyped'
  BY <1>s DEF Servers!StartConnect, Servers!NewGeneration, Servers!CancelTask
<1>1. ASSUME NEW o \in Ops, Servers!Startup(o)  PROVE OwnersTyped'
  BY <1>s, <1>1 DEF Servers!Startup, Servers!Kinds
<1>2. ASSUME NEW o \in Ops, Servers!Restart(o)  PROVE OwnersTyped'
  BY <1>0, <1>2 DEF Servers!Restart, Servers!Kinds
<1>3. ASSUME NEW o \in Ops, Servers!Reconnect(o)  PROVE OwnersTyped'
  BY <1>0, <1>3 DEF Servers!Reconnect, Servers!Kinds
<1>4. ASSUME NEW o \in Ops, Servers!Shutdown(o)  PROVE OwnersTyped'
  BY <1>0, <1>4 DEF Servers!Shutdown, Servers!Kinds
<1>5. ASSUME NEW o \in Ops, Servers!Drained(o)  PROVE OwnersTyped'
  <2> USE <1>5 DEF Servers!Drained
  <2>1. CASE stack # NoOp
    BY <2>1 DEF Servers!CloseOrReset
  <2>2. CASE stack = NoOp
    BY <2>2 DEF Servers!CloseOrReset, Servers!ResetState, Servers!Lost
  <2> QED  BY <2>1, <2>2
<1>6. ASSUME NEW o \in Ops, Servers!Closed(o)  PROVE OwnersTyped'
  BY <1>6 DEF Servers!Closed, Servers!ResetState, Servers!Lost
<1>7. ASSUME NEW o \in Ops, Servers!After(o)  PROVE OwnersTyped'
  <2> USE <1>7 DEF Servers!After
  <2>1. CASE op[o] = "shutdown"  BY <2>1
  <2>2. CASE op[o] = "restart"
    BY <1>s, <2>2
  <2>3. CASE op[o] = "call"
    <3>1. CASE closed  BY <2>3, <3>1
    <3>2. CASE ~closed  BY <2>3, <3>2 DEF Servers!NewGeneration
    <3> QED  BY <3>1, <3>2
  <2> QED  BY <2>1, <2>2, <2>3
<1>8. ASSUME NEW o \in Ops, Servers!Published(o)  PROVE OwnersTyped'
  BY <1>8 DEF Servers!Published, Servers!Attempt, Servers!Over
<1>9. ASSUME NEW o \in Ops, Servers!SessionOpens(o)  PROVE OwnersTyped'
  BY <1>9 DEF Servers!SessionOpens, Servers!Attempt, Servers!Undo
<1>10. ASSUME NEW o \in Ops, Servers!AttemptFails(o)  PROVE OwnersTyped'
  BY <1>10 DEF Servers!AttemptFails, Servers!Attempt, Servers!Undo
<1>11. ASSUME NEW o \in Ops, Servers!Discovered(o)  PROVE OwnersTyped'
  BY <1>11 DEF Servers!Discovered, Servers!Attempt, Servers!Undo
<1>12. ASSUME NEW o \in Ops, Servers!Announced(o)  PROVE OwnersTyped'
  BY <1>12 DEF Servers!Announced, Servers!Attempt, Servers!Over
<1>13. ASSUME NEW o \in Ops, Servers!Undone(o)  PROVE OwnersTyped'
  BY <1>13 DEF Servers!Undone, Servers!Attempt, Servers!Over
<1>14. ASSUME NEW o \in Ops, Servers!Call(o)  PROVE OwnersTyped'
  BY <1>14 DEF Servers!Call, Servers!Idle
<1>15. ASSUME NEW o \in Ops, Servers!Refresh(o)  PROVE OwnersTyped'
  BY <1>15 DEF Servers!Refresh, Servers!Idle
<1>16. ASSUME NEW o \in Ops, Servers!Refreshed(o)  PROVE OwnersTyped'
  BY <1>16 DEF Servers!Refreshed, Servers!Idle
<1>17. ASSUME NEW o \in Ops, Servers!CancelCall(o)  PROVE OwnersTyped'
  BY <1>17 DEF Servers!CancelCall, Servers!Undo
<1>18. ASSUME NEW o \in Ops, NEW fails \in BOOLEAN, Servers!CallReturns(o, fails)
       PROVE OwnersTyped'
  BY <1>18 DEF Servers!CallReturns, Servers!Idle
<1>19. CASE Servers!BackoffEnds  BY <1>19 DEF Servers!BackoffEnds
<1>20. CASE UNCHANGED Servers!mcpVars  BY <1>20 DEF Servers!mcpVars
<1> HIDE DEF ServersBounds, PlacesTyped, OwnersTyped, Servers!Maybe, Servers!fields
<1> QED  BY <1>1, <1>2, <1>3, <1>4, <1>5, <1>6, <1>7, <1>8, <1>9, <1>10, <1>11, <1>12, <1>13,
            <1>14, <1>15, <1>16, <1>17, <1>18, <1>19, <1>20 DEF Servers!Next

LEMMA ServersTypeParts ==
    ASSUME ServersBounds, Servers!TypeOK
    PROVE  PlacesTyped /\ StateTyped /\ OwnersTyped /\ ServersTyped
<1>1. Cardinality(Ops) \in Nat  BY FS_CardinalityType DEF ServersBounds
<1>2. generation \in Nat /\ agen \in [Ops -> Nat]
  <2>1. Servers!Cardinality(Ops) \in Nat  BY <1>1, ServersCardinality
  <2>2. agen \in [Ops -> 0..Servers!Cardinality(Ops)] /\ generation \in 0..Servers!Cardinality(Ops)
    BY DEF Servers!TypeOK
  <2> QED  BY <2>1, <2>2
<1>3. PlacesTyped  BY DEF Servers!TypeOK, PlacesTyped
<1>4. StateTyped  BY DEF Servers!TypeOK, StateTyped
<1>5. OwnersTyped  BY DEF Servers!TypeOK, OwnersTyped
<1> QED  BY <1>2, <1>3, <1>4, <1>5 DEF PlacesTyped, OwnersTyped, ServersTyped

LEMMA TypesFromParts ==
    ASSUME ServersBounds, PlacesTyped', StateTyped', OwnersTyped', Numbers', Counted',
           agen' \in [Ops -> Nat]
    PROVE  Servers!TypeOK'
<1>1. Cardinality(Ops) \in Nat  BY FS_CardinalityType DEF ServersBounds
<1>2. generation' \in 0..Cardinality(Ops)
  <2>1. Numbered' \subseteq Ops  BY DEF Numbered
  <2>2. Cardinality(Numbered') \in Nat /\ Cardinality(Numbered') <= Cardinality(Ops)
    BY <2>1, FS_Subset, FS_CardinalityType DEF ServersBounds
  <2> QED  BY <1>1, <2>2 DEF Counted
<1>3. agen' \in [Ops -> 0..Cardinality(Ops)]  BY <1>1, <1>2 DEF Numbers
<1>4. {stack', session', tools', task'} \subseteq Servers!Maybe /\ {disowned', abandoned'}
    \subseteq SUBSET Ops
  BY DEF OwnersTyped
<1> QED  BY <1>2, <1>3, <1>4, ServersCardinality DEF PlacesTyped, StateTyped, Servers!TypeOK

ServersInv == Servers!TypeOK /\ Numbers /\ Counted /\ OwnedStacks /\ Servers!WaitersAreReleased

LEMMA ServersInit == ServersBounds /\ Servers!Init => ServersInv
<1> SUFFICES ASSUME ServersBounds, Servers!Init  PROVE ServersInv
  OBVIOUS
<1>1. Numbers /\ Servers!WaitersAreReleased
  <2>1. generation = 0 /\ \A o \in Ops : agen[o] = 0 /\ at[o] = "idle"
    BY DEF Servers!Init
  <2>2. Numbers  BY <2>1 DEF Numbers, Connecting
  <2> QED  BY <2>1, <2>2 DEF Servers!WaitersAreReleased
<1>4. OwnedStacks
  BY DEF Servers!Init, OwnedStacks, Connecting
<1>2. Counted
  <2>1. Numbered = {}  BY DEF Numbered, Servers!Init
  <2> QED  BY <2>1, FS_EmptySet DEF Counted, Servers!Init
<1>3. Servers!TypeOK
  <2>1. Servers!Cardinality(Ops) \in Nat
    BY FS_CardinalityType, ServersCardinality DEF ServersBounds
  <2>2. agen \in [Ops -> 0..Servers!Cardinality(Ops)] /\ generation \in 0..Servers!Cardinality(Ops)
    <3>1. 0 \in 0..Servers!Cardinality(Ops)  BY <2>1
    <3> QED  BY <3>1 DEF Servers!Init
  <2>3. /\ op \in [Ops -> Servers!Kinds] /\ at \in [Ops -> Servers!Places]
        /\ holds \in [Ops -> Servers!Maybe] /\ open \in [Ops -> BOOLEAN]
        /\ how \in [Ops -> {"", "stale", "failed", "cancelled"}]
        /\ {stack, session, tools, task} \subseteq Servers!Maybe
    BY DEF Servers!Init, Servers!Kinds, Servers!Places, Servers!Maybe
  <2>4. opCancels \in 0..MaxOpCancels /\ retries \in Nat
    <3>1. opCancels = 0 /\ retries = 0  BY DEF Servers!Init
    <3> QED  BY <3>1 DEF ServersBounds
  <2> QED  BY <2>2, <2>3, <2>4 DEF Servers!Init, Servers!TypeOK
<1> QED  BY <1>1, <1>2, <1>3, <1>4 DEF ServersInv

LEMMA ServersCorrect == ASSUME ServersBounds  PROVE Servers!Spec => []ServersInv
<1>1. Servers!Init => ServersInv  BY ServersInit
<1>2. ServersInv /\ [Servers!Next]_(Servers!mcpVars) => ServersInv'
  <2> SUFFICES ASSUME ServersInv, [Servers!Next]_(Servers!mcpVars)  PROVE ServersInv'
    OBVIOUS
  <2>1. PlacesTyped /\ StateTyped /\ OwnersTyped /\ ServersTyped
    BY ServersTypeParts DEF ServersInv
  <2>2. Numbers' /\ OwnedStacks' /\ Servers!WaitersAreReleased'
    BY <2>1, NumbersStep, OwnStep, WaitStep DEF ServersInv
  <2>3. Counted' /\ agen' \in [Ops -> Nat]
    BY <2>1, CountedStep DEF ServersInv
  <2>4. PlacesTyped' /\ StateTyped' /\ OwnersTyped'
    BY <2>1, PlacesStep, StateStep, OwnersStep
  <2>5. Servers!TypeOK'  BY <2>2, <2>3, <2>4, TypesFromParts
  <2> QED  BY <2>2, <2>3, <2>5 DEF ServersInv
<1> QED  BY <1>1, <1>2, PTL DEF Servers!Spec

\* The fields of an MCPServerState and what its coroutines keep stay in their
\* ranges: every operation numbers at most one attempt.
THEOREM ServersTypes ==
    ASSUME ServersBounds
    PROVE  Servers!Spec => []Servers!TypeOK
<1>1. ServersInv => Servers!TypeOK  BY DEF ServersInv
<1> QED  BY <1>1, ServersCorrect, PTL

\* However reconnections, restarts, cancellations and the shutdown of mcp_client.py
\* interleave, a connection that is open is the one of the state, which will close
\* it, or one whose exit stack the state lost while it was needed.
THEOREM ServersOwned ==
    ASSUME ServersBounds
    PROVE  Servers!Spec => []Servers!ConnectionsAreOwned
<1>1. ServersInv => Servers!ConnectionsAreOwned
  BY DEF ServersInv, OwnedStacks, Servers!ConnectionsAreOwned
<1> QED  BY <1>1, ServersCorrect, PTL

\* Who waits for a server to settle has somebody on the way to settle it, whatever
\* supersedes, cancels or closes the attempt they wait for.
THEOREM ServersReleased ==
    ASSUME ServersBounds
    PROVE  Servers!Spec => []Servers!WaitersAreReleased
<1>1. ServersInv => Servers!WaitersAreReleased  BY DEF ServersInv
<1> QED  BY <1>1, ServersCorrect, PTL

-----------------------------------------------------------------------------
(* The background processes *)

ShellsBounds == NoJob \notin Jobs /\ MaxManagers \in Nat /\ MaxAborts \in Nat

OnAJob == {"kill", "exiting", "joined", "final", "row", "inbox"}
\* what is told of an exit: nothing, and one news after the other
Heard0 == [n \in Shells!News |-> 0]
Heard1 == [Heard0 EXCEPT !["row"] = @ + 1]
Heard2 == [Heard1 EXCEPT !["inbox"] = @ + 1]
Heard3 == [Heard2 EXCEPT !["wake"] = @ + 1]

JobsTyped ==
    /\ jobs \in [1..MaxManagers -> SUBSET Jobs] /\ manager \in [Convs -> 0..MaxManagers]
    /\ managers \in 0..MaxManagers
    /\ proc \in [Jobs -> {"none", "alive", "exited"}]
    /\ reader \in [Jobs -> {"none", "reading", "done", "row", "inbox"}]
    /\ jobStatus \in [Jobs -> {"running", "completed", "error", "expired", "stopped"}]
CallsTyped ==
    /\ jobDoes \in [Tools -> {"none", "start", "stop", "list"}]
    /\ jobAt \in [Tools -> {"idle", "spawn", "kill", "exiting", "joined", "final", "done",
                            "row", "inbox"}]
    /\ with \in [Tools -> 0..MaxManagers] /\ on \in [Tools -> Jobs \cup {NoJob}]
    /\ sweep \in [Tools -> SUBSET Jobs] /\ stale \in [Tools -> SUBSET Jobs]

ToldTyped == jobTold \in [Jobs -> [Shells!News -> Nat]]

\* A tool that is past its start has its manager and, where it works on a job, a
\* job that was started; and so are the jobs that are registered or to be visited.
JobsStarted ==
    /\ \A m \in 1..MaxManagers : \A j \in jobs[m] : proc[j] # "none"
    /\ \A t \in Tools : \A j \in sweep[t] : proc[j] # "none"
    /\ \A t \in Tools : jobAt[t] \in OnAJob => on[t] \in Jobs /\ proc[on[t]] # "none"
    /\ \A t \in Tools : jobAt[t] # "idle" => with[t] \in 1..MaxManagers
    /\ \A j \in Jobs : proc[j] = "none" => reader[j] = "none"

\* What is marked as over, or about to be, or to be removed, has exited; or its
\* reader failed, and tells of that before it kills the process.
Exiting(j) == proc[j] = "exited" \/ reader[j] \in Shells!Telling
JobsOver ==
    /\ \A j \in Jobs : jobStatus[j] # "running" => Exiting(j)
    /\ \A t \in Tools : jobAt[t] \in {"exiting", "joined"} => proc[on[t]] = "exited"
    /\ \A t \in Tools : \A j \in stale[t] : Exiting(j)

\* Only a finalized job has a teller; there is one at a time, and it tells in order.
Untold == \A j \in Jobs : j \notin finalized => jobTold[j] = Heard0 /\ ~Shells!IsTold(j)
ReadersTell ==
    \A j \in Jobs : /\ reader[j] = "row" => jobTold[j] = Heard1
                    /\ reader[j] = "inbox" => jobTold[j] = Heard2
ToolsTell ==
    \A t \in Tools : /\ jobAt[t] = "row" => jobTold[on[t]] = Heard1
                     /\ jobAt[t] = "inbox" => jobTold[on[t]] = Heard2
OneTeller ==
    \A t \in Tools : jobAt[t] \in Shells!Telling =>
        /\ reader[on[t]] \notin Shells!Telling
        /\ \A u \in Tools : jobAt[u] \in Shells!Telling /\ on[t] = on[u] => t = u
TellersEnd ==
    \A j \in Jobs : j \in finalized =>
        \/ reader[j] \in Shells!Telling \/ j \in jobCut \/ jobTold[j] = Heard3
        \/ \E t \in Tools : on[t] = j /\ jobAt[t] \in Shells!Telling
ToldInOrder == \A j \in Jobs : jobTold[j] \in {Heard0, Heard1, Heard2, Heard3}
JobsTellers == Untold /\ ReadersTell /\ ToolsTell /\ OneTeller /\ TellersEnd /\ ToldInOrder

\* A sweep goes on with a job that has expired, or comes to its end.
Swept(t, m, todo, dumped) ==
    \/ \E j \in todo : \E before \in SUBSET todo :
         /\ j \in lateJobs /\ jobStatus[j] = "running" /\ on' = [on EXCEPT ![t] = j]
         /\ Shells!Kill(t, j) /\ \A b \in before : b \in lateJobs => jobStatus[b] # "running"
         /\ sweep' = [sweep EXCEPT ![t] = todo \ (before \cup {j})]
         /\ stale' = [stale EXCEPT ![t] = dumped \cup (before \cap lateJobs)] /\ jobs' = jobs
    \/ /\ \A j \in todo : j \in lateJobs => jobStatus[j] # "running"
       /\ jobs' = [jobs EXCEPT ![m] = @ \ (dumped \cup (todo \cap lateJobs))]
       /\ UNCHANGED <<on, reader, jobCut>>
       /\ sweep' = [sweep EXCEPT ![t] = {}] /\ stale' = [stale EXCEPT ![t] = {}]
       /\ jobAt' = [jobAt EXCEPT ![t] = "spawn"] \/ jobAt' = [jobAt EXCEPT ![t] = "done"]

\* The steps that sweep: a call, and one that has told or need not tell of its job.
LEMMA CallSweeps ==
    ASSUME ShellsBounds, JobsTyped, CallsTyped, NEW t \in Tools, NEW v \in Convs, NEW what,
           Shells!Call(t, v, what)
    PROVE  \E m \in 1..MaxManagers :
             /\ \E todo : todo = jobs[m] /\ Swept(t, m, todo, {})
             /\ with' = [with EXCEPT ![t] = m]
             /\ UNCHANGED <<proc, jobStatus, finalized, jobTold, lateJobs, strays>>
             /\ jobAt[t] = "idle" /\ Shells!GetManager(t, v)
<1>1. PICK m \in 1..MaxManagers : with' = [with EXCEPT ![t] = m]
  <2>1. Shells!GetManager(t, v)  BY DEF Shells!Call
  <2>2. /\ managers \in 0..MaxManagers /\ manager[v] \in 0..MaxManagers
        /\ (IF manager[v] = 0 THEN managers + 1 ELSE manager[v]) <= MaxManagers
    BY <2>1 DEF Shells!GetManager, JobsTyped
  <2>3. (IF manager[v] = 0 THEN managers + 1 ELSE manager[v]) \in 1..MaxManagers
    BY <2>2 DEF ShellsBounds
  <2> QED  BY <2>1, <2>3 DEF Shells!GetManager
<1>2. with'[t] = m  BY <1>1 DEF CallsTyped
<1>3. PICK todo : todo = jobs[m]  OBVIOUS
<1>4. Shells!SweepOn(t, with'[t], what = "start", jobs[with'[t]], {})  BY DEF Shells!Call
<1>5. Swept(t, m, todo, {})
  BY <1>2, <1>3, <1>4 DEF Shells!SweepOn, Shells!Goto, Swept
<1> QED  BY <1>1, <1>3, <1>5 DEF Shells!Call

Returned(t) ==
    \/ jobAt' = [jobAt EXCEPT ![t] = "done"] /\ UNCHANGED <<jobs, reader, on, sweep, stale, jobCut>>
    \/ \E m, todo, dumped :
         m = with[t] /\ todo = sweep[t] /\ dumped = stale[t] /\ Swept(t, m, todo, dumped)

LEMMA Returns == ASSUME NEW t, Shells!Return(t)  PROVE Returned(t)
<1>1. CASE jobDoes[t] = "stop"  BY <1>1 DEF Shells!Return, Shells!Goto, Returned
<1>2. CASE jobDoes[t] # "stop"
  <2>1. PICK m, todo, dumped : m = with[t] /\ todo = sweep[t] /\ dumped = stale[t]
    OBVIOUS
  <2>2. Shells!SweepOn(t, with[t], jobDoes[t] = "start", sweep[t], stale[t])
    BY <1>2 DEF Shells!Return
  <2>3. Swept(t, m, todo, dumped)  BY <2>1, <2>2 DEF Shells!SweepOn, Shells!Goto, Swept
  <2> QED  BY <2>1, <2>3 DEF Returned
<1> QED  BY <1>1, <1>2

LEMMA JoinedSweeps ==
    ASSUME CallsTyped, JobsTyped, NEW t \in Tools, Shells!Joined(t)
    PROVE  /\ jobAt[t] \in {"joined", "final"}
           /\ \/ Returned(t) /\ on[t] \in finalized /\ UNCHANGED <<finalized, jobTold>>
              \/ /\ on[t] \notin finalized /\ jobAt' = [jobAt EXCEPT ![t] = "row"]
                 /\ Shells!Finalize(on[t]) /\ UNCHANGED <<jobs, reader, on, sweep, stale, jobCut>>
           /\ \A j \in Jobs : jobStatus'[j] # "running" =>
                jobStatus[j] # "running" \/ (j = on[t] /\ jobAt[t] = "joined")
           /\ UNCHANGED <<manager, managers, proc, with, strays, lateJobs>>
<1>1. /\ jobAt[t] \in {"joined", "final"}
      /\ UNCHANGED <<manager, managers, proc, with, strays, lateJobs>>
  BY DEF Shells!Joined
<1>2. \/ Returned(t) /\ on[t] \in finalized /\ UNCHANGED <<finalized, jobTold>>
      \/ /\ on[t] \notin finalized /\ jobAt' = [jobAt EXCEPT ![t] = "row"]
         /\ Shells!Finalize(on[t]) /\ UNCHANGED <<jobs, reader, on, sweep, stale, jobCut>>
  BY Returns DEF Shells!Joined, Shells!Goto
<1>3. ASSUME NEW j \in Jobs, jobStatus'[j] # "running"
      PROVE  jobStatus[j] # "running" \/ (j = on[t] /\ jobAt[t] = "joined")
  <2>1. CASE jobAt[t] = "final"
    <3>1. jobStatus' = jobStatus  BY <2>1 DEF Shells!Joined
    <3> QED  BY <1>3, <3>1
  <2>2. CASE jobAt[t] = "joined"
    <3>1. \/ jobStatus' = jobStatus
          \/ \E to : jobStatus' = [jobStatus EXCEPT ![on[t]] = to]
      BY <2>2 DEF Shells!Joined
    <3> QED  BY <1>3, <2>2, <3>1 DEF JobsTyped
  <2> QED  BY <1>1, <2>1, <2>2
<1> QED  BY <1>1, <1>2, <1>3

LEMMA TellerSweeps ==
    ASSUME CallsTyped, NEW t \in Tools, Shells!CallerTells(t)
    PROVE  /\ \/ /\ jobAt[t] = "row" /\ Shells!Tell(on[t], "inbox")
                 /\ jobAt' = [jobAt EXCEPT ![t] = "inbox"]
                 /\ UNCHANGED <<jobs, reader, on, sweep, stale, jobCut>>
              \/ jobAt[t] = "inbox" /\ Shells!Tell(on[t], "wake") /\ Returned(t)
           /\ UNCHANGED <<manager, managers, proc, with, strays, lateJobs, jobStatus, finalized>>
BY Returns DEF Shells!CallerTells, Shells!Goto, Shells!NextNews

LEMMA SweepStarted ==
    ASSUME ShellsBounds, JobsTyped, CallsTyped, JobsStarted, NEW t \in Tools, NEW m \in
        1..MaxManagers,
           NEW todo \in SUBSET Jobs, NEW dumped \in SUBSET Jobs,
           Swept(t, m, todo, dumped), \A j \in todo : proc[j] # "none",
           proc' = proc, with' = [with EXCEPT ![t] = m]
    PROVE  JobsStarted'
<1> USE DEF ShellsBounds, JobsTyped, CallsTyped, OnAJob, Shells!Telling, Shells!toolVars,
            Shells!CancelReader, Shells!Goto, JobsStarted
<1>1. ASSUME NEW j \in todo, NEW before \in SUBSET todo,
             j \in lateJobs /\ jobStatus[j] = "running", on' = [on EXCEPT ![t] = j],
                 Shells!Kill(t, j),
             \A b \in before : b \in lateJobs => jobStatus[b] # "running",
             sweep' = [sweep EXCEPT ![t] = todo \ (before \cup {j})],
             stale' = [stale EXCEPT ![t] = dumped \cup (before \cap lateJobs)], jobs' = jobs
      PROVE  JobsStarted'
  <2>1. CASE proc[j] = "alive"  BY <1>1, <2>1 DEF Shells!Kill
  <2>2. CASE proc[j] # "alive"  BY <1>1, <2>2 DEF Shells!Kill
  <2> QED  BY <2>1, <2>2
<1>2. ASSUME NEW removed, jobs' = [jobs EXCEPT ![m] = @ \ removed], UNCHANGED <<on, reader>>,
             sweep' = [sweep EXCEPT ![t] = {}], stale' = [stale EXCEPT ![t] = {}],
             jobAt' = [jobAt EXCEPT ![t] = "spawn"] \/ jobAt' = [jobAt EXCEPT ![t] = "done"]
      PROVE  JobsStarted'
  BY <1>2
<1> HIDE DEF ShellsBounds, JobsTyped, CallsTyped, OnAJob, Shells!Telling, Shells!toolVars,
             Shells!CancelReader, Shells!Goto, JobsStarted
<1> QED  BY <1>1, <1>2 DEF Swept

LEMMA StartedStep ==
    ASSUME ShellsBounds, JobsTyped, CallsTyped, [Shells!Next]_(Shells!jobVars), JobsStarted
    PROVE  JobsStarted'
<1>1. ASSUME NEW t \in Tools, NEW v \in Convs, NEW what \in {"start", "list"}, Shells!Call(t, v,
    what)  PROVE JobsStarted'
  <2>1. PICK m \in 1..MaxManagers :
               /\ \E todo : todo = jobs[m] /\ Swept(t, m, todo, {})
               /\ with' = [with EXCEPT ![t] = m]
               /\ UNCHANGED <<proc, jobStatus>>
    BY <1>1, CallSweeps
  <2>2. PICK todo : todo = jobs[m] /\ Swept(t, m, todo, {})
    BY <2>1
  <2>3. todo \in SUBSET Jobs /\ \A j \in todo : proc[j] # "none"
    BY <2>2 DEF JobsTyped, JobsStarted
  <2>4. {} \in SUBSET Jobs /\ proc' = proc /\ jobStatus' = jobStatus
    BY <2>1
  <2> QED  BY <2>1, <2>2, <2>3, <2>4, SweepStarted
<1>2. ASSUME NEW t \in Tools, Shells!Joined(t)  PROVE JobsStarted'
  <2>1. on[t] \in Jobs /\ with[t] \in 1..MaxManagers /\ proc[on[t]] # "none" /\ jobAt[t] \in OnAJob
    BY <1>2, JoinedSweeps DEF JobsStarted, OnAJob
  <2>2. ASSUME NEW m, NEW todo, NEW dumped, m = with[t] /\ todo = sweep[t] /\ dumped = stale[t],
               Swept(t, m, todo, dumped)
        PROVE  JobsStarted'
    <3>1. m \in 1..MaxManagers /\ todo \in SUBSET Jobs /\ dumped \in SUBSET Jobs
      BY <2>1, <2>2 DEF CallsTyped
    <3>2. with' = [with EXCEPT ![t] = m] /\ proc' = proc
      BY <1>2, <2>2, JoinedSweeps DEF CallsTyped
    <3>3. /\ \A j \in todo : proc[j] # "none"
          /\ \A j \in Jobs : jobStatus'[j] # "running" =>
               jobStatus[j] # "running" \/ (j = on[t] /\ jobAt[t] = "joined")
      BY <1>2, <2>2, JoinedSweeps DEF JobsStarted
    <3>4. (\A j \in dumped : Exiting(j)) \/ ~JobsOver
      BY <2>2 DEF JobsOver
    <3> QED  BY <2>2, <3>1, <3>2, <3>3, <3>4, SweepStarted
  <2>3. CASE jobAt' \in {[jobAt EXCEPT ![t] = "row"], [jobAt EXCEPT ![t] = "done"]}
             /\ UNCHANGED <<jobs, reader, on, sweep, stale, jobCut>>
    BY <1>2, <2>1, <2>3, JoinedSweeps DEF CallsTyped, JobsTyped, OnAJob, JobsStarted
  <2> QED  BY <1>2, <2>2, <2>3, JoinedSweeps DEF Returned
<1>3. ASSUME NEW t \in Tools, Shells!CallerTells(t)  PROVE JobsStarted'
  <2>1. on[t] \in Jobs /\ with[t] \in 1..MaxManagers /\ proc[on[t]] # "none" /\ jobAt[t] \in OnAJob
    BY <1>3, TellerSweeps DEF JobsStarted, OnAJob
  <2>2. ASSUME NEW m, NEW todo, NEW dumped, m = with[t] /\ todo = sweep[t] /\ dumped = stale[t],
               Swept(t, m, todo, dumped)
        PROVE  JobsStarted'
    <3>1. m \in 1..MaxManagers /\ todo \in SUBSET Jobs /\ dumped \in SUBSET Jobs
      BY <2>1, <2>2 DEF CallsTyped
    <3>2. with' = [with EXCEPT ![t] = m] /\ proc' = proc
      BY <1>3, <2>2, TellerSweeps DEF CallsTyped
    <3>3. /\ \A j \in todo : proc[j] # "none"
          /\ \A j \in Jobs : jobStatus'[j] # "running" =>
               jobStatus[j] # "running" \/ (j = on[t] /\ jobAt[t] = "joined")
      <4>1. jobStatus' = jobStatus  BY <1>3, TellerSweeps
      <4> QED  BY <2>2, <4>1 DEF JobsStarted
    <3>4. (\A j \in dumped : Exiting(j)) \/ ~JobsOver
      BY <2>2 DEF JobsOver
    <3> QED  BY <2>2, <3>1, <3>2, <3>3, <3>4, SweepStarted
  <2>3. CASE jobAt' \in {[jobAt EXCEPT ![t] = "inbox"], [jobAt EXCEPT ![t] = "done"]}
             /\ UNCHANGED <<jobs, reader, on, sweep, stale, jobCut>>
    BY <1>3, <2>1, <2>3, TellerSweeps DEF CallsTyped, JobsTyped, OnAJob, JobsStarted
  <2> QED  BY <1>3, <2>2, <2>3, TellerSweeps DEF Returned
<1> USE DEF ShellsBounds, JobsTyped, CallsTyped, OnAJob, Shells!Telling, Shells!toolVars,
            Shells!CancelReader, Shells!Goto, JobsStarted
<1>4. ASSUME NEW j \in Jobs, Shells!Exit(j)  PROVE JobsStarted'
  BY <1>4 DEF Shells!Exit
<1>5. ASSUME NEW j \in Jobs, Shells!Expire(j)  PROVE JobsStarted'
  BY <1>5 DEF Shells!Expire
<1>6. ASSUME NEW j \in Jobs, Shells!ReaderTells(j)  PROVE JobsStarted'
  <2>1. /\ proc' = proc \/ proc' = [proc EXCEPT ![j] = "exited"]
        /\ reader' = [reader EXCEPT ![j] = "inbox"] \/ reader' = [reader EXCEPT ![j] = "done"]
        /\ proc[j] # "none"
        /\ UNCHANGED <<jobs, sweep, jobAt, on, with>>
    BY <1>6 DEF Shells!ReaderTells, Shells!Close
  <2>2. /\ proc' \in [Jobs -> {"none", "alive", "exited"}]
        /\ \A i \in Jobs : proc'[i] = "none" => proc[i] = "none"
    BY <2>1
  <2>3. \A i \in Jobs : i # j => reader'[i] = reader[i]
    BY <2>1
  <2>4. \A i \in Jobs : proc[i] # "none" => proc'[i] # "none"
    BY <2>2
  <2> QED  BY <2>1, <2>2, <2>3, <2>4
<1>7. ASSUME NEW j \in Jobs, NEW exit \in {"completed", "error"}, Shells!ReaderEnds(j, exit)
      PROVE JobsStarted'
  BY <1>7 DEF Shells!ReaderEnds, Shells!Finalize, Shells!Tell, Shells!Close
<1>8. ASSUME NEW t \in Tools, NEW v \in Convs, NEW j \in Jobs, Shells!CallStop(t, v, j)
      PROVE JobsStarted'
  BY <1>8 DEF Shells!CallStop, Shells!GetManager, Shells!Goto
<1>9. ASSUME NEW t \in Tools, NEW j \in Jobs, Shells!Start(t, j)  PROVE JobsStarted'
  BY <1>9 DEF Shells!Start, Shells!Goto
<1>10. ASSUME NEW t \in Tools, Shells!Killed(t)  PROVE JobsStarted'
  BY <1>10 DEF Shells!Killed, Shells!CancelReader, Shells!Goto
<1>11. ASSUME NEW t \in Tools, Shells!ReaderAwaited(t)  PROVE JobsStarted'
  BY <1>11 DEF Shells!ReaderAwaited, Shells!CancelReader, Shells!Goto
<1>12. ASSUME NEW t \in Tools, Shells!Abort(t)  PROVE JobsStarted'
  BY <1>12 DEF Shells!Abort, Shells!Goto
<1>13. CASE UNCHANGED Shells!jobVars  BY <1>13 DEF Shells!jobVars
<1> HIDE DEF ShellsBounds, JobsTyped, CallsTyped, OnAJob, Shells!Telling, Shells!toolVars,
             Shells!CancelReader, Shells!Goto, JobsStarted
<1> QED  BY <1>1, <1>2, <1>3, <1>4, <1>5, <1>6, <1>7, <1>8, <1>9, <1>10, <1>11, <1>12, <1>13 DEF
    Shells!Next

\* A job that exits stays one: a reader that tells is cancelled after its process
\* has exited, or kills it when it has told.
LEMMA SweepExits ==
    ASSUME JobsTyped, NEW t \in Tools, NEW m, NEW todo \in SUBSET Jobs, NEW dumped,
           Swept(t, m, todo, dumped), proc' = proc, \A j \in todo : proc[j] # "none"
    PROVE  \A j \in Jobs : Exiting(j) => Exiting(j)'
<1>1. ASSUME NEW j \in todo, Shells!Kill(t, j)  PROVE \A i \in Jobs : Exiting(i) => Exiting(i)'
  <2>1. CASE proc[j] = "alive"  BY <1>1, <2>1 DEF Shells!Kill, Exiting
  <2>2. CASE proc[j] = "exited"
    BY <1>1, <2>2 DEF Shells!Kill, Shells!CancelReader, JobsTyped, Exiting
  <2> QED  BY <2>1, <2>2 DEF JobsTyped
<1>2. CASE reader' = reader  BY <1>2 DEF Exiting
<1> QED  BY <1>1, <1>2 DEF Swept

LEMMA ReturnExits ==
    ASSUME JobsTyped, CallsTyped, JobsStarted, NEW t \in Tools, Returned(t), proc' = proc
    PROVE  \A j \in Jobs : Exiting(j) => Exiting(j)'
<1>1. CASE reader' = reader  BY <1>1 DEF Exiting
<1>2. ASSUME NEW m, NEW todo, NEW dumped, m = with[t] /\ todo = sweep[t] /\ dumped = stale[t],
             Swept(t, m, todo, dumped)
      PROVE  \A j \in Jobs : Exiting(j) => Exiting(j)'
  <2>1. todo \in SUBSET Jobs /\ \A j \in todo : proc[j] # "none"
    BY <1>2 DEF CallsTyped, JobsStarted
  <2> QED  BY <1>2, <2>1, SweepExits
<1> QED  BY <1>1, <1>2 DEF Returned

LEMMA ExitsStay ==
    ASSUME ShellsBounds, JobsTyped, CallsTyped, [Shells!Next]_(Shells!jobVars), JobsStarted,
        JobsOver
    PROVE  \A j \in Jobs : Exiting(j) => Exiting(j)'
<1> DEFINE Stay == \A j \in Jobs : Exiting(j) => Exiting(j)'
<1>1. ASSUME NEW t \in Tools, NEW v \in Convs, NEW what \in {"start", "list"}, Shells!Call(t, v,
    what)  PROVE Stay
  <2>1. PICK m \in 1..MaxManagers :
               /\ \E todo : todo = jobs[m] /\ Swept(t, m, todo, {})
               /\ proc' = proc
    BY <1>1, CallSweeps
  <2>2. PICK todo : todo = jobs[m] /\ Swept(t, m, todo, {})  BY <2>1
  <2>3. todo \in SUBSET Jobs /\ \A j \in todo : proc[j] # "none"
    BY <2>2 DEF JobsTyped, JobsStarted
  <2> QED  BY <2>1, <2>2, <2>3, SweepExits
<1>2. ASSUME NEW t \in Tools, Shells!Joined(t)  PROVE Stay
  <2>1. proc' = proc /\ (Returned(t) \/ reader' = reader)  BY <1>2, JoinedSweeps
  <2> QED  BY <2>1, ReturnExits DEF Exiting
<1>3. ASSUME NEW t \in Tools, Shells!CallerTells(t)  PROVE Stay
  <2>1. proc' = proc /\ (Returned(t) \/ reader' = reader)  BY <1>3, TellerSweeps
  <2> QED  BY <2>1, ReturnExits DEF Exiting
<1> USE DEF JobsTyped, Exiting, Shells!Telling
<1>4. ASSUME NEW j \in Jobs, Shells!Exit(j) \/ Shells!Expire(j)  PROVE Stay
  BY <1>4 DEF Shells!Exit, Shells!Expire
<1>5. ASSUME NEW j \in Jobs, Shells!ReaderTells(j)  PROVE Stay
  BY <1>5 DEF Shells!ReaderTells, Shells!Close
<1>6. ASSUME NEW j \in Jobs, NEW exit \in {"completed", "error"}, Shells!ReaderEnds(j, exit)
      PROVE Stay
  BY <1>6 DEF Shells!ReaderEnds, Shells!Close
<1>7. ASSUME NEW t \in Tools, NEW v \in Convs, NEW j \in Jobs, Shells!CallStop(t, v, j)
      PROVE Stay
  BY <1>7 DEF Shells!CallStop
<1>8. ASSUME NEW t \in Tools, NEW j \in Jobs, Shells!Start(t, j)  PROVE Stay
  <2>1. reader[j] = "none"  BY <1>8 DEF Shells!Start, JobsStarted
  <2> QED  BY <1>8, <2>1 DEF Shells!Start
<1>9. ASSUME NEW t \in Tools, Shells!Killed(t)  PROVE Stay
  BY <1>9 DEF Shells!Killed, Shells!CancelReader
<1>10. ASSUME NEW t \in Tools, Shells!ReaderAwaited(t)  PROVE Stay
  BY <1>10 DEF Shells!ReaderAwaited, Shells!CancelReader, JobsOver
<1>11. ASSUME NEW t \in Tools, Shells!Abort(t)  PROVE Stay
  BY <1>11 DEF Shells!Abort
<1>12. CASE UNCHANGED Shells!jobVars  BY <1>12 DEF Shells!jobVars
<1> HIDE DEF JobsTyped, Exiting, Shells!Telling
<1> QED  BY <1>1, <1>2, <1>3, <1>4, <1>5, <1>6, <1>7, <1>8, <1>9, <1>10, <1>11, <1>12 DEF
    Shells!Next

LEMMA SweepOver ==
    ASSUME ShellsBounds, JobsTyped, CallsTyped, JobsStarted, JobsOver, NEW t \in Tools, NEW m
        \in 1..MaxManagers,
           NEW todo \in SUBSET Jobs, NEW dumped \in SUBSET Jobs,
           Swept(t, m, todo, dumped), \A j \in todo : proc[j] # "none",
           proc' = proc, \A j \in dumped : Exiting(j),
           \A j \in Jobs : jobStatus'[j] # "running" => Exiting(j)
    PROVE  JobsOver'
<1>x. \A j \in Jobs : Exiting(j) => Exiting(j)'  BY SweepExits
<1> USE <1>x
<1> USE DEF ShellsBounds, JobsTyped, CallsTyped, OnAJob, Shells!Telling, Shells!toolVars,
            Shells!CancelReader, Shells!Goto, JobsStarted, JobsOver
<1>1. ASSUME NEW j \in todo, NEW before \in SUBSET todo,
             j \in lateJobs /\ jobStatus[j] = "running", on' = [on EXCEPT ![t] = j],
                 Shells!Kill(t, j),
             \A b \in before : b \in lateJobs => jobStatus[b] # "running",
             sweep' = [sweep EXCEPT ![t] = todo \ (before \cup {j})],
             stale' = [stale EXCEPT ![t] = dumped \cup (before \cap lateJobs)], jobs' = jobs
      PROVE  JobsOver'
  <2>1. CASE proc[j] = "alive"  BY <1>1, <2>1 DEF Shells!Kill
  <2>2. CASE proc[j] # "alive"  BY <1>1, <2>2 DEF Shells!Kill
  <2> QED  BY <2>1, <2>2
<1>2. ASSUME NEW removed, jobs' = [jobs EXCEPT ![m] = @ \ removed], UNCHANGED <<on, reader>>,
             sweep' = [sweep EXCEPT ![t] = {}], stale' = [stale EXCEPT ![t] = {}],
             jobAt' = [jobAt EXCEPT ![t] = "spawn"] \/ jobAt' = [jobAt EXCEPT ![t] = "done"]
      PROVE  JobsOver'
  BY <1>2
<1> HIDE DEF ShellsBounds, JobsTyped, CallsTyped, OnAJob, Shells!Telling, Shells!toolVars,
             Shells!CancelReader, Shells!Goto, JobsStarted, JobsOver
<1> QED  BY <1>1, <1>2 DEF Swept

LEMMA OverStep ==
    ASSUME ShellsBounds, JobsTyped, CallsTyped, [Shells!Next]_(Shells!jobVars), JobsStarted,
        JobsOver
    PROVE  JobsOver'
<1>x. \A j \in Jobs : Exiting(j) => Exiting(j)'  BY ExitsStay
<1> USE <1>x
<1>1. ASSUME NEW t \in Tools, NEW v \in Convs, NEW what \in {"start", "list"}, Shells!Call(t, v,
    what)  PROVE JobsOver'
  <2>1. PICK m \in 1..MaxManagers :
               /\ \E todo : todo = jobs[m] /\ Swept(t, m, todo, {})
               /\ with' = [with EXCEPT ![t] = m]
               /\ UNCHANGED <<proc, jobStatus>>
    BY <1>1, CallSweeps
  <2>2. PICK todo : todo = jobs[m] /\ Swept(t, m, todo, {})
    BY <2>1
  <2>3. todo \in SUBSET Jobs /\ \A j \in todo : proc[j] # "none"
    BY <2>2 DEF JobsTyped, JobsStarted
  <2>4. {} \in SUBSET Jobs /\ proc' = proc /\ jobStatus' = jobStatus
    BY <2>1
  <2> QED  BY <2>1, <2>2, <2>3, <2>4, SweepOver DEF JobsOver
<1>2. ASSUME NEW t \in Tools, Shells!Joined(t)  PROVE JobsOver'
  <2>1. on[t] \in Jobs /\ with[t] \in 1..MaxManagers /\ proc[on[t]] # "none" /\ jobAt[t] \in OnAJob
    BY <1>2, JoinedSweeps DEF JobsStarted, OnAJob
  <2>2. ASSUME NEW m, NEW todo, NEW dumped, m = with[t] /\ todo = sweep[t] /\ dumped = stale[t],
               Swept(t, m, todo, dumped)
        PROVE  JobsOver'
    <3>1. m \in 1..MaxManagers /\ todo \in SUBSET Jobs /\ dumped \in SUBSET Jobs
      BY <2>1, <2>2 DEF CallsTyped
    <3>2. with' = [with EXCEPT ![t] = m] /\ proc' = proc
      BY <1>2, <2>2, JoinedSweeps DEF CallsTyped
    <3>3. /\ \A j \in todo : proc[j] # "none"
          /\ \A j \in Jobs : jobStatus'[j] # "running" =>
               jobStatus[j] # "running" \/ (j = on[t] /\ jobAt[t] = "joined")
      BY <1>2, <2>2, JoinedSweeps DEF JobsStarted
    <3>4. (\A j \in dumped : Exiting(j)) \/ ~JobsOver
      BY <2>2 DEF JobsOver
    <3>5. \A j \in Jobs : jobStatus'[j] # "running" => Exiting(j)
      BY <2>1, <3>3 DEF JobsOver, Exiting
    <3> QED  BY <2>2, <3>1, <3>2, <3>3, <3>4, <3>5, SweepOver
  <2>3. CASE jobAt' \in {[jobAt EXCEPT ![t] = "row"], [jobAt EXCEPT ![t] = "done"]}
             /\ UNCHANGED <<jobs, reader, on, sweep, stale, jobCut>>
    <3>1. \A j \in Jobs : jobStatus'[j] # "running" => Exiting(j)
      BY <1>2, <2>1, JoinedSweeps DEF JobsOver, Exiting
    <3>2. proc' = proc  BY <1>2, JoinedSweeps
    <3> QED  BY <2>1, <2>3, <3>1, <3>2 DEF CallsTyped, JobsOver
  <2> QED  BY <1>2, <2>2, <2>3, JoinedSweeps DEF Returned
<1>3. ASSUME NEW t \in Tools, Shells!CallerTells(t)  PROVE JobsOver'
  <2>1. on[t] \in Jobs /\ with[t] \in 1..MaxManagers /\ proc[on[t]] # "none" /\ jobAt[t] \in OnAJob
    BY <1>3, TellerSweeps DEF JobsStarted, OnAJob
  <2>2. ASSUME NEW m, NEW todo, NEW dumped, m = with[t] /\ todo = sweep[t] /\ dumped = stale[t],
               Swept(t, m, todo, dumped)
        PROVE  JobsOver'
    <3>1. m \in 1..MaxManagers /\ todo \in SUBSET Jobs /\ dumped \in SUBSET Jobs
      BY <2>1, <2>2 DEF CallsTyped
    <3>2. with' = [with EXCEPT ![t] = m] /\ proc' = proc
      BY <1>3, <2>2, TellerSweeps DEF CallsTyped
    <3>3. /\ \A j \in todo : proc[j] # "none"
          /\ \A j \in Jobs : jobStatus'[j] # "running" =>
               jobStatus[j] # "running" \/ (j = on[t] /\ jobAt[t] = "joined")
      <4>1. jobStatus' = jobStatus  BY <1>3, TellerSweeps
      <4> QED  BY <2>2, <4>1 DEF JobsStarted
    <3>4. (\A j \in dumped : Exiting(j)) \/ ~JobsOver
      BY <2>2 DEF JobsOver
    <3>5. \A j \in Jobs : jobStatus'[j] # "running" => Exiting(j)
      BY <2>1, <3>3 DEF JobsOver, Exiting
    <3> QED  BY <2>2, <3>1, <3>2, <3>3, <3>4, <3>5, SweepOver
  <2>3. CASE jobAt' \in {[jobAt EXCEPT ![t] = "inbox"], [jobAt EXCEPT ![t] = "done"]}
             /\ UNCHANGED <<jobs, reader, on, sweep, stale, jobCut>>
    BY <1>3, <2>1, <2>3, TellerSweeps DEF CallsTyped, JobsTyped, OnAJob, JobsStarted, JobsOver
  <2> QED  BY <1>3, <2>2, <2>3, TellerSweeps DEF Returned
<1> USE DEF ShellsBounds, JobsTyped, CallsTyped, OnAJob, Shells!Telling, Shells!toolVars,
            Shells!CancelReader, Shells!Goto, JobsStarted, JobsOver
<1>4. ASSUME NEW j \in Jobs, Shells!Exit(j)  PROVE JobsOver'
  BY <1>4 DEF Shells!Exit
<1>5. ASSUME NEW j \in Jobs, Shells!Expire(j)  PROVE JobsOver'
  BY <1>5 DEF Shells!Expire
<1>6. ASSUME NEW j \in Jobs, Shells!ReaderTells(j)  PROVE JobsOver'
  BY <1>6 DEF Shells!ReaderTells, Shells!Tell, Shells!NextNews, Shells!Close
<1>7. ASSUME NEW j \in Jobs, NEW exit \in {"completed", "error"}, Shells!ReaderEnds(j, exit)
      PROVE JobsOver'
  <2>1. /\ jobStatus' = [jobStatus EXCEPT ![j] = exit] /\ UNCHANGED <<jobAt, on, stale>>
        /\ proc' = proc \/ proc' = [proc EXCEPT ![j] = "exited"]
    BY <1>7 DEF Shells!ReaderEnds, Shells!Close
  <2>2. Exiting(j)'
    BY <1>7 DEF Shells!ReaderEnds, Shells!Close, Exiting
  <2>3. \A i \in Jobs : jobStatus'[i] # "running" => Exiting(i)'
    BY <2>1, <2>2
  <2>4. \A i \in Jobs : proc[i] = "exited" => proc'[i] = "exited"
    BY <2>1
  <2> QED  BY <2>1, <2>3, <2>4
<1>8. ASSUME NEW t \in Tools, NEW v \in Convs, NEW j \in Jobs, Shells!CallStop(t, v, j)
      PROVE JobsOver'
  BY <1>8 DEF Shells!CallStop, Shells!GetManager, Shells!Goto
<1>9. ASSUME NEW t \in Tools, NEW j \in Jobs, Shells!Start(t, j)  PROVE JobsOver'
  BY <1>9 DEF Shells!Start, Shells!Goto
<1>10. ASSUME NEW t \in Tools, Shells!Killed(t)  PROVE JobsOver'
  BY <1>10 DEF Shells!Killed, Shells!CancelReader, Shells!Goto
<1>11. ASSUME NEW t \in Tools, Shells!ReaderAwaited(t)  PROVE JobsOver'
  BY <1>11 DEF Shells!ReaderAwaited, Shells!CancelReader, Shells!Goto
<1>12. ASSUME NEW t \in Tools, Shells!Abort(t)  PROVE JobsOver'
  BY <1>12 DEF Shells!Abort, Shells!Goto
<1>13. CASE UNCHANGED Shells!jobVars  BY <1>13 DEF Shells!jobVars
<1> HIDE DEF ShellsBounds, JobsTyped, CallsTyped, OnAJob, Shells!Telling, Shells!toolVars,
             Shells!CancelReader, Shells!Goto, JobsStarted, JobsOver
<1> QED  BY <1>1, <1>2, <1>3, <1>4, <1>5, <1>6, <1>7, <1>8, <1>9, <1>10, <1>11, <1>12, <1>13 DEF
    Shells!Next

OnJobs == \A t \in Tools : jobAt[t] \in Shells!Telling => on[t] \in Jobs

LEMMA JobTells ==
    ASSUME ToldTyped, NEW j \in Jobs
    PROVE  /\ jobTold[j] = Heard0 /\ Shells!Tell(j, "row") =>
                \A i \in Jobs : jobTold'[i] = IF i = j THEN Heard1 ELSE jobTold[i]
           /\ jobTold[j] = Heard1 /\ Shells!Tell(j, "inbox") =>
                \A i \in Jobs : jobTold'[i] = IF i = j THEN Heard2 ELSE jobTold[i]
           /\ jobTold[j] = Heard2 /\ Shells!Tell(j, "wake") =>
                \A i \in Jobs : jobTold'[i] = IF i = j THEN Heard3 ELSE jobTold[i]
<1>1. ASSUME NEW n, Shells!Tell(j, n)
      PROVE  \A i \in Jobs : jobTold'[i] = IF i = j THEN [jobTold[j] EXCEPT ![n] = @ + 1]
          ELSE jobTold[i]
  BY <1>1 DEF Shells!Tell, ToldTyped
<1>2. \A x, n, y : jobTold[j] = x /\ Shells!Tell(j, n) /\ [x EXCEPT ![n] = @ + 1] = y
                     => \A i \in Jobs : jobTold'[i] = IF i = j THEN y ELSE jobTold[i]
  BY <1>1
<1>3. [Heard0 EXCEPT !["row"] = @ + 1] = Heard1  BY DEF Heard1
<1>4. [Heard1 EXCEPT !["inbox"] = @ + 1] = Heard2  BY DEF Heard2
<1>5. [Heard2 EXCEPT !["wake"] = @ + 1] = Heard3  BY DEF Heard3
<1> QED  BY <1>2, <1>3, <1>4, <1>5

\* Where a tool that may have told leaves the job it was on.
LEMMA TellersLeave ==
    ASSUME JobsTyped, CallsTyped, JobsTellers, ToldTyped, JobsStarted, OnJobs, NEW t \in Tools,
           \A u \in Tools \ {t} : on'[u] = on[u] /\ jobAt'[u] = jobAt[u],
           jobAt'[t] \notin Shells!Telling, finalized' = finalized, jobCut \subseteq jobCut',
           \A j \in Jobs : \/ reader'[j] = reader[j]
                           \/ /\ reader'[j] \notin Shells!Telling
                              /\ reader[j] \notin Shells!Telling \/ j \in jobCut',
           \/ jobAt[t] \notin Shells!Telling /\ jobTold' = jobTold
           \/ jobAt[t] = "inbox" /\ Shells!Tell(on[t], "wake")
           \/ on[t] \in jobCut' /\ jobTold' = jobTold
    PROVE  JobsTellers'
<1>1. CASE jobAt[t] \notin Shells!Telling /\ jobTold' = jobTold
  <2> USE DEF OnJobs, JobsTellers, Untold, ReadersTell, ToolsTell, OneTeller, TellersEnd,
              ToldInOrder, Shells!IsTold, Shells!Telling
  <2>a. Untold'  BY <1>1
  <2>b. ReadersTell'  BY <1>1
  <2>c. ToolsTell'  BY <1>1
  <2>d. OneTeller'  BY <1>1
  <2>e. TellersEnd'  BY <1>1
  <2>f. ToldInOrder'  BY <1>1
  <2> HIDE DEF OnJobs, JobsTellers, Untold, ReadersTell, ToolsTell, OneTeller, TellersEnd,
               ToldInOrder, Shells!IsTold, Shells!Telling
  <2> QED  BY <2>a, <2>b, <2>c, <2>d, <2>e, <2>f DEF JobsTellers
<1>2. CASE jobAt[t] = "inbox" /\ Shells!Tell(on[t], "wake")
  <2>1. on[t] \in Jobs /\ on[t] \in finalized /\ jobTold[on[t]] = Heard2 /\ reader[on[t]] \notin
      Shells!Telling
    BY <1>2 DEF OnJobs, JobsTellers, Untold, ReadersTell, ToolsTell, OneTeller, TellersEnd,
                ToldInOrder, Shells!IsTold, Shells!Telling
  <2>2. \A i \in Jobs : jobTold'[i] = IF i = on[t] THEN Heard3 ELSE jobTold[i]
    BY <1>2, <2>1, JobTells
  <2>3. \A u \in Tools \ {t} : jobAt[u] \in Shells!Telling => on[u] # on[t]
    BY <1>2 DEF JobsTellers, Untold, ReadersTell, ToolsTell, OneTeller, TellersEnd, ToldInOrder,
                Shells!Telling
  <2> USE DEF OnJobs, JobsTellers, Untold, ReadersTell, ToolsTell, OneTeller, TellersEnd,
              ToldInOrder, Shells!IsTold, Shells!Telling
  <2>a. Untold'  BY <2>1, <2>2, <2>3, <1>2
  <2>b. ReadersTell'  BY <2>1, <2>2, <2>3, <1>2
  <2>c. ToolsTell'  BY <2>1, <2>2, <2>3, <1>2
  <2>d. OneTeller'  BY <2>1, <2>2, <2>3, <1>2
  <2>e. TellersEnd'  BY <2>1, <2>2, <2>3, <1>2
  <2>f. ToldInOrder'  BY <2>1, <2>2, <2>3, <1>2
  <2> HIDE DEF OnJobs, JobsTellers, Untold, ReadersTell, ToolsTell, OneTeller, TellersEnd,
               ToldInOrder, Shells!IsTold, Shells!Telling
  <2> QED  BY <2>a, <2>b, <2>c, <2>d, <2>e, <2>f DEF JobsTellers
<1>3. CASE on[t] \in jobCut' /\ jobTold' = jobTold
  <2> USE DEF OnJobs, JobsTellers, Untold, ReadersTell, ToolsTell, OneTeller, TellersEnd,
              ToldInOrder, Shells!IsTold, Shells!Telling
  <2>a. Untold'  BY <1>3
  <2>b. ReadersTell'  BY <1>3
  <2>c. ToolsTell'  BY <1>3
  <2>d. OneTeller'  BY <1>3
  <2>e. TellersEnd'  BY <1>3
  <2>f. ToldInOrder'  BY <1>3
  <2> HIDE DEF OnJobs, JobsTellers, Untold, ReadersTell, ToolsTell, OneTeller, TellersEnd,
               ToldInOrder, Shells!IsTold, Shells!Telling
  <2> QED  BY <2>a, <2>b, <2>c, <2>d, <2>e, <2>f DEF JobsTellers
<1> QED  BY <1>1, <1>2, <1>3

\* A sweep tells of nothing: it may cut a reader that does.
LEMMA SweepTells ==
    ASSUME JobsTyped, CallsTyped, NEW t \in Tools, NEW m \in 1..MaxManagers,
           NEW todo \in SUBSET Jobs, NEW dumped, Swept(t, m, todo, dumped)
    PROVE  /\ \A u \in Tools \ {t} : on'[u] = on[u] /\ jobAt'[u] = jobAt[u]
           /\ jobAt'[t] \notin Shells!Telling /\ jobCut \subseteq jobCut'
           /\ \A j \in Jobs : \/ reader'[j] = reader[j]
                              \/ /\ reader'[j] \notin Shells!Telling
                                 /\ reader[j] \notin Shells!Telling \/ j \in jobCut'
<1> USE DEF JobsTyped, CallsTyped, Shells!Telling
<1>1. ASSUME NEW j \in todo, on' = [on EXCEPT ![t] = j], Shells!Kill(t, j)
      PROVE  /\ \A u \in Tools \ {t} : on'[u] = on[u] /\ jobAt'[u] = jobAt[u]
             /\ jobAt'[t] \notin Shells!Telling /\ jobCut \subseteq jobCut'
             /\ \A k \in Jobs : \/ reader'[k] = reader[k]
                                \/ /\ reader'[k] \notin Shells!Telling
                                   /\ reader[k] \notin Shells!Telling \/ k \in jobCut'
  <2>1. CASE proc[j] = "alive"  BY <1>1, <2>1 DEF Shells!Kill, Shells!Goto
  <2>2. CASE proc[j] # "alive"  BY <1>1, <2>2 DEF Shells!Kill, Shells!Goto, Shells!CancelReader
  <2> QED  BY <2>1, <2>2
<1>2. CASE /\ UNCHANGED <<on, reader, jobCut>>
           /\ jobAt' = [jobAt EXCEPT ![t] = "spawn"] \/ jobAt' = [jobAt EXCEPT ![t] = "done"]
  BY <1>2
<1> QED  BY <1>1, <1>2 DEF Swept

LEMMA ReturnedNot ==
    ASSUME CallsTyped, NEW t \in Tools, Returned(t), with[t] \in 1..MaxManagers, JobsTyped
    PROVE  jobAt' # [jobAt EXCEPT ![t] = "row"] /\ jobAt' # [jobAt EXCEPT ![t] = "inbox"]
<1>1. CASE jobAt' = [jobAt EXCEPT ![t] = "done"]  BY <1>1 DEF CallsTyped
<1>2. ASSUME NEW m, NEW todo, NEW dumped, m = with[t] /\ todo = sweep[t] /\ dumped = stale[t],
             Swept(t, m, todo, dumped)
      PROVE  jobAt'[t] \notin Shells!Telling
  <2>1. m \in 1..MaxManagers /\ todo \in SUBSET Jobs  BY <1>2 DEF CallsTyped
  <2> QED  BY <1>2, <2>1, SweepTells
<1> QED  BY <1>1, <1>2 DEF Returned, CallsTyped, Shells!Telling

LEMMA TellersStep ==
    ASSUME ShellsBounds, JobsTyped, CallsTyped, [Shells!Next]_(Shells!jobVars), ToldTyped,
        JobsStarted, JobsTellers
    PROVE  JobsTellers'
<1>j. OnJobs  BY DEF OnJobs, JobsStarted, OnAJob, Shells!Telling
<1> USE <1>j
<1>1. ASSUME NEW j \in Jobs, Shells!ReaderTells(j)  PROVE JobsTellers'
  <2>1. reader[j] \in Shells!Telling /\ UNCHANGED <<jobAt, on, finalized, jobCut>>
    BY <1>1 DEF Shells!ReaderTells, Shells!toolVars
  <2>2. CASE reader[j] = "row"
    <3>1. \A i \in Jobs : jobTold'[i] = IF i = j THEN Heard2 ELSE jobTold[i]
      BY <1>1, <2>2, JobTells DEF JobsTellers, Untold, ReadersTell, ToolsTell, OneTeller,
                                  TellersEnd, ToldInOrder, Shells!ReaderTells, Shells!NextNews
    <3>2. \A i \in Jobs : reader'[i] = IF i = j THEN "inbox" ELSE reader[i]
      BY <1>1, <2>2 DEF Shells!ReaderTells, Shells!Close, JobsTyped
    <3> USE DEF OnJobs, JobsTellers, Untold, ReadersTell, ToolsTell, OneTeller, TellersEnd,
                ToldInOrder, Shells!IsTold, Shells!Telling
    <3>a. Untold'  BY <2>1, <2>2, <3>1, <3>2
    <3>b. ReadersTell'  BY <2>1, <2>2, <3>1, <3>2
    <3>c. ToolsTell'  BY <2>1, <2>2, <3>1, <3>2
    <3>d. OneTeller'  BY <2>1, <2>2, <3>1, <3>2
    <3>e. TellersEnd'  BY <2>1, <2>2, <3>1, <3>2
    <3>f. ToldInOrder'  BY <2>1, <2>2, <3>1, <3>2
    <3> HIDE DEF OnJobs, JobsTellers, Untold, ReadersTell, ToolsTell, OneTeller, TellersEnd,
                 ToldInOrder, Shells!IsTold, Shells!Telling
    <3> QED  BY <3>a, <3>b, <3>c, <3>d, <3>e, <3>f DEF JobsTellers
  <2>3. CASE reader[j] = "inbox"
    <3>1. \A i \in Jobs : jobTold'[i] = IF i = j THEN Heard3 ELSE jobTold[i]
      BY <1>1, <2>3, JobTells DEF JobsTellers, Untold, ReadersTell, ToolsTell, OneTeller,
                                  TellersEnd, ToldInOrder, Shells!ReaderTells, Shells!NextNews
    <3>2. \A i \in Jobs : reader'[i] = IF i = j THEN "done" ELSE reader[i]
      BY <1>1, <2>3 DEF Shells!ReaderTells, Shells!Close, JobsTyped
    <3> USE DEF OnJobs, JobsTellers, Untold, ReadersTell, ToolsTell, OneTeller, TellersEnd,
                ToldInOrder, Shells!IsTold, Shells!Telling
    <3>a. Untold'  BY <2>1, <2>3, <3>1, <3>2
    <3>b. ReadersTell'  BY <2>1, <2>3, <3>1, <3>2
    <3>c. ToolsTell'  BY <2>1, <2>3, <3>1, <3>2
    <3>d. OneTeller'  BY <2>1, <2>3, <3>1, <3>2
    <3>e. TellersEnd'  BY <2>1, <2>3, <3>1, <3>2
    <3>f. ToldInOrder'  BY <2>1, <2>3, <3>1, <3>2
    <3> HIDE DEF OnJobs, JobsTellers, Untold, ReadersTell, ToolsTell, OneTeller, TellersEnd,
                 ToldInOrder, Shells!IsTold, Shells!Telling
    <3> QED  BY <3>a, <3>b, <3>c, <3>d, <3>e, <3>f DEF JobsTellers
  <2> QED  BY <2>1, <2>2, <2>3 DEF Shells!Telling
<1>2. ASSUME NEW j \in Jobs, NEW exit \in {"completed", "error"}, Shells!ReaderEnds(j, exit)
      PROVE JobsTellers'
  <2>1. UNCHANGED <<jobAt, on, jobCut>> /\ reader[j] = "reading"
    BY <1>2 DEF Shells!ReaderEnds, Shells!toolVars
  <2>2. CASE j \in finalized
    <3>1. /\ \A i \in Jobs : reader'[i] = IF i = j THEN "done" ELSE reader[i]
          /\ UNCHANGED <<finalized, jobTold>>
      BY <1>2, <2>2 DEF Shells!ReaderEnds, Shells!Close, JobsTyped
    <3> USE DEF OnJobs, JobsTellers, Untold, ReadersTell, ToolsTell, OneTeller, TellersEnd,
                ToldInOrder, Shells!IsTold, Shells!Telling
    <3>a. Untold'  BY <2>1, <2>2, <3>1
    <3>b. ReadersTell'  BY <2>1, <2>2, <3>1
    <3>c. ToolsTell'  BY <2>1, <2>2, <3>1
    <3>d. OneTeller'  BY <2>1, <2>2, <3>1
    <3>e. TellersEnd'  BY <2>1, <2>2, <3>1
    <3>f. ToldInOrder'  BY <2>1, <2>2, <3>1
    <3> HIDE DEF OnJobs, JobsTellers, Untold, ReadersTell, ToolsTell, OneTeller, TellersEnd,
                 ToldInOrder, Shells!IsTold, Shells!Telling
    <3> QED  BY <3>a, <3>b, <3>c, <3>d, <3>e, <3>f DEF JobsTellers
  <2>3. CASE j \notin finalized
    <3>1. \A i \in Jobs : jobTold'[i] = IF i = j THEN Heard1 ELSE jobTold[i]
      BY <1>2, <2>3, JobTells DEF JobsTellers, Untold, ReadersTell, ToolsTell, OneTeller,
                                  TellersEnd, ToldInOrder, Shells!ReaderEnds, Shells!Finalize
    <3>2. /\ \A i \in Jobs : reader'[i] = IF i = j THEN "row" ELSE reader[i]
          /\ finalized' = finalized \cup {j}
      BY <1>2, <2>3 DEF Shells!ReaderEnds, Shells!Finalize, JobsTyped
    <3> USE DEF OnJobs, JobsTellers, Untold, ReadersTell, ToolsTell, OneTeller, TellersEnd,
                ToldInOrder, Shells!IsTold, Shells!Telling
    <3>a. Untold'  BY <2>1, <2>3, <3>1, <3>2
    <3>b. ReadersTell'  BY <2>1, <2>3, <3>1, <3>2
    <3>c. ToolsTell'  BY <2>1, <2>3, <3>1, <3>2
    <3>d. OneTeller'  BY <2>1, <2>3, <3>1, <3>2
    <3>e. TellersEnd'  BY <2>1, <2>3, <3>1, <3>2
    <3>f. ToldInOrder'  BY <2>1, <2>3, <3>1, <3>2
    <3> HIDE DEF OnJobs, JobsTellers, Untold, ReadersTell, ToolsTell, OneTeller, TellersEnd,
                 ToldInOrder, Shells!IsTold, Shells!Telling
    <3> QED  BY <3>a, <3>b, <3>c, <3>d, <3>e, <3>f DEF JobsTellers
  <2> QED  BY <2>2, <2>3
<1>3. ASSUME NEW t \in Tools, NEW v \in Convs, NEW what \in {"start", "list"}, Shells!Call(t, v,
    what)  PROVE JobsTellers'
  <2>1. PICK m \in 1..MaxManagers :
               /\ \E todo : todo = jobs[m] /\ Swept(t, m, todo, {})
               /\ UNCHANGED <<finalized, jobTold>> /\ jobAt[t] = "idle"
    BY <1>3, CallSweeps
  <2>2. PICK todo : todo = jobs[m] /\ Swept(t, m, todo, {})
    BY <2>1
  <2>3. todo \in SUBSET Jobs  BY <2>2 DEF JobsTyped
  <2>4. jobAt[t] \notin Shells!Telling /\ jobTold' = jobTold /\ finalized' = finalized
    BY <2>1 DEF Shells!Telling
  <2> QED  BY <2>2, <2>3, <2>4, SweepTells, TellersLeave
<1>4. ASSUME NEW t \in Tools, NEW v \in Convs, NEW j \in Jobs, Shells!CallStop(t, v, j)
      PROVE JobsTellers'
  <2>1. /\ \A u \in Tools \ {t} : on'[u] = on[u] /\ jobAt'[u] = jobAt[u]
        /\ jobAt'[t] \notin Shells!Telling /\ jobCut \subseteq jobCut' /\ finalized' = finalized
        /\ jobTold' = jobTold
    BY <1>4 DEF Shells!CallStop, Shells!GetManager, Shells!Goto, CallsTyped, Shells!Telling
  <2>2. jobAt[t] \notin Shells!Telling \/ on[t] \in jobCut'
    BY <1>4 DEF Shells!CallStop, Shells!Telling
  <2>3. \A k \in Jobs : \/ reader'[k] = reader[k]
                        \/ /\ reader'[k] \notin Shells!Telling
                           /\ reader[k] \notin Shells!Telling \/ k \in jobCut'
    BY <1>4 DEF Shells!CallStop, Shells!GetManager, Shells!Goto, JobsTyped, JobsStarted, OnAJob,
                Shells!Telling
  <2> QED  BY <2>1, <2>2, <2>3, TellersLeave
<1>5. ASSUME NEW t \in Tools, NEW j \in Jobs, Shells!Start(t, j)  PROVE JobsTellers'
  <2>1. /\ \A u \in Tools \ {t} : on'[u] = on[u] /\ jobAt'[u] = jobAt[u]
        /\ jobAt'[t] \notin Shells!Telling /\ jobCut \subseteq jobCut' /\ finalized' = finalized
        /\ jobTold' = jobTold
    BY <1>5 DEF Shells!Start, Shells!Goto, CallsTyped, Shells!Telling
  <2>2. jobAt[t] \notin Shells!Telling \/ on[t] \in jobCut'
    BY <1>5 DEF Shells!Start, Shells!Telling
  <2>3. \A k \in Jobs : \/ reader'[k] = reader[k]
                        \/ /\ reader'[k] \notin Shells!Telling
                           /\ reader[k] \notin Shells!Telling \/ k \in jobCut'
    BY <1>5 DEF Shells!Start, Shells!Goto, JobsTyped, JobsStarted, OnAJob, Shells!Telling
  <2> QED  BY <2>1, <2>2, <2>3, TellersLeave
<1>6. ASSUME NEW t \in Tools, Shells!Killed(t)  PROVE JobsTellers'
  <2>1. /\ \A u \in Tools \ {t} : on'[u] = on[u] /\ jobAt'[u] = jobAt[u]
        /\ jobAt'[t] \notin Shells!Telling /\ jobCut \subseteq jobCut' /\ finalized' = finalized
        /\ jobTold' = jobTold
    BY <1>6 DEF Shells!Killed, Shells!CancelReader, Shells!Goto, CallsTyped, Shells!Telling
  <2>2. jobAt[t] \notin Shells!Telling \/ on[t] \in jobCut'
    BY <1>6 DEF Shells!Killed, Shells!Telling
  <2>3. \A k \in Jobs : \/ reader'[k] = reader[k]
                        \/ /\ reader'[k] \notin Shells!Telling
                           /\ reader[k] \notin Shells!Telling \/ k \in jobCut'
    BY <1>6 DEF Shells!Killed, Shells!CancelReader, Shells!Goto, JobsTyped, JobsStarted, OnAJob,
                Shells!Telling
  <2> QED  BY <2>1, <2>2, <2>3, TellersLeave
<1>7. ASSUME NEW t \in Tools, Shells!ReaderAwaited(t)  PROVE JobsTellers'
  <2>1. /\ \A u \in Tools \ {t} : on'[u] = on[u] /\ jobAt'[u] = jobAt[u]
        /\ jobAt'[t] \notin Shells!Telling /\ jobCut \subseteq jobCut' /\ finalized' = finalized
        /\ jobTold' = jobTold
    BY <1>7 DEF Shells!ReaderAwaited, Shells!CancelReader, Shells!Goto, CallsTyped, Shells!Telling
  <2>2. jobAt[t] \notin Shells!Telling \/ on[t] \in jobCut'
    BY <1>7 DEF Shells!ReaderAwaited, Shells!Telling
  <2>3. \A k \in Jobs : \/ reader'[k] = reader[k]
                        \/ /\ reader'[k] \notin Shells!Telling
                           /\ reader[k] \notin Shells!Telling \/ k \in jobCut'
    BY <1>7 DEF Shells!ReaderAwaited, Shells!CancelReader, Shells!Goto, JobsTyped, JobsStarted,
                OnAJob, Shells!Telling
  <2> QED  BY <2>1, <2>2, <2>3, TellersLeave
<1>8. ASSUME NEW t \in Tools, Shells!Joined(t)  PROVE JobsTellers'
  <2>1. on[t] \in Jobs /\ with[t] \in 1..MaxManagers
    BY <1>8, JoinedSweeps DEF JobsStarted, OnAJob
  <2>2. CASE Returned(t)
    <3>1. finalized' = finalized /\ (jobAt[t] \notin Shells!Telling /\ jobTold' = jobTold)
      <4>1. jobAt' # [jobAt EXCEPT ![t] = "row"] /\ jobAt' # [jobAt EXCEPT ![t] = "inbox"]
        BY <2>1, <2>2, ReturnedNot
      <4> QED  BY <1>8, <4>1, JoinedSweeps DEF Shells!Telling
    <3>2. ASSUME NEW m, NEW todo, NEW dumped, m = with[t] /\ todo = sweep[t] /\ dumped = stale[t],
                 Swept(t, m, todo, dumped)
          PROVE  JobsTellers'
      <4>1. m \in 1..MaxManagers /\ todo \in SUBSET Jobs  BY <2>1, <3>2 DEF CallsTyped
      <4> QED  BY <3>1, <3>2, <4>1, SweepTells, TellersLeave
    <3>3. CASE jobAt' = [jobAt EXCEPT ![t] = "done"] /\ UNCHANGED <<reader, on, jobCut>>
      <4>1. /\ \A u \in Tools \ {t} : on'[u] = on[u] /\ jobAt'[u] = jobAt[u]
            /\ jobAt'[t] \notin Shells!Telling /\ jobCut \subseteq jobCut' /\ reader' = reader
        BY <3>3 DEF CallsTyped, Shells!Telling
      <4> QED  BY <3>1, <4>1, TellersLeave
    <3> QED  BY <2>2, <3>2, <3>3 DEF Returned
  <2>3. CASE /\ on[t] \notin finalized /\ jobAt' = [jobAt EXCEPT ![t] = "row"]
             /\ Shells!Finalize(on[t]) /\ UNCHANGED <<reader, on, jobCut>>
    <3>1. \A i \in Jobs : jobTold'[i] = IF i = on[t] THEN Heard1 ELSE jobTold[i]
      BY <2>1, <2>3, JobTells DEF JobsTellers, Untold, ReadersTell, ToolsTell, OneTeller,
                                  TellersEnd, ToldInOrder, Shells!Finalize
    <3>9. \A u \in Tools : jobAt'[u] = IF u = t THEN "row" ELSE jobAt[u]
      BY <2>3 DEF CallsTyped
    <3> USE DEF OnJobs, JobsTellers, Untold, ReadersTell, ToolsTell, OneTeller, TellersEnd,
                ToldInOrder, Shells!IsTold, Shells!Telling, Shells!Finalize
    <3>a. Untold'  BY <2>1, <2>3, <3>1, <3>9
    <3>b. ReadersTell'  BY <2>1, <2>3, <3>1, <3>9
    <3>c. ToolsTell'  BY <2>1, <2>3, <3>1, <3>9
    <3>d. OneTeller'  BY <2>1, <2>3, <3>1, <3>9
    <3>e. TellersEnd'  BY <2>1, <2>3, <3>1, <3>9
    <3>f. ToldInOrder'  BY <2>1, <2>3, <3>1, <3>9
    <3> HIDE DEF OnJobs, JobsTellers, Untold, ReadersTell, ToolsTell, OneTeller, TellersEnd,
                 ToldInOrder, Shells!IsTold, Shells!Telling, Shells!Finalize
    <3> QED  BY <3>a, <3>b, <3>c, <3>d, <3>e, <3>f DEF JobsTellers
  <2> QED  BY <1>8, <2>2, <2>3, JoinedSweeps
<1>9. ASSUME NEW t \in Tools, Shells!CallerTells(t)  PROVE JobsTellers'
  <2>1. on[t] \in Jobs /\ with[t] \in 1..MaxManagers
    BY <1>9, TellerSweeps DEF JobsStarted, OnAJob
  <2>2. CASE Returned(t)
    <3>1. finalized' = finalized /\ (jobAt[t] = "inbox" /\ Shells!Tell(on[t], "wake"))
      <4>1. jobAt' # [jobAt EXCEPT ![t] = "row"] /\ jobAt' # [jobAt EXCEPT ![t] = "inbox"]
        BY <2>1, <2>2, ReturnedNot
      <4> QED  BY <1>9, <4>1, TellerSweeps DEF Shells!Telling
    <3>2. ASSUME NEW m, NEW todo, NEW dumped, m = with[t] /\ todo = sweep[t] /\ dumped = stale[t],
                 Swept(t, m, todo, dumped)
          PROVE  JobsTellers'
      <4>1. m \in 1..MaxManagers /\ todo \in SUBSET Jobs  BY <2>1, <3>2 DEF CallsTyped
      <4> QED  BY <3>1, <3>2, <4>1, SweepTells, TellersLeave
    <3>3. CASE jobAt' = [jobAt EXCEPT ![t] = "done"] /\ UNCHANGED <<reader, on, jobCut>>
      <4>1. /\ \A u \in Tools \ {t} : on'[u] = on[u] /\ jobAt'[u] = jobAt[u]
            /\ jobAt'[t] \notin Shells!Telling /\ jobCut \subseteq jobCut' /\ reader' = reader
        BY <3>3 DEF CallsTyped, Shells!Telling
      <4> QED  BY <3>1, <4>1, TellersLeave
    <3> QED  BY <2>2, <3>2, <3>3 DEF Returned
  <2>3. CASE /\ jobAt[t] = "row" /\ Shells!Tell(on[t], "inbox")
             /\ jobAt' = [jobAt EXCEPT ![t] = "inbox"]
             /\ UNCHANGED <<reader, on, jobCut>>
    <3>1. \A i \in Jobs : jobTold'[i] = IF i = on[t] THEN Heard2 ELSE jobTold[i]
      BY <2>1, <2>3, JobTells DEF JobsTellers, Untold, ReadersTell, ToolsTell, OneTeller,
                                  TellersEnd, ToldInOrder
    <3>2. finalized' = finalized  BY <1>9, TellerSweeps
    <3>9. \A u \in Tools : jobAt'[u] = IF u = t THEN "inbox" ELSE jobAt[u]
      BY <2>3 DEF CallsTyped
    <3> USE DEF OnJobs, JobsTellers, Untold, ReadersTell, ToolsTell, OneTeller, TellersEnd,
                ToldInOrder, Shells!IsTold, Shells!Telling
    <3>a. Untold'  BY <2>1, <2>3, <3>1, <3>2, <3>9
    <3>b. ReadersTell'  BY <2>1, <2>3, <3>1, <3>2, <3>9
    <3>c. ToolsTell'  BY <2>1, <2>3, <3>1, <3>2, <3>9
    <3>d. OneTeller'  BY <2>1, <2>3, <3>1, <3>2, <3>9
    <3>e. TellersEnd'  BY <2>1, <2>3, <3>1, <3>2, <3>9
    <3>f. ToldInOrder'  BY <2>1, <2>3, <3>1, <3>2, <3>9
    <3> HIDE DEF OnJobs, JobsTellers, Untold, ReadersTell, ToolsTell, OneTeller, TellersEnd,
                 ToldInOrder, Shells!IsTold, Shells!Telling
    <3> QED  BY <3>a, <3>b, <3>c, <3>d, <3>e, <3>f DEF JobsTellers
  <2> QED  BY <1>9, <2>2, <2>3, TellerSweeps
<1>10. ASSUME NEW t \in Tools, Shells!Abort(t)  PROVE JobsTellers'
  <2>1. /\ \A u \in Tools \ {t} : on'[u] = on[u] /\ jobAt'[u] = jobAt[u]
        /\ jobAt'[t] \notin Shells!Telling /\ jobCut \subseteq jobCut' /\ finalized' = finalized
        /\ jobTold' = jobTold
    BY <1>10 DEF Shells!Abort, Shells!Goto, CallsTyped, Shells!Telling
  <2>2. jobAt[t] \notin Shells!Telling \/ on[t] \in jobCut'
    BY <1>10 DEF Shells!Abort, Shells!Telling
  <2>3. \A k \in Jobs : \/ reader'[k] = reader[k]
                        \/ /\ reader'[k] \notin Shells!Telling
                           /\ reader[k] \notin Shells!Telling \/ k \in jobCut'
    BY <1>10 DEF Shells!Abort, Shells!Goto, JobsTyped, JobsStarted, OnAJob, Shells!Telling
  <2> QED  BY <2>1, <2>2, <2>3, TellersLeave
<1> USE DEF JobsTyped, CallsTyped, OnJobs, JobsTellers, Untold, ReadersTell, ToolsTell, OneTeller,
            TellersEnd, ToldInOrder, Shells!IsTold, Shells!Telling, Shells!toolVars
<1>11. ASSUME NEW j \in Jobs, Shells!Exit(j)  PROVE JobsTellers'
  BY <1>11 DEF Shells!Exit
<1>12. ASSUME NEW j \in Jobs, Shells!Expire(j)  PROVE JobsTellers'
  BY <1>12 DEF Shells!Expire
<1>13. CASE UNCHANGED Shells!jobVars  BY <1>13 DEF Shells!jobVars
<1> HIDE DEF JobsTyped, CallsTyped, OnJobs, JobsTellers, Untold, ReadersTell, ToolsTell,
             OneTeller, TellersEnd, ToldInOrder, Shells!IsTold, Shells!Telling, Shells!toolVars
<1> QED  BY <1>1, <1>2, <1>3, <1>4, <1>5, <1>6, <1>7, <1>8, <1>9, <1>10, <1>11, <1>12, <1>13 DEF
    Shells!Next

-----------------------------------------------------------------------------
(* A job that runs can be found. *)

\* Nothing is lost if no job that runs leaves its manager, and no manager that
\* has jobs its conversation.
LEMMA ReachKept ==
    ASSUME ShellsBounds, JobsTyped, Shells!JobsAreReachable,
           \A m \in 1..MaxManagers : \A j \in jobs[m] : ~Exiting(j) => j \in jobs'[m],
           \A v \in Convs : manager[v] # 0 /\ jobs[manager[v]] # {} => manager'[v] = manager[v],
           \A j \in Jobs : proc'[j] = "alive" => proc[j] = "alive",
           \A j \in Jobs : Exiting(j) => Exiting(j)', strays' = strays
    PROVE  Shells!JobsAreReachable'
<1>1. ASSUME NEW j \in Jobs \ strays', proc'[j] = "alive", reader'[j] \notin Shells!Telling
      PROVE  \E v \in Convs : manager'[v] # 0 /\ j \in jobs'[manager'[v]]
  <2>0. proc[j] = "alive" /\ ~Exiting(j)  BY <1>1 DEF Exiting
  <2>1. PICK v \in Convs : manager[v] # 0 /\ j \in jobs[manager[v]]
    BY <1>1, <2>0 DEF Shells!JobsAreReachable, Exiting
  <2>2. manager[v] \in 1..MaxManagers
    BY <2>1 DEF JobsTyped, ShellsBounds
  <2>3. manager'[v] = manager[v]  BY <2>1
  <2>4. j \in jobs'[manager[v]]  BY <2>0, <2>1, <2>2
  <2> QED  BY <2>1, <2>3, <2>4
<1> QED  BY <1>1 DEF Shells!JobsAreReachable

LEMMA ManagersKept ==
    ASSUME NEW t \in Tools, NEW v \in Convs, Shells!GetManager(t, v), JobsTyped
    PROVE  \A u \in Convs : manager[u] # 0 /\ jobs[manager[u]] # {} => manager'[u] = manager[u]
BY DEF Shells!GetManager, Shells!Dropped

\* A sweep removes what has exited or exits.
LEMMA SweepKeeps ==
    ASSUME ShellsBounds, JobsTyped, JobsOver, NEW t \in Tools, NEW m \in 1..MaxManagers,
           NEW todo \in SUBSET Jobs, NEW dumped \in SUBSET Jobs,
           Swept(t, m, todo, dumped), \A j \in dumped : Exiting(j)
    PROVE  \A i \in 1..MaxManagers : \A j \in jobs[i] : ~Exiting(j) => j \in jobs'[i]
<1>1. CASE jobs' = jobs  BY <1>1
<1>2. CASE /\ \A j \in todo : j \in lateJobs => jobStatus[j] # "running"
           /\ jobs' = [jobs EXCEPT ![m] = @ \ (dumped \cup (todo \cap lateJobs))]
  <2>1. \A j \in dumped \cup (todo \cap lateJobs) : Exiting(j)
    BY <1>2 DEF JobsOver
  <2>2. \A i \in 1..MaxManagers : jobs'[i] = IF i = m THEN jobs[m] \ (dumped \cup (todo \cap
      lateJobs))
                                                     ELSE jobs[i]
    BY <1>2 DEF JobsTyped
  <2> QED  BY <2>1, <2>2
<1> QED  BY <1>1, <1>2 DEF Swept

LEMMA ReturnKeeps ==
    ASSUME ShellsBounds, JobsTyped, CallsTyped, JobsOver, NEW t \in Tools,
           with[t] \in 1..MaxManagers, Returned(t)
    PROVE  \A i \in 1..MaxManagers : \A j \in jobs[i] : ~Exiting(j) => j \in jobs'[i]
<1>1. CASE jobs' = jobs  BY <1>1
<1>2. ASSUME NEW m, NEW todo, NEW dumped, m = with[t] /\ todo = sweep[t] /\ dumped = stale[t],
             Swept(t, m, todo, dumped)
      PROVE  \A i \in 1..MaxManagers : \A j \in jobs[i] : ~Exiting(j) => j \in jobs'[i]
  <2>1. /\ m \in 1..MaxManagers /\ todo \in SUBSET Jobs /\ dumped \in SUBSET Jobs
        /\ \A j \in dumped : Exiting(j)
    BY <1>2 DEF CallsTyped, JobsOver
  <2> QED  BY <1>2, <2>1, SweepKeeps
<1> QED  BY <1>1, <1>2 DEF Returned

LEMMA ReachStep ==
    ASSUME ShellsBounds, JobsTyped, CallsTyped, [Shells!Next]_(Shells!jobVars), JobsStarted,
        JobsOver, Shells!JobsAreReachable
    PROVE  Shells!JobsAreReachable'
<1>x. \A j \in Jobs : Exiting(j) => Exiting(j)'  BY ExitsStay
<1> USE <1>x
<1>1. ASSUME NEW j \in Jobs, Shells!Exit(j)  PROVE Shells!JobsAreReachable'
  <2>1. /\ UNCHANGED <<manager, jobs, strays>>
        /\ \A i \in Jobs : proc'[i] = "alive" => proc[i] = "alive"
    BY <1>1 DEF Shells!Exit, JobsTyped
  <2> QED  BY <2>1, ReachKept
<1>2. ASSUME NEW t \in Tools, NEW v \in Convs, NEW what \in {"start", "list"}, Shells!Call(t, v,
    what)  PROVE Shells!JobsAreReachable'
  <2>1. PICK m \in 1..MaxManagers :
               /\ \E todo : todo = jobs[m] /\ Swept(t, m, todo, {})
               /\ UNCHANGED <<proc, strays>> /\ Shells!GetManager(t, v)
    BY <1>2, CallSweeps
  <2>2. PICK todo : todo = jobs[m] /\ Swept(t, m, todo, {})
    BY <2>1
  <2>3. todo \in SUBSET Jobs  BY <2>2 DEF JobsTyped
  <2>4. \A i \in 1..MaxManagers : \A j \in jobs[i] : ~Exiting(j) => j \in jobs'[i]
    BY <2>2, <2>3, SweepKeeps
  <2>5. \A u \in Convs : manager[u] # 0 /\ jobs[manager[u]] # {} => manager'[u] = manager[u]
    BY <2>1, ManagersKept
  <2> QED  BY <2>1, <2>4, <2>5, ReachKept
<1>3. ASSUME NEW t \in Tools, NEW v \in Convs, NEW j \in Jobs, Shells!CallStop(t, v, j)
      PROVE Shells!JobsAreReachable'
  <2>1. UNCHANGED <<proc, strays, jobs>> /\ Shells!GetManager(t, v)
    BY <1>3 DEF Shells!CallStop
  <2>2. \A u \in Convs : manager[u] # 0 /\ jobs[manager[u]] # {} => manager'[u] = manager[u]
    BY <2>1, ManagersKept
  <2> QED  BY <2>1, <2>2, ReachKept
<1>4. ASSUME NEW t \in Tools, NEW j \in Jobs, Shells!Start(t, j)  PROVE Shells!JobsAreReachable'
  <2>1. with[t] \in 1..MaxManagers
    BY <1>4 DEF Shells!Start, JobsStarted
  <2>2. /\ \A m \in 1..MaxManagers : jobs'[m] = IF m = with[t] THEN jobs[m] \cup {j} ELSE jobs[m]
        /\ \A i \in Jobs : proc'[i] = IF i = j THEN "alive" ELSE proc[i]
        /\ manager' = manager
        /\ strays' = IF \E v \in Convs : manager[v] = with[t] THEN strays ELSE strays \cup {j}
    BY <1>4 DEF Shells!Start, JobsTyped
  <2>3. ASSUME NEW i \in Jobs \ strays', proc'[i] = "alive", reader'[i] \notin Shells!Telling
        PROVE  \E v \in Convs : manager'[v] # 0 /\ i \in jobs'[manager'[v]]
    <3>1. CASE i = j
      <4>1. PICK v \in Convs : manager[v] = with[t]
        BY <2>2, <2>3, <3>1
      <4>2. j \in jobs'[with[t]] /\ manager'[v] = with[t]
        BY <2>1, <2>2, <4>1
      <4>3. with[t] # 0  BY <2>1
      <4> QED  BY <3>1, <4>2, <4>3
    <3>2. CASE i # j
      <4>1. i \in Jobs \ strays /\ proc[i] = "alive" /\ reader[i] \notin Shells!Telling
        BY <2>2, <2>3, <3>2 DEF Exiting
      <4>2. PICK v \in Convs : manager[v] # 0 /\ i \in jobs[manager[v]]
        BY <4>1 DEF Shells!JobsAreReachable
      <4>3. manager[v] \in 1..MaxManagers  BY <4>2 DEF JobsTyped, ShellsBounds
      <4> QED  BY <2>2, <4>2, <4>3
    <3> QED  BY <3>1, <3>2
  <2> QED  BY <2>3 DEF Shells!JobsAreReachable
<1>5. ASSUME NEW t \in Tools, Shells!Joined(t)  PROVE Shells!JobsAreReachable'
  <2>1. with[t] \in 1..MaxManagers
    BY <1>5, JoinedSweeps DEF JobsStarted, Shells!Telling
  <2>2. UNCHANGED <<manager, proc, strays>> /\ (Returned(t) \/ jobs' = jobs)
    BY <1>5, JoinedSweeps
  <2>3. \A i \in 1..MaxManagers : \A j \in jobs[i] : ~Exiting(j) => j \in jobs'[i]
    BY <2>1, <2>2, ReturnKeeps
  <2> QED  BY <2>2, <2>3, ReachKept
<1>6. ASSUME NEW t \in Tools, Shells!CallerTells(t)  PROVE Shells!JobsAreReachable'
  <2>1. with[t] \in 1..MaxManagers
    BY <1>6, TellerSweeps DEF JobsStarted, Shells!Telling
  <2>2. UNCHANGED <<manager, proc, strays>> /\ (Returned(t) \/ jobs' = jobs)
    BY <1>6, TellerSweeps
  <2>3. \A i \in 1..MaxManagers : \A j \in jobs[i] : ~Exiting(j) => j \in jobs'[i]
    BY <2>1, <2>2, ReturnKeeps
  <2> QED  BY <2>2, <2>3, ReachKept
<1> USE DEF Shells!JobsAreReachable, Shells!toolVars
<1>7. ASSUME NEW j \in Jobs, Shells!Expire(j)  PROVE Shells!JobsAreReachable'
  BY <1>7 DEF Shells!Expire
<1>8. ASSUME NEW j \in Jobs, Shells!ReaderTells(j)  PROVE Shells!JobsAreReachable'
  <2>1. UNCHANGED <<manager, jobs, strays>>
    BY <1>8 DEF Shells!ReaderTells
  <2>2. \A i \in Jobs : proc'[i] = "alive" => proc[i] = "alive"
    BY <1>8 DEF Shells!ReaderTells, Shells!Close, JobsTyped
  <2> QED  BY <2>1, <2>2, ReachKept
<1>9. ASSUME NEW j \in Jobs, NEW exit \in {"completed", "error"}, Shells!ReaderEnds(j, exit)
      PROVE Shells!JobsAreReachable'
  <2>1. UNCHANGED <<manager, jobs, strays>>
    BY <1>9 DEF Shells!ReaderEnds
  <2>2. \A i \in Jobs : proc'[i] = "alive" => proc[i] = "alive"
    BY <1>9 DEF Shells!ReaderEnds, Shells!Close, JobsTyped
  <2> QED  BY <2>1, <2>2, ReachKept
<1>10. ASSUME NEW t \in Tools, Shells!Killed(t)  PROVE Shells!JobsAreReachable'
  BY <1>10 DEF Shells!Killed, Shells!CancelReader, Shells!Goto
<1>11. ASSUME NEW t \in Tools, Shells!ReaderAwaited(t)  PROVE Shells!JobsAreReachable'
  <2>1. UNCHANGED <<manager, jobs, strays>>
    BY <1>11 DEF Shells!ReaderAwaited
  <2>2. \A i \in Jobs : proc'[i] = "alive" => proc[i] = "alive"
    BY <1>11 DEF Shells!ReaderAwaited, Shells!Close, JobsTyped
  <2> QED  BY <2>1, <2>2, ReachKept
<1>12. ASSUME NEW t \in Tools, Shells!Abort(t)  PROVE Shells!JobsAreReachable'
  BY <1>12 DEF Shells!Abort, Shells!Goto
<1>13. CASE UNCHANGED Shells!jobVars  BY <1>13 DEF Shells!jobVars
<1> HIDE DEF Shells!JobsAreReachable, Shells!toolVars
<1> QED  BY <1>1, <1>2, <1>3, <1>4, <1>5, <1>6, <1>7, <1>8, <1>9, <1>10, <1>11, <1>12, <1>13 DEF
    Shells!Next

-----------------------------------------------------------------------------
(* Types, in two parts: what a sweep writes and the rest. *)

SweepsTyped ==
    /\ jobs \in [1..MaxManagers -> SUBSET Jobs]
    /\ reader \in [Jobs -> {"none", "reading", "done", "row", "inbox"}]
    /\ jobAt \in [Tools -> {"idle", "spawn", "kill", "exiting", "joined", "final", "done",
                            "row", "inbox"}]
    /\ on \in [Tools -> Jobs \cup {NoJob}]
    /\ sweep \in [Tools -> SUBSET Jobs] /\ stale \in [Tools -> SUBSET Jobs]
    /\ jobCut \in SUBSET Jobs
RestTyped ==
    /\ manager \in [Convs -> 0..MaxManagers] /\ managers \in 0..MaxManagers
    /\ proc \in [Jobs -> {"none", "alive", "exited"}]
    /\ jobStatus \in [Jobs -> {"running", "completed", "error", "expired", "stopped"}]
    /\ jobDoes \in [Tools -> {"none", "start", "stop", "list"}]
    /\ with \in [Tools -> 0..MaxManagers]
    /\ finalized \in SUBSET Jobs /\ lateJobs \in SUBSET Jobs /\ strays \in SUBSET Jobs
    /\ jobTold \in [Jobs -> [Shells!News -> Nat]] /\ aborts \in 0..MaxAborts

LEMMA TypedParts ==
    ASSUME SweepsTyped, RestTyped
    PROVE  JobsTyped /\ CallsTyped /\ ToldTyped /\ Shells!TypeOK
<1>1. JobsTyped /\ CallsTyped /\ ToldTyped
  BY DEF SweepsTyped, RestTyped, JobsTyped, CallsTyped, ToldTyped
<1>2. /\ {sweep[t] : t \in Tools} \cup {stale[t] : t \in Tools} \subseteq SUBSET Jobs
      /\ {finalized, lateJobs, strays, jobCut} \subseteq SUBSET Jobs
  BY DEF SweepsTyped, RestTyped
<1>3. /\ reader \in [Jobs -> {"none", "reading", "done"} \cup Shells!Telling]
      /\ jobStatus \in [Jobs -> {"running"} \cup Shells!Final]
  <2>1. {"none", "reading", "done"} \cup Shells!Telling = {"none", "reading", "done", "row",
      "inbox"}
    BY DEF Shells!Telling
  <2>2. {"running"} \cup Shells!Final = {"running", "completed", "error", "expired", "stopped"}
    BY DEF Shells!Final
  <2> QED  BY <2>1, <2>2 DEF SweepsTyped, RestTyped
<1>4. jobAt \in [Tools -> {"idle", "spawn", "kill", "exiting", "joined", "final", "done"}
                          \cup Shells!Telling]
  <2>1. {"idle", "spawn", "kill", "exiting", "joined", "final", "done"} \cup Shells!Telling
          = {"idle", "spawn", "kill", "exiting", "joined", "final", "done", "row", "inbox"}
    BY DEF Shells!Telling
  <2> QED  BY <2>1 DEF SweepsTyped
<1>5. /\ jobs \in [1..MaxManagers -> SUBSET Jobs] /\ on \in [Tools -> Jobs \cup {NoJob}]
      /\ manager \in [Convs -> 0..MaxManagers] /\ managers \in 0..MaxManagers
      /\ proc \in [Jobs -> {"none", "alive", "exited"}]
      /\ jobDoes \in [Tools -> {"none", "start", "stop", "list"}]
      /\ with \in [Tools -> 0..MaxManagers] /\ aborts \in 0..MaxAborts
      /\ jobTold \in [Jobs -> [Shells!News -> Nat]]
  BY DEF SweepsTyped, RestTyped
<1> HIDE DEF SweepsTyped, RestTyped
<1> QED  BY <1>1, <1>2, <1>3, <1>4, <1>5 DEF Shells!TypeOK

LEMMA SweptTyped ==
    ASSUME SweepsTyped, NEW t \in Tools, NEW m \in 1..MaxManagers, NEW todo \in SUBSET Jobs,
           NEW dumped \in SUBSET Jobs, Swept(t, m, todo, dumped)
    PROVE  SweepsTyped'
<1> USE DEF SweepsTyped
<1>1. ASSUME NEW j \in todo, NEW before \in SUBSET todo, on' = [on EXCEPT ![t] = j],
             Shells!Kill(t, j), sweep' = [sweep EXCEPT ![t] = todo \ (before \cup {j})],
             stale' = [stale EXCEPT ![t] = dumped \cup (before \cap lateJobs)], jobs' = jobs
      PROVE  SweepsTyped'
  <2>1. CASE proc[j] = "alive"  BY <1>1, <2>1 DEF Shells!Kill, Shells!Goto
  <2>2. CASE proc[j] # "alive"  BY <1>1, <2>2 DEF Shells!Kill, Shells!Goto, Shells!CancelReader
  <2> QED  BY <2>1, <2>2
<1>2. ASSUME NEW removed, jobs' = [jobs EXCEPT ![m] = @ \ removed], UNCHANGED <<on, reader,
    jobCut>>,
             sweep' = [sweep EXCEPT ![t] = {}], stale' = [stale EXCEPT ![t] = {}],
             jobAt' = [jobAt EXCEPT ![t] = "spawn"] \/ jobAt' = [jobAt EXCEPT ![t] = "done"]
      PROVE  SweepsTyped'
  BY <1>2
<1> HIDE DEF SweepsTyped
<1> QED  BY <1>1, <1>2 DEF Swept

LEMMA ReturnTyped ==
    ASSUME SweepsTyped, NEW t \in Tools, with[t] \in 1..MaxManagers, Returned(t)
    PROVE  SweepsTyped'
<1>1. CASE jobAt' = [jobAt EXCEPT ![t] = "done"] /\ UNCHANGED <<jobs, reader, on, sweep, stale,
    jobCut>>
  BY <1>1 DEF SweepsTyped
<1>2. ASSUME NEW m, NEW todo, NEW dumped, m = with[t] /\ todo = sweep[t] /\ dumped = stale[t],
             Swept(t, m, todo, dumped)
      PROVE  SweepsTyped'
  <2>1. m \in 1..MaxManagers /\ todo \in SUBSET Jobs /\ dumped \in SUBSET Jobs
    BY <1>2 DEF SweepsTyped
  <2> QED  BY <1>2, <2>1, SweptTyped
<1> QED  BY <1>1, <1>2 DEF Returned

LEMMA SweepsTypedStep ==
    ASSUME ShellsBounds, JobsTyped, CallsTyped, [Shells!Next]_(Shells!jobVars), JobsStarted,
        SweepsTyped
    PROVE  SweepsTyped'
<1>1. ASSUME NEW t \in Tools, NEW v \in Convs, NEW what \in {"start", "list"}, Shells!Call(t, v,
    what)  PROVE SweepsTyped'
  <2>1. PICK m \in 1..MaxManagers : \E todo : todo = jobs[m] /\ Swept(t, m, todo, {})
    BY <1>1, CallSweeps
  <2>2. PICK todo : todo = jobs[m] /\ Swept(t, m, todo, {})
    BY <2>1
  <2>3. todo \in SUBSET Jobs /\ {} \in SUBSET Jobs  BY <2>2 DEF JobsTyped
  <2> QED  BY <2>2, <2>3, SweptTyped
<1>2. ASSUME NEW t \in Tools, Shells!Joined(t)  PROVE SweepsTyped'
  <2>1. with[t] \in 1..MaxManagers
    BY <1>2, JoinedSweeps DEF JobsStarted, Shells!Telling
  <2>2. CASE Returned(t)  BY <2>1, <2>2, ReturnTyped
  <2>3. CASE jobAt' = [jobAt EXCEPT ![t] = "row"] /\ UNCHANGED <<jobs, reader, on, sweep, stale,
      jobCut>>
    BY <2>3 DEF SweepsTyped
  <2> QED  BY <1>2, <2>2, <2>3, JoinedSweeps
<1>3. ASSUME NEW t \in Tools, Shells!CallerTells(t)  PROVE SweepsTyped'
  <2>1. with[t] \in 1..MaxManagers
    BY <1>3, TellerSweeps DEF JobsStarted, Shells!Telling
  <2>2. CASE Returned(t)  BY <2>1, <2>2, ReturnTyped
  <2>3. CASE jobAt' = [jobAt EXCEPT ![t] = "inbox"] /\ UNCHANGED <<jobs, reader, on, sweep,
      stale, jobCut>>
    BY <2>3 DEF SweepsTyped
  <2> QED  BY <1>3, <2>2, <2>3, TellerSweeps
<1> USE DEF SweepsTyped, JobsStarted, OnAJob, Shells!toolVars, Shells!Telling
<1>4. ASSUME NEW j \in Jobs, Shells!Exit(j)  PROVE SweepsTyped'
  BY <1>4 DEF Shells!Exit
<1>5. ASSUME NEW j \in Jobs, Shells!Expire(j)  PROVE SweepsTyped'
  BY <1>5 DEF Shells!Expire
<1>6. ASSUME NEW j \in Jobs, Shells!ReaderTells(j)  PROVE SweepsTyped'
  BY <1>6 DEF Shells!ReaderTells, Shells!Tell, Shells!NextNews, Shells!Close
<1>7. ASSUME NEW j \in Jobs, NEW exit \in {"completed", "error"}, Shells!ReaderEnds(j, exit)
      PROVE SweepsTyped'
  BY <1>7 DEF Shells!ReaderEnds, Shells!Finalize, Shells!Tell, Shells!Close
<1>8. ASSUME NEW t \in Tools, NEW v \in Convs, NEW j \in Jobs, Shells!CallStop(t, v, j)
      PROVE SweepsTyped'
  BY <1>8 DEF Shells!CallStop, Shells!GetManager, Shells!Goto
<1>9. ASSUME NEW t \in Tools, NEW j \in Jobs, Shells!Start(t, j)  PROVE SweepsTyped'
  BY <1>9 DEF Shells!Start, Shells!Goto
<1>10. ASSUME NEW t \in Tools, Shells!Killed(t)  PROVE SweepsTyped'
  BY <1>10 DEF Shells!Killed, Shells!CancelReader, Shells!Goto
<1>11. ASSUME NEW t \in Tools, Shells!ReaderAwaited(t)  PROVE SweepsTyped'
  BY <1>11 DEF Shells!ReaderAwaited, Shells!CancelReader, Shells!Goto
<1>12. ASSUME NEW t \in Tools, Shells!Abort(t)  PROVE SweepsTyped'
  BY <1>12 DEF Shells!Abort, Shells!Goto
<1>13. CASE UNCHANGED Shells!jobVars  BY <1>13 DEF Shells!jobVars
<1> HIDE DEF SweepsTyped, JobsStarted, OnAJob, Shells!toolVars, Shells!Telling
<1> QED  BY <1>1, <1>2, <1>3, <1>4, <1>5, <1>6, <1>7, <1>8, <1>9, <1>10, <1>11, <1>12, <1>13 DEF
    Shells!Next

LEMMA ManagersTyped ==
    ASSUME ShellsBounds, RestTyped, NEW t \in Tools, NEW v \in Convs, Shells!GetManager(t, v)
    PROVE  /\ manager' \in [Convs -> 0..MaxManagers] /\ managers' \in 0..MaxManagers
           /\ with' \in [Tools -> 0..MaxManagers]
<1>1. managers \in 0..MaxManagers /\ manager[v] \in 0..MaxManagers
  BY DEF RestTyped
<1>2. PICK m : m = IF manager[v] = 0 THEN managers + 1 ELSE manager[v]  OBVIOUS
<1>3. m \in 0..MaxManagers
  BY <1>1, <1>2 DEF ShellsBounds, Shells!GetManager
<1>4. with' = [with EXCEPT ![t] = m] /\ managers' \in {managers, m}
  BY <1>2 DEF Shells!GetManager
<1>5. \A u \in Convs : manager'[u] \in {m, 0, manager[u]}
  BY <1>2 DEF Shells!GetManager
<1>6. DOMAIN manager' = Convs /\ manager' = [u \in Convs |-> manager'[u]]
  BY DEF Shells!GetManager
<1>7. 0 \in 0..MaxManagers  BY DEF ShellsBounds
<1>8. \A u \in Convs : manager'[u] \in 0..MaxManagers
  BY <1>3, <1>5, <1>7 DEF RestTyped
<1>9. manager' \in [Convs -> 0..MaxManagers]  BY <1>6, <1>8
<1> QED  BY <1>1, <1>3, <1>4, <1>9 DEF RestTyped

LEMMA RestTypedStep ==
    ASSUME ShellsBounds, JobsTyped, CallsTyped, [Shells!Next]_(Shells!jobVars), JobsStarted,
        RestTyped
    PROVE  RestTyped'
<1>1. ASSUME NEW t \in Tools, NEW v \in Convs, NEW what \in {"start", "list"}, Shells!Call(t, v,
    what)  PROVE RestTyped'
  <2>1. /\ jobDoes' \in [Tools -> {"none", "start", "stop", "list"}]
        /\ UNCHANGED <<proc, jobStatus, finalized, lateJobs, jobTold, strays, aborts>>
        /\ Shells!GetManager(t, v)
    BY <1>1 DEF Shells!Call, CallsTyped
  <2> QED  BY <2>1, ManagersTyped DEF RestTyped
<1>2. ASSUME NEW t \in Tools, NEW v \in Convs, NEW j \in Jobs, Shells!CallStop(t, v, j)
      PROVE RestTyped'
  <2>1. /\ jobDoes' \in [Tools -> {"none", "start", "stop", "list"}]
        /\ UNCHANGED <<proc, jobStatus, finalized, lateJobs, jobTold, strays, aborts>>
        /\ Shells!GetManager(t, v)
    BY <1>2 DEF Shells!CallStop, CallsTyped
  <2> QED  BY <2>1, ManagersTyped DEF RestTyped
<1>3. ASSUME NEW t \in Tools, Shells!Joined(t)  PROVE RestTyped'
  <2>1. on[t] \in Jobs  BY <1>3 DEF Shells!Joined, JobsStarted, OnAJob
  <2>2. /\ jobStatus' \in [Jobs -> {"running", "completed", "error", "expired", "stopped"}]
        /\ UNCHANGED <<manager, managers, proc, lateJobs, jobDoes, with, strays, aborts>>
    BY <1>3 DEF Shells!Joined, JobsTyped
  <2>3. \/ UNCHANGED <<finalized, jobTold>>
        \/ finalized' = finalized \cup {on[t]} /\ Shells!Tell(on[t], "row")
    BY <1>3 DEF Shells!Joined, Shells!Finalize
  <2> QED  BY <2>1, <2>2, <2>3 DEF RestTyped, Shells!Tell, Shells!News
<1>4. ASSUME NEW t \in Tools, Shells!CallerTells(t)  PROVE RestTyped'
  <2>1. /\ UNCHANGED <<manager, managers, proc, jobStatus, finalized, lateJobs, jobDoes, with,
                        strays, aborts>>
        /\ on[t] \in Jobs
        /\ Shells!Tell(on[t], "inbox") \/ Shells!Tell(on[t], "wake")
    BY <1>4 DEF Shells!CallerTells, Shells!NextNews, Shells!Telling, JobsStarted, OnAJob
  <2>2. jobTold' \in [Jobs -> [Shells!News -> Nat]]
    BY <2>1 DEF RestTyped, Shells!Tell, Shells!News
  <2> QED  BY <2>1, <2>2 DEF RestTyped
<1> USE DEF RestTyped, ShellsBounds, JobsStarted, OnAJob, Shells!toolVars, Shells!Telling,
            Shells!News
<1>5. ASSUME NEW j \in Jobs, Shells!Exit(j)  PROVE RestTyped'
  BY <1>5 DEF Shells!Exit
<1>6. ASSUME NEW j \in Jobs, Shells!Expire(j)  PROVE RestTyped'
  BY <1>6 DEF Shells!Expire
<1>7. ASSUME NEW j \in Jobs, Shells!ReaderTells(j)  PROVE RestTyped'
  BY <1>7 DEF Shells!ReaderTells, Shells!Tell, Shells!NextNews, Shells!Close
<1>8. ASSUME NEW j \in Jobs, NEW exit \in {"completed", "error"}, Shells!ReaderEnds(j, exit)
      PROVE RestTyped'
  <2>1. /\ jobStatus' = [jobStatus EXCEPT ![j] = exit]
        /\ proc' = proc \/ proc' = [proc EXCEPT ![j] = "exited"]
        /\ \/ UNCHANGED <<finalized, jobTold>>
           \/ finalized' = finalized \cup {j} /\ Shells!Tell(j, "row")
        /\ UNCHANGED <<manager, managers, lateJobs, jobDoes, with, strays, aborts>>
    BY <1>8 DEF Shells!ReaderEnds, Shells!Finalize, Shells!Close
  <2>2. proc' \in [Jobs -> {"none", "alive", "exited"}]
    BY <2>1
  <2>3. jobStatus' \in [Jobs -> {"running", "completed", "error", "expired", "stopped"}]
    BY <2>1
  <2>4. jobTold' \in [Jobs -> [Shells!News -> Nat]] /\ finalized' \in SUBSET Jobs
    <3>1. CASE UNCHANGED <<finalized, jobTold>>  BY <3>1
    <3>2. CASE finalized' = finalized \cup {j} /\ Shells!Tell(j, "row")
      <4>1. jobTold' = [jobTold EXCEPT ![j]["row"] = @ + 1]  BY <3>2 DEF Shells!Tell
      <4>2. jobTold[j]["row"] + 1 \in Nat  OBVIOUS
      <4> QED  BY <3>2, <4>1, <4>2
    <3> QED  BY <2>1, <3>1, <3>2
  <2> QED  BY <2>1, <2>2, <2>3, <2>4
<1>9. ASSUME NEW t \in Tools, NEW j \in Jobs, Shells!Start(t, j)  PROVE RestTyped'
  BY <1>9 DEF Shells!Start, Shells!Goto
<1>10. ASSUME NEW t \in Tools, Shells!Killed(t)  PROVE RestTyped'
  BY <1>10 DEF Shells!Killed, Shells!CancelReader, Shells!Goto
<1>11. ASSUME NEW t \in Tools, Shells!ReaderAwaited(t)  PROVE RestTyped'
  BY <1>11 DEF Shells!ReaderAwaited, Shells!CancelReader, Shells!Goto
<1>12. ASSUME NEW t \in Tools, Shells!Abort(t)  PROVE RestTyped'
  BY <1>12 DEF Shells!Abort, Shells!Goto
<1>13. CASE UNCHANGED Shells!jobVars  BY <1>13 DEF Shells!jobVars
<1> HIDE DEF RestTyped, ShellsBounds, JobsStarted, OnAJob, Shells!toolVars, Shells!Telling,
             Shells!News
<1> QED  BY <1>1, <1>2, <1>3, <1>4, <1>5, <1>6, <1>7, <1>8, <1>9, <1>10, <1>11, <1>12, <1>13 DEF
    Shells!Next

-----------------------------------------------------------------------------
(* The inductive invariant *)

ShellsInv ==
    /\ SweepsTyped /\ RestTyped /\ JobsStarted /\ JobsOver /\ JobsTellers
    /\ Shells!JobsAreReachable

LEMMA ShellsInit == ASSUME ShellsBounds, Shells!Init  PROVE ShellsInv
<1>1. SweepsTyped  BY DEF Shells!Init, SweepsTyped
<1>2. RestTyped  BY DEF Shells!Init, RestTyped, ShellsBounds, Shells!News
<1>3. JobsStarted /\ JobsOver /\ Shells!JobsAreReachable
  BY DEF Shells!Init, JobsStarted, JobsOver, OnAJob, Shells!JobsAreReachable
<1>4. JobsTellers
  BY DEF Shells!Init, JobsTellers, Untold, ReadersTell, ToolsTell, OneTeller, TellersEnd,
         ToldInOrder, Heard0, Shells!IsTold, Shells!Telling
<1> QED  BY <1>1, <1>2, <1>3, <1>4 DEF ShellsInv

LEMMA ShellsCorrect == ASSUME ShellsBounds  PROVE Shells!Spec => []ShellsInv
<1>1. Shells!Init => ShellsInv  BY ShellsInit
<1>2. ShellsInv /\ [Shells!Next]_(Shells!jobVars) => ShellsInv'
  <2> SUFFICES ASSUME ShellsInv, [Shells!Next]_(Shells!jobVars)  PROVE ShellsInv'
    OBVIOUS
  <2>1. JobsTyped /\ CallsTyped /\ ToldTyped  BY TypedParts DEF ShellsInv
  <2>2. SweepsTyped' /\ RestTyped'  BY <2>1, SweepsTypedStep, RestTypedStep DEF ShellsInv
  <2>3. JobsStarted' /\ JobsOver'  BY <2>1, StartedStep, OverStep DEF ShellsInv
  <2>4. JobsTellers'  BY <2>1, TellersStep DEF ShellsInv
  <2>5. Shells!JobsAreReachable'  BY <2>1, ReachStep DEF ShellsInv
  <2> QED  BY <2>2, <2>3, <2>4, <2>5 DEF ShellsInv
<1> QED  BY <1>1, <1>2, PTL DEF Shells!Spec

\* Every variable of the background jobs keeps its type.
THEOREM ShellsTypes == ASSUME ShellsBounds  PROVE Shells!Spec => []Shells!TypeOK
<1>1. ShellsInv => Shells!TypeOK  BY TypedParts DEF ShellsInv
<1> QED  BY <1>1, ShellsCorrect, PTL

\* A background process that runs can be found by the tools of a conversation,
\* unless its manager was dropped from the registry while it was started.
THEOREM ShellsReachable == ASSUME ShellsBounds  PROVE Shells!Spec => []Shells!JobsAreReachable
<1>1. ShellsInv => Shells!JobsAreReachable  BY DEF ShellsInv
<1> QED  BY <1>1, ShellsCorrect, PTL

LEMMA HeardOnce ==
    /\ \A n \in Shells!News : Heard0[n] <= 1 /\ Heard1[n] <= 1 /\ Heard2[n] <= 1 /\ Heard3[n] <= 1
    /\ \A n \in Shells!News : Heard3[n] = 1
BY DEF Shells!News, Heard0, Heard1, Heard2, Heard3

\* An exit reaches the archive, the inbox and the agent once each, whoever of the
\* reader, a stop and the sweeps notices it, and all three when nobody is still
\* telling it and no teller was cancelled half way.
THEOREM ShellsTold == ASSUME ShellsBounds  PROVE Shells!Spec => []Shells!ExitsAreTold
<1>1. ShellsInv => Shells!ExitsAreTold
  <2> SUFFICES ASSUME ShellsInv, NEW j \in Jobs
               PROVE  /\ \A n \in Shells!News : jobTold[j][n] <= 1
                      /\ j \in finalized /\ ~Shells!IsTold(j) /\ j \notin jobCut
                           => \A n \in Shells!News : jobTold[j][n] = 1
    BY DEF Shells!ExitsAreTold
  <2>1. \A n \in Shells!News : jobTold[j][n] <= 1
    BY HeardOnce DEF ShellsInv, JobsTellers, ToldInOrder
  <2>2. j \in finalized /\ ~Shells!IsTold(j) /\ j \notin jobCut => jobTold[j] = Heard3
    BY DEF ShellsInv, JobsTellers, TellersEnd, Shells!IsTold
  <2> QED  BY <2>1, <2>2, HeardOnce
<1> QED  BY <1>1, ShellsCorrect, PTL

-----------------------------------------------------------------------------
(* The canvas and its terminals *)

TabsBounds == IsFiniteSet(Calls) /\ NoCall \notin Calls

ATab == [id : Tabs!Ids, by : Calls, kind : {"page", "terminal"}]

\* what the steps need of the types
CanvasTyped ==
    /\ tabs \in Seq(ATab) /\ nextId \in Nat \ {0} /\ saved \in [Calls -> Nat]
    /\ tabShells \in [Tabs!Ids -> Calls \cup {NoCall}]
    /\ shell \in [Calls -> {"none", "alive", "dead", "gone"}]
    /\ tabStep \in [Calls -> {"idle", "opening", "closing", "clearing", "done"}]
    /\ tabOf \in [Calls -> Tabs!Ids \cup {0}] /\ DOMAIN victim = Calls
    /\ given \in SUBSET (Tabs!Ids \X Calls) /\ rewound \in BOOLEAN

\* There is a number for every call that has not begun.
Used == {c \in Calls : tabStep[c] # "idle"}
NumbersLast ==
    /\ nextId <= Cardinality(Used) + 1
    /\ \A c \in Calls : saved[c] <= Cardinality(Used) + 1

\* who clears has read a counter
ClearsHaveCounters == \A c \in Calls : tabStep[c] = "clearing" => saved[c] # 0

\* A number that was given is below the counter, unless a clear set that back.
NumbersGrow ==
    ~rewound => /\ \A p \in given : p[1] < nextId
                /\ \A p, q \in given : p[1] = q[1] => p = q

\* A shell is of a call that is over, and has the number of the tab which that
\* call made; the tab is a terminal.
MakersMade ==
    /\ \A c \in Calls : shell[c] # "none" => tabStep[c] = "done"
    /\ \A c \in Calls : tabStep[c] = "opening" \/ shell[c] # "none" => <<tabOf[c], c>> \in given
    /\ \A p \in given : tabStep[p[2]] # "idle"

Makers == {c \in Calls : tabStep[c] = "opening" \/ shell[c] # "none"}
TabsMade ==
    \A i \in DOMAIN tabs :
      /\ <<tabs[i].id, tabs[i].by>> \in given
      /\ tabs[i].by \in Makers => tabs[i].kind = "terminal"

\* A session is that of a shell which has not been forgotten, under its number;
\* who closes a tab has the shell that has the tab's number.
SessionsMatch ==
    /\ \A i \in Tabs!Ids : tabShells[i] # NoCall =>
         shell[tabShells[i]] \in {"alive", "dead"} /\ tabOf[tabShells[i]] = i
    /\ ~rewound => \A c \in Calls : shell[c] = "alive" => tabShells[tabOf[c]] = c
    /\ \A c \in Calls : tabStep[c] = "closing" =>
         victim[c] \in Calls /\ shell[victim[c]] # "none" /\ tabOf[victim[c]] = tabOf[c]
    /\ \A c \in Calls : tabStep[c] = "idle" => victim[c] = NoCall

LEMMA FirstOf ==
    ASSUME NEW S \in SUBSET Nat, S # {}
    PROVE  \E j \in S : j = CHOOSE i \in S : \A k \in S : i <= k
<1>1. PICK n \in S : \A k \in S : n <= k
  <2>1. PICK n \in S : \A k \in S : ~ (<<k, n>> \in OpToRel(<, Nat))
    BY NatLessThanWellFounded, WFMin
  <2>2. \A k \in S : ~(k < n)  BY <2>1 DEF OpToRel
  <2> QED  BY <2>2
<1> QED  BY <1>1

\* The tabs but the one that is dropped stay.
LEMMA DropKeeps ==
    ASSUME tabs \in Seq(ATab), NEW id, Tabs!DropTab(id)
    PROVE  /\ tabs' \in Seq(ATab)
           /\ \A k \in DOMAIN tabs' : \E i \in DOMAIN tabs : tabs'[k] = tabs[i]
           /\ \A i \in DOMAIN tabs : tabs[i].id # id => \E k \in DOMAIN tabs' : tabs'[k] = tabs[i]
<1>1. PICK those : those = {i \in DOMAIN tabs : tabs[i].id = id}  OBVIOUS
<1>2. CASE those = {}  BY <1>1, <1>2 DEF Tabs!DropTab
<1>3. CASE those # {}
  <2>1. PICK i \in those : i = CHOOSE j \in those : \A k \in those : j <= k
    <3>1. those \in SUBSET Nat  BY <1>1
    <3> QED  BY <1>3, <3>1, FirstOf
  <2>2. tabs' = SubSeq(tabs, 1, i - 1) \o SubSeq(tabs, i + 1, Len(tabs))
    BY <1>1, <1>3, <2>1 DEF Tabs!DropTab, Tabs!RemoveAt
  <2>3. i \in 1..Len(tabs) /\ tabs[i].id = id  BY <1>1, <2>1
  <2>4. /\ tabs' \in Seq(ATab) /\ Len(tabs') = Len(tabs) - 1
        /\ \A k \in 1..Len(tabs) - 1 : tabs'[k] = IF k < i THEN tabs[k] ELSE tabs[k + 1]
    <3>1. PICK a, b : a = SubSeq(tabs, 1, i - 1) /\ b = SubSeq(tabs, i + 1, Len(tabs))
      OBVIOUS
    <3>2. /\ a \in Seq(ATab) /\ Len(a) = i - 1
          /\ \A k \in 1..i - 1 : a[k] = tabs[k]
      BY <2>3, <3>1, SubSeqProperties
    <3>3. /\ b \in Seq(ATab) /\ Len(b) = Len(tabs) - i
          /\ \A k \in 1..Len(tabs) - i : b[k] = tabs[i + k]
      BY <2>3, <3>1, SubSeqProperties
    <3>4. /\ tabs' \in Seq(ATab) /\ Len(tabs') = Len(a) + Len(b)
          /\ \A k \in 1..Len(a) + Len(b) : tabs'[k] = IF k <= Len(a) THEN a[k] ELSE b[k - Len(a)]
      BY <2>2, <3>1, <3>2, <3>3, ConcatProperties
    <3>5. Len(tabs) \in Nat /\ i \in Nat /\ Len(tabs') = Len(tabs) - 1
      BY <2>3, <3>2, <3>3, <3>4
    <3>6. ASSUME NEW k \in 1..Len(tabs) - 1
          PROVE  tabs'[k] = IF k < i THEN tabs[k] ELSE tabs[k + 1]
      <4>1. CASE k < i
        <5>1. k \in 1..Len(a) + Len(b) /\ k <= Len(a)  BY <3>2, <3>3, <3>5, <4>1
        <5>2. tabs'[k] = a[k]  BY <3>4, <5>1
        <5> QED  BY <3>2, <3>5, <4>1, <5>2
      <4>2. CASE ~(k < i)
        <5>1. PICK m \in Int : m = k - (i - 1)  BY <3>5
        <5>2. 1 <= m /\ m <= Len(tabs) - i  BY <3>5, <4>2, <5>1
        <5>3. m \in 1..Len(tabs) - i  BY <3>5, <5>2
        <5>4. i + m = k + 1  BY <3>5, <5>1
        <5>5. k \in 1..Len(a) + Len(b) /\ ~(k <= Len(a)) /\ k - Len(a) = m
          BY <3>2, <3>3, <3>5, <4>2, <5>1
        <5>6. tabs'[k] = b[m]  BY <3>4, <5>5
        <5> QED  BY <3>3, <4>2, <5>3, <5>4, <5>6
      <4> QED  BY <4>1, <4>2
    <3> QED  BY <3>4, <3>5, <3>6
  <2>5. ASSUME NEW k \in DOMAIN tabs'  PROVE \E j \in DOMAIN tabs : tabs'[k] = tabs[j]
    BY <2>3, <2>4
  <2>6. ASSUME NEW j \in DOMAIN tabs, tabs[j].id # id
        PROVE \E k \in DOMAIN tabs' : tabs'[k] = tabs[j]
    <3>1. CASE j < i  BY <2>3, <2>4, <3>1
    <3>2. CASE j > i
      <4>1. j - 1 \in DOMAIN tabs' /\ tabs'[j - 1] = tabs[j]  BY <2>3, <2>4, <3>2
      <4> QED  BY <4>1
    <3> QED  BY <2>3, <2>6, <3>1, <3>2
  <2> QED  BY <2>4, <2>5, <2>6
<1> QED  BY <1>2, <1>3

LEMMA IdsAreNumbers ==
    ASSUME TabsBounds
    PROVE  Tabs!Ids = 1..Cardinality(Calls) /\ Cardinality(Calls) \in Nat
BY TabsCardinality, FS_CardinalityType DEF TabsBounds, Tabs!Ids

LEMMA CanvasFacts ==
    ASSUME CanvasTyped
    PROVE  /\ nextId \in Nat \ {0} /\ \A c \in Calls : saved[c] \in Nat
           /\ \A p \in given : p[1] \in Tabs!Ids /\ p[2] \in Calls
           /\ \A i \in DOMAIN tabs : tabs[i].id \in Tabs!Ids /\ tabs[i].by \in Calls
           /\ \A i \in Tabs!Ids : tabShells[i] \in Calls \cup {NoCall}
<1>1. \A i \in DOMAIN tabs : tabs[i] \in ATab  BY DEF CanvasTyped
<1> QED  BY <1>1 DEF CanvasTyped, ATab

LEMMA TabsAdded ==
    ASSUME TabsBounds, CanvasTyped, NumbersGrow, NEW c \in Calls, NEW kind, Tabs!AddTab(c, kind),
           rewound' = rewound
    PROVE  NumbersGrow'
<1>1. \A p \in given : p[1] \in Nat  BY IdsAreNumbers DEF CanvasTyped
<1>2. /\ nextId' = nextId + 1 /\ nextId \in Nat
      /\ \A p \in given' : p \in given \/ (p = <<nextId, c>> /\ p[1] = nextId)
  BY DEF Tabs!AddTab, CanvasTyped
<1> QED  BY <1>1, <1>2 DEF NumbersGrow

LEMMA GrowStep ==
    ASSUME TabsBounds, CanvasTyped, [Tabs!Next]_(Tabs!canvasVars), NumbersGrow
    PROVE  NumbersGrow'
<1>1. ASSUME NEW c \in Calls, Tabs!NewTab(c)  PROVE NumbersGrow'
  BY <1>1, TabsAdded DEF Tabs!NewTab, Tabs!bounds
<1>2. ASSUME NEW c \in Calls, Tabs!TerminalTab(c)  PROVE NumbersGrow'
  BY <1>2, TabsAdded DEF Tabs!TerminalTab, Tabs!bounds
<1>3. ASSUME NEW c \in Calls, Tabs!Clear(c)  PROVE NumbersGrow'
  <2>1. given' = given /\ \A p \in given : p[1] \in Nat
    BY <1>3, IdsAreNumbers DEF Tabs!Clear, CanvasTyped
  <2>2. PICK n \in Nat : n = nextId  BY DEF CanvasTyped
  <2>3. \/ nextId' = n /\ rewound' = (rewound \/ n < nextId)
        \/ nextId' = nextId /\ rewound' = rewound
    BY <1>3, <2>2 DEF Tabs!Clear, Tabs!KillNext, Tabs!EmptyFile
  <2>4. ASSUME ~rewound'  PROVE ~rewound /\ (nextId' = nextId \/ nextId' >= nextId)
    <3>1. \/ nextId' = n /\ ~rewound /\ ~(n < nextId)
          \/ nextId' = nextId /\ ~rewound
      BY <2>3, <2>4, Zenon
    <3> QED  BY <2>2, <3>1 DEF CanvasTyped
  <2>5. nextId \in Nat /\ nextId' \in Nat  BY <2>2, <2>3 DEF CanvasTyped
  <2> QED  BY <2>1, <2>4, <2>5 DEF NumbersGrow
<1>4. ASSUME NEW c \in Calls, Tabs!Cleared(c)  PROVE NumbersGrow'
  <2>1. given' = given /\ \A p \in given : p[1] \in Nat
    BY <1>4, IdsAreNumbers DEF Tabs!Cleared, CanvasTyped
  <2>2. PICK n \in Nat : n = saved[c]  BY DEF CanvasTyped
  <2>3. \/ nextId' = n /\ rewound' = (rewound \/ n < nextId)
        \/ nextId' = nextId /\ rewound' = rewound
    BY <1>4, <2>2 DEF Tabs!Cleared, Tabs!KillNext, Tabs!EmptyFile
  <2>4. ASSUME ~rewound'  PROVE ~rewound /\ (nextId' = nextId \/ nextId' >= nextId)
    <3>1. \/ nextId' = n /\ ~rewound /\ ~(n < nextId)
          \/ nextId' = nextId /\ ~rewound
      BY <2>3, <2>4, Zenon
    <3> QED  BY <2>2, <3>1 DEF CanvasTyped
  <2>5. nextId \in Nat /\ nextId' \in Nat  BY <2>2, <2>3 DEF CanvasTyped
  <2> QED  BY <2>1, <2>4, <2>5 DEF NumbersGrow
<1> USE DEF TabsBounds, CanvasTyped, NumbersGrow
<1>5. ASSUME NEW c \in Calls, Tabs!Spawn(c)  PROVE NumbersGrow'
  BY <1>5 DEF Tabs!Spawn, Tabs!Goes, Tabs!file, Tabs!bounds
<1>6. ASSUME NEW c \in Calls, Tabs!SpawnFails(c)  PROVE NumbersGrow'
  BY <1>6 DEF Tabs!SpawnFails, Tabs!Goes, Tabs!bounds
<1>7. ASSUME NEW c \in Calls, Tabs!CloseTab(c)  PROVE NumbersGrow'
  BY <1>7 DEF Tabs!CloseTab, Tabs!Goes, Tabs!bounds
<1>8. ASSUME NEW c \in Calls, Tabs!Closed(c)  PROVE NumbersGrow'
  BY <1>8 DEF Tabs!Closed, Tabs!Goes, Tabs!Killed, Tabs!bounds
<1>9. ASSUME NEW c \in Calls, Tabs!ShellExits(c)  PROVE NumbersGrow'
  BY <1>9 DEF Tabs!ShellExits, Tabs!file, Tabs!bounds
<1>10. ASSUME NEW c \in Calls, Tabs!Eof(c)  PROVE NumbersGrow'
  BY <1>10 DEF Tabs!Eof, Tabs!file, Tabs!bounds
<1>11. ASSUME Tabs!Restart  PROVE NumbersGrow'
  BY <1>11 DEF Tabs!Restart, Tabs!file
<1>12. CASE UNCHANGED Tabs!canvasVars  BY <1>12 DEF Tabs!canvasVars
<1> HIDE DEF TabsBounds, CanvasTyped, NumbersGrow
<1> QED  BY <1>1, <1>2, <1>3, <1>4, <1>5, <1>6, <1>7, <1>8, <1>9, <1>10, <1>11, <1>12 DEF Tabs!Next

LEMMA UsedCounts ==
    ASSUME TabsBounds
    PROVE  /\ IsFiniteSet(Used) /\ Cardinality(Used) \in Nat
           /\ Cardinality(Used) <= Cardinality(Calls)
           /\ Cardinality(Calls) \in Nat
           /\ \A c \in Calls \ Used : /\ Cardinality(Used \cup {c}) = Cardinality(Used) + 1
                                      /\ Cardinality(Used) + 1 <= Cardinality(Calls)
<1>1. IsFiniteSet(Used) /\ Used \subseteq Calls  BY FS_Subset DEF Used, TabsBounds
<1>2. Cardinality(Used) \in Nat /\ Cardinality(Used) <= Cardinality(Calls) /\ Cardinality(Calls)
    \in Nat
  BY <1>1, FS_Subset, FS_CardinalityType DEF TabsBounds
<1>3. ASSUME NEW c \in Calls \ Used
      PROVE  /\ Cardinality(Used \cup {c}) = Cardinality(Used) + 1
             /\ Cardinality(Used) + 1 <= Cardinality(Calls)
  <2>1. Cardinality(Used \cup {c}) = Cardinality(Used) + 1  BY <1>1, <1>3, FS_AddElement
  <2>2. Used \cup {c} \subseteq Calls  BY <1>1
  <2>3. Cardinality(Used \cup {c}) <= Cardinality(Calls)  BY <2>2, FS_Subset DEF TabsBounds
  <2> QED  BY <2>1, <2>3
<1> QED  BY <1>1, <1>2, <1>3

LEMMA UsedGrows ==
    ASSUME TabsBounds, Used \subseteq Used'
    PROVE  /\ Cardinality(Used) <= Cardinality(Used') /\ Cardinality(Used) \in Nat
           /\ Cardinality(Used') \in Nat
           /\ Used' # Used => Cardinality(Used) + 1 <= Cardinality(Used')
<1>1. IsFiniteSet(Used') /\ IsFiniteSet(Used)  BY FS_Subset DEF Used, TabsBounds
<1>2. ASSUME NEW c \in Used' \ Used  PROVE Cardinality(Used) + 1 <= Cardinality(Used')
  <2>1. Cardinality(Used \cup {c}) = Cardinality(Used) + 1  BY <1>1, <1>2, FS_AddElement
  <2>2. Used \cup {c} \subseteq Used'  BY <1>2
  <2> QED  BY <1>1, <2>1, <2>2, FS_Subset
<1> QED  BY <1>1, <1>2, FS_Subset, FS_CardinalityType

LEMMA NumbersStay ==
    ASSUME TabsBounds, CanvasTyped, NumbersLast, Used \subseteq Used', UNCHANGED <<nextId, saved>>
    PROVE  NumbersLast'
BY UsedGrows DEF NumbersLast, CanvasTyped

LEMMA LastStep ==
    ASSUME TabsBounds, CanvasTyped, [Tabs!Next]_(Tabs!canvasVars), NumbersLast
    PROVE  NumbersLast'
<1>1. ASSUME NEW c \in Calls, Tabs!NewTab(c)  PROVE NumbersLast'
  <2>1. /\ Used' = Used \cup {c} /\ c \in Calls \ Used
        /\ nextId' = nextId + 1 /\ saved' = saved
    BY <1>1 DEF Tabs!NewTab, Tabs!AddTab, Tabs!Goes, Used, CanvasTyped
  <2>2. Cardinality(Used') = Cardinality(Used) + 1 /\ Cardinality(Used) \in Nat
    BY <2>1, UsedCounts
  <2>3. PICK n, m : n = Cardinality(Used) /\ m = Cardinality(Used')
    OBVIOUS
  <2>4. n \in Nat /\ m = n + 1 /\ nextId \in Nat /\ nextId <= n + 1
    BY <2>2, <2>3, CanvasFacts DEF NumbersLast
  <2>5. \A d \in Calls : saved[d] \in Nat /\ saved[d] <= n + 1
    BY <2>3, CanvasFacts DEF NumbersLast
  <2>6. nextId' <= m + 1 /\ \A d \in Calls : saved'[d] <= m + 1
    BY <2>1, <2>4, <2>5
  <2> QED  BY <2>3, <2>6 DEF NumbersLast
<1>2. ASSUME NEW c \in Calls, Tabs!TerminalTab(c)  PROVE NumbersLast'
  <2>1. /\ Used' = Used \cup {c} /\ c \in Calls \ Used
        /\ nextId' = nextId + 1 /\ saved' = saved
    BY <1>2 DEF Tabs!TerminalTab, Tabs!AddTab, Tabs!Goes, Used, CanvasTyped
  <2>2. Cardinality(Used') = Cardinality(Used) + 1 /\ Cardinality(Used) \in Nat
    BY <2>1, UsedCounts
  <2>3. PICK n, m : n = Cardinality(Used) /\ m = Cardinality(Used')
    OBVIOUS
  <2>4. n \in Nat /\ m = n + 1 /\ nextId \in Nat /\ nextId <= n + 1
    BY <2>2, <2>3, CanvasFacts DEF NumbersLast
  <2>5. \A d \in Calls : saved[d] \in Nat /\ saved[d] <= n + 1
    BY <2>3, CanvasFacts DEF NumbersLast
  <2>6. nextId' <= m + 1 /\ \A d \in Calls : saved'[d] <= m + 1
    BY <2>1, <2>4, <2>5
  <2> QED  BY <2>3, <2>6 DEF NumbersLast
<1>3. ASSUME NEW c \in Calls, Tabs!Spawn(c)  PROVE NumbersLast'
  <2>1. Used \subseteq Used' /\ UNCHANGED <<nextId, saved>>
    BY <1>3 DEF Tabs!Spawn, Tabs!Goes, Tabs!file, Tabs!bounds, Used, CanvasTyped
  <2> QED  BY <2>1, NumbersStay
<1>4. ASSUME NEW c \in Calls, Tabs!SpawnFails(c)  PROVE NumbersLast'
  <2>1. Used \subseteq Used' /\ UNCHANGED <<nextId, saved>>
    BY <1>4 DEF Tabs!SpawnFails, Tabs!Goes, Tabs!bounds, Used, CanvasTyped
  <2> QED  BY <2>1, NumbersStay
<1>5. ASSUME NEW c \in Calls, Tabs!CloseTab(c)  PROVE NumbersLast'
  <2>1. Used \subseteq Used' /\ UNCHANGED <<nextId, saved>>
    BY <1>5 DEF Tabs!CloseTab, Tabs!Goes, Tabs!bounds, Used, CanvasTyped
  <2> QED  BY <2>1, NumbersStay
<1>6. ASSUME NEW c \in Calls, Tabs!Closed(c)  PROVE NumbersLast'
  <2>1. Used \subseteq Used' /\ UNCHANGED <<nextId, saved>>
    BY <1>6 DEF Tabs!Closed, Tabs!Goes, Tabs!Killed, Tabs!bounds, Used, CanvasTyped
  <2> QED  BY <2>1, NumbersStay
<1>7. ASSUME NEW c \in Calls, Tabs!Clear(c)  PROVE NumbersLast'
  <2>1. Used \subseteq Used' /\ nextId' \in {nextId, nextId}
    BY <1>7 DEF Tabs!Clear, Tabs!KillNext, Tabs!EmptyFile, Used, CanvasTyped
  <2>2. \A d \in Calls : saved'[d] \in {saved[d], nextId}
    BY <1>7 DEF Tabs!Clear, CanvasTyped
  <2> QED  BY <2>1, <2>2, UsedGrows, CanvasFacts DEF NumbersLast
<1>8. ASSUME NEW c \in Calls, Tabs!Cleared(c)  PROVE NumbersLast'
  <2>1. Used \subseteq Used' /\ nextId' \in {nextId, saved[c]}
    BY <1>8 DEF Tabs!Cleared, Tabs!KillNext, Tabs!EmptyFile, Used, CanvasTyped
  <2>2. \A d \in Calls : saved'[d] \in {saved[d], nextId}
    BY <1>8 DEF Tabs!Cleared, CanvasTyped
  <2> QED  BY <2>1, <2>2, UsedGrows, CanvasFacts DEF NumbersLast
<1>9. ASSUME NEW c \in Calls, Tabs!ShellExits(c)  PROVE NumbersLast'
  <2>1. Used \subseteq Used' /\ UNCHANGED <<nextId, saved>>
    BY <1>9 DEF Tabs!ShellExits, Tabs!file, Tabs!bounds, Used, CanvasTyped
  <2> QED  BY <2>1, NumbersStay
<1>10. ASSUME NEW c \in Calls, Tabs!Eof(c)  PROVE NumbersLast'
  <2>1. Used \subseteq Used' /\ UNCHANGED <<nextId, saved>>
    BY <1>10 DEF Tabs!Eof, Tabs!file, Tabs!bounds, Used, CanvasTyped
  <2> QED  BY <2>1, NumbersStay
<1>11. ASSUME Tabs!Restart  PROVE NumbersLast'
  <2>1. Used \subseteq Used' /\ UNCHANGED <<nextId, saved>>
    BY <1>11 DEF Tabs!Restart, Tabs!file, Used, CanvasTyped
  <2> QED  BY <2>1, NumbersStay
<1> USE DEF TabsBounds, CanvasTyped, NumbersLast, Used
<1>12. CASE UNCHANGED Tabs!canvasVars  BY <1>12 DEF Tabs!canvasVars
<1> HIDE DEF TabsBounds, CanvasTyped, NumbersLast, Used
<1> QED  BY <1>1, <1>2, <1>3, <1>4, <1>5, <1>6, <1>7, <1>8, <1>9, <1>10, <1>11, <1>12 DEF Tabs!Next

LEMMA MadeStep ==
    ASSUME TabsBounds, CanvasTyped, [Tabs!Next]_(Tabs!canvasVars), MakersMade
    PROVE  MakersMade'
<1>1. ASSUME NEW c \in Calls, Tabs!NewTab(c)  PROVE MakersMade'
  <2>1. /\ given' = given \cup {<<nextId, c>>} /\ shell' = shell /\ tabStep[c] = "idle"
        /\ \A d \in Calls :
             /\ tabStep'[d] = IF d = c THEN "done" ELSE tabStep[d]
             /\ tabOf'[d] = IF d = c THEN nextId ELSE tabOf[d]
    BY <1>1 DEF Tabs!NewTab, Tabs!AddTab, Tabs!Goes, CanvasTyped
  <2>2. \A p \in given' : p \in given \/ p[2] = c  BY <2>1
  <2> QED  BY <2>1, <2>2 DEF MakersMade, CanvasTyped
<1>2. ASSUME NEW c \in Calls, Tabs!TerminalTab(c)  PROVE MakersMade'
  <2>1. /\ given' = given \cup {<<nextId, c>>} /\ shell' = shell /\ tabStep[c] = "idle"
        /\ \A d \in Calls :
             /\ tabStep'[d] = IF d = c THEN "opening" ELSE tabStep[d]
             /\ tabOf'[d] = IF d = c THEN nextId ELSE tabOf[d]
    BY <1>2 DEF Tabs!TerminalTab, Tabs!AddTab, Tabs!Goes, CanvasTyped
  <2>2. \A p \in given' : p \in given \/ p[2] = c  BY <2>1
  <2> QED  BY <2>1, <2>2 DEF MakersMade, CanvasTyped
<1>3. ASSUME NEW c \in Calls, Tabs!SpawnFails(c)  PROVE MakersMade'
  <2>1. /\ given' = given
        /\ \A d \in Calls :
             /\ shell'[d] # "none" <=> shell[d] # "none"
             /\ tabStep'[d] = tabStep[d] \/ (d = c /\ tabStep[d] # "done" /\ tabStep'[d] #
                 "opening" /\ tabStep'[d] # "idle")
             /\ tabOf'[d] = tabOf[d] \/ (d = c /\ tabStep[d] = "idle" /\ tabStep'[d] # "opening")
    BY <1>3 DEF Tabs!SpawnFails, Tabs!Goes, CanvasTyped
  <2>2. \A d \in Calls : shell'[d] # "none" => tabStep'[d] = "done"
    BY <2>1 DEF MakersMade
  <2>3. \A d \in Calls : tabStep'[d] = "opening" \/ shell'[d] # "none" => <<tabOf'[d], d>> \in given'
    <3>1. ASSUME NEW d \in Calls, tabStep'[d] = "opening" \/ shell'[d] # "none"
          PROVE  tabOf'[d] = tabOf[d] /\ (tabStep[d] = "opening" \/ shell[d] # "none")
      BY <2>1, <3>1 DEF MakersMade
    <3> QED  BY <2>1, <3>1 DEF MakersMade
  <2>4. \A p \in given : p[2] \in Calls /\ tabStep[p[2]] # "idle"
    BY CanvasFacts DEF MakersMade
  <2> QED  BY <2>1, <2>2, <2>3, <2>4 DEF MakersMade
<1>4. ASSUME NEW c \in Calls, Tabs!CloseTab(c)  PROVE MakersMade'
  <2>1. /\ given' = given
        /\ \A d \in Calls :
             /\ shell'[d] # "none" <=> shell[d] # "none"
             /\ tabStep'[d] = tabStep[d] \/ (d = c /\ tabStep[d] # "done" /\ tabStep'[d] #
                 "opening" /\ tabStep'[d] # "idle")
             /\ tabOf'[d] = tabOf[d] \/ (d = c /\ tabStep[d] = "idle" /\ tabStep'[d] # "opening")
    BY <1>4 DEF Tabs!CloseTab, Tabs!Goes, CanvasTyped
  <2>2. \A d \in Calls : shell'[d] # "none" => tabStep'[d] = "done"
    BY <2>1 DEF MakersMade
  <2>3. \A d \in Calls : tabStep'[d] = "opening" \/ shell'[d] # "none" => <<tabOf'[d], d>> \in given'
    <3>1. ASSUME NEW d \in Calls, tabStep'[d] = "opening" \/ shell'[d] # "none"
          PROVE  tabOf'[d] = tabOf[d] /\ (tabStep[d] = "opening" \/ shell[d] # "none")
      BY <2>1, <3>1 DEF MakersMade
    <3> QED  BY <2>1, <3>1 DEF MakersMade
  <2>4. \A p \in given : p[2] \in Calls /\ tabStep[p[2]] # "idle"
    BY CanvasFacts DEF MakersMade
  <2> QED  BY <2>1, <2>2, <2>3, <2>4 DEF MakersMade
<1>5. ASSUME NEW c \in Calls, Tabs!Closed(c)  PROVE MakersMade'
  <2>1. /\ given' = given
        /\ \A d \in Calls :
             /\ shell'[d] # "none" <=> shell[d] # "none"
             /\ tabStep'[d] = tabStep[d] \/ (d = c /\ tabStep[d] # "done" /\ tabStep'[d] #
                 "opening" /\ tabStep'[d] # "idle")
             /\ tabOf'[d] = tabOf[d] \/ (d = c /\ tabStep[d] = "idle" /\ tabStep'[d] # "opening")
    BY <1>5 DEF Tabs!Closed, Tabs!Goes, Tabs!Killed, CanvasTyped
  <2>2. \A d \in Calls : shell'[d] # "none" => tabStep'[d] = "done"
    BY <2>1 DEF MakersMade
  <2>3. \A d \in Calls : tabStep'[d] = "opening" \/ shell'[d] # "none" => <<tabOf'[d], d>> \in given'
    <3>1. ASSUME NEW d \in Calls, tabStep'[d] = "opening" \/ shell'[d] # "none"
          PROVE  tabOf'[d] = tabOf[d] /\ (tabStep[d] = "opening" \/ shell[d] # "none")
      BY <2>1, <3>1 DEF MakersMade
    <3> QED  BY <2>1, <3>1 DEF MakersMade
  <2>4. \A p \in given : p[2] \in Calls /\ tabStep[p[2]] # "idle"
    BY CanvasFacts DEF MakersMade
  <2> QED  BY <2>1, <2>2, <2>3, <2>4 DEF MakersMade
<1> USE DEF TabsBounds, CanvasTyped, MakersMade
<1>6. ASSUME NEW c \in Calls, Tabs!Spawn(c)  PROVE MakersMade'
  BY <1>6 DEF Tabs!Spawn, Tabs!Goes, Tabs!file, Tabs!bounds
<1>7. ASSUME NEW c \in Calls, Tabs!Clear(c)  PROVE MakersMade'
  BY <1>7 DEF Tabs!Clear, Tabs!KillNext, Tabs!EmptyFile
<1>8. ASSUME NEW c \in Calls, Tabs!Cleared(c)  PROVE MakersMade'
  BY <1>8 DEF Tabs!Cleared, Tabs!KillNext, Tabs!EmptyFile, Tabs!Killed
<1>9. ASSUME NEW c \in Calls, Tabs!ShellExits(c)  PROVE MakersMade'
  BY <1>9 DEF Tabs!ShellExits, Tabs!file, Tabs!bounds
<1>10. ASSUME NEW c \in Calls, Tabs!Eof(c)  PROVE MakersMade'
  BY <1>10 DEF Tabs!Eof, Tabs!file, Tabs!bounds
<1>11. ASSUME Tabs!Restart  PROVE MakersMade'
  BY <1>11 DEF Tabs!Restart, Tabs!file
<1>12. CASE UNCHANGED Tabs!canvasVars  BY <1>12 DEF Tabs!canvasVars
<1> HIDE DEF TabsBounds, CanvasTyped, MakersMade
<1> QED  BY <1>1, <1>2, <1>3, <1>4, <1>5, <1>6, <1>7, <1>8, <1>9, <1>10, <1>11, <1>12 DEF Tabs!Next

LEMMA MadeStays ==
    ASSUME CanvasTyped, TabsMade, given \subseteq given',
           \A k \in DOMAIN tabs' : \E i \in DOMAIN tabs : tabs'[k] = tabs[i],
           Makers' \subseteq Makers
    PROVE  TabsMade'
BY CanvasFacts DEF TabsMade

LEMMA TabsMadeStep ==
    ASSUME TabsBounds, CanvasTyped, [Tabs!Next]_(Tabs!canvasVars), MakersMade, TabsMade
    PROVE  TabsMade'
<1>1. ASSUME NEW c \in Calls, Tabs!NewTab(c)  PROVE TabsMade'
  <2>1. /\ given' = given \cup {<<nextId, c>>} /\ shell' = shell /\ tabStep[c] = "idle"
        /\ tabs' = Append(tabs, [id |-> nextId, by |-> c, kind |-> "page"])
        /\ \A d \in Calls : tabStep'[d] = IF d = c THEN "done" ELSE tabStep[d]
    BY <1>1 DEF Tabs!NewTab, Tabs!AddTab, Tabs!Tab, Tabs!Goes, CanvasTyped
  <2>2. \A d \in Calls : d # c => (d \in Makers' <=> d \in Makers)  BY <2>1 DEF Makers
  <2>3. ASSUME NEW i \in DOMAIN tabs'
        PROVE  /\ <<tabs'[i].id, tabs'[i].by>> \in given'
               /\ tabs'[i].by \in Makers' => tabs'[i].kind = "terminal"
    <3>1. CASE i \in DOMAIN tabs
      <4>1. tabs'[i] = tabs[i] /\ tabs[i].by \in Calls
        BY <2>1, <3>1, CanvasFacts DEF CanvasTyped
      <4>2. tabs[i].by # c
        <5>1. tabStep[tabs[i].by] # "idle"  BY <3>1 DEF TabsMade, MakersMade
        <5> QED  BY <2>1, <5>1
      <4> QED  BY <2>1, <2>2, <3>1, <4>1, <4>2 DEF TabsMade
    <3>2. CASE i \notin DOMAIN tabs
      <4>1. tabs'[i] = [id |-> nextId, by |-> c, kind |-> "page"]
        BY <2>1, <3>2 DEF CanvasTyped
      <4> QED  BY <2>1, <4>1 DEF Makers, MakersMade
    <3> QED  BY <3>1, <3>2
  <2> QED  BY <2>3 DEF TabsMade
<1>2. ASSUME NEW c \in Calls, Tabs!TerminalTab(c)  PROVE TabsMade'
  <2>1. /\ given' = given \cup {<<nextId, c>>} /\ shell' = shell /\ tabStep[c] = "idle"
        /\ tabs' = Append(tabs, [id |-> nextId, by |-> c, kind |-> "terminal"])
        /\ \A d \in Calls : tabStep'[d] = IF d = c THEN "opening" ELSE tabStep[d]
    BY <1>2 DEF Tabs!TerminalTab, Tabs!AddTab, Tabs!Tab, Tabs!Goes, CanvasTyped
  <2>2. \A d \in Calls : d # c => (d \in Makers' <=> d \in Makers)  BY <2>1 DEF Makers
  <2>3. ASSUME NEW i \in DOMAIN tabs'
        PROVE  /\ <<tabs'[i].id, tabs'[i].by>> \in given'
               /\ tabs'[i].by \in Makers' => tabs'[i].kind = "terminal"
    <3>1. CASE i \in DOMAIN tabs
      <4>1. tabs'[i] = tabs[i] /\ tabs[i].by \in Calls
        BY <2>1, <3>1, CanvasFacts DEF CanvasTyped
      <4>2. tabs[i].by # c
        <5>1. tabStep[tabs[i].by] # "idle"  BY <3>1 DEF TabsMade, MakersMade
        <5> QED  BY <2>1, <5>1
      <4> QED  BY <2>1, <2>2, <3>1, <4>1, <4>2 DEF TabsMade
    <3>2. CASE i \notin DOMAIN tabs
      <4>1. tabs'[i] = [id |-> nextId, by |-> c, kind |-> "terminal"]
        BY <2>1, <3>2 DEF CanvasTyped
      <4> QED  BY <2>1, <4>1 DEF Makers, MakersMade
    <3> QED  BY <3>1, <3>2
  <2> QED  BY <2>3 DEF TabsMade
<1>3. ASSUME NEW c \in Calls, Tabs!Spawn(c)  PROVE TabsMade'
  <2>1. UNCHANGED <<tabs, given>> /\ Makers' \subseteq Makers
    BY <1>3 DEF Tabs!Spawn, Tabs!Goes, Tabs!file, Makers, CanvasTyped
  <2> QED  BY <2>1, MadeStays
<1>4. ASSUME NEW c \in Calls, Tabs!SpawnFails(c)  PROVE TabsMade'
  <2>1. \A k \in DOMAIN tabs' : \E i \in DOMAIN tabs : tabs'[k] = tabs[i]
    BY <1>4, DropKeeps DEF Tabs!SpawnFails, CanvasTyped
  <2>2. given' = given /\ Makers' \subseteq Makers
    BY <1>4 DEF Tabs!SpawnFails, Tabs!Goes, Makers, CanvasTyped
  <2> QED  BY <2>1, <2>2, MadeStays
<1>5. ASSUME NEW c \in Calls, Tabs!CloseTab(c)  PROVE TabsMade'
  <2>1. \A k \in DOMAIN tabs' : \E i \in DOMAIN tabs : tabs'[k] = tabs[i]
    BY <1>5, DropKeeps DEF Tabs!CloseTab, CanvasTyped
  <2>2. given' = given /\ Makers' \subseteq Makers
    BY <1>5 DEF Tabs!CloseTab, Tabs!Goes, Makers, CanvasTyped
  <2> QED  BY <2>1, <2>2, MadeStays
<1>6. ASSUME NEW c \in Calls, Tabs!Closed(c)  PROVE TabsMade'
  <2>1. \A k \in DOMAIN tabs' : \E i \in DOMAIN tabs : tabs'[k] = tabs[i]
    BY <1>6, DropKeeps DEF Tabs!Closed, CanvasTyped
  <2>2. given' = given /\ Makers' \subseteq Makers
    BY <1>6 DEF Tabs!Closed, Tabs!Goes, Tabs!Killed, Makers, CanvasTyped
  <2> QED  BY <2>1, <2>2, MadeStays
<1>7. ASSUME NEW c \in Calls, Tabs!Clear(c)  PROVE TabsMade'
  <2>1. tabs' = tabs \/ tabs' = <<>>
    BY <1>7 DEF Tabs!Clear, Tabs!KillNext, Tabs!EmptyFile
  <2>2. given' = given /\ Makers' \subseteq Makers
    BY <1>7 DEF Tabs!Clear, Tabs!KillNext, Tabs!EmptyFile, Makers, CanvasTyped
  <2> QED  BY <2>1, <2>2, MadeStays
<1>8. ASSUME NEW c \in Calls, Tabs!Cleared(c)  PROVE TabsMade'
  <2>1. tabs' = tabs \/ tabs' = <<>>
    BY <1>8 DEF Tabs!Cleared, Tabs!KillNext, Tabs!EmptyFile, Tabs!Killed
  <2>2. given' = given /\ Makers' \subseteq Makers
    BY <1>8 DEF Tabs!Cleared, Tabs!KillNext, Tabs!EmptyFile, Tabs!Killed, Makers, CanvasTyped
  <2> QED  BY <2>1, <2>2, MadeStays
<1>9. ASSUME NEW c \in Calls, Tabs!ShellExits(c)  PROVE TabsMade'
  <2>1. UNCHANGED <<tabs, given>> /\ Makers' \subseteq Makers
    BY <1>9 DEF Tabs!ShellExits, Tabs!Goes, Tabs!file, Makers, CanvasTyped
  <2> QED  BY <2>1, MadeStays
<1>10. ASSUME NEW c \in Calls, Tabs!Eof(c)  PROVE TabsMade'
  <2>1. UNCHANGED <<tabs, given>> /\ Makers' \subseteq Makers
    BY <1>10 DEF Tabs!Eof, Tabs!Goes, Tabs!file, Makers, CanvasTyped
  <2> QED  BY <2>1, MadeStays
<1>11. ASSUME Tabs!Restart  PROVE TabsMade'
  <2>1. UNCHANGED <<tabs, given>> /\ Makers' \subseteq Makers
    BY <1>11 DEF Tabs!Restart, Tabs!Goes, Tabs!file, Makers, CanvasTyped
  <2> QED  BY <2>1, MadeStays
<1> USE DEF TabsBounds, CanvasTyped, TabsMade, Makers
<1>12. CASE UNCHANGED Tabs!canvasVars  BY <1>12 DEF Tabs!canvasVars
<1> HIDE DEF TabsBounds, CanvasTyped, TabsMade, Makers
<1> QED  BY <1>1, <1>2, <1>3, <1>4, <1>5, <1>6, <1>7, <1>8, <1>9, <1>10, <1>11, <1>12 DEF Tabs!Next

LEMMA OneOfANumber ==
    ASSUME MakersMade, NumbersGrow, NEW c \in Calls, <<tabOf[c], c>> \in given, ~rewound,
           NEW d \in Calls, shell[d] # "none", tabOf[d] = tabOf[c]
    PROVE  d = c
<1>1. <<tabOf[d], d>> \in given  BY DEF MakersMade
<1>2. <<tabOf[d], d>> = <<tabOf[c], c>>  BY <1>1 DEF NumbersGrow
<1> QED  BY <1>2

LEMMA SessionsStep ==
    ASSUME TabsBounds, CanvasTyped, [Tabs!Next]_(Tabs!canvasVars), MakersMade, NumbersGrow,
        SessionsMatch
    PROVE  SessionsMatch'
<1>1. ASSUME NEW c \in Calls, Tabs!Spawn(c)  PROVE SessionsMatch'
  <2>1. /\ tabOf[c] \in Tabs!Ids /\ <<tabOf[c], c>> \in given /\ shell[c] = "none"
    BY <1>1 DEF Tabs!Spawn, Tabs!Goes, MakersMade, CanvasTyped
  <2>2. /\ UNCHANGED <<rewound, tabOf, victim>>
        /\ \A i \in Tabs!Ids : tabShells'[i] = IF i = tabOf[c] THEN c ELSE tabShells[i]
        /\ \A d \in Calls :
             /\ shell'[d] = IF d = c THEN "alive" ELSE shell[d]
             /\ tabStep'[d] = IF d = c THEN "done" ELSE tabStep[d]
    BY <1>1, <2>1 DEF Tabs!Spawn, Tabs!Goes, Tabs!file, Tabs!bounds, CanvasTyped
  <2>3. ~rewound => \A d \in Calls : shell[d] = "alive" => tabOf[d] # tabOf[c]
    BY <2>1, OneOfANumber
  <2>4. \A d \in Calls : shell[d] # "none" => tabOf[d] \in Tabs!Ids
    BY DEF MakersMade, CanvasTyped
  <2> QED  BY <2>1, <2>2, <2>3, <2>4, CanvasFacts DEF SessionsMatch
<1>2. ASSUME NEW c \in Calls, Tabs!CloseTab(c)  PROVE SessionsMatch'
  <2>1. /\ UNCHANGED <<rewound, tabShells, shell>> /\ tabStep[c] = "idle" /\ shell[c] = "none"
        /\ tabStep'[c] \in {"closing", "done"}
        /\ \A d \in Calls : d # c => tabStep'[d] = tabStep[d] /\ tabOf'[d] = tabOf[d] /\
            victim'[d] = victim[d]
    BY <1>2 DEF Tabs!CloseTab, Tabs!Goes, Tabs!bounds, CanvasTyped, MakersMade
  <2>2. tabStep'[c] = "closing" => \E i \in Tabs!Ids : tabShells[i] # NoCall /\ tabOf'[c] = i /\
      victim'[c] = tabShells[i]
    <3>1. PICK i \in DOMAIN tabs :
            \/ /\ tabOf' = [tabOf EXCEPT ![c] = tabs[i].id] /\ tabShells[tabs[i].id] # NoCall
               /\ victim' = [victim EXCEPT ![c] = tabShells[tabs[i].id]]
            \/ tabStep' = [tabStep EXCEPT ![c] = "done"]
      BY <1>2 DEF Tabs!CloseTab, Tabs!Goes
    <3>2. tabs[i].id \in Tabs!Ids  BY CanvasFacts
    <3> QED  BY <3>1, <3>2 DEF CanvasTyped
  <2>3. \A i \in Tabs!Ids : tabShells[i] # NoCall => tabShells[i] \in Calls /\ shell[tabShells[i]]
      \in {"alive", "dead"} /\ tabOf[tabShells[i]] = i
    BY DEF SessionsMatch, CanvasTyped
  <2> QED  BY <2>1, <2>2, <2>3, CanvasFacts DEF SessionsMatch, MakersMade
<1>3. ASSUME NEW c \in Calls, Tabs!Clear(c)  PROVE SessionsMatch'
  <2>1. /\ UNCHANGED <<tabShells, tabOf>>
        /\ \A d \in Calls : tabStep'[d] \in {"idle", "closing"} => tabStep[d] = tabStep'[d] /\
            victim'[d] = victim[d]
        /\ \A d \in Calls : shell'[d] = shell[d] \/ (shell[d] = "alive" /\ shell'[d] = "dead")
    BY <1>3 DEF Tabs!Clear, Tabs!KillNext, Tabs!EmptyFile, CanvasTyped
  <2>2. rewound' = rewound \/ \E n : rewound' = (rewound \/ n < nextId)
    BY <1>3 DEF Tabs!Clear, Tabs!KillNext, Tabs!EmptyFile
  <2>3. ~rewound' => ~rewound  BY <2>2, Zenon
  <2> QED  BY <2>1, <2>3 DEF SessionsMatch, CanvasTyped
<1>4. ASSUME NEW c \in Calls, Tabs!Cleared(c)  PROVE SessionsMatch'
  <2>1. /\ UNCHANGED <<tabShells, tabOf>>
        /\ \A d \in Calls : tabStep'[d] \in {"idle", "closing"} => tabStep[d] = tabStep'[d] /\
            victim'[d] = victim[d]
        /\ \A d \in Calls : shell'[d] = shell[d] \/ (shell[d] = "alive" /\ shell'[d] = "dead")
    BY <1>4 DEF Tabs!Cleared, Tabs!KillNext, Tabs!EmptyFile, Tabs!Killed, CanvasTyped
  <2>2. rewound' = rewound \/ \E n : rewound' = (rewound \/ n < nextId)
    BY <1>4 DEF Tabs!Cleared, Tabs!KillNext, Tabs!EmptyFile
  <2>3. ~rewound' => ~rewound  BY <2>2, Zenon
  <2> QED  BY <2>1, <2>3 DEF SessionsMatch, CanvasTyped
<1>5. ASSUME NEW c \in Calls, Tabs!Eof(c)  PROVE SessionsMatch'
  <2>1. /\ tabOf[c] \in Tabs!Ids /\ <<tabOf[c], c>> \in given /\ shell[c] = "dead"
    BY <1>5 DEF Tabs!Eof, MakersMade, CanvasTyped
  <2>2. /\ UNCHANGED <<rewound, tabOf, victim, tabStep>>
        /\ \A i \in Tabs!Ids : tabShells'[i] = IF i = tabOf[c] THEN NoCall ELSE tabShells[i]
        /\ \A d \in Calls : shell'[d] = IF d = c THEN "gone" ELSE shell[d]
    BY <1>5, <2>1 DEF Tabs!Eof, Tabs!file, Tabs!bounds, CanvasTyped
  <2>3. ~rewound => \A d \in Calls : shell[d] = "alive" => tabOf[d] # tabOf[c]
    BY <2>1, OneOfANumber
  <2>4. \A d \in Calls : shell[d] # "none" => tabOf[d] \in Tabs!Ids
    BY DEF MakersMade, CanvasTyped
  <2> QED  BY <2>1, <2>2, <2>3, <2>4, CanvasFacts DEF SessionsMatch
<1> USE DEF TabsBounds, CanvasTyped, MakersMade, NumbersGrow, SessionsMatch
<1>6. ASSUME NEW c \in Calls, Tabs!NewTab(c)  PROVE SessionsMatch'
  BY <1>6 DEF Tabs!NewTab, Tabs!AddTab, Tabs!Goes, Tabs!file, Tabs!bounds
<1>7. ASSUME NEW c \in Calls, Tabs!TerminalTab(c)  PROVE SessionsMatch'
  BY <1>7 DEF Tabs!TerminalTab, Tabs!AddTab, Tabs!Goes, Tabs!file, Tabs!bounds
<1>8. ASSUME NEW c \in Calls, Tabs!SpawnFails(c)  PROVE SessionsMatch'
  BY <1>8 DEF Tabs!SpawnFails, Tabs!Goes, Tabs!bounds
<1>9. ASSUME NEW c \in Calls, Tabs!Closed(c)  PROVE SessionsMatch'
  BY <1>9 DEF Tabs!Closed, Tabs!Goes, Tabs!Killed, Tabs!bounds
<1>10. ASSUME NEW c \in Calls, Tabs!ShellExits(c)  PROVE SessionsMatch'
  BY <1>10 DEF Tabs!ShellExits, Tabs!file, Tabs!bounds
<1>11. ASSUME Tabs!Restart  PROVE SessionsMatch'
  BY <1>11 DEF Tabs!Restart, Tabs!file
<1>12. CASE UNCHANGED Tabs!canvasVars  BY <1>12 DEF Tabs!canvasVars
<1> HIDE DEF TabsBounds, CanvasTyped, MakersMade, NumbersGrow, SessionsMatch
<1> QED  BY <1>1, <1>2, <1>3, <1>4, <1>5, <1>6, <1>7, <1>8, <1>9, <1>10, <1>11, <1>12 DEF Tabs!Next

LEMMA NextIsFree ==
    ASSUME TabsBounds, CanvasTyped, NumbersLast, NEW c \in Calls, tabStep[c] = "idle"
    PROVE  nextId \in Tabs!Ids
<1>1. c \in Calls \ Used  BY DEF Used
<1>2. Cardinality(Used) + 1 <= Cardinality(Calls) /\ Cardinality(Used) \in Nat /\
    Cardinality(Calls) \in Nat
  BY <1>1, UsedCounts
<1>3. nextId \in Nat /\ nextId <= Cardinality(Used) + 1 /\ nextId # 0
  BY CanvasFacts DEF NumbersLast
<1> QED  BY <1>2, <1>3, IdsAreNumbers

LEMMA TabsTypedStep ==
    ASSUME TabsBounds, CanvasTyped, NumbersLast, [Tabs!Next]_(Tabs!canvasVars)
    PROVE  tabs' \in Seq(ATab)
<1>0. tabs \in Seq(ATab)  BY DEF CanvasTyped
<1>1. ASSUME NEW c \in Calls, NEW kind \in {"page", "terminal"}, Tabs!AddTab(c, kind), tabStep[c] =
    "idle"
      PROVE  tabs' \in Seq(ATab)
  <2>1. nextId \in Tabs!Ids  BY <1>1, NextIsFree
  <2>2. Tabs!Tab(nextId, c, kind) \in ATab  BY <1>1, <2>1 DEF Tabs!Tab, ATab
  <2> QED  BY <1>0, <1>1, <2>2, AppendProperties DEF Tabs!AddTab
<1>2. ASSUME NEW c \in Calls, Tabs!NewTab(c) \/ Tabs!TerminalTab(c)  PROVE tabs' \in Seq(ATab)
  BY <1>1, <1>2 DEF Tabs!NewTab, Tabs!TerminalTab, Tabs!Goes
<1>3. ASSUME NEW c \in Calls, Tabs!SpawnFails(c) \/ Tabs!CloseTab(c) \/ Tabs!Closed(c)
      PROVE  tabs' \in Seq(ATab)
  BY <1>0, <1>3, DropKeeps DEF Tabs!SpawnFails, Tabs!CloseTab, Tabs!Closed
<1>4. ASSUME NEW c \in Calls, Tabs!Clear(c) \/ Tabs!Cleared(c)  PROVE tabs' \in Seq(ATab)
  <2>1. tabs' = tabs \/ tabs' = <<>>
    BY <1>4 DEF Tabs!Clear, Tabs!Cleared, Tabs!KillNext, Tabs!EmptyFile
  <2>2. <<>> \in Seq(ATab)  OBVIOUS
  <2> QED  BY <1>0, <2>1, <2>2
<1>5. ASSUME NEW c \in Calls, Tabs!Spawn(c) \/ Tabs!ShellExits(c) \/ Tabs!Eof(c)
      PROVE tabs' \in Seq(ATab)
  BY <1>0, <1>5 DEF Tabs!Spawn, Tabs!ShellExits, Tabs!Eof, Tabs!file
<1>6. CASE Tabs!Restart  BY <1>0, <1>6 DEF Tabs!Restart, Tabs!file
<1>7. CASE UNCHANGED Tabs!canvasVars  BY <1>0, <1>7 DEF Tabs!canvasVars
<1> QED  BY <1>2, <1>3, <1>4, <1>5, <1>6, <1>7 DEF Tabs!Next

CanvasRest ==
    /\ nextId \in Nat \ {0} /\ saved \in [Calls -> Nat]
    /\ tabShells \in [Tabs!Ids -> Calls \cup {NoCall}]
    /\ shell \in [Calls -> {"none", "alive", "dead", "gone"}]
    /\ tabStep \in [Calls -> {"idle", "opening", "closing", "clearing", "done"}]
    /\ tabOf \in [Calls -> Tabs!Ids \cup {0}] /\ DOMAIN victim = Calls
    /\ given \in SUBSET (Tabs!Ids \X Calls) /\ rewound \in BOOLEAN

LEMMA RestStep ==
    ASSUME TabsBounds, CanvasTyped, [Tabs!Next]_(Tabs!canvasVars), NumbersLast,
        ClearsHaveCounters, MakersMade, CanvasRest
    PROVE  CanvasRest'
<1>1. ASSUME NEW c \in Calls, Tabs!NewTab(c)  PROVE CanvasRest'
  <2>1. nextId \in Tabs!Ids  BY <1>1, NextIsFree DEF Tabs!NewTab, Tabs!Goes
  <2> QED  BY <1>1, <2>1 DEF Tabs!NewTab, Tabs!AddTab, Tabs!Goes, Tabs!file, Tabs!bounds, CanvasRest
<1>2. ASSUME NEW c \in Calls, Tabs!TerminalTab(c)  PROVE CanvasRest'
  <2>1. nextId \in Tabs!Ids  BY <1>2, NextIsFree DEF Tabs!TerminalTab, Tabs!Goes
  <2> QED  BY <1>2, <2>1 DEF Tabs!TerminalTab, Tabs!AddTab, Tabs!Goes, Tabs!file, Tabs!bounds,
                             CanvasRest
<1>3. ASSUME NEW c \in Calls, Tabs!CloseTab(c)  PROVE CanvasRest'
  <2>1. /\ UNCHANGED <<nextId, saved, tabShells, shell, given, rewound>>
        /\ tabStep' \in {[tabStep EXCEPT ![c] = "closing"], [tabStep EXCEPT ![c] = "done"]}
        /\ tabOf' = tabOf \/ \E i \in DOMAIN tabs : tabOf' = [tabOf EXCEPT ![c] = tabs[i].id]
        /\ DOMAIN victim' = DOMAIN victim
    BY <1>3 DEF Tabs!CloseTab, Tabs!Goes, Tabs!bounds
  <2>2. \A i \in DOMAIN tabs : tabs[i].id \in Tabs!Ids  BY CanvasFacts
  <2> QED  BY <2>1, <2>2 DEF CanvasRest
<1>4. ASSUME NEW c \in Calls, Tabs!Cleared(c)  PROVE CanvasRest'
  <2>1. /\ UNCHANGED <<saved, tabShells, tabOf, given>> /\ DOMAIN victim' = DOMAIN victim
        /\ shell' \in [Calls -> {"none", "alive", "dead", "gone"}]
        /\ tabStep' \in {[tabStep EXCEPT ![c] = "clearing"], [tabStep EXCEPT ![c] = "done"]}
    BY <1>4 DEF Tabs!Cleared, Tabs!KillNext, Tabs!EmptyFile, Tabs!Killed, CanvasRest
  <2>2. nextId' \in {nextId, saved[c]}
    BY <1>4 DEF Tabs!Cleared, Tabs!KillNext, Tabs!EmptyFile
  <2>3. rewound' = rewound \/ \E n : rewound' = (rewound \/ n < nextId)
    BY <1>4 DEF Tabs!Cleared, Tabs!KillNext, Tabs!EmptyFile
  <2>4. rewound' \in BOOLEAN  BY <2>3, Zenon DEF CanvasRest
  <2>5. saved[c] # 0  BY <1>4 DEF Tabs!Cleared, ClearsHaveCounters
  <2>6. saved[c] \in Nat \ {0} /\ nextId \in Nat \ {0}  BY <2>5, CanvasFacts
  <2>7. nextId' \in Nat \ {0}  BY <2>2, <2>6
  <2> QED  BY <2>1, <2>4, <2>7 DEF CanvasRest
<1> USE DEF TabsBounds, CanvasRest
<1>5. ASSUME NEW c \in Calls, Tabs!Spawn(c)  PROVE CanvasRest'
  BY <1>5 DEF Tabs!Spawn, Tabs!Goes, Tabs!file, Tabs!bounds
<1>6. ASSUME NEW c \in Calls, Tabs!SpawnFails(c)  PROVE CanvasRest'
  BY <1>6 DEF Tabs!SpawnFails, Tabs!Goes, Tabs!bounds
<1>7. ASSUME NEW c \in Calls, Tabs!Closed(c)  PROVE CanvasRest'
  BY <1>7 DEF Tabs!Closed, Tabs!Goes, Tabs!Killed, Tabs!bounds
<1>8. ASSUME NEW c \in Calls, Tabs!Clear(c)  PROVE CanvasRest'
  BY <1>8 DEF Tabs!Clear, Tabs!KillNext, Tabs!EmptyFile
<1>9. ASSUME NEW c \in Calls, Tabs!ShellExits(c)  PROVE CanvasRest'
  BY <1>9 DEF Tabs!ShellExits, Tabs!file, Tabs!bounds
<1>10. ASSUME NEW c \in Calls, Tabs!Eof(c)  PROVE CanvasRest'
  BY <1>10 DEF Tabs!Eof, Tabs!file, Tabs!bounds
<1>11. ASSUME Tabs!Restart  PROVE CanvasRest'
  BY <1>11 DEF Tabs!Restart, Tabs!file
<1>12. CASE UNCHANGED Tabs!canvasVars  BY <1>12 DEF Tabs!canvasVars
<1> HIDE DEF TabsBounds, CanvasRest
<1> QED  BY <1>1, <1>2, <1>3, <1>4, <1>5, <1>6, <1>7, <1>8, <1>9, <1>10, <1>11, <1>12 DEF Tabs!Next

LEMMA CountersStep ==
    ASSUME TabsBounds, CanvasTyped, [Tabs!Next]_(Tabs!canvasVars), ClearsHaveCounters
    PROVE  ClearsHaveCounters'
<1> USE DEF TabsBounds, CanvasTyped, ClearsHaveCounters
<1>1. ASSUME NEW c \in Calls, Tabs!NewTab(c)  PROVE ClearsHaveCounters'
  BY <1>1 DEF Tabs!NewTab, Tabs!AddTab, Tabs!Goes, Tabs!file, Tabs!bounds
<1>2. ASSUME NEW c \in Calls, Tabs!TerminalTab(c)  PROVE ClearsHaveCounters'
  BY <1>2 DEF Tabs!TerminalTab, Tabs!AddTab, Tabs!Goes, Tabs!file, Tabs!bounds
<1>3. ASSUME NEW c \in Calls, Tabs!Spawn(c)  PROVE ClearsHaveCounters'
  BY <1>3 DEF Tabs!Spawn, Tabs!Goes, Tabs!file, Tabs!bounds
<1>4. ASSUME NEW c \in Calls, Tabs!SpawnFails(c)  PROVE ClearsHaveCounters'
  BY <1>4 DEF Tabs!SpawnFails, Tabs!Goes, Tabs!bounds
<1>5. ASSUME NEW c \in Calls, Tabs!CloseTab(c)  PROVE ClearsHaveCounters'
  BY <1>5 DEF Tabs!CloseTab, Tabs!Goes, Tabs!bounds
<1>6. ASSUME NEW c \in Calls, Tabs!Closed(c)  PROVE ClearsHaveCounters'
  BY <1>6 DEF Tabs!Closed, Tabs!Goes, Tabs!Killed, Tabs!bounds
<1>7. ASSUME NEW c \in Calls, Tabs!Clear(c)  PROVE ClearsHaveCounters'
  BY <1>7 DEF Tabs!Clear, Tabs!KillNext, Tabs!EmptyFile
<1>8. ASSUME NEW c \in Calls, Tabs!Cleared(c)  PROVE ClearsHaveCounters'
  BY <1>8 DEF Tabs!Cleared, Tabs!KillNext, Tabs!EmptyFile, Tabs!Killed
<1>9. ASSUME NEW c \in Calls, Tabs!ShellExits(c)  PROVE ClearsHaveCounters'
  BY <1>9 DEF Tabs!ShellExits, Tabs!file, Tabs!bounds
<1>10. ASSUME NEW c \in Calls, Tabs!Eof(c)  PROVE ClearsHaveCounters'
  BY <1>10 DEF Tabs!Eof, Tabs!file, Tabs!bounds
<1>11. ASSUME Tabs!Restart  PROVE ClearsHaveCounters'
  BY <1>11 DEF Tabs!Restart, Tabs!file
<1>12. CASE UNCHANGED Tabs!canvasVars  BY <1>12 DEF Tabs!canvasVars
<1> HIDE DEF TabsBounds, CanvasTyped, ClearsHaveCounters
<1> QED  BY <1>1, <1>2, <1>3, <1>4, <1>5, <1>6, <1>7, <1>8, <1>9, <1>10, <1>11, <1>12 DEF Tabs!Next

Found(s) == Tabs!HasTab(s) \/ \E c \in Calls : tabStep[c] \in {"closing", "clearing"} /\ victim[c] = s

\* A live shell has its tab or is about to be killed, or is one that was passed by.
ShellsFound == ~rewound => \A s \in Calls : shell[s] = "alive" /\ s \notin orphans => Found(s)

\* A shell stays found if it keeps its tab and its hunters.
LEMMA FoundStays ==
    ASSUME NEW s \in Calls, Found(s), tabOf'[s] = tabOf[s],
           \A i \in DOMAIN tabs : tabs[i].id = tabOf[s] /\ tabs[i].by = s =>
              \E k \in DOMAIN tabs' : tabs'[k] = tabs[i],
           \A c \in Calls : tabStep[c] \in {"closing", "clearing"} /\ victim[c] = s =>
              tabStep'[c] = tabStep[c] /\ victim'[c] = s
    PROVE  Found(s)'
<1>1. CASE Tabs!HasTab(s)
  <2>1. Tabs!HasTab(s)'  BY <1>1 DEF Tabs!HasTab
  <2> QED  BY <2>1 DEF Found
<1>2. CASE \E c \in Calls : tabStep[c] \in {"closing", "clearing"} /\ victim[c] = s
  BY <1>2 DEF Found
<1> QED  BY <1>1, <1>2 DEF Found

LEMMA AppendKeeps ==
    ASSUME tabs \in Seq(ATab), NEW t, tabs' = Append(tabs, t)
    PROVE  \A i \in DOMAIN tabs : \E k \in DOMAIN tabs' : tabs'[k] = tabs[i]
<1>1. \A i \in DOMAIN tabs : i \in DOMAIN tabs' /\ tabs'[i] = tabs[i]
  OBVIOUS
<1> QED  BY <1>1

LEMMA FoundStep ==
    ASSUME TabsBounds, CanvasTyped, [Tabs!Next]_(Tabs!canvasVars), NumbersGrow, MakersMade,
        TabsMade, SessionsMatch, ShellsFound
    PROVE  ShellsFound'
<1>1. ASSUME NEW c \in Calls, Tabs!NewTab(c)  PROVE ShellsFound'
  <2>1. /\ UNCHANGED <<shell, orphans, rewound, victim>> /\ tabStep[c] = "idle" /\ shell[c] = "none"
        /\ \A d \in Calls : d # c => tabStep'[d] = tabStep[d] /\ tabOf'[d] = tabOf[d]
    BY <1>1 DEF Tabs!NewTab, Tabs!AddTab, Tabs!Goes, Tabs!bounds, CanvasTyped, MakersMade
  <2>2. \A i \in DOMAIN tabs : \E k \in DOMAIN tabs' : tabs'[k] = tabs[i]
    BY <1>1, AppendKeeps DEF Tabs!NewTab, Tabs!AddTab, CanvasTyped
  <2>3. ASSUME NEW s \in Calls, shell[s] = "alive", Found(s)  PROVE Found(s)'
    BY <2>1, <2>2, <2>3, FoundStays
  <2> QED  BY <2>1, <2>3 DEF ShellsFound
<1>2. ASSUME NEW c \in Calls, Tabs!TerminalTab(c)  PROVE ShellsFound'
  <2>1. /\ UNCHANGED <<shell, orphans, rewound, victim>> /\ tabStep[c] = "idle" /\ shell[c] = "none"
        /\ \A d \in Calls : d # c => tabStep'[d] = tabStep[d] /\ tabOf'[d] = tabOf[d]
    BY <1>2 DEF Tabs!TerminalTab, Tabs!AddTab, Tabs!Goes, Tabs!bounds, CanvasTyped, MakersMade
  <2>2. \A i \in DOMAIN tabs : \E k \in DOMAIN tabs' : tabs'[k] = tabs[i]
    BY <1>2, AppendKeeps DEF Tabs!TerminalTab, Tabs!AddTab, CanvasTyped
  <2>3. ASSUME NEW s \in Calls, shell[s] = "alive", Found(s)  PROVE Found(s)'
    BY <2>1, <2>2, <2>3, FoundStays
  <2> QED  BY <2>1, <2>3 DEF ShellsFound
<1>3. ASSUME NEW c \in Calls, Tabs!Spawn(c)  PROVE ShellsFound'
  <2>1. /\ UNCHANGED <<tabs, tabOf, rewound, victim>> /\ tabStep[c] = "opening"
        /\ orphans' = IF Tabs!HasTab(c) THEN orphans ELSE orphans \cup {c}
        /\ \A d \in Calls : d # c => tabStep'[d] = tabStep[d] /\ shell'[d] = shell[d]
    BY <1>3 DEF Tabs!Spawn, Tabs!Goes, Tabs!file, Tabs!bounds, CanvasTyped
  <2>2. ASSUME NEW s \in Calls, s # c, Found(s)  PROVE Found(s)'
    BY <2>1, <2>2, FoundStays
  <2>3. c \notin orphans' => Found(c)'
    <3>1. Tabs!HasTab(c)' <=> Tabs!HasTab(c)  BY <2>1 DEF Tabs!HasTab
    <3> QED  BY <2>1, <3>1 DEF Found
  <2>4. orphans \subseteq orphans'  BY <2>1
  <2> QED  BY <2>1, <2>2, <2>3, <2>4 DEF ShellsFound
<1>4. ASSUME NEW c \in Calls, Tabs!SpawnFails(c)  PROVE ShellsFound'
  <2>1. /\ UNCHANGED <<shell, orphans, rewound, victim, tabOf>> /\ tabStep[c] = "opening"
        /\ <<tabOf[c], c>> \in given /\ shell[c] = "none"
        /\ \A d \in Calls : d # c => tabStep'[d] = tabStep[d]
    BY <1>4 DEF Tabs!SpawnFails, Tabs!Goes, Tabs!bounds, CanvasTyped, MakersMade
  <2>2. \A i \in DOMAIN tabs : tabs[i].id # tabOf[c] => \E k \in DOMAIN tabs' : tabs'[k] = tabs[i]
    BY <1>4, DropKeeps DEF Tabs!SpawnFails, CanvasTyped
  <2>3. ASSUME NEW s \in Calls, shell[s] = "alive", Found(s), ~rewound  PROVE Found(s)'
    <3>1. tabOf[s] # tabOf[c]  BY <2>1, <2>3, OneOfANumber
    <3> QED  BY <2>1, <2>2, <2>3, <3>1, FoundStays
  <2> QED  BY <2>1, <2>3 DEF ShellsFound
<1>5. ASSUME NEW c \in Calls, Tabs!CloseTab(c)  PROVE ShellsFound'
  <2>1. /\ UNCHANGED <<shell, orphans, rewound>> /\ tabStep[c] = "idle" /\ shell[c] = "none"
        /\ \A d \in Calls : d # c => tabStep'[d] = tabStep[d] /\ victim'[d] = victim[d] /\
            tabOf'[d] = tabOf[d]
    BY <1>5 DEF Tabs!CloseTab, Tabs!Goes, Tabs!bounds, CanvasTyped, MakersMade
  <2>2. PICK i \in DOMAIN tabs :
          IF tabs[i].kind = "terminal" /\ tabShells[tabs[i].id] # NoCall
          THEN tabs' = tabs ELSE Tabs!DropTab(tabs[i].id)
    BY <1>5 DEF Tabs!CloseTab
  <2>3. ASSUME NEW s \in Calls, shell[s] = "alive", Found(s), ~rewound  PROVE Found(s)'
    <3>1. CASE tabs' = tabs
      BY <2>1, <2>3, <3>1, FoundStays
    <3>2. CASE Tabs!DropTab(tabs[i].id) /\ ~(tabs[i].kind = "terminal" /\ tabShells[tabs[i].id]
        # NoCall)
      <4>1. ASSUME NEW j \in DOMAIN tabs, tabs[j].id = tabOf[s], tabs[j].by = s
            PROVE tabs[j].id # tabs[i].id
        <5>1. SUFFICES ASSUME tabs[j].id = tabs[i].id  PROVE FALSE
          OBVIOUS
        <5>2. <<tabs[i].id, tabs[i].by>> \in given /\ <<tabs[j].id, tabs[j].by>> \in given
          BY DEF TabsMade
        <5>3. tabs[i].by = s  BY <2>3, <4>1, <5>1, <5>2 DEF NumbersGrow
        <5>4. tabs[i].kind = "terminal"  BY <2>3, <5>3 DEF TabsMade, Makers
        <5>5. tabShells[tabOf[s]] = s  BY <2>3 DEF SessionsMatch
        <5>6. tabShells[tabs[i].id] = s  BY <4>1, <5>1, <5>5
        <5> QED  BY <3>2, <5>4, <5>6 DEF TabsBounds
      <4>2. \A j \in DOMAIN tabs : tabs[j].id # tabs[i].id => \E k \in DOMAIN tabs' :
          tabs'[k] = tabs[j]
        BY <3>2, DropKeeps DEF CanvasTyped
      <4>3. \A j \in DOMAIN tabs : tabs[j].id = tabOf[s] /\ tabs[j].by = s =>
               \E k \in DOMAIN tabs' : tabs'[k] = tabs[j]
        BY <4>1, <4>2
      <4>4. /\ tabOf'[s] = tabOf[s]
            /\ \A d \in Calls : tabStep[d] \in {"closing", "clearing"} /\ victim[d] = s =>
                 tabStep'[d] = tabStep[d] /\ victim'[d] = s
        BY <2>1, <2>3
      <4> QED  BY <2>3, <4>3, <4>4, FoundStays
    <3> QED  BY <2>2, <3>1, <3>2
  <2> QED  BY <2>1, <2>3 DEF ShellsFound
<1>6. ASSUME NEW c \in Calls, Tabs!Closed(c)  PROVE ShellsFound'
  <2>1. /\ UNCHANGED <<orphans, rewound, tabOf, victim>> /\ tabStep[c] = "closing"
        /\ \A d \in Calls : d # c => tabStep'[d] = tabStep[d]
        /\ \A d \in Calls : shell'[d] = "alive" => shell[d] = "alive" /\ d # victim[c]
    BY <1>6 DEF Tabs!Closed, Tabs!Goes, Tabs!Killed, Tabs!bounds, CanvasTyped
  <2>2. victim[c] \in Calls /\ shell[victim[c]] # "none" /\ tabOf[victim[c]] = tabOf[c]
    BY <2>1 DEF SessionsMatch
  <2>3. \A i \in DOMAIN tabs : tabs[i].id # tabOf[c] => \E k \in DOMAIN tabs' : tabs'[k] = tabs[i]
    BY <1>6, DropKeeps DEF Tabs!Closed, CanvasTyped
  <2>4. ASSUME NEW s \in Calls, shell[s] = "alive", s # victim[c], Found(s), ~rewound
        PROVE Found(s)'
    <3>1. <<tabOf[victim[c]], victim[c]>> \in given  BY <2>2 DEF MakersMade
    <3>2. tabOf[s] # tabOf[c]  BY <2>2, <2>4, <3>1, OneOfANumber
    <3> QED  BY <2>1, <2>3, <2>4, <3>2, FoundStays
  <2> QED  BY <2>1, <2>4 DEF ShellsFound
<1>7. ASSUME NEW c \in Calls, Tabs!Clear(c)  PROVE ShellsFound'
  <2>1. /\ tabOf' = tabOf /\ \A d \in Calls : d # c => tabStep'[d] = tabStep[d] /\ victim'[d] = victim[d]
        /\ \A d \in Calls : shell'[d] = "alive" => shell[d] = "alive"
        /\ \A d \in Calls : shell'[d] = "alive" => d # victim[c]
    BY <1>7 DEF Tabs!Clear, Tabs!KillNext, Tabs!EmptyFile, CanvasTyped, SessionsMatch, TabsBounds
  <2>2. orphans \subseteq orphans'
    BY <1>7 DEF Tabs!Clear, Tabs!KillNext, Tabs!EmptyFile
  <2>3. \/ tabs' = tabs
        \/ \A d \in Calls : shell[d] = "alive" /\ d # victim[c] /\ Tabs!HasTab(d) => d \in orphans'
    BY <1>7 DEF Tabs!Clear, Tabs!KillNext, Tabs!EmptyFile, Tabs!Alive
  <2>4. ~rewound' => ~rewound
    <3>1. rewound' = rewound \/ \E n : rewound' = (rewound \/ n < nextId)
      BY <1>7 DEF Tabs!Clear, Tabs!KillNext, Tabs!EmptyFile
    <3> QED  BY <3>1, Zenon
  <2>5. ASSUME NEW s \in Calls, shell'[s] = "alive", s \notin orphans', Found(s)
        PROVE  Found(s)'
    <3>1. s # victim[c] /\ shell[s] = "alive"  BY <2>1, <2>5
    <3>2. CASE tabs' = tabs
      BY <2>1, <2>5, <3>1, <3>2, FoundStays
    <3>3. CASE ~Tabs!HasTab(s)
      BY <2>1, <2>5, <3>1, <3>3 DEF Found
    <3> QED  BY <2>3, <2>5, <3>1, <3>2, <3>3
  <2> QED  BY <2>1, <2>2, <2>4, <2>5 DEF ShellsFound
<1>8. ASSUME NEW c \in Calls, Tabs!Cleared(c)  PROVE ShellsFound'
  <2>1. /\ tabOf' = tabOf /\ \A d \in Calls : d # c => tabStep'[d] = tabStep[d] /\ victim'[d] = victim[d]
        /\ \A d \in Calls : shell'[d] = "alive" => shell[d] = "alive"
        /\ \A d \in Calls : shell'[d] = "alive" => d # victim[c]
    BY <1>8 DEF Tabs!Cleared, Tabs!KillNext, Tabs!EmptyFile, Tabs!Killed, CanvasTyped
  <2>2. orphans \subseteq orphans'
    BY <1>8 DEF Tabs!Cleared, Tabs!KillNext, Tabs!EmptyFile
  <2>3. \/ tabs' = tabs
        \/ \A d \in Calls : shell[d] = "alive" /\ d # victim[c] /\ Tabs!HasTab(d) => d \in orphans'
    BY <1>8 DEF Tabs!Cleared, Tabs!KillNext, Tabs!EmptyFile, Tabs!Alive
  <2>4. ~rewound' => ~rewound
    <3>1. rewound' = rewound \/ \E n : rewound' = (rewound \/ n < nextId)
      BY <1>8 DEF Tabs!Cleared, Tabs!KillNext, Tabs!EmptyFile
    <3> QED  BY <3>1, Zenon
  <2>5. ASSUME NEW s \in Calls, shell'[s] = "alive", s \notin orphans', Found(s)
        PROVE  Found(s)'
    <3>1. s # victim[c] /\ shell[s] = "alive"  BY <2>1, <2>5
    <3>2. CASE tabs' = tabs
      BY <2>1, <2>5, <3>1, <3>2, FoundStays
    <3>3. CASE ~Tabs!HasTab(s)
      BY <2>1, <2>5, <3>1, <3>3 DEF Found
    <3> QED  BY <2>3, <2>5, <3>1, <3>2, <3>3
  <2> QED  BY <2>1, <2>2, <2>4, <2>5 DEF ShellsFound
<1>9. ASSUME NEW c \in Calls, Tabs!ShellExits(c)  PROVE ShellsFound'
  <2>1. /\ UNCHANGED <<tabs, tabOf, orphans, rewound, victim, tabStep>>
        /\ \A d \in Calls : shell'[d] = "alive" => shell[d] = "alive"
    BY <1>9 DEF Tabs!ShellExits, Tabs!file, Tabs!bounds, CanvasTyped
  <2>2. ASSUME NEW s \in Calls, Found(s)  PROVE Found(s)'
    BY <2>1, <2>2, FoundStays
  <2> QED  BY <2>1, <2>2 DEF ShellsFound
<1>10. ASSUME NEW c \in Calls, Tabs!Eof(c)  PROVE ShellsFound'
  <2>1. /\ UNCHANGED <<tabs, tabOf, orphans, rewound, victim, tabStep>>
        /\ \A d \in Calls : shell'[d] = "alive" => shell[d] = "alive"
    BY <1>10 DEF Tabs!Eof, Tabs!file, Tabs!bounds, CanvasTyped
  <2>2. ASSUME NEW s \in Calls, Found(s)  PROVE Found(s)'
    BY <2>1, <2>2, FoundStays
  <2> QED  BY <2>1, <2>2 DEF ShellsFound
<1>11. ASSUME Tabs!Restart  PROVE ShellsFound'
  <2>1. \A d \in Calls : shell'[d] # "alive"  BY <1>11 DEF Tabs!Restart
  <2> QED  BY <2>1 DEF ShellsFound
<1> USE DEF ShellsFound, Found, Tabs!HasTab
<1>12. CASE UNCHANGED Tabs!canvasVars  BY <1>12 DEF Tabs!canvasVars
<1> HIDE DEF ShellsFound, Found, Tabs!HasTab
<1> QED  BY <1>1, <1>2, <1>3, <1>4, <1>5, <1>6, <1>7, <1>8, <1>9, <1>10, <1>11, <1>12 DEF Tabs!Next

CanvasInv ==
    /\ CanvasTyped /\ NumbersLast /\ ClearsHaveCounters /\ NumbersGrow /\ MakersMade /\ TabsMade
    /\ SessionsMatch /\ ShellsFound

LEMMA CanvasInit ==
    ASSUME TabsBounds, Tabs!Init
    PROVE  CanvasInv
<1> USE DEF Tabs!Init
<1>1. Used = {}  BY DEF Used
<1>2. Cardinality(Used) = 0  BY <1>1, FS_EmptySet
<1>3. CanvasTyped
  <2>1. tabs \in Seq(ATab)  OBVIOUS
  <2>2. given \in SUBSET (Tabs!Ids \X Calls) /\ rewound \in BOOLEAN  OBVIOUS
  <2>3. tabShells \in [Tabs!Ids -> Calls \cup {NoCall}]  OBVIOUS
  <2>4. tabOf \in [Calls -> Tabs!Ids \cup {0}] /\ DOMAIN victim = Calls  OBVIOUS
  <2>5. /\ shell \in [Calls -> {"none", "alive", "dead", "gone"}]
        /\ tabStep \in [Calls -> {"idle", "opening", "closing", "clearing", "done"}]
    OBVIOUS
  <2> QED  BY <2>1, <2>2, <2>3, <2>4, <2>5 DEF CanvasTyped
<1>4. NumbersLast  BY <1>2 DEF NumbersLast
<1>5. ClearsHaveCounters /\ NumbersGrow /\ MakersMade
  BY DEF ClearsHaveCounters, NumbersGrow, MakersMade
<1>6. TabsMade  BY DEF TabsMade
<1>7. SessionsMatch /\ ShellsFound  BY DEF SessionsMatch, ShellsFound
<1> QED  BY <1>3, <1>4, <1>5, <1>6, <1>7 DEF CanvasInv

LEMMA CanvasStep ==
    ASSUME TabsBounds, CanvasInv, [Tabs!Next]_(Tabs!canvasVars)
    PROVE  CanvasInv'
<1>1. CanvasTyped'
  <2>1. tabs' \in Seq(ATab)  BY TabsTypedStep DEF CanvasInv
  <2>2. CanvasRest  BY DEF CanvasInv, CanvasTyped, CanvasRest
  <2>3. CanvasRest'  BY <2>2, RestStep DEF CanvasInv
  <2> QED  BY <2>1, <2>3 DEF CanvasTyped, CanvasRest
<1>2. NumbersLast' /\ ClearsHaveCounters' /\ NumbersGrow' /\ MakersMade'
  BY LastStep, CountersStep, GrowStep, MadeStep DEF CanvasInv
<1>3. TabsMade' /\ SessionsMatch' /\ ShellsFound'
  BY TabsMadeStep, SessionsStep, FoundStep DEF CanvasInv
<1> QED  BY <1>1, <1>2, <1>3 DEF CanvasInv

LEMMA CanvasCorrect == TabsBounds /\ Tabs!Spec => []CanvasInv
<1> SUFFICES ASSUME TabsBounds PROVE Tabs!Spec => []CanvasInv
  OBVIOUS
<1>1. Tabs!Init => CanvasInv  BY CanvasInit
<1>2. CanvasInv /\ [Tabs!Next]_(Tabs!canvasVars) => CanvasInv'  BY CanvasStep
<1> QED  BY <1>1, <1>2, PTL DEF Tabs!Spec

\* A number names one tab only, over closes, clears and restarts (canvas.py,
\* next_tab_id), as long as no clear has set the counter back.
THEOREM CanvasNumbers == TabsBounds /\ Tabs!Spec => []Tabs!TabIdsNeverRebind
<1>1. CanvasInv => Tabs!TabIdsNeverRebind
  BY DEF CanvasInv, NumbersGrow, Tabs!TabIdsNeverRebind
<1> QED  BY <1>1, CanvasCorrect, PTL

\* A live shell has its session and its tab, or is about to be killed, unless
\* its tab was gone before it was registered (terminals.py, spawn and _on_eof).
THEOREM CanvasShells == TabsBounds /\ Tabs!Spec => []Tabs!ShellsAreReachable
<1>1. CanvasInv => Tabs!ShellsAreReachable
  BY DEF CanvasInv, SessionsMatch, ShellsFound, Found, Tabs!ShellsAreReachable, Tabs!Alive
<1> QED  BY <1>1, CanvasCorrect, PTL

-----------------------------------------------------------------------------
(* The pages of the vault and their index *)

WikiBounds == NoPage \notin Pages /\ MaxTexts \in Nat /\ MaxClock \in Nat

\* The types, in a form that says what the functions are defined on.
WikiTyped ==
    /\ text \in [Pages -> 0..MaxTexts] /\ mtime \in [Pages -> 0..MaxClock]
    /\ texts \in 0..MaxTexts /\ clock \in 0..MaxClock
    /\ index \in [Pages -> SUBSET Wiki!Texts]
    /\ opDoes \in [Editors -> Wiki!Kinds] /\ opAt \in [Editors -> {"idle", "gate", "embed", "done"}]
    /\ page \in [Editors -> Pages \cup {NoPage}] /\ target \in [Editors -> Pages \cup {NoPage}]
    /\ saw \in [Editors -> [Pages -> 0..MaxTexts]]
    /\ embeds \in [Editors -> SUBSET (Pages \X Wiki!Texts)]
    /\ later \in [Editors -> Pages \cup {NoPage}]
    /\ tab \in [page : Pages \cup {NoPage}, text : 0..MaxTexts, time : 0..MaxClock, own : BOOLEAN]
    /\ lost \subseteq Wiki!Texts /\ excused \subseteq Wiki!Texts /\ failed \subseteq Wiki!Texts
    /\ overlapped \subseteq Pages

\* Only who embeds has texts to embed; who waits for an approval knows its pages.
AtWork ==
    /\ \A o \in Editors : opAt[o] # "embed" => embeds[o] = {} /\ later[o] = NoPage
    /\ \A o \in Editors : opAt[o] = "gate" =>
         /\ page[o] \in Pages /\ target[o] \in Pages
         /\ opDoes[o] = "rename" => page[o] # target[o]

\* The text of a page is in the index, or somebody is going to put it there.
Indexed ==
    \A p \in Pages : text[p] # 0 /\ text[p] \notin failed =>
        \/ text[p] \in index[p]
        \/ \E o \in Editors : <<p, text[p]>> \in embeds[o]
        \/ \E o \in Editors : later[o] = p

\* Of a page whose calls did not overlap, only its text is embedded, and nothing
\* else is in the index, unless the page is about to be indexed anew.
Current ==
    \A p \in Pages \ overlapped :
        /\ \A o \in Editors : \A w \in embeds[o] : w[1] = p => w[2] = text[p]
        /\ index[p] \subseteq {text[p]} \/ (text[p] # 0 /\ \E o \in Editors : later[o] = p)

WikiInv == WikiTyped /\ AtWork /\ Indexed /\ Current /\ lost \subseteq excused

\* What a call does to the files
Change(o, p, q) ==
    \/ Wiki!Put(o, p) /\ UNCHANGED later
    \/ Wiki!Move(o, p, q)
    \/ Wiki!Rename(o, p, q) /\ UNCHANGED <<texts, later>> /\ p # q
    \/ Wiki!Delete(o, p)

LEMMA RunChanges ==
    ASSUME NEW o, NEW p, NEW q, NEW kind, Wiki!Run(o, kind, p, q), kind = "rename" => p # q
    PROVE  Change(o, p, q)
BY DEF Wiki!Run, Wiki!Write, Wiki!Patch, Wiki!Rename, Change

LEMMA ChangeTyped ==
    ASSUME WikiBounds, WikiTyped, NEW o \in Editors, NEW p \in Pages, NEW q \in Pages,
           Change(o, p, q), opAt[o] # "embed"
    PROVE  /\ text' \in [Pages -> 0..MaxTexts] /\ mtime' \in [Pages -> 0..MaxClock]
           /\ texts' \in 0..MaxTexts /\ index' \in [Pages -> SUBSET Wiki!Texts]
           /\ opAt' \in [Editors -> {"idle", "gate", "embed", "done"}]
           /\ embeds' \in [Editors -> SUBSET (Pages \X Wiki!Texts)]
           /\ later' \in [Editors -> Pages \cup {NoPage}] /\ overlapped' \subseteq Pages
           /\ opAt'[o] \in {"embed", "done"} /\ \A e \in Editors : e # o => opAt'[e] = opAt[e]
<1> USE DEF WikiBounds, WikiTyped, Wiki!Texts, Wiki!Exists
<1>1. CASE Wiki!Put(o, p) /\ UNCHANGED later
  BY <1>1 DEF Wiki!Put, Wiki!Drop, Wiki!Changes
<1>2. CASE Wiki!Move(o, p, q)
  <2>1. texts + 1 \in 1..MaxTexts /\ texts + 2 \in 1..MaxTexts  BY <1>2 DEF Wiki!Move
  <2>2. /\ text' \in [Pages -> 0..MaxTexts] /\ mtime' \in [Pages -> 0..MaxClock]
        /\ texts' \in 0..MaxTexts
    <3>1. text' = [[text EXCEPT ![q] = texts + 1] EXCEPT ![p] = texts + 2]
      BY <1>2 DEF Wiki!Move
    <3>2. text' \in [Pages -> 0..MaxTexts]  BY <2>1, <3>1
    <3>3. mtime' = [[mtime EXCEPT ![q] = clock] EXCEPT ![p] = clock]  BY <1>2 DEF Wiki!Move
    <3>4. mtime' \in [Pages -> 0..MaxClock]  BY <3>3
    <3> QED  BY <1>2, <2>1, <3>2, <3>4 DEF Wiki!Move
  <2>3. index' \in [Pages -> SUBSET Wiki!Texts] /\ overlapped' \subseteq Pages
    BY <1>2 DEF Wiki!Move, Wiki!Drop, Wiki!Changes
  <2>4. /\ embeds' \in [Editors -> SUBSET (Pages \X Wiki!Texts)]
        /\ later' \in [Editors -> Pages \cup {NoPage}]
    BY <1>2, <2>1 DEF Wiki!Move
  <2>5. /\ opAt' \in [Editors -> {"idle", "gate", "embed", "done"}]
        /\ opAt'[o] \in {"embed", "done"} /\ \A e \in Editors : e # o => opAt'[e] = opAt[e]
    BY <1>2 DEF Wiki!Move
  <2> QED  BY <2>2, <2>3, <2>4, <2>5
<1>3. CASE Wiki!Rename(o, p, q) /\ UNCHANGED <<texts, later>>
  <2>1. text[p] \in 1..MaxTexts  BY <1>3 DEF Wiki!Rename
  <2>2. /\ text' \in [Pages -> 0..MaxTexts] /\ mtime' \in [Pages -> 0..MaxClock]
        /\ texts' \in 0..MaxTexts
    <3>1. text' = [[text EXCEPT ![q] = text[p]] EXCEPT ![p] = 0]  BY <1>3 DEF Wiki!Rename
    <3>2. text' \in [Pages -> 0..MaxTexts]  BY <2>1, <3>1
    <3> QED  BY <1>3, <3>2 DEF Wiki!Rename
  <2>3. index' \in [Pages -> SUBSET Wiki!Texts] /\ overlapped' \subseteq Pages
    BY <1>3 DEF Wiki!Rename, Wiki!Drop
  <2>4. /\ embeds' \in [Editors -> SUBSET (Pages \X Wiki!Texts)]
        /\ later' \in [Editors -> Pages \cup {NoPage}]
    BY <1>3, <2>1 DEF Wiki!Rename
  <2>5. /\ opAt' \in [Editors -> {"idle", "gate", "embed", "done"}]
        /\ opAt'[o] \in {"embed", "done"} /\ \A e \in Editors : e # o => opAt'[e] = opAt[e]
    BY <1>3 DEF Wiki!Rename
  <2> QED  BY <2>2, <2>3, <2>4, <2>5
<1>4. CASE Wiki!Delete(o, p)
  BY <1>4 DEF Wiki!Delete, Wiki!Drop, Wiki!Changes
<1> QED  BY <1>1, <1>2, <1>3, <1>4 DEF Change

LEMMA ChangeIndexed ==
    ASSUME WikiBounds, WikiTyped, AtWork, Indexed, NEW o \in Editors, NEW p \in Pages,
           NEW q \in Pages, Change(o, p, q), opAt[o] # "embed", failed' = failed
    PROVE  Indexed'
<1> USE DEF WikiBounds, WikiTyped, Wiki!Texts, Wiki!Exists
<1>0. embeds[o] = {} /\ later[o] = NoPage  BY DEF AtWork
<1>1. CASE Wiki!Put(o, p) /\ UNCHANGED later
  BY <1>0, <1>1 DEF Wiki!Put, Wiki!Drop, Indexed
<1>2. CASE Wiki!Move(o, p, q)
  BY <1>0, <1>2 DEF Wiki!Move, Wiki!Drop, Indexed
<1>3. CASE Wiki!Rename(o, p, q) /\ UNCHANGED <<texts, later>> /\ p # q
  BY <1>0, <1>3 DEF Wiki!Rename, Wiki!Drop, Indexed
<1>4. CASE Wiki!Delete(o, p)
  BY <1>0, <1>4 DEF Wiki!Delete, Wiki!Drop, Indexed
<1> QED  BY <1>1, <1>2, <1>3, <1>4 DEF Change

LEMMA ChangeCurrent ==
    ASSUME WikiBounds, WikiTyped, AtWork, Current, NEW o \in Editors, NEW p \in Pages,
           NEW q \in Pages, Change(o, p, q), opAt[o] # "embed"
    PROVE  Current'
<1> USE DEF WikiBounds, WikiTyped, Wiki!Texts, Wiki!Exists
<1>0. embeds[o] = {} /\ later[o] = NoPage  BY DEF AtWork
<1>1. CASE Wiki!Put(o, p) /\ UNCHANGED later
  <2>1. ASSUME NEW r \in Pages \ overlapped', r # p
        PROVE  /\ r \notin overlapped /\ text'[r] = text[r] /\ index'[r] = index[r] /\ later' = later
               /\ \A e \in Editors : \A w \in embeds'[e] : w[1] = r => w \in embeds[e]
    BY <1>0, <1>1, <2>1 DEF Wiki!Put, Wiki!Drop, Wiki!Changes
  <2>2. ASSUME p \notin overlapped'
        PROVE  /\ \A e \in Editors : \A w \in embeds'[e] : w[1] = p => w[2] = text'[p]
               /\ index'[p] = {}
    BY <1>0, <1>1, <2>2 DEF Wiki!Put, Wiki!Drop, Wiki!Changes, Wiki!Embedding
  <2>3. ASSUME NEW r \in Pages \ overlapped'
        PROVE  /\ \A e \in Editors : \A w \in embeds'[e] : w[1] = r => w[2] = text'[r]
               /\ \/ index'[r] \subseteq {text'[r]}
                  \/ text'[r] # 0 /\ \E e \in Editors : later'[e] = r
    <3>1. CASE r = p  BY <2>2, <2>3, <3>1
    <3>2. CASE r # p
      <4>1. /\ \A e \in Editors : \A w \in embeds[e] : w[1] = r => w[2] = text[r]
            /\ index[r] \subseteq {text[r]} \/ (text[r] # 0 /\ \E e \in Editors : later[e] = r)
        BY <2>1, <2>3, <3>2 DEF Current
      <4> QED  BY <2>1, <2>3, <3>2, <4>1
    <3> QED  BY <3>1, <3>2
  <2> QED  BY <2>3 DEF Current
<1>2. CASE Wiki!Move(o, p, q)
  BY <1>0, <1>2 DEF Wiki!Move, Wiki!Drop, Wiki!Changes, Wiki!Embedding, Current
<1>3. CASE Wiki!Rename(o, p, q) /\ UNCHANGED <<texts, later>> /\ p # q
  <2>1. ASSUME NEW r \in Pages \ overlapped'
        PROVE  /\ \A e \in Editors : \A w \in embeds'[e] : w[1] = r => w[2] = text'[r]
               /\ \/ index'[r] \subseteq {text'[r]}
                  \/ text'[r] # 0 /\ \E e \in Editors : later'[e] = r
    <3>1. CASE r \in {p, q}
      BY <1>0, <1>3, <2>1, <3>1 DEF Wiki!Rename, Wiki!Drop, Wiki!Embedding, Current
    <3>2. CASE r \notin {p, q}
      BY <1>0, <1>3, <2>1, <3>2 DEF Wiki!Rename, Wiki!Drop, Wiki!Embedding, Current
    <3> QED  BY <3>1, <3>2
  <2> QED  BY <2>1 DEF Current
<1>4. CASE Wiki!Delete(o, p)
  BY <1>0, <1>4 DEF Wiki!Delete, Wiki!Drop, Wiki!Changes, Wiki!Embedding, Current
<1> QED  BY <1>1, <1>2, <1>3, <1>4 DEF Change

LEMMA ChangeAtWork ==
    ASSUME WikiTyped, AtWork, NEW o \in Editors, NEW p \in Pages, NEW q \in Pages,
           Change(o, p, q), opAt[o] # "embed"
    PROVE  /\ \A e \in Editors : opAt'[e] # "embed" => embeds'[e] = {} /\ later'[e] = NoPage
           /\ \A e \in Editors : opAt'[e] = "gate" => e # o /\ opAt[e] = "gate"
BY DEF Change, Wiki!Put, Wiki!Move, Wiki!Rename, Wiki!Delete, AtWork, WikiTyped

\* Nothing of the pages changes.
Still == UNCHANGED <<text, mtime, texts, index, embeds, later, failed, overlapped>>

LEMMA StillParts ==
    ASSUME Still, Indexed, Current
    PROVE  Indexed' /\ Current'
BY DEF Still, Indexed, Current

\* What a call of an editor or a tool leaves of the types of the call itself
LEMMA CallTyped ==
    ASSUME WikiTyped, NEW o \in Editors, NEW kind \in Wiki!Kinds, NEW p \in Pages, NEW q \in Pages,
           Wiki!Call(o, kind, p, q)
    PROVE  /\ opDoes' \in [Editors -> Wiki!Kinds] /\ page' \in [Editors -> Pages \cup {NoPage}]
           /\ target' \in [Editors -> Pages \cup {NoPage}]
           /\ opDoes'[o] = kind /\ page'[o] = p /\ target'[o] = q
           /\ \A e \in Editors : e # o =>
                opDoes'[e] = opDoes[e] /\ page'[e] = page[e] /\ target'[e] = target[e]
BY DEF WikiTyped, Wiki!Call

\* A change by a tool, an approval or a request
LEMMA ChangeStep ==
    ASSUME WikiBounds, WikiInv, NEW o \in Editors, NEW p \in Pages, NEW q \in Pages,
           Change(o, p, q), opAt[o] # "embed", UNCHANGED <<clock, saw, tab, failed>>,
           \/ UNCHANGED <<opDoes, page, target>>
           \/ \E kind \in Wiki!Kinds : Wiki!Call(o, kind, p, q),
           lost' \subseteq excused', excused' \subseteq Wiki!Texts
    PROVE  WikiInv'
<1>1. /\ opDoes' \in [Editors -> Wiki!Kinds] /\ page' \in [Editors -> Pages \cup {NoPage}]
      /\ target' \in [Editors -> Pages \cup {NoPage}]
      /\ \A e \in Editors : e # o =>
           opDoes'[e] = opDoes[e] /\ page'[e] = page[e] /\ target'[e] = target[e]
  BY CallTyped DEF WikiInv, WikiTyped
<1>2. WikiTyped'  BY <1>1, ChangeTyped DEF WikiInv, WikiTyped
<1>3. AtWork'  BY <1>1, ChangeAtWork DEF WikiInv, AtWork
<1>4. Indexed' /\ Current'  BY ChangeIndexed, ChangeCurrent DEF WikiInv
<1> QED  BY <1>2, <1>3, <1>4 DEF WikiInv

LEMMA TickStep == WikiBounds /\ WikiInv /\ Wiki!Tick => WikiInv'
<1> SUFFICES ASSUME WikiBounds, WikiInv, Wiki!Tick  PROVE WikiInv'
  OBVIOUS
<1>1. Still  BY DEF Wiki!Tick, Still
<1>2. Indexed' /\ Current'  BY <1>1, StillParts DEF WikiInv
<1>3. WikiTyped' /\ AtWork' /\ lost' \subseteq excused'
  BY DEF Wiki!Tick, Wiki!opVars, WikiInv, WikiTyped, AtWork, WikiBounds
<1> QED  BY <1>2, <1>3 DEF WikiInv

LEMMA OpenStep == \A p \in Pages : WikiBounds /\ WikiInv /\ Wiki!Open(p) => WikiInv'
<1> SUFFICES ASSUME NEW p \in Pages, WikiBounds, WikiInv, Wiki!Open(p)  PROVE WikiInv'
  OBVIOUS
<1>1. Still  BY DEF Wiki!Open, Still
<1>2. Indexed' /\ Current'  BY <1>1, StillParts DEF WikiInv
<1>3. AtWork' /\ lost' \subseteq excused'  BY DEF Wiki!Open, Wiki!opVars, WikiInv, AtWork
<1>4. WikiTyped'  BY DEF Wiki!Open, Wiki!opVars, WikiInv, WikiTyped
<1> QED  BY <1>2, <1>3, <1>4 DEF WikiInv

LEMMA AskStep ==
    ASSUME WikiBounds, WikiInv, NEW o \in Editors, NEW p \in Pages, NEW q \in Pages,
           NEW kind \in {"write", "patch", "rename", "delete"}, Wiki!Ask(o, kind, p, q)
    PROVE  WikiInv'
<1>1. Still  BY DEF Wiki!Ask, Still
<1>2. Indexed' /\ Current'  BY <1>1, StillParts DEF WikiInv
<1>3. kind \in Wiki!Kinds /\ Wiki!Call(o, kind, p, q) /\ (kind = "rename" => p # q)
  BY DEF Wiki!Ask, Wiki!Kinds
<1>4. AtWork'  BY <1>3, CallTyped DEF Wiki!Ask, WikiInv, AtWork, WikiTyped
<1>5. saw' \in [Editors -> [Pages -> 0..MaxTexts]]  BY DEF Wiki!Ask, WikiInv, WikiTyped
<1>6. WikiTyped'  BY <1>3, <1>5, CallTyped DEF Wiki!Ask, WikiInv, WikiTyped
<1>7. lost' \subseteq excused'  BY DEF Wiki!Ask, WikiInv
<1> QED  BY <1>2, <1>4, <1>6, <1>7 DEF WikiInv

LEMMA DirectStep ==
    ASSUME WikiBounds, WikiInv, NEW o \in Editors, NEW p \in Pages, NEW q \in Pages,
           NEW kind \in {"write", "patch", "rename", "delete", "move"}, Wiki!Direct(o, kind, p, q)
    PROVE  WikiInv'
<1>1. Change(o, p, q)
  <2>1. CASE kind = "move"  BY <2>1 DEF Wiki!Direct, Change
  <2>2. CASE kind # "move"  BY <2>2, RunChanges DEF Wiki!Direct
  <2> QED  BY <2>1, <2>2
<1>2. kind \in Wiki!Kinds /\ Wiki!Call(o, kind, p, q)  BY DEF Wiki!Direct, Wiki!Kinds
<1>3. opAt[o] # "embed" /\ UNCHANGED <<clock, saw, tab, failed, lost, excused>>
  BY DEF Wiki!Direct, Wiki!Known
<1>4. lost' \subseteq excused' /\ excused' \subseteq Wiki!Texts  BY <1>3 DEF WikiInv, WikiTyped
<1> QED  BY <1>1, <1>2, <1>3, <1>4, ChangeStep

LEMMA RequestStep ==
    ASSUME WikiBounds, WikiInv, NEW o \in Editors, NEW p \in Pages, NEW q \in Pages,
           NEW kind \in {"create", "rename", "delete"}, Wiki!Request(o, kind, p, q)
    PROVE  WikiInv'
<1>1. Change(o, p, q)  BY DEF Wiki!Request, Wiki!Write, Change, Wiki!Rename
<1>2. kind \in Wiki!Kinds /\ Wiki!Call(o, kind, p, q)  BY DEF Wiki!Request, Wiki!Kinds
<1>3. opAt[o] # "embed" /\ UNCHANGED <<clock, saw, tab, failed, lost, excused>>
  BY DEF Wiki!Request, Wiki!Known
<1>4. lost' \subseteq excused' /\ excused' \subseteq Wiki!Texts  BY <1>3 DEF WikiInv, WikiTyped
<1> QED  BY <1>1, <1>2, <1>3, <1>4, ChangeStep

LEMMA ApprovedStep ==
    ASSUME WikiBounds, WikiInv, NEW o \in Editors, Wiki!Approved(o)
    PROVE  WikiInv'
<1>1. PICK p \in Pages, q \in Pages : p = page[o] /\ q = target[o]
  BY DEF Wiki!Approved, WikiInv, AtWork
<1>2. opAt[o] = "gate" /\ (opDoes[o] = "rename" => p # q)
  BY <1>1 DEF Wiki!Approved, WikiInv, AtWork
<1>3. Change(o, p, q)
  <2>1. PICK kind : kind = opDoes[o]  OBVIOUS
  <2>2. Wiki!Run(o, kind, p, q)  BY <1>1, <2>1 DEF Wiki!Approved
  <2> QED  BY <1>2, <2>1, <2>2, RunChanges
<1>4. PICK D : /\ D \subseteq {text[p], text[q]} \ {0}
               /\ lost' = lost \cup D /\ excused' = excused \cup D
  BY <1>1 DEF Wiki!Approved, Wiki!Overtaken
<1>5. D \subseteq Wiki!Texts  BY <1>4 DEF WikiInv, WikiTyped, Wiki!Texts
<1>6. lost' \subseteq excused' /\ excused' \subseteq Wiki!Texts
  BY <1>4, <1>5 DEF WikiInv, WikiTyped
<1>7. UNCHANGED <<clock, opDoes, page, target, saw, tab, failed>>  BY DEF Wiki!Approved
<1> QED  BY <1>2, <1>3, <1>6, <1>7, ChangeStep

LEMMA RefusedStep ==
    ASSUME WikiBounds, WikiInv, NEW o \in Editors, Wiki!Refused(o)
    PROVE  WikiInv'
<1>1. Still  BY DEF Wiki!Refused, Still
<1>2. Indexed' /\ Current'  BY <1>1, StillParts DEF WikiInv
<1>3. AtWork' /\ lost' \subseteq excused'  BY DEF Wiki!Refused, WikiInv, AtWork, WikiTyped
<1>4. WikiTyped'  BY DEF Wiki!Refused, WikiInv, WikiTyped
<1> QED  BY <1>2, <1>3, <1>4 DEF WikiInv

LEMMA SaveStep ==
    ASSUME WikiBounds, WikiInv, NEW o \in Editors, Wiki!Save(o)
    PROVE  WikiInv'
<1>1. PICK p \in Pages : p = tab.page  BY DEF Wiki!Save, WikiInv, WikiTyped
<1>2. Change(o, p, p)  BY <1>1 DEF Wiki!Save, Wiki!Write, Change
<1>3. "save" \in Wiki!Kinds /\ Wiki!Call(o, "save", p, p)  BY <1>1 DEF Wiki!Save, Wiki!Kinds
<1>4. opAt[o] # "embed" /\ UNCHANGED <<clock, saw, tab, failed>>  BY DEF Wiki!Save
<1>5. PICK D : D = {text[p]} \ {0, tab.text}  OBVIOUS
<1>6. /\ lost' = lost \cup D
      /\ excused' = IF ~tab.own \/ mtime[p] <= tab.time + 1 THEN excused \cup D ELSE excused
  BY <1>1, <1>5 DEF Wiki!Save
<1>7. D = {} \/ mtime[p] <= tab.time + 1
  <2>1. ~Wiki!Conflict(p)  BY <1>1 DEF Wiki!Save
  <2>2. mtime[p] \in Int /\ tab.time \in Int  BY DEF WikiInv, WikiTyped
  <2> QED  BY <1>5, <2>1, <2>2 DEF Wiki!Conflict, Wiki!Exists
<1>8. D \subseteq Wiki!Texts  BY <1>5 DEF WikiInv, WikiTyped, Wiki!Texts
<1>9. lost' \subseteq excused' /\ excused' \subseteq Wiki!Texts
  BY <1>6, <1>7, <1>8 DEF WikiInv, WikiTyped
<1> QED  BY <1>2, <1>3, <1>4, <1>9, ChangeStep

LEMMA ReindexStep ==
    ASSUME WikiBounds, WikiInv, NEW o \in Editors, Wiki!Reindex(o)
    PROVE  WikiInv'
<1> USE DEF WikiInv, WikiTyped, Wiki!Texts, Wiki!Exists
<1>1. PICK T : T = {<<p, text[p]>> : p \in {r \in Pages : text[r] # 0}}  OBVIOUS
<1>2. T \subseteq Pages \X Wiki!Texts /\ \A w \in T : w[2] = text[w[1]]  BY <1>1
<1>3. /\ embeds' = [embeds EXCEPT ![o] = T] /\ embeds[o] = {} /\ later[o] = NoPage
      /\ UNCHANGED <<text, index, later, failed, overlapped>>
  BY <1>1 DEF Wiki!Reindex, AtWork
<1>4. WikiTyped'  BY <1>2, <1>3 DEF Wiki!Reindex, Wiki!Kinds
<1>5. AtWork'  BY <1>3 DEF Wiki!Reindex, AtWork
<1>6. Indexed'  BY <1>3 DEF Indexed
<1>7. Current'  BY <1>2, <1>3 DEF Current
<1>8. lost' \subseteq excused'  BY DEF Wiki!Reindex
<1> QED  BY <1>4, <1>5, <1>6, <1>7, <1>8

LEMMA EmbeddedStep ==
    ASSUME WikiBounds, WikiInv, NEW o \in Editors, NEW w \in embeds[o], Wiki!Embedded(o, w)
    PROVE  WikiInv'
<1> USE DEF WikiInv, Wiki!Texts, Wiki!Exists, WikiBounds
<1>1. PICK rest : rest = embeds[o] \ {w}  OBVIOUS
<1>2. PICK next : next = IF rest = {} THEN later[o] ELSE NoPage  OBVIOUS
<1>3. PICK again \in BOOLEAN : again <=> next # NoPage /\ text[next] # 0  OBVIOUS
<1>4. PICK ok \in BOOLEAN :
        /\ failed' = IF ok THEN failed ELSE failed \cup {w[2]}
        /\ index' = [p \in Pages |->
                       IF again /\ p = next THEN {}
                       ELSE IF ok /\ p = w[1] THEN index[p] \cup {w[2]} ELSE index[p]]
  BY <1>1, <1>2, <1>3 DEF Wiki!Embedded
<1>5. /\ embeds' = [embeds EXCEPT ![o] = IF again THEN {<<next, text[next]>>} ELSE rest]
      /\ later' = IF rest = {} THEN [later EXCEPT ![o] = NoPage] ELSE later
      /\ opAt' = IF rest = {} /\ ~again THEN [opAt EXCEPT ![o] = "done"] ELSE opAt
      /\ opAt[o] = "embed"
      /\ UNCHANGED <<text, mtime, texts, clock, opDoes, page, target, saw, lost, excused,
                     overlapped>>
  BY <1>1, <1>2, <1>3 DEF Wiki!Embedded
<1>6. w[1] \in Pages /\ w[2] \in 1..MaxTexts /\ w = <<w[1], w[2]>>
  <2>1. w \in Pages \X Wiki!Texts  BY DEF WikiTyped
  <2> QED  BY <2>1
<1>7. next \in Pages \cup {NoPage} /\ (again => next \in Pages /\ text[next] \in 1..MaxTexts)
  <2>1. next \in Pages \cup {NoPage}  BY <1>2 DEF WikiTyped
  <2> QED  BY <1>3, <2>1 DEF WikiTyped
<1>8. rest \subseteq embeds[o]  BY <1>1
<1>9. WikiTyped'
  <2>1. tab' \in [page : Pages \cup {NoPage}, text : 0..MaxTexts, time : 0..MaxClock, own : BOOLEAN]
    <3>1. PICK own : own = (text[w[1]] = w[2])  OBVIOUS
    <3>2. own \in BOOLEAN  BY <3>1, Zenon
    <3>3. tab' = tab \/ tab' = [tab EXCEPT !.text = w[2], !.time = mtime[w[1]], !.own = own]
      BY <3>1, Zenon DEF Wiki!Embedded
    <3>4. w[2] \in 0..MaxTexts /\ mtime[w[1]] \in 0..MaxClock  BY <1>6 DEF WikiTyped
    <3> QED  BY <3>2, <3>3, <3>4 DEF WikiTyped
  <2>2. failed' \subseteq Wiki!Texts /\ index' \in [Pages -> SUBSET Wiki!Texts]
    BY <1>4, <1>6 DEF WikiTyped
  <2>3. embeds' \in [Editors -> SUBSET (Pages \X Wiki!Texts)]
    BY <1>5, <1>7, <1>8 DEF WikiTyped
  <2>4. /\ later' \in [Editors -> Pages \cup {NoPage}]
        /\ opAt' \in [Editors -> {"idle", "gate", "embed", "done"}]
    BY <1>5 DEF WikiTyped
  <2> QED  BY <1>5, <2>1, <2>2, <2>3, <2>4 DEF WikiTyped
<1>10. AtWork'
  BY <1>2, <1>3, <1>5 DEF AtWork, WikiTyped
<1>11. Indexed'
  <2> SUFFICES ASSUME NEW p \in Pages, text[p] # 0, text[p] \notin failed'
               PROVE  \/ text[p] \in index'[p]
                      \/ \E e \in Editors : <<p, text[p]>> \in embeds'[e]
                      \/ \E e \in Editors : later'[e] = p
    BY <1>5 DEF Indexed
  <2>1. text[p] \notin failed  BY <1>4
  <2>2. /\ \A e \in Editors : e # o => embeds'[e] = embeds[e] /\ later'[e] = later[e]
        /\ embeds'[o] = IF again THEN {<<next, text[next]>>} ELSE rest
    BY <1>5 DEF WikiTyped
  <2>3. CASE again /\ p = next  BY <2>2, <2>3
  <2>4. CASE ~(again /\ p = next) /\ text[p] \in index[p]
    <3>1. index'[p] = index[p] \/ index'[p] = index[p] \cup {w[2]}  BY <1>4, <2>4
    <3> QED  BY <2>4, <3>1
  <2>5. ASSUME ~(again /\ p = next), NEW e \in Editors, <<p, text[p]>> \in embeds[e]
        PROVE  text[p] \in index'[p] \/ \E d \in Editors : <<p, text[p]>> \in embeds'[d]
    <3>1. CASE e # o  BY <2>2, <2>5, <3>1
    <3>2. CASE e = o /\ <<p, text[p]>> = w
      <4>1. ok  BY <1>4, <3>2
      <4> QED  BY <1>4, <2>5, <3>2, <4>1
    <3>3. CASE e = o /\ <<p, text[p]>> # w
      <4>1. <<p, text[p]>> \in rest  BY <1>1, <2>5, <3>3
      <4>2. next = NoPage /\ ~again  BY <1>2, <1>3, <4>1
      <4> QED  BY <2>2, <4>1, <4>2
    <3> QED  BY <3>1, <3>2, <3>3
  <2>6. ASSUME ~(again /\ p = next), NEW e \in Editors, later[e] = p  PROVE later'[e] = p
    <3>1. CASE e # o  BY <2>2, <2>6, <3>1
    <3>2. CASE e = o
      <4>1. rest # {}  BY <1>2, <1>3, <2>6, <3>2
      <4> QED  BY <1>5, <2>6, <3>2, <4>1
    <3> QED  BY <3>1, <3>2
  <2> QED  BY <2>1, <2>3, <2>4, <2>5, <2>6 DEF Indexed
<1>12. Current'
  <2> SUFFICES ASSUME NEW p \in Pages \ overlapped
               PROVE  /\ \A e \in Editors : \A x \in embeds'[e] : x[1] = p => x[2] = text[p]
                      /\ \/ index'[p] \subseteq {text[p]}
                         \/ text[p] # 0 /\ \E e \in Editors : later'[e] = p
    BY <1>5 DEF Current
  <2>1. /\ \A e \in Editors : \A x \in embeds[e] : x[1] = p => x[2] = text[p]
        /\ index[p] \subseteq {text[p]} \/ (text[p] # 0 /\ \E e \in Editors : later[e] = p)
    BY DEF Current
  <2>2. /\ \A e \in Editors : e # o => embeds'[e] = embeds[e] /\ later'[e] = later[e]
        /\ embeds'[o] = IF again THEN {<<next, text[next]>>} ELSE rest
    BY <1>5 DEF WikiTyped
  <2>3. \A e \in Editors : \A x \in embeds'[e] : x[1] = p => x[2] = text[p]
    BY <1>8, <2>1, <2>2
  <2>4. CASE again /\ p = next
    <3>1. index'[p] = {}  BY <1>4, <2>4
    <3> QED  BY <2>3, <3>1
  <2>5. CASE ~(again /\ p = next) /\ index[p] \subseteq {text[p]}
    <3>1. index'[p] \subseteq {text[p]}  BY <1>4, <2>1, <2>5
    <3> QED  BY <2>3, <3>1
  <2>6. ASSUME ~(again /\ p = next), text[p] # 0, NEW e \in Editors, later[e] = p
        PROVE later'[e] = p
    <3>1. CASE e # o  BY <2>2, <2>6, <3>1
    <3>2. CASE e = o
      <4>1. rest # {}  BY <1>2, <1>3, <2>6, <3>2
      <4> QED  BY <1>5, <2>6, <3>2, <4>1
    <3> QED  BY <3>1, <3>2
  <2> QED  BY <2>1, <2>3, <2>4, <2>5, <2>6
<1> QED  BY <1>5, <1>9, <1>10, <1>11, <1>12

LEMMA WikiInit == WikiBounds /\ Wiki!Init => WikiInv
<1> SUFFICES ASSUME WikiBounds, Wiki!Init  PROVE WikiInv
  OBVIOUS
<1> USE DEF Wiki!Init
<1>1. WikiTyped
  <2>1. tab \in [page : Pages \cup {NoPage}, text : 0..MaxTexts, time : 0..MaxClock, own : BOOLEAN]
    BY DEF Wiki!NoTab, WikiBounds
  <2> QED  BY <2>1 DEF WikiTyped, WikiBounds, Wiki!Kinds
<1>2. AtWork /\ Indexed /\ Current /\ lost \subseteq excused
  BY DEF AtWork, Indexed, Current
<1> QED  BY <1>1, <1>2 DEF WikiInv

LEMMA WikiStep == WikiBounds /\ WikiInv /\ [Wiki!Next]_(Wiki!vaultVars) => WikiInv'
<1> SUFFICES ASSUME WikiBounds, WikiInv, [Wiki!Next]_(Wiki!vaultVars)  PROVE WikiInv'
  OBVIOUS
<1>1. CASE UNCHANGED Wiki!vaultVars
  <2>1. Still  BY <1>1 DEF Wiki!vaultVars, Still
  <2>2. Indexed' /\ Current'  BY <2>1, StillParts DEF WikiInv
  <2>3. WikiTyped' /\ AtWork' /\ lost' \subseteq excused'
    BY <1>1 DEF Wiki!vaultVars, Wiki!opVars, WikiInv, WikiTyped, AtWork
  <2> QED  BY <2>2, <2>3 DEF WikiInv
<1>2. CASE Wiki!Next
  BY <1>2, TickStep, OpenStep, AskStep, DirectStep, RequestStep, ApprovedStep, RefusedStep,
     SaveStep, ReindexStep, EmbeddedStep DEF Wiki!Next
<1> QED  BY <1>1, <1>2

LEMMA WikiCorrect == WikiBounds /\ Wiki!Spec => []WikiInv
<1> SUFFICES ASSUME WikiBounds PROVE Wiki!Spec => []WikiInv
  OBVIOUS
<1>1. Wiki!Init => WikiInv  BY WikiInit
<1>2. WikiInv /\ [Wiki!Next]_(Wiki!vaultVars) => WikiInv'  BY WikiStep
<1> QED  BY <1>1, <1>2, PTL DEF Wiki!Spec

\* The types, for any number of pages and calls.
THEOREM WikiTypes == WikiBounds /\ Wiki!Spec => []Wiki!TypeOK
<1>1. WikiInv => Wiki!TypeOK  BY DEF WikiInv, WikiTyped, Wiki!TypeOK
<1> QED  BY <1>1, WikiCorrect, PTL

\* The index follows the pages (skills/vault/tools.py, index_entry after the write):
\* when nothing of a page is being embedded its text is found, and no other one
\* where no calls overlapped.
THEOREM WikiIndexed == WikiBounds /\ Wiki!Spec => []Wiki!IndexFollows
<1>1. WikiInv => Wiki!IndexFollows
  <2> SUFFICES ASSUME WikiInv, NEW p \in Pages, ~Wiki!Pending(p)
               PROVE  /\ text[p] # 0 /\ text[p] \notin failed => text[p] \in index[p]
                      /\ p \notin overlapped => index[p] \subseteq {text[p]}
    BY DEF Wiki!IndexFollows, Wiki!Exists
  <2>1. \A o \in Editors : later[o] # p /\ \A w \in embeds[o] : w[1] # p
    BY DEF Wiki!Pending, Wiki!Embedding
  <2>2. \A o \in Editors : <<p, text[p]>> \notin embeds[o]
    BY <2>1
  <2> QED  BY <2>1, <2>2 DEF WikiInv, Indexed, Current
<1> QED  BY <1>1, WikiCorrect, PTL

\* No call destroys a text its author has not seen, but in the windows the code
\* leaves (http_server.py, vault_write; skills/vault/tools.py, the approvals).
THEOREM WikiSeen == WikiBounds /\ Wiki!Spec => []Wiki!NoUnseenLoss
<1>1. WikiInv => Wiki!NoUnseenLoss  BY DEF WikiInv, Wiki!NoUnseenLoss
<1> QED  BY <1>1, WikiCorrect, PTL
================================================================================
