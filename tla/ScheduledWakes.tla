--------------------------- MODULE ScheduledWakes ---------------------------
(***************************************************************************)
(* The scheduled wakes of one conversation: the sidecar file that outlives *)
(* the process, the asyncio timers in memory, the hand-over of a due wake  *)
(* to enqueue_turn, and its way through the inbox.                         *)
(*                                                                         *)
(* Two asyncio locks meet here: self._lock of the ScheduledWakeManager and *)
(* state.lock of the conversation.  Code that finds its lock free does not *)
(* yield; an action runs from one suspension to the next.  Of the turns of *)
(* the conversation only what a wake can observe is kept: who holds        *)
(* state.lock, the busy flag and the inbox.  TurnQueue has the rest.       *)
(***************************************************************************)
EXTENDS Integers, Sequences

CONSTANTS
    Wakes,       \* schedule_ids
    Other,       \* any other turn of the conversation
    Faulty,      \* appending to the inbox or starting a turn may raise
    MaxCrashes,  \* bound on process deaths
    None         \* Python's None

ASSUME Parameters ==
    /\ Faulty \in BOOLEAN /\ MaxCrashes \in Nat
    /\ Other \notin Wakes /\ None \notin Wakes /\ Other # None

VARIABLES
    sidecar,  \* status of an entry in scheduled_wakes/<conv>.json, "none" if absent
    tasks,    \* keys of self._tasks
    timer,    \* where the latest timer task of a wake is
    found,    \* entries a startup scan has read and not come to yet
    scans,    \* startup scans done by this process
    cancel,   \* where the call cancel(w) is
    wlock,    \* the cancel(w) that holds self._lock over an await
    inbox,    \* wakes in inbox.jsonl
    conv,     \* holder of state.lock
    busy,     \* state.busy
    turn,     \* the turn that runs
    phase,    \* of the process
    begun,    \* turns that were started for a wake
    lost,     \* wakes popped for a turn that never got a task
    stale,    \* wakes whose status was out of date when somebody relied on it
    withdrawn,  \* wakes taken out of the sidecar by cancel or with the conversation
    crashes

wakeVars == <<sidecar, tasks, timer>>
scanVars == <<found, scans>>
convVars == <<inbox, conv, busy, turn>>
history  == <<begun, lost, stale, withdrawn>>
vars == <<wakeVars, scanVars, cancel, wlock, convVars, phase, history, crashes>>

Queued == {inbox[i] : i \in 1..Len(inbox)}

\* sleep: asleep, or due and waiting for self._lock; enqueue: inside
\* enqueue_turn; starting: inside _start_turn; recordQueued, recordStarted:
\* enqueue_turn returned and self._lock is taken; failed: it raised
Recording == {"recordQueued", "recordStarted"}
LiveTimer == {"sleep", "enqueue", "starting"} \cup Recording
TimerPC   == LiveTimer \cup {"none", "failed", "done"}
CancelPC  == {"idle", "lock", "inbox", "true", "false", "gone"}

Free     == <<"free", None>>
Timer(w) == <<"timer", w>>
Drain(w) == <<"drain", w>>
Holders  == {"free", "timer", "drain", "other"} \X (Wakes \cup {Other, None})

TypeOK ==
    /\ sidecar \in [Wakes -> {"none", "pending", "queued"}]
    /\ tasks \subseteq Wakes
    /\ timer \in [Wakes -> TimerPC]
    /\ found \subseteq Wakes
    /\ scans \in 0..2
    /\ cancel \in [Wakes -> CancelPC]
    /\ wlock \in Wakes \cup {None}
    /\ inbox \in Seq(Wakes)
    /\ conv \in Holders
    /\ busy \in BOOLEAN
    /\ turn \in Wakes \cup {Other, None}
    /\ phase \in {"up", "closing", "down"}
    /\ begun \in [Wakes -> Nat]
    /\ lost \subseteq Wakes /\ stale \subseteq Wakes /\ withdrawn \subseteq Wakes
    /\ crashes \in 0..MaxCrashes

\* the first scan of startup_scan found no file; runner.py scans once more
Init ==
    /\ sidecar = [w \in Wakes |-> "none"] /\ tasks = {}
    /\ timer = [w \in Wakes |-> "none"]
    /\ found = {} /\ scans = 1
    /\ cancel = [w \in Wakes |-> "idle"] /\ wlock = None
    /\ inbox = <<>> /\ conv = Free /\ busy = FALSE /\ turn = None
    /\ phase = "up" /\ begun = [w \in Wakes |-> 0] /\ lost = {}
    /\ stale = {} /\ withdrawn = {} /\ crashes = 0

Alive == phase # "down"

-----------------------------------------------------------------------------
(* schedule, and the timer up to enqueue_turn *)

Schedule(w) ==
    /\ phase = "up" /\ wlock = None
    /\ timer[w] = "none"
    /\ sidecar' = [sidecar EXCEPT ![w] = "pending"]
    /\ tasks' = tasks \cup {w}
    /\ timer' = [timer EXCEPT ![w] = "sleep"]
    /\ UNCHANGED <<scanVars, cancel, wlock, convVars, phase, history, crashes>>

\* mutant: the timer leaves self._tasks as soon as it fires
FireUntracked(w) ==
    /\ timer[w] = "sleep" /\ wlock = None
    /\ timer' = [timer EXCEPT ![w] = IF sidecar[w] = "none" THEN "done" ELSE "enqueue"]
    /\ tasks' = tasks \ {w}
    /\ UNCHANGED <<sidecar, scanVars, cancel, wlock, convVars, phase, history, crashes>>

\* due: an entry that left the sidecar is dropped, any other is enqueued
Fire(w) ==
    /\ timer[w] = "sleep" /\ wlock = None
    /\ IF sidecar[w] = "none"
       THEN /\ timer' = [timer EXCEPT ![w] = "done"]
            /\ tasks' = tasks \ {w}
       ELSE /\ timer' = [timer EXCEPT ![w] = "enqueue"]
            /\ tasks' = tasks
    /\ UNCHANGED <<sidecar, scanVars, cancel, wlock, convVars, phase, history, crashes>>

\* mutant: a rate-limited wake is taken for a dispatched one
RateLimitedDropped(w) ==
    /\ timer[w] = "enqueue" /\ conv = Free
    /\ timer' = [timer EXCEPT ![w] = "done"]
    /\ sidecar' = [sidecar EXCEPT ![w] = "none"]
    /\ tasks' = tasks \ {w}
    /\ UNCHANGED <<scanVars, cancel, wlock, convVars, phase, history, crashes>>

\* over the wake limit: the timer is armed again
RateLimited(w) ==
    /\ timer[w] = "enqueue" /\ conv = Free
    /\ timer' = [timer EXCEPT ![w] = "sleep"]
    /\ UNCHANGED <<sidecar, tasks, scanVars, cancel, wlock, convVars, phase, history, crashes>>

\* mutant: a started wake keeps its entry, with a status no reader knows
RecordAsStarted(w, how) ==
    /\ tasks' = tasks \ {w}
    /\ timer' = [timer EXCEPT ![w] = "done"]
    /\ sidecar' = [sidecar EXCEPT ![w] = IF how = "recordQueued" THEN "queued" ELSE "started"]

\* What the timer writes when enqueue_turn has accepted the wake: a queued one
\* stays in the sidecar until the drain, a started one leaves it.
RecordAs(w, how) ==
    /\ tasks' = tasks \ {w}
    /\ timer' = [timer EXCEPT ![w] = "done"]
    /\ sidecar' = [sidecar EXCEPT ![w] =
                     IF how = "recordQueued" /\ @ # "none" THEN "queued" ELSE "none"]

\* enqueue_turn returned to the timer, which needs self._lock next
Return(w, how) ==
    IF wlock = None
    THEN RecordAs(w, how)
    ELSE /\ timer' = [timer EXCEPT ![w] = how]
         /\ UNCHANGED <<tasks, sidecar>>

Queue(w) ==
    /\ timer[w] = "enqueue" /\ conv = Free /\ busy
    /\ inbox' = Append(inbox, w)
    /\ Return(w, "recordQueued")
    /\ UNCHANGED <<scanVars, cancel, wlock, conv, busy, turn, phase, history, crashes>>

StartNow(w) ==
    /\ timer[w] = "enqueue" /\ conv = Free /\ ~busy
    /\ timer' = [timer EXCEPT ![w] = "starting"]
    /\ conv' = Timer(w) /\ busy' = TRUE
    /\ UNCHANGED <<sidecar, tasks, scanVars, cancel, wlock, inbox, turn, phase, history, crashes>>

\* the task of the turn exists
TurnBegins(w) ==
    /\ conv' = Free /\ turn' = w
    /\ begun' = [begun EXCEPT ![w] = @ + 1]

\* mutant: the record is made before state.lock is released
StartedUnderLock(w) ==
    /\ timer[w] = "starting" /\ wlock = None
    /\ TurnBegins(w)
    /\ RecordAs(w, "recordStarted")
    /\ UNCHANGED <<scanVars, cancel, wlock, inbox, busy, phase, lost, stale, withdrawn, crashes>>

Started(w) ==
    /\ timer[w] = "starting"
    /\ TurnBegins(w)
    /\ Return(w, "recordStarted")
    /\ UNCHANGED <<scanVars, cancel, wlock, inbox, busy, phase, lost, stale, withdrawn, crashes>>

Record(w) ==
    /\ timer[w] \in Recording /\ wlock = None
    /\ RecordAs(w, timer[w])
    /\ UNCHANGED <<scanVars, cancel, wlock, convVars, phase, history, crashes>>

\* the append to the inbox raises, or _start_turn does, which leaves the
\* conversation busy; the dead task stays in self._tasks
EnqueueFails(w) ==
    /\ Faulty
    /\ \/ timer[w] = "enqueue" /\ conv = Free /\ conv' = conv
       \/ timer[w] = "starting" /\ conv' = Free
    /\ timer' = [timer EXCEPT ![w] = "failed"]
    /\ UNCHANGED <<sidecar, tasks, scanVars, cancel, wlock, inbox, busy, turn, phase,
                   history, crashes>>

-----------------------------------------------------------------------------
(* cancel, deletion of the conversation, shutdown *)

CancelCall(w) ==
    /\ Alive /\ cancel[w] = "idle" /\ timer[w] # "none"
    /\ cancel' = [cancel EXCEPT ![w] = "lock"]
    /\ UNCHANGED <<wakeVars, scanVars, wlock, convVars, phase, history, crashes>>

\* The timers of gone die of a CancelledError.  One inside _start_turn takes
\* the turn with it: busy is rolled back while the status is published, and
\* not at a later await.
KillTimers(gone) ==
    /\ timer' = [w \in Wakes |-> IF w \in gone /\ timer[w] \in LiveTimer THEN "done" ELSE timer[w]]
    /\ IF \E w \in gone : conv = Timer(w)
       THEN conv' = Free /\ busy' \in BOOLEAN
       ELSE UNCHANGED <<conv, busy>>

\* entry and timer go; a queued wake has its inbox entry removed as well,
\* under state.lock and with self._lock still held
CancelEntry(w) ==
    /\ cancel[w] = "lock" /\ wlock = None
    /\ IF sidecar[w] = "none"
       THEN /\ cancel' = [cancel EXCEPT ![w] = "false"]
            /\ UNCHANGED <<wakeVars, conv, busy, wlock, stale, withdrawn>>
       ELSE /\ sidecar' = [sidecar EXCEPT ![w] = "none"]
            /\ withdrawn' = withdrawn \cup {w}
            /\ stale' = IF sidecar[w] = "pending" /\ w \in Queued THEN stale \cup {w} ELSE stale
            /\ KillTimers(tasks \cap {w})
            /\ tasks' = tasks \ {w}
            /\ IF sidecar[w] = "queued"
               THEN wlock' = w /\ cancel' = [cancel EXCEPT ![w] = "inbox"]
               ELSE wlock' = wlock /\ cancel' = [cancel EXCEPT ![w] = "true"]
    /\ UNCHANGED <<scanVars, inbox, turn, phase, begun, lost, crashes>>

\* mutant: the inbox is left alone
CancelQueuedKeepsMessage(w) ==
    /\ cancel[w] = "inbox" /\ conv = Free
    /\ wlock' = None
    /\ cancel' = [cancel EXCEPT ![w] = "true"]
    /\ UNCHANGED <<wakeVars, scanVars, convVars, phase, history, crashes>>

\* the entries of w leave the inbox, the others keep their order
RemoveFromInbox(w) ==
    LET others == {i \in 1..Len(inbox) : inbox[i] # w}
    IN  \E n \in 0..Len(inbox) : \E at \in [1..n -> others] :
            /\ \A i, j \in 1..n : i < j => at[i] < at[j]
            /\ \A k \in others : \E i \in 1..n : at[i] = k
            /\ inbox' = [i \in 1..n |-> inbox[at[i]]]

CancelQueued(w) ==
    /\ cancel[w] = "inbox" /\ conv = Free
    /\ RemoveFromInbox(w)
    /\ wlock' = None
    /\ cancel' = [cancel EXCEPT ![w] = "true"]
    /\ UNCHANGED <<wakeVars, scanVars, conv, busy, turn, phase, history, crashes>>

\* cancel_all_for_conversation, then delete_conversation_files, no await between
DeleteConversation ==
    /\ phase = "up" /\ wlock = None /\ \E w \in Wakes : sidecar[w] # "none"
    /\ LET listed == {w \in Wakes : sidecar[w] # "none"}
       IN  /\ KillTimers(tasks \cap listed)
           /\ tasks' = tasks \ listed
           /\ withdrawn' = withdrawn \cup listed
    /\ sidecar' = [w \in Wakes |-> "none"]
    /\ inbox' = <<>>
    /\ UNCHANGED <<scanVars, cancel, wlock, turn, phase, begun, lost, stale, crashes>>

\* accepted by enqueue_turn, still pending on disk
Unrecorded == {w \in Wakes : timer[w] \in Recording}

\* the timers are cancelled and awaited under self._lock, the sidecar is kept
Shutdown ==
    /\ phase = "up" /\ wlock = None /\ crashes < MaxCrashes
    /\ phase' = "closing"
    /\ KillTimers(tasks)
    /\ tasks' = {}
    /\ stale' = stale \cup Unrecorded
    /\ UNCHANGED <<sidecar, scanVars, cancel, wlock, inbox, turn, begun, lost, withdrawn, crashes>>

-----------------------------------------------------------------------------
(* the conversation: other turns, and _drain_pending *)

OtherTakesLock ==
    /\ Alive /\ conv = Free
    /\ conv' = <<"other", Other>>
    /\ UNCHANGED <<wakeVars, scanVars, cancel, wlock, inbox, busy, turn, phase, history, crashes>>

\* it started a turn, or queued one behind the turn that runs
OtherReleases ==
    /\ conv = <<"other", Other>>
    /\ conv' = Free /\ busy' = TRUE
    /\ turn' = IF busy THEN turn ELSE Other
    /\ UNCHANGED <<wakeVars, scanVars, cancel, wlock, inbox, phase, history, crashes>>

TurnEnds ==
    /\ turn # None /\ conv = Free
    /\ turn' = None /\ busy' = FALSE
    /\ UNCHANGED <<wakeVars, scanVars, cancel, wlock, inbox, conv, phase, history, crashes>>

\* inbox entry and sidecar record go before the turn has a task
PopWake ==
    LET w == Head(inbox)
    IN  /\ inbox' = Tail(inbox)
        /\ sidecar' = [sidecar EXCEPT ![w] = "none"]
        /\ conv' = Drain(w) /\ busy' = TRUE

DrainPending ==
    /\ Alive /\ conv = Free /\ ~busy /\ inbox # <<>>
    /\ PopWake
    /\ UNCHANGED <<tasks, timer, scanVars, cancel, wlock, turn, phase, history, crashes>>

Drained(w) ==
    /\ conv = Drain(w)
    /\ TurnBegins(w)
    /\ UNCHANGED <<wakeVars, scanVars, cancel, wlock, inbox, busy, phase, lost, stale, withdrawn, crashes>>

DrainFails(w) ==
    /\ Faulty /\ conv = Drain(w)
    /\ conv' = Free
    /\ lost' = lost \cup {w}
    /\ UNCHANGED <<wakeVars, scanVars, cancel, wlock, inbox, busy, turn, phase, begun, stale, withdrawn, crashes>>

-----------------------------------------------------------------------------
(* death and restart of the process *)

Crash ==
    /\ Alive /\ crashes < MaxCrashes
    /\ phase' = "down" /\ crashes' = crashes + 1
    /\ tasks' = {} /\ found' = {} /\ scans' = 0 /\ wlock' = None
    /\ timer' = [w \in Wakes |-> IF timer[w] = "none" THEN "none" ELSE "done"]
    /\ cancel' = [w \in Wakes |-> IF cancel[w] \in {"lock", "inbox"} THEN "gone" ELSE cancel[w]]
    /\ conv' = Free /\ busy' = FALSE /\ turn' = None
    /\ lost' = lost \cup {w \in Wakes : conv = Drain(w)}
    /\ stale' = stale \cup Unrecorded
    /\ UNCHANGED <<sidecar, inbox, begun, withdrawn>>

\* startup_scan, phase 3: one drain of the inbox
Restart ==
    /\ phase = "down"
    /\ phase' = "up"
    /\ IF inbox = <<>> THEN UNCHANGED <<inbox, sidecar, conv, busy>> ELSE PopWake
    /\ UNCHANGED <<tasks, timer, scanVars, cancel, wlock, turn, history, crashes>>

\* a timer for every entry of news that has none
Arm(news) ==
    /\ tasks' = tasks \cup news
    /\ timer' = [w \in Wakes |-> IF w \in news \ tasks THEN "sleep" ELSE timer[w]]

\* mutant: entries marked queued are armed as well
ScanIgnoresStatus ==
    /\ phase = "up" /\ scans < 2
    /\ scans = 0 => conv = Free
    /\ scans' = scans + 1
    /\ LET listed == {w \in Wakes : sidecar[w] # "none"}
       IN  IF wlock = None
           THEN Arm(listed) /\ found' = {}
           ELSE UNCHANGED <<tasks, timer>> /\ found' = listed
    /\ UNCHANGED <<sidecar, cancel, wlock, convVars, phase, history, crashes>>

\* startup_scan_conversation: the file is read without the lock, each timer is
\* created under it.  Once in phase 4, once when the transports listen.
Scan ==
    /\ phase = "up" /\ scans < 2
    /\ scans = 0 => conv = Free
    /\ scans' = scans + 1
    /\ LET pending == {w \in Wakes : sidecar[w] = "pending"}
       IN  IF wlock = None
           THEN Arm(pending) /\ found' = {}
           ELSE UNCHANGED <<tasks, timer>> /\ found' = pending
    /\ UNCHANGED <<sidecar, cancel, wlock, convVars, phase, history, crashes>>

ScanArms(w) ==
    /\ phase = "up" /\ w \in found /\ wlock = None
    /\ found' = found \ {w}
    /\ Arm({w})
    /\ stale' = IF w \in tasks THEN stale ELSE stale \cup {w}
    /\ UNCHANGED <<sidecar, scans, cancel, wlock, convVars, phase, begun, lost, withdrawn, crashes>>

-----------------------------------------------------------------------------
Enqueue(w) == Queue(w) \/ StartNow(w)

Next ==
    \/ \E w \in Wakes :
         \/ Schedule(w) \/ Fire(w) \/ RateLimited(w) \/ Enqueue(w) \/ EnqueueFails(w)
         \/ Started(w) \/ Record(w)
         \/ CancelCall(w) \/ CancelEntry(w) \/ CancelQueued(w) \/ Drained(w) \/ DrainFails(w) \/ ScanArms(w)
    \/ OtherTakesLock \/ OtherReleases \/ TurnEnds \/ DrainPending
    \/ DeleteConversation \/ Shutdown \/ Crash \/ Restart \/ Scan

Spec == Init /\ [][Next]_vars

(* The event loop runs what is ready and its locks are first come first      *)
(* served; a wake over the limit is within it when the window has moved on.  *)
(* Neither turns nor drains need to be fair.                                 *)
Released == OtherReleases \/ \E w \in Wakes : Started(w) \/ Drained(w)
Locked == \E w \in Wakes : Record(w) \/ CancelEntry(w) \/ ScanArms(w)

Fairness ==
    /\ WF_vars(Released) /\ WF_vars(Locked) /\ SF_vars(\E w \in Wakes : CancelQueued(w))
    /\ \A w \in Wakes : WF_vars(Fire(w)) /\ SF_vars(Enqueue(w))
    /\ WF_vars(Restart) /\ SF_vars(Scan)

FairSpec == Spec /\ Fairness

-----------------------------------------------------------------------------
(* Properties *)

\* Every timer that may still fire is a key of self._tasks, so that cancel,
\* deletion and shutdown reach it, through re-arming, scans and failures.
TimersAreReachable == \A w \in Wakes : timer[w] \in LiveTimer => w \in tasks

\* A wake that was accepted is not forgotten, whatever scan, drain, cancel and
\* timer do at the same time: until its turn begins it is in the inbox, being
\* started, or in the sidecar with a timer, or with a scan to come.
Scanned == phase = "up" /\ scans > 0
NothingForgotten ==
    \A w \in Wakes :
        timer[w] # "none" /\ begun[w] = 0 /\ w \notin withdrawn \cup lost =>
            \/ w \in Queued
            \/ conv = Drain(w)
            \/ /\ sidecar[w] = "pending"
               /\ Scanned => timer[w] \in LiveTimer \cup {"failed"} \/ w \in found

\* A wake runs once over all processes.  Not one whose record had still to say
\* that it was accepted when the process stopped or a second scan read the file.
RunsOnce == \A w \in Wakes \ stale : begun[w] <= 1

\* schedule_cancel returned TRUE: no turn of that wake begins any more.  Not for
\* a wake whose record had still to say that it is in the inbox.
CancelledStaysCancelled ==
    [][\A w \in Wakes \ stale : cancel[w] = "true" => begun'[w] = begun[w]]_vars

\* Every pending wake is handed over or withdrawn: no timer is left waiting for
\* a lock or for a scan, unless it failed or the process stops.
PendingIsHandedOver ==
    \A w \in Wakes :
        sidecar[w] = "pending"
            ~> sidecar[w] # "pending" \/ timer[w] = "failed" \/ phase # "up"
=============================================================================
