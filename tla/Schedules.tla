------------------------------ MODULE Schedules ------------------------------
(***************************************************************************)
(* The two timers of decafclaw (schedules.py, heartbeat.py) and the ways   *)
(* to start their work by hand: "run now" of the web page and the          *)
(* heartbeat_trigger tool.  A timer decides by the time that was last      *)
(* written to disk; what it starts writes that time, later.  A schedule is *)
(* due once in every unit of the clock.                                    *)
(***************************************************************************)
EXTENDS Integers, FiniteSets

CONSTANTS
    Schedules,  \* enabled schedule files
    Runs,       \* runs that are ever started, of a schedule or of the heartbeat
    Heartbeat,  \* what a run of the heartbeat runs, not a schedule
    MaxTime,    \* bound on the clock
    MaxCrashes  \* bound on crashes

VARIABLES
    mattermost,    \* whether the heartbeat's timer runs the guarded cycle
    up,            \* "up", "closing" or "down"
    now,
    lastRun,       \* the times on disk, 0 for "never"
    running_tasks, \* the timer's schedules in flight
    beat,          \* who holds _heartbeat_lock
    does,          \* where a run is
    of,            \* what it runs
    byTimer,       \* runs the timers started
    conv,          \* the second its conversation is named after
    told,          \* runs with a notification
    cut,           \* runs that a shutdown or a crash ended
    unwritten,     \* runs whose time could not be written
    raced,         \* schedules run by hand between a tick and its first step
    torn,          \* schedules whose file a crash emptied
    ran,           \* when a run of a schedule last began
    twice          \* schedules the timer ran again in that unit of the clock

diskVars == <<lastRun, torn>>
runVars == <<does, of, byTimer, conv>>
verdicts == <<told, cut, unwritten, raced, ran, twice>>
scheduleVars == <<mattermost, up, now, diskVars, running_tasks, beat, runVars, verdicts>>

Works == Schedules \cup {Heartbeat}
Live == {"spawned", "preparing", "turn"}

TypeOK ==
    /\ mattermost \in BOOLEAN /\ up \in {"up", "closing", "down"} /\ now \in 1..MaxTime
    /\ lastRun \in [Works -> 0..MaxTime] /\ running_tasks \subseteq Schedules
    /\ beat \subseteq Runs /\ Cardinality(beat) <= 1
    /\ does \in [Runs -> {"none", "ended"} \cup Live] /\ of \in [Runs -> Works]
    /\ conv \in [Runs -> 0..MaxTime]
    /\ \A r \in Runs : does[r] = "turn" => conv[r] > 0
    /\ byTimer \cup told \cup cut \cup unwritten \subseteq Runs
    /\ raced \cup torn \cup twice \subseteq Schedules /\ ran \in [Schedules -> 0..MaxTime]

Init ==
    /\ mattermost \in BOOLEAN /\ up = "up" /\ now = 1
    /\ lastRun = [w \in Works |-> 0] /\ running_tasks = {} /\ beat = {}
    /\ does = [r \in Runs |-> "none"] /\ of = [r \in Runs |-> Heartbeat]
    /\ byTimer = {} /\ conv = [r \in Runs |-> 0] /\ told = {} /\ cut = {} /\ unwritten = {}
    /\ raced = {} /\ torn = {} /\ twice = {} /\ ran = [s \in Schedules |-> 0]

Due(w) == lastRun[w] = 0 \/ now > lastRun[w]
Alive(r) == does[r] \in Live
Unused == {r \in Runs : does[r] = "none"}

-----------------------------------------------------------------------------
(* Schedules. *)

\* a tick creates a task for every schedule that is due and not in flight; the
\* tasks take their first step after it
ScheduleTick ==
    LET due == {s \in Schedules \ running_tasks : Due(s)}
    IN /\ up = "up" /\ due # {}
       /\ \E pick \in [due -> Unused] :
            /\ \A s, t \in due : pick[s] = pick[t] => s = t
            /\ LET new == {pick[s] : s \in due}
               IN /\ does' = [r \in Runs |-> IF r \in new THEN "spawned" ELSE does[r]]
                  /\ of' = [r \in Runs |-> IF r \in new THEN CHOOSE s \in due : pick[s] = r
                                           ELSE of[r]]
                  /\ byTimer' = byTimer \cup new
       /\ running_tasks' = running_tasks \cup due
    /\ UNCHANGED <<mattermost, up, now, diskVars, beat, conv, verdicts>>

\* mutant: the time is written when the run ends
BeginUnwritten(r) ==
    /\ does' = [does EXCEPT ![r] = "preparing"] /\ conv' = [conv EXCEPT ![r] = now]
    /\ twice' = IF ran[of[r]] = now /\ of[r] \notin raced THEN twice \cup {of[r]} ELSE twice
    /\ ran' = [ran EXCEPT ![of[r]] = now] /\ raced' = raced \ {of[r]}
    /\ UNCHANGED lastRun

\* _run: the time is written, and the conversation is named after the second
Begin(r) ==
    /\ does' = [does EXCEPT ![r] = "preparing"] /\ conv' = [conv EXCEPT ![r] = now]
    /\ twice' = IF ran[of[r]] = now /\ of[r] \notin raced THEN twice \cup {of[r]} ELSE twice
    /\ ran' = [ran EXCEPT ![of[r]] = now] /\ raced' = raced \ {of[r]}
    /\ lastRun' = [lastRun EXCEPT ![of[r]] = now]

FirstStep(r) ==
    /\ up = "up" /\ does[r] = "spawned" /\ of[r] \in Schedules
    /\ Begin(r)
    /\ UNCHANGED <<mattermost, up, now, torn, running_tasks, beat, of, byTimer, told, cut, unwritten>>

\* the timer's finally clause, for every run it started
Discarded(ended) ==
    running_tasks' = running_tasks \ {of[r] : r \in ended \cap byTimer}

\* mutant: a failure to write leaves before the try
UnwrittenStays(r) == UNCHANGED running_tasks

\* the file cannot be written: the run ends with a line in the log
Unwritten(r) == Discarded({r})

WriteFails(r) ==
    /\ up = "up" /\ does[r] = "spawned" /\ of[r] \in Schedules
    /\ does' = [does EXCEPT ![r] = "ended"] /\ unwritten' = unwritten \cup {r}
    /\ Unwritten(r)
    /\ UNCHANGED <<mattermost, up, now, diskVars, beat, of, byTimer, conv, told, cut, raced, ran, twice>>

\* "run now": whether or not the schedule is enabled, or in flight
RunNow(r, s) ==
    /\ up = "up" /\ r \in Unused
    /\ does' = [does EXCEPT ![r] = "preparing"] /\ of' = [of EXCEPT ![r] = s]
    /\ conv' = [conv EXCEPT ![r] = now] /\ lastRun' = [lastRun EXCEPT ![s] = now]
    /\ raced' = IF \E q \in Runs : of[q] = s /\ does[q] = "spawned"
                THEN raced \cup {s} ELSE raced
    /\ ran' = [ran EXCEPT ![s] = now]
    /\ UNCHANGED <<mattermost, up, now, torn, running_tasks, beat, byTimer, told, cut, unwritten, twice>>

\* servers and the pre_script are waited for, and the turn is enqueued
EnqueueTurn(r) ==
    /\ does[r] = "preparing" /\ does' = [does EXCEPT ![r] = "turn"]
    /\ UNCHANGED <<mattermost, up, now, diskVars, running_tasks, beat, of, byTimer, conv, verdicts>>

\* the run ends: with a notification, unless its answer is [SILENT]
RunEnds(r, silent) ==
    /\ does[r] \in {"preparing", "turn"} /\ of[r] \in Schedules
    /\ silent => does[r] = "turn"
    /\ does' = [does EXCEPT ![r] = "ended"]
    /\ told' = IF silent THEN told ELSE told \cup {r}
    /\ Discarded({r})
    /\ UNCHANGED <<mattermost, up, now, diskVars, beat, of, byTimer, conv, cut, unwritten, raced, ran, twice>>

-----------------------------------------------------------------------------
(* The heartbeat. *)

\* a tick writes the time and then runs the cycle inside the timer: with
\* Mattermost the guarded one, which is skipped while another holds the lock
HeartbeatTick(r) ==
    /\ up = "up" /\ r \in Unused /\ Due(Heartbeat)
    /\ \A q \in byTimer : of[q] = Heartbeat => ~Alive(q)
    /\ lastRun' = [lastRun EXCEPT ![Heartbeat] = now]
    /\ of' = [of EXCEPT ![r] = Heartbeat] /\ conv' = [conv EXCEPT ![r] = now]
    /\ byTimer' = byTimer \cup {r}
    /\ IF mattermost /\ beat # {}
       THEN does' = [does EXCEPT ![r] = "ended"] /\ UNCHANGED beat
       ELSE /\ does' = [does EXCEPT ![r] = "turn"]
            /\ beat' = IF mattermost THEN {r} ELSE beat
    /\ UNCHANGED <<mattermost, up, now, torn, running_tasks, verdicts>>

\* heartbeat_trigger creates a task when nobody holds the lock
HeartbeatTrigger(r) ==
    /\ up = "up" /\ r \in Unused /\ beat = {}
    /\ of' = [of EXCEPT ![r] = Heartbeat] /\ does' = [does EXCEPT ![r] = "spawned"]
    /\ UNCHANGED <<mattermost, up, now, diskVars, running_tasks, beat, byTimer, conv, verdicts>>

\* mutant: the task relies on the tool's own look at the lock
GuardSkipped(r) ==
    /\ does' = [does EXCEPT ![r] = "turn"]
    /\ beat' = {r} /\ conv' = [conv EXCEPT ![r] = now]

\* _guarded_heartbeat looks again
Guard(r) ==
    IF beat # {}
    THEN does' = [does EXCEPT ![r] = "ended"] /\ UNCHANGED <<beat, conv>>
    ELSE /\ does' = [does EXCEPT ![r] = "turn"]
         /\ beat' = {r} /\ conv' = [conv EXCEPT ![r] = now]

GuardedHeartbeat(r) ==
    /\ up = "up" /\ does[r] = "spawned" /\ of[r] = Heartbeat
    /\ Guard(r)
    /\ UNCHANGED <<mattermost, up, now, diskVars, running_tasks, of, byTimer, verdicts>>

CycleEnds(r) ==
    /\ does[r] = "turn" /\ of[r] = Heartbeat
    /\ does' = [does EXCEPT ![r] = "ended"] /\ beat' = beat \ {r}
    /\ told' = told \cup {r}
    /\ UNCHANGED <<mattermost, up, now, diskVars, running_tasks, of, byTimer, conv, cut, unwritten, raced, ran, twice>>

-----------------------------------------------------------------------------
(* The process. *)

Clock ==
    /\ up = "up" /\ now < MaxTime /\ now' = now + 1
    /\ UNCHANGED <<mattermost, up, diskVars, running_tasks, beat, runVars, verdicts>>

\* run_all cancels the timers, and with the gather of the schedule timer the
\* runs it was to wait for; runs that were started by hand go on
Shutdown ==
    LET ended == {r \in byTimer : Alive(r)}
    IN /\ up = "up" /\ up' = "closing"
       /\ does' = [r \in Runs |-> IF r \in ended THEN "ended" ELSE does[r]]
       /\ cut' = cut \cup ended /\ beat' = beat \ ended /\ Discarded(ended \ {r \in ended : of[r] = Heartbeat})
    /\ UNCHANGED <<mattermost, now, diskVars, of, byTimer, conv, told, unwritten, raced, ran, twice>>

\* the process ends, by itself or by a crash, which may catch write_text
\* between the truncation and the write
Exit(torn_) ==
    /\ IF up = "closing" THEN torn_ = {} ELSE up = "up" /\ Cardinality(torn) < MaxCrashes
    /\ torn_ \subseteq {s \in Schedules : lastRun[s] = now} /\ Cardinality(torn_) <= 1
    /\ up' = "down" /\ torn' = torn \cup torn_
    /\ lastRun' = [w \in Works |-> IF w \in torn_ THEN 0 ELSE lastRun[w]]
    /\ does' = [r \in Runs |-> IF Alive(r) THEN "ended" ELSE does[r]]
    /\ cut' = cut \cup {r \in Runs : Alive(r)}
    /\ running_tasks' = {} /\ beat' = {} /\ raced' = {}
    /\ UNCHANGED <<mattermost, now, of, byTimer, conv, told, unwritten, ran, twice>>

Start ==
    /\ up = "down" /\ up' = "up"
    /\ UNCHANGED <<mattermost, now, diskVars, running_tasks, beat, runVars, verdicts>>

Next ==
    \/ ScheduleTick \/ Clock \/ Shutdown \/ Start
    \/ \E torn_ \in SUBSET Schedules : Exit(torn_)
    \/ \E r \in Runs :
        \/ FirstStep(r) \/ WriteFails(r) \/ EnqueueTurn(r)
        \/ \E s \in Schedules : RunNow(r, s)
        \/ \E silent \in BOOLEAN : RunEnds(r, silent)
        \/ HeartbeatTick(r) \/ HeartbeatTrigger(r) \/ GuardedHeartbeat(r) \/ CycleEnds(r)

Spec == Init /\ [][Next]_scheduleVars

-----------------------------------------------------------------------------
(* Properties. *)

\* A schedule the timer skips as "still running" has a run of the timer that is
\* still alive: one that failed, was cut or never began does not block it.
NoScheduleIsStranded ==
    \A s \in running_tasks : \E r \in byTimer : of[r] = s /\ Alive(r)

\* The timer runs an occurrence once, whatever is run by hand before, and
\* whichever crash comes between, unless the file was emptied by it or "run now"
\* came between the tick and the run's first step; two runs of one schedule by
\* the timer are never in progress together.
OccurrencesRunOnce ==
    /\ twice \subseteq torn
    /\ \A q, r \in byTimer :
         q # r /\ of[q] = of[r] /\ Alive(q) => ~Alive(r)

\* With Mattermost there is one heartbeat cycle at a time, the timer's or one
\* that was triggered, so no two share the conversations of their sections.
CyclesTakeTurns ==
    mattermost => \A q, r \in Runs :
        of[q] = Heartbeat /\ of[r] = Heartbeat /\ does[q] = "turn" /\ does[r] = "turn" => q = r
=============================================================================
