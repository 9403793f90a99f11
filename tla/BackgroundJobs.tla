--------------------------- MODULE BackgroundJobs ---------------------------
(***************************************************************************)
(* The background processes of skills/background/tools.py: a registry of   *)
(* job managers, one per conversation; a reader task per job, which tells  *)
(* of its exit; and the tools, which start jobs, stop them, and sweep the  *)
(* expired ones before anything else.  Tools of several conversations and  *)
(* of one batch run at the same time.                                      *)
(***************************************************************************)
EXTENDS Integers, FiniteSets

CONSTANTS
    Convs,       \* conversations
    Jobs,        \* jobs, before they are started too
    Tools,       \* tool calls
    NoJob,       \* no job
    MaxManagers, \* bound on the managers made
    MaxAborts    \* bound on the tool calls cancelled

VARIABLES
    manager,   \* _managers: the manager of a conversation, 0 for none
    managers,  \* managers made so far
    jobs,      \* the jobs dict of each manager
    proc,      \* the process of a job
    reader,    \* its reader task: where it is suspended
    status, finalized, \* fields of BackgroundJob
    overdue,   \* jobs older than their max_lifetime
    told,      \* how often its exit reached the archive, the inbox, the agent
    does,      \* what a tool call is for
    at,        \* where it is suspended
    with,      \* the manager it fetched
    on,        \* the job it works on
    sweep,     \* jobs of cleanup_expired's list still to visit
    stale,     \* its to_remove
    strays,    \* jobs started with a manager that had left the registry
    cut,       \* jobs whose telling was cancelled half way
    aborts

jobVars == <<manager, managers, jobs, proc, reader, status, finalized, overdue, told, does,
             at, with, on, sweep, stale, strays, cut, aborts>>

News == {"row", "inbox", "wake"}
Telling == {"row", "inbox"}     \* suspended after the row, after the inbox
Final == {"completed", "error", "expired", "stopped"}

TypeOK ==
    /\ manager \in [Convs -> 0..MaxManagers] /\ managers \in 0..MaxManagers
    /\ jobs \in [1..MaxManagers -> SUBSET Jobs]
    /\ proc \in [Jobs -> {"none", "alive", "exited"}]
    /\ reader \in [Jobs -> {"none", "reading", "done"} \cup Telling]
    /\ status \in [Jobs -> {"running"} \cup Final]
    /\ {finalized, overdue, strays, cut} \subseteq SUBSET Jobs
    /\ told \in [Jobs -> [News -> Nat]]
    /\ does \in [Tools -> {"none", "start", "stop", "list"}]
    /\ at \in [Tools -> {"idle", "spawn", "kill", "exiting", "joined", "final", "done"} \cup Telling]
    /\ with \in [Tools -> 0..MaxManagers] /\ on \in [Tools -> Jobs \cup {NoJob}]
    /\ {sweep[t] : t \in Tools} \cup {stale[t] : t \in Tools} \subseteq SUBSET Jobs
    /\ aborts \in 0..MaxAborts

Init ==
    /\ manager = [v \in Convs |-> 0] /\ managers = 0
    /\ jobs = [m \in 1..MaxManagers |-> {}]
    /\ proc = [j \in Jobs |-> "none"] /\ reader = [j \in Jobs |-> "none"]
    /\ status = [j \in Jobs |-> "running"]
    /\ finalized = {} /\ overdue = {} /\ strays = {} /\ cut = {}
    /\ told = [j \in Jobs |-> [n \in News |-> 0]]
    /\ does = [t \in Tools |-> "none"] /\ at = [t \in Tools |-> "idle"]
    /\ with = [t \in Tools |-> 0] /\ on = [t \in Tools |-> NoJob]
    /\ sweep = [t \in Tools |-> {}] /\ stale = [t \in Tools |-> {}]
    /\ aborts = 0

toolVars == <<does, at, with, on, sweep, stale>>
Goto(t, place) == at' = [at EXCEPT ![t] = place]
Tell(j, n) == told' = [told EXCEPT ![j][n] = @ + 1]

-----------------------------------------------------------------------------
(* _get_job_manager: makes the conversation's manager, drops the empty     *)
(* managers of the others.                                                 *)

\* mutant: whether they are empty is not looked at
DroppedAll(v) == {u \in Convs \ {v} : manager[u] # 0}
Dropped(v) == {u \in Convs \ {v} : manager[u] # 0 /\ jobs[manager[u]] = {}}

GetManager(t, v) ==
    LET m == IF manager[v] = 0 THEN managers + 1 ELSE manager[v]
    IN  /\ m <= MaxManagers
        /\ managers' = IF manager[v] = 0 THEN m ELSE managers
        /\ manager' = [u \in Convs |-> IF u = v THEN m ELSE IF u \in Dropped(v) THEN 0 ELSE manager[u]]
        /\ with' = [with EXCEPT ![t] = m]

CancelReader(j) ==
    /\ reader' = [reader EXCEPT ![j] = "done"]
    /\ cut' = IF reader[j] \in Telling THEN cut \cup {j} ELSE cut

\* _kill_process and the cancellation of the reader: the tool waits for a process
\* that lives, and then for the reader
Kill(t, j) ==
    IF proc[j] = "alive" THEN Goto(t, "kill") /\ UNCHANGED <<reader, cut>>
                         ELSE Goto(t, "joined") /\ CancelReader(j)

\* cleanup_expired of manager m from here on: up to the next job it kills, or to
\* the end, where a job that another sweep removed is a KeyError
SweepOn(t, m, starts, todo, dumped) ==
    LET expired == {j \in todo : j \in overdue /\ status[j] = "running"}
        removed == dumped \cup (todo \cap overdue)
    IN  \/ \E j \in expired, before \in SUBSET (todo \ expired) :
             /\ on' = [on EXCEPT ![t] = j] /\ Kill(t, j)
             /\ sweep' = [sweep EXCEPT ![t] = todo \ (before \cup {j})]
             /\ stale' = [stale EXCEPT ![t] = dumped \cup (before \cap overdue)]
             /\ UNCHANGED jobs
        \/ /\ expired = {}
           /\ sweep' = [sweep EXCEPT ![t] = {}] /\ stale' = [stale EXCEPT ![t] = {}]
           /\ jobs' = [jobs EXCEPT ![m] = @ \ removed]
           /\ Goto(t, IF starts /\ removed \subseteq jobs[m] THEN "spawn" ELSE "done")
           /\ UNCHANGED <<on, reader, cut>>

\* tool_shell_background_start, _status, _list: sweep first
Call(t, v, what) ==
    /\ at[t] = "idle"
    /\ GetManager(t, v)
    /\ does' = [does EXCEPT ![t] = what]
    /\ SweepOn(t, with'[t], what = "start", jobs[with'[t]], {})
    /\ UNCHANGED <<proc, status, finalized, overdue, told, strays, aborts>>

\* tool_shell_background_stop.  A finished job is finalized, if it was not; if
\* only its process has exited, the reader gets a second to notice.
CallStop(t, v, j) ==
    /\ at[t] = "idle"
    /\ GetManager(t, v)
    /\ j \in jobs[with'[t]]
    /\ does' = [does EXCEPT ![t] = "stop"] /\ on' = [on EXCEPT ![t] = j]
    /\ Goto(t, IF status[j] # "running" THEN "final" ELSE IF proc[j] = "exited" THEN "exiting" ELSE "kill")
    /\ UNCHANGED <<jobs, proc, reader, status, finalized, overdue, told, sweep, stale, strays,
                   cut, aborts>>

-----------------------------------------------------------------------------
(* The reader, the process and the clock                                   *)

Exit(j) ==
    /\ proc[j] = "alive" /\ proc' = [proc EXCEPT ![j] = "exited"]
    /\ UNCHANGED <<manager, managers, jobs, reader, status, finalized, overdue, told, toolVars,
                   strays, cut, aborts>>

Expire(j) ==
    /\ proc[j] # "none" /\ j \notin overdue /\ overdue' = overdue \cup {j}
    /\ UNCHANGED <<manager, managers, jobs, proc, reader, status, finalized, told, toolVars,
                   strays, cut, aborts>>

\* _finalize_job up to its first suspension; who is suspended is up to the caller
\* mutant: the job is marked once its exit is told, not before
FinalizeUnmarked(j) == finalized' = finalized /\ Tell(j, "row")
Finalize(j) == finalized' = finalized \cup {j} /\ Tell(j, "row")

\* _close_transport, the last thing a reader does, kills a process that lives
Close(j) == proc' = [proc EXCEPT ![j] = "exited"]

\* _run_reader, when the streams end and the process is reaped; or reading them
\* raises, whether the process lives or not
ReaderEnds(j, exit) ==
    /\ reader[j] = "reading" /\ (proc[j] = "exited" \/ exit = "error")
    /\ status' = [status EXCEPT ![j] = exit]
    /\ IF j \in finalized
       THEN reader' = [reader EXCEPT ![j] = "done"] /\ Close(j) /\ UNCHANGED <<finalized, told>>
       ELSE reader' = [reader EXCEPT ![j] = "row"] /\ Finalize(j) /\ UNCHANGED proc
    /\ UNCHANGED <<manager, managers, jobs, overdue, toolVars, strays, cut, aborts>>

NextNews(place) == IF place = "row" THEN "inbox" ELSE "wake"
ReaderTells(j) ==
    /\ reader[j] \in Telling
    /\ Tell(j, NextNews(reader[j]))
    /\ \/ reader[j] = "row" /\ reader' = [reader EXCEPT ![j] = "inbox"] /\ UNCHANGED proc
       \/ reader[j] = "inbox" /\ reader' = [reader EXCEPT ![j] = "done"] /\ Close(j)
    /\ UNCHANGED <<manager, managers, jobs, status, finalized, overdue, toolVars, strays, cut,
                   aborts>>

-----------------------------------------------------------------------------
(* stop and cleanup_expired, where they resume                             *)

\* create_subprocess_shell returns: the job is registered with the manager that
\* the tool fetched before
Start(t, j) ==
    /\ at[t] = "spawn" /\ proc[j] = "none"
    /\ proc' = [proc EXCEPT ![j] = "alive"] /\ reader' = [reader EXCEPT ![j] = "reading"]
    /\ jobs' = [jobs EXCEPT ![with[t]] = @ \cup {j}]
    /\ strays' = IF \E v \in Convs : manager[v] = with[t] THEN strays ELSE strays \cup {j}
    /\ Goto(t, "done")
    /\ UNCHANGED <<manager, managers, status, finalized, overdue, told, does, with, on, sweep,
                   stale, cut, aborts>>

\* the process that was killed has exited: whatever its reader does is cancelled
Killed(t) ==
    /\ at[t] = "kill" /\ proc[on[t]] = "exited"
    /\ CancelReader(on[t])
    /\ Goto(t, "joined")
    /\ UNCHANGED <<manager, managers, jobs, proc, status, finalized, overdue, told, does, with,
                   on, sweep, stale, strays, aborts>>

\* wait_for: the reader is done, or it is cancelled when its second is over
ReaderAwaited(t) ==
    /\ at[t] = "exiting"
    /\ \/ reader[on[t]] = "done" /\ UNCHANGED <<reader, cut>>
       \/ reader[on[t]] # "done" /\ CancelReader(on[t])
    /\ Goto(t, "final")
    /\ UNCHANGED <<manager, managers, jobs, proc, status, finalized, overdue, told, does, with,
                   on, sweep, stale, strays, aborts>>

\* _finalize_job is over: stop returns, a sweep goes on
Return(t) ==
    IF does[t] = "stop" THEN Goto(t, "done") /\ UNCHANGED <<jobs, reader, on, sweep, stale, cut>>
                        ELSE SweepOn(t, with[t], does[t] = "start", sweep[t], stale[t])

\* the status: an expired job is expired, whatever its reader found; a stopped
\* one is stopped unless its reader came first
Joined(t) ==
    LET j == on[t]
    IN  /\ at[t] \in {"joined", "final"}
        /\ status' = IF at[t] = "final" \/ (does[t] = "stop" /\ status[j] # "running") THEN status
                     ELSE [status EXCEPT ![j] = IF does[t] = "stop" THEN "stopped" ELSE "expired"]
        /\ \/ j \in finalized /\ Return(t) /\ UNCHANGED <<finalized, told>>
           \/ /\ j \notin finalized /\ Goto(t, "row") /\ Finalize(j)
              /\ UNCHANGED <<jobs, reader, on, sweep, stale, cut>>
        /\ UNCHANGED <<manager, managers, proc, overdue, does, with, strays, aborts>>

CallerTells(t) ==
    /\ at[t] \in Telling
    /\ Tell(on[t], NextNews(at[t]))
    /\ \/ at[t] = "row" /\ Goto(t, "inbox") /\ UNCHANGED <<jobs, reader, on, sweep, stale, cut>>
       \/ at[t] = "inbox" /\ Return(t)
    /\ UNCHANGED <<manager, managers, proc, status, finalized, overdue, does, with, strays, aborts>>

\* the tool is cancelled; a CancelledError while it awaits the reader is swallowed
Abort(t) ==
    /\ at[t] \in {"kill", "spawn"} \cup Telling /\ aborts < MaxAborts
    /\ aborts' = aborts + 1
    /\ Goto(t, "done")
    /\ cut' = IF at[t] \in Telling THEN cut \cup {on[t]} ELSE cut
    /\ UNCHANGED <<manager, managers, jobs, proc, reader, status, finalized, overdue, told, does,
                   with, on, sweep, stale, strays>>

Next ==
    \/ \E j \in Jobs : Exit(j) \/ Expire(j) \/ ReaderTells(j)
                       \/ \E exit \in {"completed", "error"} : ReaderEnds(j, exit)
    \/ \E t \in Tools :
         \/ \E v \in Convs : \/ Call(t, v, "start") \/ Call(t, v, "list")
                             \/ \E j \in Jobs : CallStop(t, v, j)
         \/ \E j \in Jobs : Start(t, j)
         \/ Killed(t) \/ ReaderAwaited(t) \/ Joined(t) \/ CallerTells(t) \/ Abort(t)

Spec == Init /\ [][Next]_jobVars

-----------------------------------------------------------------------------
(* Properties *)

\* A process that runs can be found: by the status and stop tools of its
\* conversation, and by shutdown.  Excepted are the jobs whose manager another
\* conversation's tool dropped from the registry while they were being started;
\* and one whose reader failed, while it tells of that before it kills it.
JobsAreReachable ==
    \A j \in Jobs \ strays :
        proc[j] = "alive" /\ reader[j] \notin Telling
            => \E v \in Convs : manager[v] # 0 /\ j \in jobs[manager[v]]

IsTold(j) == reader[j] \in Telling \/ \E t \in Tools : on[t] = j /\ at[t] \in Telling
\* An exit is told once, whoever notices it: the reader, a stop, a sweep, or
\* several of them at a time; and it is told in full, the wake of the agent
\* included, unless one that tells it is cancelled half way.
ExitsAreTold ==
    \A j \in Jobs :
        /\ \A n \in News : told[j][n] <= 1
        /\ j \in finalized /\ ~IsTold(j) /\ j \notin cut => \A n \in News : told[j][n] = 1
=============================================================================
