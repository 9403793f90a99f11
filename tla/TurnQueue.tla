----------------------------- MODULE TurnQueue -----------------------------
(***************************************************************************)
(* The turn lifecycle of one conversation of the ConversationManager:      *)
(* enqueue_turn, _start_turn, run() with its finally block, _drain_pending,*)
(* cancel_turn, the inbox.jsonl sidecar, and the restart of the process.   *)
(*                                                                         *)
(* The program is one asyncio event loop: code between two awaits is       *)
(* atomic, so an action is what runs from one suspension point to the      *)
(* next.  state.lock is an asyncio.Lock, held across awaits.               *)
(*                                                                         *)
(* A turn is named by the submission whose future it carries (the last     *)
(* one of a drained batch), so turns need no identifiers of their own.     *)
(***************************************************************************)
EXTENDS Integers, Sequences

CONSTANTS
    Submissions,   \* calls of enqueue_turn on this conversation
    UserTurns,     \* those of TurnKind.USER
    WakeTurns,     \* those of TurnKind.WAKE
    WithSetup,     \* those that pass a context_setup
    Limited,       \* those the circuit breaker or the wake limiter may drop
    Impatient,     \* those whose caller bounds its wait for the future
    CancelOnNew,   \* config.agent.turn_on_new_message = "cancel"
    FaultyStart,   \* the coroutine inside _start_turn may raise or be cancelled
    CancelAt,      \* steps of the agent task at which cancel_turn may find it
    MaxCancels,    \* bound on calls of cancel_turn
    MaxCrashes,    \* bound on process deaths
    None           \* Python's None

\* The bounds and the kinds of the instance.  A USER turn is not a WAKE turn,
\* and send_message, the one caller of USER turns, never awaits the future.
ASSUME Parameters ==
    /\ UserTurns \subseteq Submissions
    /\ WakeTurns \subseteq Submissions \ UserTurns
    /\ WithSetup \subseteq Submissions
    /\ Limited \subseteq UserTurns \cup WakeTurns
    /\ Impatient \subseteq Submissions \ UserTurns
    /\ CancelOnNew \in BOOLEAN /\ FaultyStart \in BOOLEAN
    /\ MaxCancels \in Nat /\ MaxCrashes \in Nat
    /\ None \notin Submissions

VARIABLES
    call,       \* where the coroutine of enqueue_turn(s) is
    fut,        \* the future enqueue_turn returns
    lock,       \* holder of state.lock
    busy,       \* state.busy
    current,    \* the turn that state.cancel_event belongs to
    start,      \* the await of _start_turn the lock holder is suspended at
    agentTask,  \* the turn whose task is state.agent_task
    task,       \* where the asyncio task of a turn is
    kill,       \* tasks a CancelledError is on its way to
    cancelled,  \* turns whose cancel_event is set
    inbox,      \* inbox.jsonl
    data,       \* keys of state.inmemory_turn_data
    batch,      \* the submissions a turn answers
    settled,    \* turns whose turn_complete was emitted
    setup,      \* whose context_setup a turn runs with
    lastUser,   \* state.last_user_id
    lastSetup,  \* state.last_context_setup
    up,         \* the process is running
    cancels, crashes

callVars  == <<call, fut>>
taskVars  == <<agentTask, task, kill, cancelled>>
queueVars == <<inbox, data, batch>>
transport == <<setup, lastUser, lastSetup>>
env       == <<up, cancels, crashes>>
vars == <<callVars, lock, busy, current, start, taskVars, queueVars, settled,
          transport, env>>

SubOrNone == Submissions \cup {None}

CallPC == {"idle", "lock", "emit", "start", "returned", "gone"}
FutState == {"none", "pending", "resolved", "dropped", "cancelled", "lost"}
StartPC == {"none", "status", "setup", "announce"}
\* try body and finally block up to the reset: the turn owns the busy flag
Live == {"created", "running", "respond", "unwind", "gather", "lock"}
\* after the reset: the same task resolves the future and drains the inbox
Tail4Turn == {"settle", "drain", "draining"}
TaskPC == Live \cup Tail4Turn \cup {"none", "done", "dead"}

Free     == <<"free", None>>
Boot     == <<"boot", None>>
Call(s)  == <<"call", s>>
Task(t)  == <<"task", t>>
Holders  == {"free", "boot", "call", "task"} \X SubOrNone

Members(seq) == {seq[i] : i \in 1..Len(seq)}

TypeOK ==
    /\ call \in [Submissions -> CallPC]
    /\ fut \in [Submissions -> FutState]
    /\ lock \in Holders
    /\ busy \in BOOLEAN
    /\ current \in SubOrNone
    /\ start \in StartPC
    /\ agentTask \in SubOrNone
    /\ task \in [Submissions -> TaskPC]
    /\ kill \subseteq Submissions
    /\ cancelled \subseteq Submissions
    /\ inbox \in Seq(Submissions)
    /\ data \subseteq Submissions
    /\ batch \in [Submissions -> Seq(Submissions)]
    /\ settled \subseteq Submissions
    /\ setup \in [Submissions -> SubOrNone]
    /\ lastUser \in SubOrNone
    /\ lastSetup \in SubOrNone
    /\ up \in BOOLEAN
    /\ cancels \in 0..MaxCancels
    /\ crashes \in 0..MaxCrashes

Init ==
    /\ call = [s \in Submissions |-> "idle"]
    /\ fut = [s \in Submissions |-> "none"]
    /\ lock = Free /\ busy = FALSE /\ current = None /\ start = "none"
    /\ agentTask = None /\ task = [t \in Submissions |-> "none"]
    /\ kill = {} /\ cancelled = {}
    /\ inbox = <<>> /\ data = {} /\ batch = [t \in Submissions |-> <<>>]
    /\ settled = {}
    /\ setup = [t \in Submissions |-> None]
    /\ lastUser = None /\ lastSetup = None
    /\ up = TRUE /\ cancels = 0 /\ crashes = 0

-----------------------------------------------------------------------------
(* The head of _start_turn: busy and a fresh cancel event, then the busy   *)
(* status is published (awaited) by the holder of the lock.                *)
BeginTurn(t, holder, subs, given) ==
    /\ lock' = holder
    /\ busy' = TRUE
    /\ current' = t
    /\ start' = "status"
    /\ batch' = [batch EXCEPT ![t] = subs]
    /\ setup' = [setup EXCEPT ![t] = given]

\* own context_setup of a submission, when the process still has it
OwnSetup(s, known) == IF known /\ s \in WithSetup THEN s ELSE None

(* asyncio's Task.cancel: a CancelledError reaches the task at its next    *)
(* step, unless the task is done.                                          *)
CancelTask(t) == kill' = IF task[t] \in Live THEN kill \cup {t} ELSE kill

-----------------------------------------------------------------------------
(* enqueue_turn *)

\* a transport, timer, tool or peer calls enqueue_turn(s)
Enqueue(s) ==
    /\ up /\ call[s] = "idle"
    /\ call' = [call EXCEPT ![s] = "lock"]
    /\ fut' = [fut EXCEPT ![s] = "pending"]
    /\ UNCHANGED <<lock, busy, current, start, taskVars, queueVars, settled, transport, env>>

\* over the limit: the future resolves to None and nothing is queued
DropLimited(s) ==
    /\ call[s] = "lock" /\ lock = Free /\ s \in Limited
    /\ call' = [call EXCEPT ![s] = "returned"]
    /\ fut' = [fut EXCEPT ![s] = "dropped"]
    /\ UNCHANGED <<lock, busy, current, start, taskVars, queueVars, settled, transport, env>>

\* USER only: the user_message event is awaited under the lock
EmitUserMessage(s) ==
    /\ call[s] = "lock" /\ lock = Free /\ s \in UserTurns
    /\ lock' = Call(s)
    /\ call' = [call EXCEPT ![s] = "emit"]
    /\ UNCHANGED <<fut, busy, current, start, taskVars, queueVars, settled, transport, env>>

AtDispatch(s) ==
    \/ call[s] = "emit"
    \/ call[s] = "lock" /\ lock = Free /\ s \notin UserTurns

\* mutant: the queued turn is kept in memory only
QueueTurnInMemory(s) ==
    /\ AtDispatch(s) /\ busy
    /\ data' = data \cup {s}
    /\ lock' = Free
    /\ call' = [call EXCEPT ![s] = "returned"]
    /\ UNCHANGED <<fut, busy, current, start, taskVars, inbox, batch, settled, transport, env>>

\* busy: the inbox keeps the turn; a new USER message may cancel the running one
QueueTurn(s) ==
    /\ AtDispatch(s) /\ busy
    /\ inbox' = Append(inbox, s)
    /\ data' = data \cup {s}
    /\ lock' = Free
    /\ call' = [call EXCEPT ![s] = "returned"]
    /\ IF CancelOnNew /\ s \in UserTurns /\ current # None /\ current \notin cancelled
       THEN /\ cancelled' = cancelled \cup {current}
            /\ IF agentTask # None THEN CancelTask(agentTask) ELSE kill' = kill
       ELSE UNCHANGED <<cancelled, kill>>
    /\ UNCHANGED <<fut, busy, current, start, agentTask, task, batch, settled, transport, env>>

\* mutant: the entry of a turn that starts at once stays in the inbox
StartNowKeepsEntry(s) ==
    /\ AtDispatch(s) /\ ~busy
    /\ call' = [call EXCEPT ![s] = "start"]
    /\ inbox' = Append(inbox, s)
    /\ BeginTurn(s, Call(s), <<s>>, OwnSetup(s, TRUE))
    /\ UNCHANGED <<fut, taskVars, data, settled, lastUser, lastSetup, env>>

\* idle: the entry is appended to the inbox, taken out by turn_id and started
StartNow(s) ==
    /\ AtDispatch(s) /\ ~busy
    /\ call' = [call EXCEPT ![s] = "start"]
    /\ BeginTurn(s, Call(s), <<s>>, OwnSetup(s, TRUE))
    /\ UNCHANGED <<fut, taskVars, inbox, data, settled, lastUser, lastSetup, env>>

-----------------------------------------------------------------------------
(* _start_turn, by whoever holds the lock *)

\* the coroutine that awaited _start_turn goes on once it returns or raises
LeaveStart(callPC) ==
    /\ call' = [s \in Submissions |->
                  IF lock = Call(s) THEN callPC ELSE call[s]]
    /\ task' = [t \in Submissions |->
                  IF lock = Task(t) THEN "done"
                  ELSE IF callPC = "returned" /\ t = current THEN "created"
                  ELSE task[t]]
    /\ lock' = Free
    /\ start' = "none"

\* USER turns leave their transport for WAKE turns to inherit
StatusPublished ==
    /\ start = "status"
    /\ start' = "setup"
    /\ IF current \in UserTurns
       THEN /\ lastUser' = current
            /\ lastSetup' = setup[current]
            /\ UNCHANGED setup
       ELSE /\ setup' = [setup EXCEPT ![current] =
                           IF current \in WakeTurns /\ @ = None THEN lastSetup ELSE @]
            /\ UNCHANGED <<lastUser, lastSetup>>
    /\ UNCHANGED <<callVars, lock, busy, current, taskVars, queueVars, settled, env>>

\* context_setup returned; turn_start is emitted next
SetupDone ==
    /\ start = "setup"
    /\ start' = "announce"
    /\ UNCHANGED <<callVars, lock, busy, current, taskVars, queueVars, settled, transport, env>>

\* turn_start delivered: asyncio.create_task(run()), then the lock is released
CreateTask ==
    /\ start = "announce"
    /\ agentTask' = current
    /\ LeaveStart("returned")
    /\ UNCHANGED <<fut, busy, current, kill, cancelled, queueVars, settled, transport, env>>

\* CancelledError while the status is published: the busy flag is rolled back
AbortAtStatus ==
    /\ FaultyStart /\ start = "status"
    /\ busy' = FALSE
    /\ agentTask' = None
    /\ LeaveStart("gone")
    /\ UNCHANGED <<fut, current, kill, cancelled, queueVars, settled, transport, env>>

\* context_setup raises, or the starter is cancelled at a later await
AbortAtSetup ==
    /\ FaultyStart /\ start \in {"setup", "announce"}
    /\ LeaveStart("gone")
    /\ UNCHANGED <<fut, busy, current, agentTask, kill, cancelled, queueVars, settled, transport, env>>

\* the caller of enqueue_turn is cancelled before anything is queued
AbortCall(s) ==
    /\ FaultyStart /\ call[s] \in {"lock", "emit"}
    /\ call' = [call EXCEPT ![s] = "gone"]
    /\ fut' = [fut EXCEPT ![s] = "lost"]
    /\ lock' = IF lock = Call(s) THEN Free ELSE lock
    /\ UNCHANGED <<busy, current, start, taskVars, queueVars, settled, transport, env>>

\* wait_for expires: the awaiting caller cancels the future, not the turn
AbandonFuture(s) ==
    /\ s \in Impatient /\ call[s] = "returned" /\ fut[s] = "pending"
    /\ fut' = [fut EXCEPT ![s] = "cancelled"]
    /\ UNCHANGED <<call, lock, busy, current, start, taskVars, queueVars, settled, transport, env>>

-----------------------------------------------------------------------------
(* run(): the asyncio task of a turn *)

Step(t, from, to) == task[t] = from /\ task' = [task EXCEPT ![t] = to]

\* the CancelledError has reached a try block, whose handlers go on
Caught(t) == kill' = kill \ {t}

\* the first step of the task; a task cancelled before it never runs at all,
\* so its finally block does not run either
BeginRun(t) ==
    /\ Step(t, "created", IF t \in kill THEN "dead" ELSE "running")
    /\ Caught(t)
    /\ UNCHANGED <<callVars, lock, busy, current, start, agentTask, cancelled,
                   queueVars, settled, transport, env>>

\* run_agent_turn returned: message_complete is emitted inside the try block
AgentReturns(t) ==
    /\ t \notin kill /\ Step(t, "running", "respond")
    /\ UNCHANGED <<callVars, lock, busy, current, start, agentTask, kill, cancelled,
                   queueVars, settled, transport, env>>

\* an exception (any time), or the CancelledError: its handler emits
Unwind(t) ==
    /\ \/ Step(t, "running", "unwind")
       \/ t \in kill /\ Step(t, "respond", "unwind")
    /\ Caught(t)
    /\ UNCHANGED <<callVars, lock, busy, current, start, agentTask, cancelled,
                   queueVars, settled, transport, env>>

\* the emit that ends the try statement returned, or was cancelled in a handler
EmitOver(t) ==
    \/ task[t] = "respond" /\ t \notin kill
    \/ task[t] = "unwind"

\* finally: wait for the event forwards still in flight
GatherForwards(t) ==
    /\ EmitOver(t)
    /\ task' = [task EXCEPT ![t] = "gather"]
    /\ Caught(t)
    /\ UNCHANGED <<callVars, lock, busy, current, start, agentTask, cancelled,
                   queueVars, settled, transport, env>>

\* the point where the finally block asks for the lock, with no error pending
AtReset(t) ==
    \/ EmitOver(t)
    \/ task[t] \in {"gather", "lock"} /\ t \notin kill

\* the lock is taken: wait for it
WaitForLock(t) ==
    /\ AtReset(t) /\ task[t] # "lock" /\ lock # Free
    /\ task' = [task EXCEPT ![t] = "lock"]
    /\ Caught(t)
    /\ UNCHANGED <<callVars, lock, busy, current, start, agentTask, cancelled,
                   queueVars, settled, transport, env>>

\* mutant: the reset forgets state.agent_task
ResetKeepsTask(t) ==
    /\ AtReset(t) /\ lock = Free
    /\ task' = [task EXCEPT ![t] = "settle"]
    /\ Caught(t)
    /\ busy' = FALSE /\ current' = None
    /\ settled' = settled \cup {t}
    /\ UNCHANGED <<callVars, lock, start, agentTask, cancelled, queueVars, transport, env>>

\* the reset, in one step with the emission of turn_complete that follows it
Reset(t) ==
    /\ AtReset(t) /\ lock = Free
    /\ task' = [task EXCEPT ![t] = "settle"]
    /\ Caught(t)
    /\ busy' = FALSE /\ agentTask' = None /\ current' = None
    /\ settled' = settled \cup {t}
    /\ UNCHANGED <<callVars, lock, start, cancelled, queueVars, transport, env>>

\* a CancelledError inside the finally block: the rest of it does not run
DieInFinally(t) ==
    /\ task[t] \in {"gather", "lock"} /\ t \in kill
    /\ task' = [task EXCEPT ![t] = "dead"]
    /\ Caught(t)
    /\ UNCHANGED <<callVars, lock, busy, current, start, agentTask, cancelled,
                   queueVars, settled, transport, env>>

\* mutant: no fan-out to the other messages of the batch
ResolveHeadOnly(t) ==
    /\ Step(t, "settle", "drain")
    /\ fut' = [fut EXCEPT ![t] = IF @ = "pending" THEN "resolved" ELSE @]
    /\ UNCHANGED <<call, lock, busy, current, start, agentTask, kill, cancelled,
                   queueVars, settled, transport, env>>

\* turn_complete delivered: the future of the turn, and through its callback
\* those of the other messages of the batch
ResolveFutures(t) ==
    /\ Step(t, "settle", "drain")
    /\ fut' = [s \in Submissions |->
                 IF s \in Members(batch[t]) /\ fut[s] = "pending" THEN "resolved" ELSE fut[s]]
    /\ UNCHANGED <<call, lock, busy, current, start, agentTask, kill, cancelled,
                   queueVars, settled, transport, env>>

-----------------------------------------------------------------------------
(* _drain_pending *)

\* length of the run of USER entries at the head of the inbox
UserRun == CHOOSE n \in 0..Len(inbox) :
             /\ \A i \in 1..n : inbox[i] \in UserTurns
             /\ n = Len(inbox) \/ inbox[n + 1] \notin UserTurns

\* A USER run becomes one turn, named by its last message; inmemory_turn_data
\* is looked up after the entries were popped, so the turn has no
\* context_setup.  Any other entry is a turn of its own.
PopLength == IF inbox[1] \in UserTurns THEN UserRun ELSE 1

\* mutant: messages.pop() takes the newest entry
PopNewest(holder) ==
    /\ inbox' = SubSeq(inbox, 1, Len(inbox) - 1)
    /\ data' = data \ {inbox[Len(inbox)]}
    /\ BeginTurn(inbox[Len(inbox)], holder, <<inbox[Len(inbox)]>>, None)

\* mutant: only the last message of the run reaches the combined turn
PopDropsRun(holder) ==
    /\ inbox' = SubSeq(inbox, PopLength + 1, Len(inbox))
    /\ data' = data \ Members(SubSeq(inbox, 1, PopLength))
    /\ BeginTurn(inbox[PopLength], holder, <<inbox[PopLength]>>, None)

PopAndStart(holder) ==
    LET n == PopLength
        popped == SubSeq(inbox, 1, n)
        head == inbox[n]
    IN  /\ inbox' = SubSeq(inbox, n + 1, Len(inbox))
        /\ data' = data \ Members(popped)
        /\ BeginTurn(head, holder, popped,
                     OwnSetup(head, head \in data /\ head \notin UserTurns))

\* nothing to do, or another turn got in first and will drain after itself
DrainNothing(t) ==
    /\ lock = Free /\ (busy \/ inbox = <<>>)
    /\ Step(t, "drain", "done")
    /\ UNCHANGED <<callVars, lock, busy, current, start, agentTask, kill, cancelled,
                   queueVars, settled, transport, env>>

\* mutant: busy is not checked again under the lock
DrainUnchecked(t) ==
    /\ lock = Free /\ inbox # <<>>
    /\ Step(t, "drain", "draining")
    /\ PopAndStart(Task(t))
    /\ UNCHANGED <<callVars, agentTask, kill, cancelled, settled, lastUser, lastSetup, env>>

Drain(t) ==
    /\ lock = Free /\ ~busy /\ inbox # <<>>
    /\ Step(t, "drain", "draining")
    /\ PopAndStart(Task(t))
    /\ UNCHANGED <<callVars, agentTask, kill, cancelled, settled, lastUser, lastSetup, env>>

-----------------------------------------------------------------------------
\* mutant: agent_task.cancel() without looking at agent_task first
CancelTurnBlindly ==
    /\ up /\ cancels < MaxCancels /\ lock = Free
    /\ current # None
    /\ cancels' = cancels + 1
    /\ cancelled' = cancelled \cup {current}
    /\ kill' = kill \cup {agentTask}
    /\ UNCHANGED <<callVars, lock, busy, current, start, agentTask, task, queueVars,
                   settled, transport, up, crashes>>

(* cancel_turn: reads event and task under the lock, then sets and cancels  *)
CancelTurn ==
    /\ up /\ cancels < MaxCancels /\ lock = Free
    /\ current # None
    /\ agentTask # None => task[agentTask] \in CancelAt
    /\ cancels' = cancels + 1
    /\ cancelled' = cancelled \cup {current}
    /\ IF agentTask # None THEN CancelTask(agentTask) ELSE kill' = kill
    /\ UNCHANGED <<callVars, lock, busy, current, start, agentTask, task, queueVars,
                   settled, transport, up, crashes>>

(* The process dies at an await: inbox.jsonl is all that is left.           *)
Crash ==
    /\ up /\ crashes < MaxCrashes
    /\ up' = FALSE /\ crashes' = crashes + 1
    /\ call' = [s \in Submissions |->
                  IF call[s] \in {"lock", "emit", "start"} THEN "gone" ELSE call[s]]
    /\ fut' = [s \in Submissions |-> IF fut[s] = "pending" THEN "lost" ELSE fut[s]]
    /\ task' = [t \in Submissions |->
                  IF task[t] \in Live \cup Tail4Turn THEN "dead" ELSE task[t]]
    /\ lock' = Free /\ busy' = FALSE /\ current' = None /\ start' = "none"
    /\ agentTask' = None /\ kill' = {} /\ data' = {}
    /\ lastUser' = None /\ lastSetup' = None
    /\ UNCHANGED <<cancelled, inbox, batch, settled, setup, cancels>>

\* mutant: startup_scan without its inbox phase
RestartWithoutInbox ==
    /\ ~up
    /\ up' = TRUE
    /\ UNCHANGED <<callVars, lock, busy, current, start, taskVars, queueVars, settled,
                   transport, cancels, crashes>>

\* startup_scan drains the inbox before the transports connect
Restart ==
    /\ ~up
    /\ up' = TRUE
    /\ IF inbox = <<>>
       THEN UNCHANGED <<lock, busy, current, start, queueVars, setup>>
       ELSE PopAndStart(Boot)
    /\ UNCHANGED <<callVars, taskVars, settled, lastUser, lastSetup, cancels, crashes>>

-----------------------------------------------------------------------------
CallStep(s) == EmitUserMessage(s) \/ DropLimited(s) \/ QueueTurn(s) \/ StartNow(s)
StartStep == StatusPublished \/ SetupDone \/ CreateTask
RunStep(t) ==
    \/ BeginRun(t) \/ AgentReturns(t) \/ Unwind(t) \/ GatherForwards(t)
    \/ WaitForLock(t) \/ Reset(t) \/ DieInFinally(t)
    \/ ResolveFutures(t) \/ DrainNothing(t) \/ Drain(t)

Next ==
    \/ \E s \in Submissions : Enqueue(s) \/ CallStep(s) \/ AbortCall(s) \/ AbandonFuture(s)
    \/ StartStep \/ AbortAtStatus \/ AbortAtSetup
    \/ \E t \in Submissions : RunStep(t)
    \/ CancelTurn \/ Crash \/ Restart

Spec == Init /\ [][Next]_vars

(* The event loop runs every ready coroutine; asyncio.Lock wakes its waiters *)
(* first come first served, hence strong fairness for what needs the lock.   *)
Fairness ==
    /\ \A s \in Submissions : SF_vars(CallStep(s))
    /\ WF_vars(StartStep)
    /\ \A t \in Submissions : SF_vars(RunStep(t))
    /\ WF_vars(Restart)

FairSpec == Spec /\ Fairness

-----------------------------------------------------------------------------
(* Properties *)

Occupied(t) == task[t] \in Live

\* One agent turn at a time: no two tasks are between create_task and the
\* reset of the busy flag, and none is while another turn is being started
\* (the overwrite of agent_task that _drain_pending's re-check prevents).
OneTurnAtATime ==
    /\ \A t, u \in Submissions : Occupied(t) /\ Occupied(u) => t = u
    /\ start # "none" => \A t \in Submissions : ~Occupied(t)

\* state.busy is never FALSE under a turn, nor the cancel handles stale: what
\* cancel_turn reads under the lock is the turn that is really running.
HandlesMatchTurn ==
    /\ ~busy => agentTask = None /\ start = "none"
    /\ \A t \in Submissions :
         Occupied(t) => busy /\ agentTask = t /\ current = t

\* A turn that was accepted and queued is on disk until it is dispatched, so a
\* process death between the two loses nothing; popped entries are dispatched.
QueuedIsDurable ==
    \A s \in Submissions :
        call[s] = "returned" /\ fut[s] # "dropped"
            => \/ s \in Members(inbox)
               \/ \E t \in Submissions : s \in Members(batch[t])

\* A caller's future is resolved by the end of its own turn, after
\* turn_complete, and together with those of the messages batched with it.
FutureAfterSettle ==
    \A t \in Submissions : \A s \in Members(batch[t]) :
        /\ fut[s] = "resolved" => t \in settled
        /\ task[t] \in {"drain", "draining", "done"} => fut[s] # "pending"

\* Entries leave the inbox in the order they entered it, over batches and
\* restarts (turns that find the conversation idle never enter it).
QueueIsFifo ==
    [][\A i, j \in 1..Len(inbox) :
         i < j /\ inbox[j] \notin Members(inbox') => inbox[i] \notin Members(inbox')]_vars

\* A turn that died while it was being started: it has its messages, no task
\* was created for it and none will be.
StillBorn(t) == batch[t] # <<>> /\ task[t] = "none" /\ ~(start # "none" /\ current = t)

\* Busy with nobody left to reset it: a cancellation found the task of the turn
\* before its first step or inside its finally block, or the start of the turn
\* raised after its status was published (its context_setup, say).
Wedged == /\ up /\ busy
          /\ StillBorn(current) \/ \E t \in Submissions : agentTask = t /\ task[t] = "dead"

\* The publish of the busy status raised and busy was reset: nothing drains the
\* inbox before a turn has begun and ended.
RolledBack == up /\ ~busy /\ current # None

\* Every accepted turn is answered: its future is resolved, unless the caller
\* gave up, the process died, the turn itself died while it was started, or it
\* is queued when a cancellation or a failed start wedges the conversation or a
\* rolled back start leaves the inbox without a drain.
AcceptedIsAnswered ==
    \A s \in Submissions :
        fut[s] = "pending" ~>
            \/ fut[s] # "pending" \/ Wedged \/ RolledBack
            \/ \E t \in Submissions : StillBorn(t) /\ s \in Members(batch[t])

\* Every queued turn is dispatched, by this process or the next one, wherever
\* the cancellations strike and whichever start fails, unless they wedge the
\* conversation or a rolled back start leaves the inbox without a drain.
QueuedIsDispatched ==
    \A s \in Submissions :
        s \in Members(inbox) ~> s \notin Members(inbox) \/ Wedged \/ RolledBack

\* A WAKE turn without a context_setup of its own runs with that of the last
\* USER turn.  Fails when that USER turn came out of the inbox.
WakeInheritsLastUser ==
    \A t \in WakeTurns \ WithSetup :
        task[t] = "created" /\ lastUser \in WithSetup => setup[t] = lastUser

-----------------------------------------------------------------------------
(* The conversation implements the one-slot server of TurnService: the busy *)
(* flag is the slot, inbox.jsonl the queue.                                 *)
Service == INSTANCE TurnService WITH
    waiting <- inbox,
    serving <- IF busy THEN Members(batch[current]) ELSE {},
    served  <- UNION {Members(batch[t]) : t \in Submissions}

\* Every behaviour of the manager is one of the server: no second turn starts
\* in an occupied slot, batches are prefixes of the queue, nothing runs twice.
ImplementsService == Service!Spec
=============================================================================
