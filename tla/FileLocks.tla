----------------------------- MODULE FileLocks -----------------------------
(***************************************************************************)
(* The per-file locks of tools/file_locks.py under the tools that take     *)
(* them.  An admin or prompt tool is a coroutine: it reads the file, asks  *)
(* the user to approve the change, and then, under `async with file_lock`, *)
(* reads the file again and writes it.  A workspace tool is a plain        *)
(* function that runs as one job of a worker thread and takes the locks of *)
(* all its paths with `with file_lock`.                                    *)
(*                                                                         *)
(* Every blocking step is a job of the one default thread pool: acquiring, *)
(* releasing, reading, writing.  Coroutines interleave with the workers.   *)
(***************************************************************************)
EXTENDS Integers, Sequences, FiniteSets

CONSTANTS
    Admins,       \* calls of an admin or prompt tool, all on one file
    Movers,       \* calls of a workspace tool with two paths (move, copy)
    NoTool,       \* no such call
    Workers,      \* threads of the default executor
    MaxToolCalls, \* bound on the calls made
    MaxToolCancels   \* bound on the CancelledErrors thrown into the tools

Tools == Admins \cup Movers

VARIABLES
    tool,      \* where the coroutine of the call is
    fifo,      \* jobs submitted to the pool and not started
    running,   \* jobs a worker is in
    registry,  \* _locks: key -> the call that made the entry, or NoTool
    refs,      \* ref_count of the entry a call made for a key
    locked,    \* the threading.Lock of that entry is held
    phase,     \* where the generator of _lock_context is
    mine,      \* acquired_entries: their makers, in order of the keys
    entry,     \* maker of the entry referenced, and not locked or unlocked
    file,      \* what the file of the admin tools contains
    base,      \* the content in the snapshot the user approved a change of
    seen,      \* the content read under the lock
    overwrote, \* what the call's write replaced
    strays,    \* writes whose coroutine was cancelled while they ran
    thrown

lockVars == <<tool, fifo, running, registry, refs, locked, phase, mine, entry,
              file, base, seen, overwrote, strays, thrown>>
lockState == <<registry, refs, locked, phase, mine, entry>>
fileState == <<file, base, seen, overwrote, strays>>

Keys == 1..3
\* mutant: the paths are locked in the order of the arguments
NeedUnsorted == [t \in Tools |->
    IF t \in Admins THEN <<1>>
    ELSE IF t = (CHOOSE m \in Movers : TRUE) THEN <<3, 2>> ELSE <<2, 3>>]

\* the canonical keys of a call, sorted
Need == [t \in Tools |-> IF t \in Admins THEN <<1>> ELSE <<2, 3>>]

Kinds == {"enter", "read", "write", "exit", "move"}
Contents == {NoTool} \cup Admins   \* the original text, or a call's own

TypeOK ==
    /\ tool \in [Tools -> {"idle", "asked", "enter", "undo", "read", "write", "exit",
                           "undoexit", "move", "done", "dropped"}]
    /\ fifo \in Seq(Tools \X Kinds)
    /\ running \subseteq Tools \X Kinds
    /\ Cardinality(running) <= Workers
    /\ registry \in [Keys -> Tools \cup {NoTool}]
    /\ refs \in [Keys \X Tools -> Nat]
    /\ locked \in [Keys \X Tools -> BOOLEAN]
    /\ phase \in [Tools -> {"out", "acquire", "hold", "release"}]
    /\ mine \in [Tools -> Seq(Tools)]
    /\ entry \in [Tools -> Tools \cup {NoTool}]
    /\ file \in Contents
    /\ base \in [Admins -> Contents] /\ seen \in [Admins -> Contents]
    /\ overwrote \in [Admins -> Contents \cup {"nothing"}]
    /\ strays \subseteq Admins
    /\ thrown \in 0..MaxToolCancels

Init ==
    /\ tool = [t \in Tools |-> "idle"]
    /\ fifo = <<>> /\ running = {}
    /\ registry = [k \in Keys |-> NoTool]
    /\ refs = [e \in Keys \X Tools |-> 0] /\ locked = [e \in Keys \X Tools |-> FALSE]
    /\ phase = [t \in Tools |-> "out"] /\ mine = [t \in Tools |-> <<>>]
    /\ entry = [t \in Tools |-> NoTool]
    /\ file = NoTool
    /\ base = [t \in Admins |-> NoTool] /\ seen = [t \in Admins |-> NoTool]
    /\ overwrote = [t \in Admins |-> "nothing"] /\ strays = {}
    /\ thrown = 0

-----------------------------------------------------------------------------
(* The executor *)

Queued(j) == \E i \in 1..Len(fifo) : fifo[i] = j
Submit(j) == fifo' = Append(fifo, j)
Ended(j) == ~Queued(j) /\ j \notin running
\* an awaited future that is cancelled takes its job off the queue, and does
\* nothing to one that has started
Without(j) ==
    IF Queued(j)
    THEN LET i == CHOOSE i \in 1..Len(fifo) : fifo[i] = j
         IN  SubSeq(fifo, 1, i - 1) \o SubSeq(fifo, i + 1, Len(fifo))
    ELSE fifo
Drop(j) == fifo' = Without(j)

Start ==
    /\ fifo # <<>> /\ Cardinality(running) < Workers
    /\ running' = running \cup {Head(fifo)}
    /\ fifo' = Tail(fifo)
    /\ UNCHANGED <<tool, lockState, fileState, thrown>>

-----------------------------------------------------------------------------
(* _lock_context: one step per critical section of _registry_lock and per    *)
(* operation on a file's lock                                                *)

Acquiring(t) == <<t, "enter">> \in running \/ <<t, "move">> \in running

\* _acquire_entry of the next key
Reference(t) ==
    /\ Acquiring(t) /\ phase[t] \in {"out", "acquire"} /\ entry[t] = NoTool
    /\ LET k == Need[t][Len(mine[t]) + 1]
           e == IF registry[k] = NoTool THEN t ELSE registry[k]
       IN  /\ registry' = [registry EXCEPT ![k] = e]
           /\ refs' = [refs EXCEPT ![<<k, e>>] = @ + 1]
           /\ entry' = [entry EXCEPT ![t] = e]
    /\ phase' = [phase EXCEPT ![t] = "acquire"]
    /\ UNCHANGED <<tool, fifo, running, locked, mine, fileState, thrown>>

\* entry.lock.acquire() of it; with the last one the generator yields
Lock(t) ==
    /\ Acquiring(t) /\ phase[t] = "acquire" /\ entry[t] # NoTool
    /\ LET k == Need[t][Len(mine[t]) + 1]
           last == Len(mine[t]) + 1 = Len(Need[t])
       IN  /\ ~locked[<<k, entry[t]>>]
           /\ locked' = [locked EXCEPT ![<<k, entry[t]>>] = TRUE]
           /\ phase' = [phase EXCEPT ![t] = IF last THEN "hold" ELSE @]
           /\ running' = IF last THEN running \ {<<t, "enter">>} ELSE running
    /\ mine' = [mine EXCEPT ![t] = Append(@, entry[t])]
    /\ entry' = [entry EXCEPT ![t] = NoTool]
    /\ UNCHANGED <<tool, fifo, registry, refs, fileState, thrown>>

\* Who runs the finally block: the exit job, the function of a workspace tool,
\* or, once its context is garbage, the interpreter that closes the generator.
Finishing(t) ==
    \/ <<t, "exit">> \in running
    \/ <<t, "move">> \in running
    \/ tool[t] = "dropped" /\ \A kind \in {"enter", "exit"} : Ended(<<t, kind>>)

\* the locks are released in reverse order ...
Unlock(t) ==
    /\ Finishing(t) /\ phase[t] \in {"hold", "release"} /\ entry[t] = NoTool
    /\ LET n == Len(mine[t])
       IN  /\ entry' = [entry EXCEPT ![t] = mine[t][n]]
           /\ locked' = [locked EXCEPT ![<<Need[t][n], mine[t][n]>>] = FALSE]
    /\ phase' = [phase EXCEPT ![t] = "release"]
    /\ UNCHANGED <<tool, fifo, running, registry, refs, mine, fileState, thrown>>

\* mutant: the entry is popped whoever still waits for it
UnreferenceAlways(t) ==
    /\ Finishing(t) /\ phase[t] = "release" /\ entry[t] # NoTool
    /\ LET n == Len(mine[t])
           k == Need[t][n]
       IN  /\ refs' = [refs EXCEPT ![<<k, entry[t]>>] = @ - 1]
           /\ registry' = [registry EXCEPT ![k] = NoTool]
           /\ mine' = [mine EXCEPT ![t] = SubSeq(@, 1, n - 1)]
           /\ phase' = [phase EXCEPT ![t] = IF n = 1 THEN "out" ELSE @]
           /\ running' = IF n = 1 THEN running \ {<<t, "exit">>, <<t, "move">>} ELSE running
    /\ entry' = [entry EXCEPT ![t] = NoTool]
    /\ UNCHANGED <<tool, fifo, locked, fileState, thrown>>

\* ... each followed by _release_entry, which forgets an entry nobody counts
Unreference(t) ==
    /\ Finishing(t) /\ phase[t] = "release" /\ entry[t] # NoTool
    /\ LET n == Len(mine[t])
           k == Need[t][n]
       IN  /\ refs' = [refs EXCEPT ![<<k, entry[t]>>] = @ - 1]
           /\ registry' = [registry EXCEPT ![k] =
                              IF refs[<<k, entry[t]>>] <= 1 THEN NoTool ELSE @]
           /\ mine' = [mine EXCEPT ![t] = SubSeq(@, 1, n - 1)]
           /\ phase' = [phase EXCEPT ![t] = IF n = 1 THEN "out" ELSE @]
           /\ running' = IF n = 1 THEN running \ {<<t, "exit">>, <<t, "move">>} ELSE running
    /\ entry' = [entry EXCEPT ![t] = NoTool]
    /\ UNCHANGED <<tool, fifo, locked, fileState, thrown>>

-----------------------------------------------------------------------------
(* The jobs on the file *)

Read(t) ==
    /\ <<t, "read">> \in running
    /\ running' = running \ {<<t, "read">>}
    /\ seen' = [seen EXCEPT ![t] = file]
    /\ UNCHANGED <<tool, fifo, lockState, file, base, overwrote, strays, thrown>>

Write(t) ==
    /\ <<t, "write">> \in running
    /\ running' = running \ {<<t, "write">>}
    /\ overwrote' = [overwrote EXCEPT ![t] = file]
    /\ file' = t
    /\ UNCHANGED <<tool, fifo, lockState, base, seen, strays, thrown>>

-----------------------------------------------------------------------------
(* The coroutines *)

Begins(t) == tool[t] = "idle" /\ Cardinality({u \in Tools : tool[u] # "idle"}) < MaxToolCalls
Goes(t, from, to) == tool[t] = from /\ tool' = [tool EXCEPT ![t] = to]

\* _capture_snapshot, then the request for approval
Ask(t) ==
    /\ t \in Admins /\ Begins(t) /\ Goes(t, "idle", "asked")
    /\ base' = [base EXCEPT ![t] = file]
    /\ UNCHANGED <<fifo, running, lockState, file, seen, overwrote, strays, thrown>>

\* approved: __aenter__ submits the acquisition and shields it
Approve(t) ==
    /\ Goes(t, "asked", "enter") /\ Submit(<<t, "enter">>)
    /\ UNCHANGED <<running, lockState, fileState, thrown>>

Deny(t) ==
    /\ Goes(t, "asked", "done")
    /\ UNCHANGED <<fifo, running, lockState, fileState, thrown>>

\* mutant: the body does not wait for the acquisition
EntersEarly(t) ==
    /\ Goes(t, "enter", "read") /\ Submit(<<t, "read">>)
    /\ UNCHANGED <<running, lockState, fileState, thrown>>

\* the locks are held: _revalidate_snapshot reads the file
Entered(t) ==
    /\ Ended(<<t, "enter">>) /\ Goes(t, "enter", "read") /\ Submit(<<t, "read">>)
    /\ UNCHANGED <<running, lockState, fileState, thrown>>

\* the turn's cancel event is set: nothing is written
EnteredCancelled(t) ==
    /\ Ended(<<t, "enter">>) /\ Goes(t, "enter", "exit") /\ Submit(<<t, "exit">>)
    /\ UNCHANGED <<running, lockState, fileState, thrown>>

\* mutant: the write does not depend on the second reading
WriteAnyway(t) ==
    /\ Goes(t, "read", "write") /\ Ended(<<t, "read">>)
    /\ Submit(<<t, "write">>)
    /\ UNCHANGED <<running, lockState, fileState, thrown>>

Revalidated(t) ==
    /\ Goes(t, "read", "write") /\ Ended(<<t, "read">>) /\ seen[t] = base[t]
    /\ Submit(<<t, "write">>)
    /\ UNCHANGED <<running, lockState, fileState, thrown>>

\* "was modified on disk while confirmation was pending"
Stale(t) ==
    /\ Goes(t, "read", "exit") /\ Ended(<<t, "read">>) /\ seen[t] # base[t]
    /\ Submit(<<t, "exit">>)
    /\ UNCHANGED <<running, lockState, fileState, thrown>>

Written(t) ==
    /\ Ended(<<t, "write">>) /\ Goes(t, "write", "exit") /\ Submit(<<t, "exit">>)
    /\ UNCHANGED <<running, lockState, fileState, thrown>>

Exited(t) ==
    /\ \/ Ended(<<t, "exit">>) /\ (Goes(t, "exit", "done") \/ Goes(t, "undoexit", "done"))
       \/ Ended(<<t, "move">>) /\ Goes(t, "move", "done")
    /\ UNCHANGED <<fifo, running, lockState, fileState, thrown>>

\* __aenter__ was cancelled: once the thread has the locks they are released
Undo(t) ==
    /\ Ended(<<t, "enter">>) /\ Goes(t, "undo", "undoexit") /\ Submit(<<t, "exit">>)
    /\ UNCHANGED <<running, lockState, fileState, thrown>>

\* a workspace tool: the function is a job as a whole
Move(t) ==
    /\ t \in Movers /\ Begins(t) /\ Goes(t, "idle", "move") /\ Submit(<<t, "move">>)
    /\ UNCHANGED <<running, lockState, fileState, thrown>>

-----------------------------------------------------------------------------
(* A CancelledError: the turn is cancelled, the tool timed out, or a second  *)
(* cancellation finds the first still being waited for.                      *)
Throw(t) == thrown < MaxToolCancels /\ thrown' = thrown + 1

\* the body of the lock is left, whatever its job does, and __aexit__ runs
CancelBody(t) ==
    \E kind \in {"read", "write"} :
        /\ Throw(t) /\ Goes(t, kind, "exit")
        /\ fifo' = Append(Without(<<t, kind>>), <<t, "exit">>)
        /\ running' = running \ {<<t, "read">>}
        /\ strays' = IF <<t, "write">> \in running THEN strays \cup {t} ELSE strays
        /\ UNCHANGED <<lockState, file, base, seen, overwrote>>

\* the first one in __aenter__ leaves the shielded acquisition alone
CancelEnter(t) ==
    /\ Throw(t) /\ Goes(t, "enter", "undo")
    /\ UNCHANGED <<fifo, running, lockState, fileState>>

\* elsewhere the coroutine ends, and its context is garbage
CancelAway(t) ==
    /\ Throw(t)
    /\ \/ Goes(t, "asked", "done") /\ UNCHANGED fifo
       \/ Goes(t, "undo", "dropped") /\ Drop(<<t, "enter">>)
       \/ (Goes(t, "exit", "dropped") \/ Goes(t, "undoexit", "dropped")) /\ Drop(<<t, "exit">>)
       \/ Goes(t, "move", "done") /\ Drop(<<t, "move">>)
    /\ UNCHANGED <<running, lockState, fileState>>

-----------------------------------------------------------------------------
Thread(t) ==
    Reference(t) \/ Lock(t) \/ Unlock(t) \/ Unreference(t) \/ Read(t) \/ Write(t)
Coroutine(t) ==
    \/ Entered(t) \/ EnteredCancelled(t) \/ Revalidated(t) \/ Stale(t) \/ Written(t)
    \/ Exited(t) \/ Undo(t)

Next ==
    \/ Start
    \/ \E t \in Tools :
         \/ Thread(t) \/ Coroutine(t) \/ Ask(t) \/ Approve(t) \/ Deny(t) \/ Move(t)
         \/ CancelBody(t) \/ CancelEnter(t) \/ CancelAway(t)

Spec == Init /\ [][Next]_lockVars

-----------------------------------------------------------------------------
(* Properties *)

\* What the user approved is a change of the content shown, and nothing else is
\* overwritten: the snapshot, the lock and the second reading together make the
\* write of an admin tool atomic with its approval.  The exception is a write
\* whose coroutine was cancelled under it: it lands when the lock is gone.
NoLostUpdate ==
    (\E t \in Admins : overwrote[t] \notin {"nothing", base[t]}) => strays # {}

Holds(t, k, e) == \E i \in 1..Len(mine[t]) : Need[t][i] = k /\ mine[t][i] = e
WaitsFor(t, u) ==
    /\ phase[t] = "acquire" /\ entry[t] # NoTool
    /\ Holds(u, Need[t][Len(mine[t]) + 1], entry[t])

\* Every worker waits, one of them for a tool that is not in a worker: the job
\* that would release its lock finds the pool full of its waiters.
Exhausted ==
    /\ Cardinality(running) = Workers
    /\ \A j \in running : \E u \in Tools : WaitsFor(j[1], u)
    /\ \E j \in running, u \in Tools :
         WaitsFor(j[1], u) /\ \A i \in running : i[1] # u

Waits(t) == tool[t] \in {"enter", "undo", "undoexit", "exit", "move"}

\* When nothing can move, nobody waits to get in or out: no cycle of waiters, no
\* lock that a cancellation left behind, no entry that two tools see differently
\* stops them; the one thing that does is the exhausted pool.
NobodyIsStuck ==
    ~ENABLED (Start \/ \E t \in Tools : Thread(t) \/ Coroutine(t)) =>
        Exhausted \/ \A t \in Tools : ~Waits(t)
=============================================================================
