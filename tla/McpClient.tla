----------------------------- MODULE McpClient -----------------------------
(***************************************************************************)
(* One server of the registry of mcp_client.py.  An operation is a         *)
(* coroutine on it: the connection task of a (re)start, a tool call that   *)
(* may reconnect first, a refresh after a notification, the shutdown.  No  *)
(* lock orders them: they share one MCPServerState and suspend between its *)
(* reading and its writing; a generation number tells an attempt that it   *)
(* was superseded.                                                         *)
(***************************************************************************)
EXTENDS Integers, FiniteSets

CONSTANTS
    Ops,         \* operations; an attempt to connect has the name of its own
    NoOp,        \* no such operation
    MaxRetries,  \* max_retries of _maybe_reconnect
    MaxOpCancels \* bound on the tool calls that are cancelled

VARIABLES
    op,        \* what the operation is
    at,        \* where it is suspended
    agen,      \* the generation of its attempt
    open,      \* its exit stack holds a live connection
    how,       \* why its attempt is being undone
    holds,     \* the attempt whose task, exit stack or session it awaits
    status, generation, settled,   \* fields of MCPServerState
    stack, session, tools,         \* _exit_stack, session, tools: whose
    retries,   \* retry_count
    backoff,   \* the backoff after last_retry_time has not passed
    task,      \* _connection_tasks of the server
    closed,    \* _closed
    disowned,  \* attempts whose exit stack the state lost while they needed it
    abandoned, \* attempts cancelled before anything would undo them
    opCancels

mcpVars == <<op, at, agen, open, how, holds, status, generation, settled, stack, session,
             tools, retries, backoff, task, closed, disowned, abandoned, opCancels>>
fields == <<status, generation, settled, stack, session, tools>>

Kinds == {"none", "start", "restart", "call", "refresh", "shutdown"}
Places == {"idle", "drain", "close", "told", "publish", "connect", "list", "undo",
           "announce", "call", "refresh", "done"}
Attempting == {"publish", "connect", "list", "undo"}
Maybe == Ops \cup {NoOp}

TypeOK ==
    /\ op \in [Ops -> Kinds] /\ at \in [Ops -> Places]
    /\ agen \in [Ops -> 0..Cardinality(Ops)] /\ open \in [Ops -> BOOLEAN]
    /\ how \in [Ops -> {"", "stale", "failed", "cancelled"}]
    /\ holds \in [Ops -> Maybe]
    /\ status \in {"connecting", "connected", "disconnected", "failed"}
    /\ generation \in 0..Cardinality(Ops) /\ settled \in BOOLEAN
    /\ {stack, session, tools, task} \subseteq Maybe
    /\ retries \in Nat  \* two calls that reconnect at a time may pass MaxRetries
    /\ backoff \in BOOLEAN /\ closed \in BOOLEAN
    /\ {disowned, abandoned} \subseteq SUBSET Ops
    /\ opCancels \in 0..MaxOpCancels

Init ==
    /\ op = [o \in Ops |-> "none"] /\ at = [o \in Ops |-> "idle"]
    /\ agen = [o \in Ops |-> 0] /\ open = [o \in Ops |-> FALSE]
    /\ how = [o \in Ops |-> ""] /\ holds = [o \in Ops |-> NoOp]
    /\ status = "disconnected" /\ generation = 0 /\ settled = FALSE
    /\ stack = NoOp /\ session = NoOp /\ tools = NoOp
    /\ retries = 0 /\ backoff = FALSE /\ task = NoOp /\ closed = FALSE
    /\ disowned = {} /\ abandoned = {} /\ opCancels = 0

Goto(o, place) == at' = [at EXCEPT ![o] = place]
TaskRuns == task # NoOp /\ at[task] \in Attempting \cup {"announce"}
Current(o) == agen[o] = generation
Live(o) == Current(o) /\ ~closed

\* where a CancelledError takes connect_server
Cancelled(place) == IF place = "publish" THEN "done" ELSE "undo"
\* the connection task, if it runs, is cancelled while o goes on to its place
CancelTask(o, place) ==
    /\ at' = [p \in Ops |-> IF p = o THEN place
                            ELSE IF p = task /\ TaskRuns THEN Cancelled(at[p]) ELSE at[p]]
    /\ how' = IF TaskRuns THEN [how EXCEPT ![task] = "cancelled"] ELSE how

-----------------------------------------------------------------------------
(* start_connect_server.  The task it creates is the next to run: its start, *)
(* up to the publishing of mcp_server_connecting, is part of the step.       *)

NewGeneration(o) ==
    /\ generation' = generation + 1 /\ agen' = [agen EXCEPT ![o] = generation + 1]
    /\ status' = "connecting" /\ settled' = FALSE

StartConnect(o) ==
    /\ NewGeneration(o)
    /\ task' = o /\ CancelTask(o, "publish")

\* start_connect_all of init_mcp
Startup(o) ==
    /\ at[o] = "idle" /\ generation = 0
    /\ op' = [op EXCEPT ![o] = "start"]
    /\ StartConnect(o)
    /\ UNCHANGED <<open, holds, stack, session, tools, retries, backoff, closed,
                   disowned, abandoned, opCancels>>

-----------------------------------------------------------------------------
(* disconnect_server: the connection task is cancelled and awaited, then the *)
(* exit stack is closed, then the fields of the state are reset and the      *)
(* event is published.                                                       *)

\* the stack that came instead of the one closed, or the one closed before its
\* attempt has put a connection into it
Lost(closedStack) ==
    {a \in Ops : stack = a /\ (a # closedStack \/ at[a] = "connect")}

\* mutant: nobody is told that the server is gone
ResetQuietly(o, closedStack) ==
    /\ stack' = NoOp /\ session' = NoOp /\ tools' = NoOp
    /\ status' = "disconnected"
    /\ disowned' = disowned \cup Lost(closedStack)
    /\ UNCHANGED <<generation, settled>>

\* the stack closed need not be the one found there after the await
ResetState(o, closedStack) ==
    /\ stack' = NoOp /\ session' = NoOp /\ tools' = NoOp
    /\ status' = "disconnected" /\ settled' = TRUE
    /\ disowned' = disowned \cup Lost(closedStack)
    /\ UNCHANGED generation

\* no task to await: __aexit__ of the stack, if there is one
CloseOrReset(o) ==
    \/ /\ stack # NoOp /\ Goto(o, "close")
       /\ holds' = [holds EXCEPT ![o] = stack] /\ UNCHANGED <<fields, disowned>>
    \/ /\ stack = NoOp /\ Goto(o, "told")
       /\ ResetState(o, NoOp) /\ UNCHANGED holds

Disconnect(o, kind) ==
    /\ at[o] = "idle" /\ generation > 0 /\ op' = [op EXCEPT ![o] = kind]
    /\ task' = NoOp
    /\ \/ /\ TaskRuns /\ CancelTask(o, "drain") /\ holds' = [holds EXCEPT ![o] = task]
          /\ UNCHANGED <<fields, disowned>>
       \/ ~TaskRuns /\ CloseOrReset(o) /\ UNCHANGED how
    /\ UNCHANGED <<agen, open, retries, abandoned, opCancels>>

Restart(o) == Disconnect(o, "restart") /\ UNCHANGED <<backoff, closed>>

\* _maybe_reconnect of a tool call
Reconnect(o) ==
    /\ status # "connected" /\ retries < MaxRetries /\ ~backoff
    /\ backoff' = TRUE
    /\ Disconnect(o, "call") /\ UNCHANGED closed

\* disconnect_all
Shutdown(o) == ~closed /\ closed' = TRUE /\ Disconnect(o, "shutdown") /\ UNCHANGED backoff

\* the task has ended, or disconnect_all has waited long enough
Drained(o) ==
    /\ at[o] = "drain" /\ (at[holds[o]] = "done" \/ op[o] = "shutdown")
    /\ CloseOrReset(o)
    /\ UNCHANGED <<op, agen, open, how, retries, backoff, task, closed, abandoned, opCancels>>

Closed(o) ==
    /\ at[o] = "close" /\ Goto(o, "told")
    /\ open' = [open EXCEPT ![holds[o]] = FALSE]
    /\ ResetState(o, holds[o])
    /\ UNCHANGED <<op, agen, how, holds, retries, backoff, task, closed, abandoned, opCancels>>

\* The shutdown is over, a restart starts a task, a tool call connects by
\* itself, under a new generation; a registry that is closed does not connect.
After(o) ==
    /\ at[o] = "told"
    /\ \/ /\ op[o] = "shutdown" /\ Goto(o, "done")
          /\ UNCHANGED <<fields, agen, how, retries, task>>
       \/ /\ op[o] = "restart" /\ StartConnect(o)
          /\ UNCHANGED <<stack, session, tools, retries>>
       \/ /\ op[o] = "call" /\ ~closed /\ Goto(o, "publish") /\ NewGeneration(o)
          /\ UNCHANGED <<stack, session, tools, how, retries, task>>
       \/ /\ op[o] = "call" /\ closed /\ Goto(o, "done")
          /\ status' = "disconnected" /\ settled' = TRUE /\ retries' = retries + 1
          /\ UNCHANGED <<agen, how, generation, stack, session, tools, task>>
    /\ UNCHANGED <<op, open, holds, backoff, closed, disowned, abandoned, opCancels>>

-----------------------------------------------------------------------------
(* connect_server, from one suspension to the next *)

\* the coroutine is over; a tool call goes on with its call or counts a failure
Over(o, connected) ==
    /\ Goto(o, IF op[o] = "call" /\ connected THEN "call" ELSE "done")
    /\ retries' = IF op[o] = "call" /\ ~connected THEN retries + 1 ELSE retries

Attempt(o) == UNCHANGED <<op, agen, backoff, task, closed, abandoned, opCancels>>

\* the exit stack is put into the state before the attempt looks whether it is
\* still the current one
Published(o) ==
    /\ at[o] = "publish" /\ Attempt(o)
    /\ disowned' = disowned \cup ({stack} \ {o, NoOp})
    /\ \/ Live(o) /\ Goto(o, "connect") /\ stack' = o
          /\ UNCHANGED <<status, settled, retries>>
       \/ /\ ~Live(o) /\ Over(o, FALSE)
          /\ stack' = IF Current(o) THEN NoOp ELSE o
          /\ status' = IF Current(o) THEN "disconnected" ELSE status
          /\ settled' = IF Current(o) THEN TRUE ELSE settled
    /\ UNCHANGED <<open, how, holds, generation, session, tools>>

Undo(o, why) == Goto(o, "undo") /\ how' = [how EXCEPT ![o] = why]

SessionOpens(o) ==
    /\ at[o] = "connect" /\ Attempt(o)
    /\ open' = [open EXCEPT ![o] = TRUE]
    /\ \/ Live(o) /\ Goto(o, "list") /\ session' = o /\ UNCHANGED how
       \/ ~Live(o) /\ Undo(o, "stale") /\ UNCHANGED session
    /\ UNCHANGED <<holds, status, generation, settled, stack, tools, retries, disowned>>

AttemptFails(o) ==
    /\ at[o] \in {"connect", "list"} /\ Undo(o, "failed") /\ Attempt(o)
    /\ UNCHANGED <<open, holds, fields, retries, disowned>>

\* list_tools and what follows; the tools are stored before the look
Discovered(o) ==
    /\ at[o] = "list" /\ Attempt(o)
    /\ tools' = o
    /\ \/ /\ Live(o) /\ Goto(o, "announce")
          /\ status' = "connected" /\ retries' = 0 /\ settled' = TRUE /\ UNCHANGED how
       \/ ~Live(o) /\ Undo(o, "stale") /\ UNCHANGED <<status, retries, settled>>
    /\ UNCHANGED <<open, holds, generation, stack, session, disowned>>

Announced(o) ==
    /\ at[o] = "announce" /\ Attempt(o)
    /\ Over(o, status = "connected")
    /\ UNCHANGED <<open, how, holds, fields, disowned>>

\* mutant: an attempt that fails does not close its stack
UndoneFailedOpen(o) ==
    /\ at[o] = "undo" /\ Attempt(o)
    /\ open' = IF how[o] # "failed" THEN [open EXCEPT ![o] = FALSE] ELSE open
    /\ stack' = IF Current(o) /\ (stack = o \/ how[o] = "stale") THEN NoOp ELSE stack
    /\ status' = IF ~Current(o) THEN status
                 ELSE IF how[o] = "failed" THEN "failed" ELSE "disconnected"
    /\ settled' = IF Current(o) THEN TRUE ELSE settled
    /\ IF how[o] = "cancelled" THEN Goto(o, "done") /\ UNCHANGED retries
       ELSE Over(o, status' = "connected")
    /\ UNCHANGED <<how, holds, generation, session, tools, disowned>>

\* the attempt has closed its own stack; the state is its business if it is current
Undone(o) ==
    /\ at[o] = "undo" /\ Attempt(o)
    /\ open' = [open EXCEPT ![o] = FALSE]
    /\ stack' = IF Current(o) /\ (stack = o \/ how[o] = "stale") THEN NoOp ELSE stack
    /\ status' = IF ~Current(o) THEN status
                 ELSE IF how[o] = "failed" THEN "failed" ELSE "disconnected"
    /\ settled' = IF Current(o) THEN TRUE ELSE settled
    /\ IF how[o] = "cancelled" THEN Goto(o, "done") /\ UNCHANGED retries
       ELSE Over(o, status' = "connected")
    /\ UNCHANGED <<how, holds, generation, session, tools, disowned>>

-----------------------------------------------------------------------------
(* Calls, refreshes and cancellations *)

Idle == UNCHANGED <<agen, open, how, backoff, task, closed, disowned>>

Call(o) ==
    /\ at[o] = "idle" /\ status = "connected" /\ session # NoOp
    /\ op' = [op EXCEPT ![o] = "call"] /\ Goto(o, "call")
    /\ UNCHANGED <<holds, fields, retries, abandoned, opCancels>> /\ Idle

\* a failing call marks whatever connection the state has by then
CallReturns(o, fails) ==
    /\ at[o] = "call" /\ Goto(o, "done")
    /\ status' = IF fails THEN "failed" ELSE status
    /\ UNCHANGED <<op, holds, generation, settled, stack, session, tools, retries, abandoned, opCancels>>
    /\ Idle

\* refresh_tools on a notification: the session is read before the await
Refresh(o) ==
    /\ at[o] = "idle" /\ status = "connected" /\ session # NoOp
    /\ op' = [op EXCEPT ![o] = "refresh"] /\ Goto(o, "refresh")
    /\ holds' = [holds EXCEPT ![o] = session]
    /\ UNCHANGED <<fields, retries, abandoned, opCancels>> /\ Idle

Refreshed(o) ==
    /\ at[o] = "refresh" /\ Goto(o, "done")
    /\ tools' \in {holds[o], tools}   \* or it failed
    /\ UNCHANGED <<op, holds, status, generation, settled, stack, session, retries, abandoned, opCancels>>
    /\ Idle

\* a CancelledError in a tool call that reconnects: before the try block of
\* connect_server nothing is undone
CancelCall(o) ==
    /\ op[o] = "call" /\ opCancels < MaxOpCancels /\ opCancels' = opCancels + 1
    /\ \/ /\ at[o] \in {"told", "publish", "call"} /\ Goto(o, "done") /\ UNCHANGED how
          /\ abandoned' = IF at[o] = "publish" THEN abandoned \cup {o} ELSE abandoned
       \/ /\ at[o] \in {"connect", "list", "announce"} /\ Undo(o, "cancelled")
          /\ UNCHANGED abandoned
    /\ UNCHANGED <<op, agen, open, holds, fields, retries, backoff, task, closed, disowned>>

BackoffEnds ==
    /\ backoff /\ backoff' = FALSE
    /\ UNCHANGED <<op, at, agen, open, how, holds, fields, retries, task, closed, disowned, abandoned, opCancels>>

Next ==
    \/ BackoffEnds
    \/ \E o \in Ops :
         \/ Startup(o) \/ Restart(o) \/ Reconnect(o) \/ Shutdown(o)
         \/ Drained(o) \/ Closed(o) \/ After(o)
         \/ Published(o) \/ SessionOpens(o) \/ AttemptFails(o)
         \/ Discovered(o) \/ Announced(o) \/ Undone(o)
         \/ Call(o) \/ (\E fails \in BOOLEAN : CallReturns(o, fails))
         \/ Refresh(o) \/ Refreshed(o) \/ CancelCall(o)

Spec == Init /\ [][Next]_mcpVars

-----------------------------------------------------------------------------
(* Properties *)

\* wait_for_server waits for settled_event: while the event is clear, a current
\* attempt is on its way to set it or a disconnection is.  Not when a tool call
\* was cancelled while it published that it connects.
WaitersAreReleased ==
    generation > 0 /\ ~settled =>
        \E o \in Ops :
            \/ Current(o) /\ (at[o] \in Attempting \/ o \in abandoned)
            \/ at[o] \in {"drain", "close"}

\* No connection is left behind, a server process still running at its end: an
\* open one is reachable from the state, or its attempt or a disconnection is
\* about to close it.  The exception is a stack that a stale attempt replaced,
\* or that a disconnection forgot although it was another's, or still empty.
ConnectionsAreOwned ==
    \A a \in Ops : open[a] =>
        \/ stack = a \/ a \in disowned
        \/ at[a] \in {"connect", "list", "undo"}
        \/ \E o \in Ops : at[o] = "close" /\ holds[o] = a
=============================================================================
