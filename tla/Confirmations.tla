--------------------------- MODULE Confirmations ---------------------------
(***************************************************************************)
(* The confirmations of one conversation: request_confirmation with its    *)
(* FIFO queue and timeout, respond_to_confirmation with the wake of a live *)
(* waiter or the dispatch of a recovery handler, cancel_pending_           *)
(* confirmation, post_confirmation, and the recovery scan of a restart.    *)
(*                                                                         *)
(* Every read and write of the slot is made under state.lock with no await *)
(* in between, so each critical section is one action; emits, waits and    *)
(* handler calls happen between them.                                      *)
(***************************************************************************)
EXTENDS Integers, Sequences

CONSTANTS
    Requests,     \* ConfirmationRequests made on this conversation
    Timed,        \* those with a timeout
    Posted,       \* those of a workflow: post_confirmation, nobody waits
    Cancellable,  \* those awaited by the agent task itself, which cancel_turn
                  \* cancels (a tool waits in a task of its own)
    Widgets,      \* those of _handle_widget_input_pause, which withdraws them
                  \* when only the cancel event fires (a child agent's turn,
                  \* whose event is its parent's)
    Faulty,       \* handlers may raise, the timeout's archive write may fail
    MaxCrashes,   \* bound on process deaths
    None

ASSUME Parameters ==
    /\ Timed \subseteq Requests
    /\ Posted \subseteq Requests
    /\ Cancellable \subseteq Requests \ Posted
    /\ Widgets \subseteq Requests \ Posted
    /\ Faulty \in BOOLEAN /\ MaxCrashes \in Nat
    /\ None \notin Requests

VARIABLES
    pc,        \* where the coroutine of the request is
    answer,    \* what its caller was handed
    pending,   \* state.pending_confirmation
    event,     \* the request whose Event is state.confirmation_event
    response,  \* state.confirmation_response
    queue,     \* state.confirmation_queue
    signalled, \* requests whose Event is set
    reply,     \* where respond_to_confirmation for the request is
    decided,   \* confirmation_response rows of the archive
    tail,      \* what the backward scan of the archive meets first
    handled,   \* successful dispatches of the recovery handler
    up, crashes

slot == <<pending, event, response, queue>>
disk == <<decided, tail>>
vars == <<pc, answer, slot, signalled, reply, disk, handled, up, crashes>>

Responses == [id : Requests, approved : BOOLEAN]
Response(r, ok) == [id |-> r, approved |-> ok]

\* asking: emitting the request; claiming, expired: awake and off to the lock;
\* leaving: cancelled in the queue; withdrawing: about to cancel_pending_...
Waiting == {"archived", "queued", "promoted", "asking", "waiting",
            "claiming", "expired", "leaving", "withdrawing"}
PC == Waiting \cup {"idle", "posted", "returned", "cancelled", "raised", "dead"}
ReplyPC == {"none", "wake", "recover", "dispatch", "promote", "restore"}

TypeOK ==
    /\ pc \in [Requests -> PC]
    /\ answer \in [Requests -> Responses \cup {None}]
    /\ pending \in Requests \cup {None}
    /\ event \in Requests \cup {None}
    /\ response \in Responses \cup {None}
    /\ queue \in Seq(Requests)
    /\ signalled \subseteq Requests
    /\ reply \in [Requests -> ReplyPC]
    /\ decided \subseteq Responses
    /\ tail \in Requests \cup {None}
    /\ handled \in [Requests -> Nat]
    /\ up \in BOOLEAN
    /\ crashes \in 0..MaxCrashes

Init ==
    /\ pc = [r \in Requests |-> "idle"]
    /\ answer = [r \in Requests |-> None]
    /\ pending = None /\ event = None /\ response = None /\ queue = <<>>
    /\ signalled = {} /\ reply = [r \in Requests |-> "none"]
    /\ decided = {} /\ tail = None
    /\ handled = [r \in Requests |-> 0]
    /\ up = TRUE /\ crashes = 0

Queued(r) == \E i \in 1..Len(queue) : queue[i] = r

-----------------------------------------------------------------------------
(* The helpers that run under the lock *)

At(r, from) == up /\ pc[r] = from
GoesTo(r, to) == pc' = [pc EXCEPT ![r] = to]
ReplyStep(r, from, to) == up /\ reply[r] = from /\ reply' = [reply EXCEPT ![r] = to]

\* append_message of a confirmation_response row
Archive(resp) == decided' = decided \cup {resp} /\ tail' = None

\* pc once the coroutine waiting on promoted_event of r has been signalled
Signal(pcs, r) == IF pcs[r] = "queued" THEN [pcs EXCEPT ![r] = "promoted"] ELSE pcs

\* mutant: confirmation_queue.pop() takes the newest entry
PromoteNewest(pcs) ==
    IF queue = <<>>
    THEN pending' = None /\ event' = None /\ response' = None /\ pc' = pcs
         /\ UNCHANGED queue
    ELSE LET last == queue[Len(queue)]
         IN  /\ pending' = last /\ event' = last /\ response' = None
             /\ queue' = SubSeq(queue, 1, Len(queue) - 1)
             /\ pc' = Signal(pcs, last)

\* the head of the queue moves into the empty slot
PromoteInto(pcs) ==
    IF queue = <<>>
    THEN pending' = None /\ event' = None /\ response' = None /\ pc' = pcs
         /\ UNCHANGED queue
    ELSE /\ pending' = Head(queue) /\ event' = Head(queue) /\ response' = None
         /\ queue' = Tail(queue)
         /\ pc' = Signal(pcs, Head(queue))

\* _promote_next_confirmation_unlocked: a no-op on an occupied slot
PromoteNext ==
    IF pending # None \/ queue = <<>>
    THEN UNCHANGED <<slot, pc>>
    ELSE PromoteInto(pc)

\* _clear_active_and_promote_unlocked: clears whatever is in the slot
ClearAndPromote(pcs) == PromoteInto(pcs)

-----------------------------------------------------------------------------
(* request_confirmation *)

\* the request row is written before the lock is taken
Request(r) ==
    /\ At(r, "idle") /\ r \notin Posted /\ GoesTo(r, "archived")
    /\ tail' = r
    /\ UNCHANGED <<answer, slot, signalled, reply, decided, handled, up, crashes>>

Install(r) ==
    /\ At(r, "archived")
    /\ IF pending = None
       THEN /\ GoesTo(r, "asking")
            /\ pending' = r /\ event' = r /\ response' = None
            /\ UNCHANGED queue
       ELSE /\ GoesTo(r, "queued")
            /\ queue' = Append(queue, r)
            /\ UNCHANGED <<pending, event, response>>
    /\ UNCHANGED <<answer, signalled, reply, disk, handled, up, crashes>>

\* awake with active_event, which the promoter bound
Promoted(r) ==
    /\ At(r, "promoted") /\ GoesTo(r, "asking")
    /\ UNCHANGED <<answer, slot, signalled, reply, disk, handled, up, crashes>>

\* the request and the status are out: wait for the Event
Await(r) ==
    /\ At(r, "asking") /\ GoesTo(r, "waiting")
    /\ UNCHANGED <<answer, slot, signalled, reply, disk, handled, up, crashes>>

Awake(r) ==
    /\ At(r, "waiting") /\ r \in signalled /\ GoesTo(r, "claiming")
    /\ UNCHANGED <<answer, slot, signalled, reply, disk, handled, up, crashes>>

Expire(r) ==
    /\ At(r, "waiting") /\ r \in Timed /\ GoesTo(r, "expired")
    /\ UNCHANGED <<answer, slot, signalled, reply, disk, handled, up, crashes>>

\* the post-wait block: a response in the slot is honoured, whoever gave it; a
\* timeout writes a denial of its own; anything else is a denial
Claim(r) ==
    /\ At(r, "claiming") \/ At(r, "expired")
    /\ LET resp == IF response # None THEN response ELSE Response(r, FALSE)
       IN  /\ answer' = [answer EXCEPT ![r] = resp]
           /\ IF response = None /\ pc[r] = "expired"
              THEN Archive(resp) ELSE UNCHANGED disk
    /\ ClearAndPromote([pc EXCEPT ![r] = "returned"])
    /\ UNCHANGED <<signalled, reply, handled, up, crashes>>

\* the timeout's archive write fails: raise with the slot untouched
ClaimFails(r) ==
    /\ Faulty /\ At(r, "expired") /\ response = None /\ GoesTo(r, "raised")
    /\ UNCHANGED <<answer, slot, signalled, reply, disk, handled, up, crashes>>

-----------------------------------------------------------------------------
(* CancelledError in the coroutine of request_confirmation *)

\* Outside the queue there is no handler: the slot stays as it is.  A widget
\* pause that sees its event cancels the request's task and then withdraws the
\* request; where cancel_turn cancels the agent task itself, that task is never
\* touched and the request simply stays pending.
CancelWaiter(r) ==
    /\ up /\ r \in Cancellable \cup Widgets
    /\ \/ /\ pc[r] \in {"queued", "promoted"}
          /\ GoesTo(r, "leaving")
       \/ /\ pc[r] \in {"archived", "asking", "waiting", "claiming", "expired"}
          /\ GoesTo(r, IF r \in Widgets THEN "withdrawing" ELSE "cancelled")
    /\ UNCHANGED <<answer, slot, signalled, reply, disk, handled, up, crashes>>

\* mutant: a cancelled caller stays in the queue
LeaveKeepsEntry(r) ==
    /\ At(r, "leaving") /\ GoesTo(r, "cancelled")
    /\ UNCHANGED <<answer, slot, signalled, reply, disk, handled, up, crashes>>

\* cancelled in the queue: drop the entry, or hand the slot on if it was promoted
Leave(r) ==
    /\ At(r, "leaving")
    /\ LET next == [pc EXCEPT ![r] = IF r \in Widgets THEN "withdrawing" ELSE "cancelled"]
       IN  IF Queued(r)
           THEN /\ \E i \in 1..Len(queue) :
                     /\ queue[i] = r
                     /\ queue' = SubSeq(queue, 1, i - 1) \o SubSeq(queue, i + 1, Len(queue))
                /\ pc' = next
                /\ UNCHANGED <<pending, event, response>>
           ELSE IF pending = r
           THEN ClearAndPromote(next)
           ELSE pc' = next /\ UNCHANGED slot
    /\ UNCHANGED <<answer, signalled, reply, disk, handled, up, crashes>>

\* mutant: no distinction between a live waiter and none
CancelPendingBlindly(r) ==
    /\ At(r, "withdrawing") /\ GoesTo(r, "cancelled")
    /\ pending # None /\ response = None
    /\ Archive(Response(pending, FALSE))
    /\ response' = Response(pending, FALSE)
    /\ pending' = None /\ event' = None
    /\ signalled' = signalled \cup {event}
    /\ UNCHANGED <<queue, answer, reply, handled, up, crashes>>

\* cancel_pending_confirmation, called by the widget pause once its own await
\* is over: it denies whatever is in the slot
CancelPending(r) ==
    /\ At(r, "withdrawing")
    /\ IF pending = None \/ response # None
       THEN /\ GoesTo(r, "cancelled")
            /\ UNCHANGED <<slot, signalled, disk>>
       ELSE /\ Archive(Response(pending, FALSE))
            /\ IF event # None
               THEN /\ GoesTo(r, "cancelled")
                    /\ response' = Response(pending, FALSE)
                    /\ pending' = None /\ event' = None
                    /\ signalled' = signalled \cup {event}
                    /\ UNCHANGED queue
               ELSE /\ ClearAndPromote([pc EXCEPT ![r] = "cancelled"])
                    /\ UNCHANGED signalled
    /\ UNCHANGED <<answer, reply, handled, up, crashes>>

-----------------------------------------------------------------------------
(* post_confirmation: on an occupied slot it raises *)
Post(r) ==
    /\ At(r, "idle") /\ r \in Posted
    /\ IF pending # None
       THEN GoesTo(r, "raised") /\ UNCHANGED <<slot, tail>>
       ELSE /\ GoesTo(r, "posted")
            /\ pending' = r /\ event' = None /\ response' = None
            /\ tail' = r
            /\ UNCHANGED queue
    /\ UNCHANGED <<answer, signalled, reply, decided, handled, up, crashes>>

-----------------------------------------------------------------------------
(* respond_to_confirmation *)

\* mutant: the Event of the answered request stays in the slot
RespondKeepsEvent(r, ok) ==
    /\ pending = r /\ response = None
    /\ ReplyStep(r, "none", IF event # None THEN "wake" ELSE "recover")
    /\ Archive(Response(r, ok))
    /\ response' = Response(r, ok)
    /\ pending' = None
    /\ UNCHANGED <<pc, answer, event, queue, signalled, handled, up, crashes>>

\* mutant: the request stays pending until its handler is done
RespondKeepsSlot(r, ok) ==
    /\ pending = r /\ response = None
    /\ ReplyStep(r, "none", IF event # None THEN "wake" ELSE "recover")
    /\ Archive(Response(r, ok))
    /\ response' = Response(r, ok)
    /\ UNCHANGED <<pc, answer, pending, event, queue, signalled, handled, up, crashes>>

\* mutant: the claim is made before the archive write, which may fail
RespondUnarchived(r, ok) ==
    /\ pending = r /\ response = None
    /\ ReplyStep(r, "none", IF event # None THEN "wake" ELSE "recover")
    /\ response' = Response(r, ok)
    /\ pending' = None /\ event' = None
    /\ UNCHANGED <<pc, answer, queue, signalled, disk, handled, up, crashes>>

\* archive, claim and clear under the lock; a response already claimed, or one
\* for another request, changes nothing
Respond(r, ok) ==
    /\ pending = r /\ response = None
    /\ ReplyStep(r, "none", IF event # None THEN "wake" ELSE "recover")
    /\ Archive(Response(r, ok))
    /\ response' = Response(r, ok)
    /\ pending' = None /\ event' = None
    /\ UNCHANGED <<pc, answer, queue, signalled, handled, up, crashes>>

\* the response is emitted: set the Event captured under the lock
Wake(r) ==
    /\ ReplyStep(r, "wake", "none")
    /\ signalled' = signalled \cup {r}
    /\ UNCHANGED <<pc, answer, slot, disk, handled, up, crashes>>

\* no waiter: the claim is released and the handler called
BeginRecovery(r) ==
    /\ ReplyStep(r, "recover", "dispatch")
    /\ response' = None
    /\ UNCHANGED <<pc, answer, pending, event, queue, signalled, disk, handled, up, crashes>>

HandlerDone(r) ==
    /\ ReplyStep(r, "dispatch", "promote")
    /\ handled' = [handled EXCEPT ![r] = @ + 1]
    /\ UNCHANGED <<pc, answer, slot, signalled, disk, up, crashes>>

HandlerRaises(r) ==
    /\ Faulty /\ ReplyStep(r, "dispatch", "restore")
    /\ UNCHANGED <<pc, answer, slot, signalled, disk, handled, up, crashes>>

\* the request goes back into the slot unless another one took it
Restore(r) ==
    /\ ReplyStep(r, "restore", "none")
    /\ pending' = IF pending = None THEN r ELSE pending
    /\ UNCHANGED <<pc, answer, event, response, queue, signalled, disk, handled, up, crashes>>

\* mutant: the queue is not looked at after a recovery
RecoveryForgetsQueue(r) ==
    /\ ReplyStep(r, "promote", "none")
    /\ UNCHANGED <<pc, answer, slot, signalled, disk, handled, up, crashes>>

PromoteAfterRecovery(r) ==
    /\ ReplyStep(r, "promote", "none")
    /\ PromoteNext
    /\ UNCHANGED <<answer, signalled, disk, handled, up, crashes>>

-----------------------------------------------------------------------------
(* A user row ends the backward scan of the archive.  The next turn writes   *)
(* it: the turn of the request is over, or cancelled without its tools.      *)
UserRow ==
    /\ up /\ tail # None
    /\ ~(tail \in Cancellable /\ pc[tail] \in Waiting)
    /\ tail' = None
    /\ UNCHANGED <<pc, answer, slot, signalled, reply, decided, handled, up, crashes>>

(* The process dies: the archive is all that is left. *)
Crash ==
    /\ up /\ crashes < MaxCrashes
    /\ up' = FALSE /\ crashes' = crashes + 1
    /\ pc' = [r \in Requests |-> IF pc[r] \in Waiting \cup {"posted"} THEN "dead" ELSE pc[r]]
    /\ pending' = None /\ event' = None /\ response' = None /\ queue' = <<>>
    /\ signalled' = {} /\ reply' = [r \in Requests |-> "none"]
    /\ UNCHANGED <<answer, disk, handled>>

(* startup_scan: the last request of the archive is pending again, unless a  *)
(* response or a user row follows it, or it is older than a day.             *)
Restart ==
    /\ ~up
    /\ up' = TRUE
    /\ pending' \in {tail, None}
    /\ UNCHANGED <<pc, answer, event, response, queue, signalled, reply, disk, handled, crashes>>

-----------------------------------------------------------------------------
WaiterStep(r) ==
    \/ Install(r) \/ Promoted(r) \/ Await(r) \/ Awake(r) \/ Claim(r) \/ Leave(r)
    \/ CancelPending(r)
ReplierStep(r) ==
    Wake(r) \/ BeginRecovery(r) \/ HandlerDone(r) \/ Restore(r) \/ PromoteAfterRecovery(r)

Next ==
    \/ \E r \in Requests :
         \/ Request(r) \/ WaiterStep(r) \/ Expire(r) \/ ClaimFails(r) \/ CancelWaiter(r)
         \/ Post(r) \/ (\E ok \in BOOLEAN : Respond(r, ok))
         \/ ReplierStep(r) \/ HandlerRaises(r)
    \/ UserRow \/ Crash \/ Restart

Spec == Init /\ [][Next]_vars

-----------------------------------------------------------------------------
(* Properties *)

\* Nobody is lost in the queue and the queue has no corpse: a caller blocked on
\* promoted_event is in the queue exactly once, and every entry has a caller
\* that is blocked, or cancelled and about to remove it.
QueueHoldsWaiters ==
    /\ \A r \in Requests : pc[r] = "queued" => Queued(r)
    /\ \A i \in 1..Len(queue) : pc[queue[i]] \in {"queued", "leaving"}
    /\ \A i, j \in 1..Len(queue) : queue[i] = queue[j] => i = j

\* Where an answer goes is decided by the Event in the slot: while a request
\* with a waiting caller is pending, the slot has its own Event, so the answer
\* never goes to the recovery handler behind the back of the caller.
SlotMatchesEvent ==
    /\ event # None => event = pending
    /\ \A r \in Requests :
         pending = r /\ pc[r] \in Waiting => event = r

\* What was asked once is acted on once: the recovery handler succeeds at most
\* once for a request, and never for one whose caller got an answer.
ActedOnce ==
    \A r \in Requests :
        /\ handled[r] <= 1
        /\ handled[r] = 1 => answer[r] = None

\* Whatever races, an approval a caller acts on is in the archive first.
ApprovalOnRecord ==
    \A r \in Requests :
        answer[r] # None /\ answer[r].approved => answer[r] \in decided

\* The queue is first come first served: a request is promoted only when none
\* that was queued before it stays behind.
PromotionIsFifo ==
    [][\A i, j \in 1..Len(queue) :
         i < j /\ pc[queue[j]] = "queued" /\ pc'[queue[j]] = "promoted"
             => \A k \in 1..Len(queue') : queue'[k] # queue[i]]_vars

\* docs/architecture.md: requests are serialized, "each waits for its own
\* response".  Fails when a request takes the slot between the claim of an
\* answer and the wake of the caller it is meant for.
EachGetsItsOwn ==
    \A r \in Requests : answer[r] # None => answer[r].id = r

\* A queued caller is not left behind: while it waits, some request is on its
\* way to hand it the slot, a caller that will claim its answer or an answer
\* whose handler is being called.  The exception is the request whose caller is
\* gone (cancelled, or raised when its denial could not be written): its answer
\* promotes nobody, and the queue may wait for ever.
QueueHasPromoter ==
    queue # <<>> =>
        \E q \in Requests :
            \/ pc[q] \in {"promoted", "asking", "waiting", "claiming", "expired",
                          "leaving", "withdrawing"}
            \/ pending = q /\ event = None
            \/ reply[q] \in {"recover", "dispatch", "promote", "restore"}
            \/ pc[q] \in {"cancelled", "raised"}
=============================================================================
