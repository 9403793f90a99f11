------------------------ MODULE Confirmations_proofs ------------------------
(***************************************************************************)
(* Proofs about Confirmations: types, the queue, the slot and the archive, *)
(* for any set of requests, any bounds and any interleaving.               *)
(***************************************************************************)
EXTENDS Confirmations, TLAPS, SequenceTheorems

\* A request that reached the slot, the archive or a responder has been made;
\* one that goes to the recovery handler has no waiting caller; and a dead
\* process has neither a slot nor callers.  What SlotMatchesEvent needs to be
\* inductive: Restore and Restart put a request into the slot with no Event.
NoWaiterBehind ==
    /\ \A r \in Requests : pending = r \/ tail = r => pc[r] # "idle"
    /\ \A r \in Requests :
         reply[r] \in {"recover", "dispatch", "restore"} => pc[r] \notin Waiting \cup {"idle"}
    /\ ~up => /\ event = None /\ queue = <<>>
              /\ \A r \in Requests : pc[r] \notin Waiting

\* a response is in the slot only after its row is in the archive
ResponseOnRecord == response # None => response \in decided

IInv == TypeOK /\ QueueHoldsWaiters /\ SlotMatchesEvent /\ NoWaiterBehind
        /\ ResponseOnRecord /\ ApprovalOnRecord

-----------------------------------------------------------------------------
(* The queue *)

\* QueueHoldsWaiters of any queue and any program counters
Holds(pcs, q) ==
    /\ \A r \in Requests : pcs[r] = "queued" => \E i \in 1..Len(q) : q[i] = r
    /\ \A i \in 1..Len(q) : pcs[q[i]] \in {"queued", "leaving"}
    /\ \A i, j \in 1..Len(q) : q[i] = q[j] => i = j

LEMMA HoldsIsInvariant == QueueHoldsWaiters <=> Holds(pc, queue)
BY DEF QueueHoldsWaiters, Holds, Queued

\* a move of a request that is not blocked in the queue does not touch it
LEMMA OthersHold ==
    ASSUME NEW q \in Seq(Requests), NEW pcs \in [Requests -> PC], Holds(pcs, q),
           NEW r \in Requests, pcs[r] \notin {"queued", "leaving"},
           NEW x \in PC, x # "queued"
    PROVE  Holds([pcs EXCEPT ![r] = x], q)
<1>1. \A i \in 1..Len(q) : q[i] \in Requests
  BY ElementOfSeq
<1> QED
  BY <1>1 DEF Holds

\* what is left of a queue without its head, and the head
LEMMA HeadLeaves ==
    ASSUME NEW q \in Seq(Requests), q # <<>>
    PROVE  /\ Head(q) \in Requests /\ Head(q) = q[1]
           /\ Tail(q) \in Seq(Requests) /\ Len(Tail(q)) = Len(q) - 1
           /\ Len(q) \in Nat /\ Len(q) > 0
           /\ \A i \in 1..Len(Tail(q)) : Tail(q)[i] = q[i + 1]
<1>1. Len(q) \in Nat /\ Len(q) > 0
  BY EmptySeq, LenProperties
<1> QED
  BY <1>1, HeadTailProperties, ElementOfSeq

\* PromoteInto hands the slot and its Event to the head of the queue, which is
\* a request that has been made, and leaves the queue holding its waiters
LEMMA PromoteWorks ==
    ASSUME queue \in Seq(Requests), NEW pcs \in [Requests -> PC], Holds(pcs, queue),
           PromoteInto(pcs)
    PROVE  /\ pending' \in Requests \cup {None} /\ event' = pending'
           /\ response' = None
           /\ queue' \in Seq(Requests)
           /\ pc' \in [Requests -> PC]
           /\ Holds(pc', queue')
           /\ \A r \in Requests : pc'[r] = pcs[r] \/ (pcs[r] = "queued" /\ pc'[r] = "promoted")
           /\ \A r \in Requests : pending' = r => pc'[r] # "idle"
<1>1. CASE queue = <<>>
  BY <1>1, Parameters DEF PromoteInto
<1>2. CASE queue # <<>>
  <2>1. /\ pending' = Head(queue) /\ event' = Head(queue) /\ response' = None
        /\ queue' = Tail(queue) /\ pc' = Signal(pcs, Head(queue))
    BY <1>2 DEF PromoteInto
  <2>2. /\ Head(queue) \in Requests /\ Head(queue) = queue[1]
        /\ Tail(queue) \in Seq(Requests) /\ Len(Tail(queue)) = Len(queue) - 1
        /\ Len(queue) \in Nat /\ Len(queue) > 0
        /\ \A i \in 1..Len(Tail(queue)) : Tail(queue)[i] = queue[i + 1]
    BY <1>2, HeadLeaves
  <2>3. \A i \in 1..Len(queue) : queue[i] \in Requests
    BY ElementOfSeq
  <2>4. pcs[Head(queue)] \in {"queued", "leaving"}
    BY <2>2 DEF Holds
  <2>5. /\ pc' \in [Requests -> PC]
        /\ \A r \in Requests : pc'[r] = IF r = Head(queue) /\ pcs[r] = "queued"
                                        THEN "promoted" ELSE pcs[r]
    BY <2>1, <2>2 DEF Signal, PC, Waiting
  <2>6. Holds(pc', queue')
    <3>1. \A r \in Requests : pc'[r] = "queued" => \E i \in 1..Len(queue') : queue'[i] = r
      <4> SUFFICES ASSUME NEW r \in Requests, pc'[r] = "queued"
                   PROVE  \E i \in 1..Len(queue') : queue'[i] = r
        OBVIOUS
      <4>1. pcs[r] = "queued" /\ r # Head(queue)
        BY <2>5
      <4>2. PICK i \in 1..Len(queue) : queue[i] = r
        BY <4>1 DEF Holds
      <4>3. i # 1 /\ i - 1 \in 1..Len(Tail(queue))
        BY <2>2, <4>1, <4>2
      <4> QED
        BY <2>1, <2>2, <4>2, <4>3
    <3>2. \A i \in 1..Len(queue') : pc'[queue'[i]] \in {"queued", "leaving"}
      <4> SUFFICES ASSUME NEW i \in 1..Len(queue')
                   PROVE  pc'[queue'[i]] \in {"queued", "leaving"}
        OBVIOUS
      <4>1. i + 1 \in 1..Len(queue) /\ queue'[i] = queue[i + 1] /\ i + 1 # 1
        BY <2>1, <2>2
      <4>2. queue[i + 1] # Head(queue) /\ queue[i + 1] \in Requests
        BY <2>2, <2>3, <4>1 DEF Holds
      <4> QED
        BY <2>5, <4>1, <4>2 DEF Holds
    <3>3. \A i, j \in 1..Len(queue') : queue'[i] = queue'[j] => i = j
      <4> SUFFICES ASSUME NEW i \in 1..Len(queue'), NEW j \in 1..Len(queue'),
                          queue'[i] = queue'[j]
                   PROVE  i = j
        OBVIOUS
      <4>1. /\ i + 1 \in 1..Len(queue) /\ queue'[i] = queue[i + 1]
            /\ j + 1 \in 1..Len(queue) /\ queue'[j] = queue[j + 1]
        BY <2>1, <2>2
      <4>2. i + 1 = j + 1
        BY <4>1 DEF Holds
      <4> QED
        BY <4>2
    <3> QED
      BY <3>1, <3>2, <3>3 DEF Holds
  <2> QED
    BY <2>1, <2>2, <2>4, <2>5, <2>6
<1> QED
  BY <1>1, <1>2

-----------------------------------------------------------------------------
(* Types *)

LEMMA TypeInit == Init => TypeOK
BY EmptySeq, Parameters DEF Init, TypeOK, PC, ReplyPC

\* a request that leaves the queue leaves a sequence, with one entry less
LEMMA DroppedFromQueue ==
    ASSUME NEW q \in Seq(Requests), NEW i \in 1..Len(q),
           NEW rest, rest = SubSeq(q, 1, i - 1) \o SubSeq(q, i + 1, Len(q))
    PROVE  /\ rest \in Seq(Requests) /\ Len(rest) = Len(q) - 1
           /\ \A k \in 1..(Len(q) - 1) : rest[k] = IF k < i THEN q[k] ELSE q[k + 1]
<1> DEFINE a == SubSeq(q, 1, i - 1)
           b == SubSeq(q, i + 1, Len(q))
<1>1. Len(q) \in Nat /\ \A k \in 1..Len(q) : q[k] \in Requests
  BY LenProperties, ElementOfSeq
<1>2. /\ a \in Seq(Requests) /\ Len(a) = i - 1
      /\ \A k \in 1..(i - 1) : a[k] = q[k]
  BY <1>1, SubSeqProperties
<1>3. /\ b \in Seq(Requests) /\ Len(b) = Len(q) - i
      /\ \A k \in 1..(Len(q) - i) : b[k] = q[i + k]
  <2>1. \A k \in i + 1..Len(q) : q[k] \in Requests
    BY <1>1
  <2>2. /\ b \in Seq(Requests)
        /\ Len(b) = IF i + 1 <= Len(q) THEN Len(q) - (i + 1) + 1 ELSE 0
        /\ \A k \in 1..(Len(q) - (i + 1) + 1) : b[k] = q[(i + 1) + k - 1]
    BY <1>1, <2>1, SubSeqProperties
  <2> QED
    BY <1>1, <2>2
<1> HIDE DEF a, b
<1>4. /\ a \o b \in Seq(Requests) /\ Len(a \o b) = Len(a) + Len(b)
      /\ \A k \in 1..(Len(a) + Len(b)) :
           (a \o b)[k] = IF k <= Len(a) THEN a[k] ELSE b[k - Len(a)]
  BY <1>2, <1>3, ConcatProperties
<1>5. /\ rest = a \o b /\ i \in Nat /\ 1 <= i /\ i <= Len(q)
      /\ Len(a) + Len(b) = Len(q) - 1
  <2>1. rest = a \o b
    BY DEF a, b
  <2>2. Len(q) \in Nat /\ i \in Nat /\ 1 <= i /\ i <= Len(q)
    BY <1>1
  <2>3. Len(a) = i - 1 /\ Len(b) = Len(q) - i
    BY <1>2, <1>3
  <2>4. Len(a) + Len(b) = Len(q) - 1
    BY <2>2, <2>3
  <2> QED
    BY <2>1, <2>2, <2>4
<1>6. ASSUME NEW k \in 1..(Len(q) - 1)
      PROVE  rest[k] = IF k < i THEN q[k] ELSE q[k + 1]
  <2>0. k \in Nat /\ 1 <= k /\ k <= Len(q) - 1 /\ k \in 1..(Len(a) + Len(b))
    BY <1>1, <1>5
  <2>1. rest[k] = IF k <= Len(a) THEN a[k] ELSE b[k - Len(a)]
    BY <2>0, <1>4, <1>5
  <2>2. CASE k < i
    <3>1. k \in 1..(i - 1) /\ k <= Len(a)
      BY <1>2, <1>5, <2>0, <2>2
    <3> QED
      BY <1>2, <2>1, <2>2, <3>1
  <2>3. CASE ~(k < i)
    <3>1. /\ k - Len(a) \in 1..(Len(q) - i) /\ i + (k - Len(a)) = k + 1
          /\ ~(k <= Len(a))
      BY <1>1, <1>2, <1>5, <2>0, <2>3
    <3>2. b[k - Len(a)] = q[k + 1]
      BY <1>3, <3>1
    <3> QED
      BY <2>1, <2>3, <3>1, <3>2
  <2> QED
    BY <2>2, <2>3
<1>7. rest \in Seq(Requests) /\ Len(rest) = Len(q) - 1
  BY <1>4, <1>5
<1> QED
  BY <1>6, <1>7

LEMMA TypeStep ==
    ASSUME TypeOK, QueueHoldsWaiters, [Next]_vars
    PROVE  TypeOK'
<1>0. Holds(pc, queue) /\ queue \in Seq(Requests) /\ pc \in [Requests -> PC]
  BY HoldsIsInvariant DEF TypeOK
<1> USE DEF TypeOK, PC, Waiting, ReplyPC, At, GoesTo, ReplyStep, slot, disk
<1>1. ASSUME NEW r \in Requests, Request(r) PROVE TypeOK'
  BY <1>1 DEF Request
<1>2. ASSUME NEW r \in Requests, Install(r) PROVE TypeOK'
  <2>1. CASE pending = None
    BY <1>2, <2>1 DEF Install
  <2>2. CASE pending # None
    <3>1. Append(queue, r) \in Seq(Requests)
      BY <1>0, AppendProperties
    <3> QED
      BY <1>2, <2>2, <3>1 DEF Install
  <2> QED
    BY <2>1, <2>2
<1>3. ASSUME NEW r \in Requests, Promoted(r) PROVE TypeOK'
  BY <1>3 DEF Promoted
<1>4. ASSUME NEW r \in Requests, Await(r) PROVE TypeOK'
  BY <1>4 DEF Await
<1>5. ASSUME NEW r \in Requests, Awake(r) PROVE TypeOK'
  BY <1>5 DEF Awake
<1>6. ASSUME NEW r \in Requests, Claim(r) PROVE TypeOK'
  <2>1. At(r, "claiming") \/ At(r, "expired")
    BY <1>6 DEF Claim
  <2> DEFINE resp == IF response # None THEN response ELSE Response(r, FALSE)
             pcs == [pc EXCEPT ![r] = "returned"]
  <2>2. resp \in Responses
    BY Parameters DEF Response, Responses
  <2>3. pcs \in [Requests -> PC] /\ Holds(pcs, queue) /\ PromoteInto(pcs)
    BY <1>0, <1>6, <2>1, OthersHold DEF Claim, ClearAndPromote
  <2>4. /\ pending' \in Requests \cup {None} /\ event' = pending'
        /\ response' = None /\ queue' \in Seq(Requests) /\ pc' \in [Requests -> PC]
    BY <1>0, <2>3, PromoteWorks
  <2>5. /\ answer' = [answer EXCEPT ![r] = resp]
        /\ decided' \in {decided, decided \cup {resp}} /\ tail' \in {tail, None}
        /\ UNCHANGED <<signalled, reply, handled, up, crashes>>
    BY <1>6 DEF Claim, Archive
  <2> QED
    BY <2>2, <2>4, <2>5
<1>7. ASSUME NEW r \in Requests, Leave(r) PROVE TypeOK'
  <2>1. pc[r] = "leaving" /\ UNCHANGED <<answer, signalled, reply, disk, handled, up, crashes>>
    BY <1>7 DEF Leave
  <2> DEFINE next == [pc EXCEPT ![r] = IF r \in Widgets THEN "withdrawing" ELSE "cancelled"]
  <2>2. next \in [Requests -> PC]
    OBVIOUS
  <2>3. CASE Queued(r)
    <3>1. PICK i \in 1..Len(queue) : queue[i] = r
               /\ queue' = SubSeq(queue, 1, i - 1) \o SubSeq(queue, i + 1, Len(queue))
      BY <1>7, <2>3 DEF Leave
    <3>2. queue' \in Seq(Requests)
      BY <3>1, DroppedFromQueue
    <3>3. pc' = next /\ UNCHANGED <<pending, event, response>>
      BY <1>7, <2>3 DEF Leave
    <3> QED
      BY <2>1, <2>2, <3>2, <3>3
  <2>4. CASE ~Queued(r) /\ pending = r
    <3>1. PromoteInto(next)
      BY <1>7, <2>4 DEF Leave, ClearAndPromote
    <3>2. Holds(next, queue)
      BY <1>0, <2>4, ElementOfSeq DEF Holds, Queued
    <3>3. /\ pending' \in Requests \cup {None} /\ event' = pending'
          /\ response' = None /\ queue' \in Seq(Requests) /\ pc' \in [Requests -> PC]
      BY <1>0, <2>2, <3>1, <3>2, PromoteWorks
    <3> QED
      BY <2>1, <3>3
  <2>5. CASE ~Queued(r) /\ pending # r
    <3>1. pc' = next /\ UNCHANGED slot
      BY <1>7, <2>5 DEF Leave
    <3> QED
      BY <2>1, <2>2, <3>1
  <2> QED
    BY <2>3, <2>4, <2>5
<1>8. ASSUME NEW r \in Requests, CancelPending(r) PROVE TypeOK'
  <2>1. pc[r] = "withdrawing" /\ UNCHANGED <<answer, reply, handled, up, crashes>>
    BY <1>8 DEF CancelPending
  <2>2. CASE pending = None \/ response # None
    BY <1>8, <2>1, <2>2 DEF CancelPending
  <2>3. CASE pending # None /\ response = None
    <3>0. Response(pending, FALSE) \in Responses
      BY <2>3 DEF Response, Responses
    <3>1. decided' \subseteq Responses /\ tail' = None
      BY <1>8, <2>3, <3>0 DEF CancelPending, Archive
    <3>2. CASE event # None
      BY <1>8, <2>1, <2>3, <3>0, <3>1, <3>2 DEF CancelPending
    <3>3. CASE event = None
      <4>1. PromoteInto([pc EXCEPT ![r] = "cancelled"]) /\ UNCHANGED signalled
        BY <1>8, <2>3, <3>3 DEF CancelPending, ClearAndPromote
      <4>2. /\ [pc EXCEPT ![r] = "cancelled"] \in [Requests -> PC]
            /\ Holds([pc EXCEPT ![r] = "cancelled"], queue)
        BY <1>0, <2>1, OthersHold
      <4>3. /\ pending' \in Requests \cup {None} /\ event' = pending'
            /\ response' = None /\ queue' \in Seq(Requests) /\ pc' \in [Requests -> PC]
        BY <1>0, <4>1, <4>2, PromoteWorks
      <4> QED
        BY <2>1, <3>1, <4>1, <4>3
    <3> QED
      BY <3>2, <3>3
  <2> QED
    BY <2>2, <2>3
<1>9. ASSUME NEW r \in Requests, Expire(r) PROVE TypeOK'
  BY <1>9 DEF Expire
<1>10. ASSUME NEW r \in Requests, ClaimFails(r) PROVE TypeOK'
  BY <1>10 DEF ClaimFails
<1>11. ASSUME NEW r \in Requests, CancelWaiter(r) PROVE TypeOK'
  BY <1>11 DEF CancelWaiter
<1>12. ASSUME NEW r \in Requests, Post(r) PROVE TypeOK'
  BY <1>12 DEF Post
<1>13. ASSUME NEW r \in Requests, Wake(r) PROVE TypeOK'
  BY <1>13 DEF Wake
<1>14. ASSUME NEW r \in Requests, BeginRecovery(r) PROVE TypeOK'
  BY <1>14 DEF BeginRecovery
<1>15. ASSUME NEW r \in Requests, HandlerDone(r) PROVE TypeOK'
  BY <1>15 DEF HandlerDone
<1>16. ASSUME NEW r \in Requests, Restore(r) PROVE TypeOK'
  BY <1>16 DEF Restore
<1>17. ASSUME NEW r \in Requests, PromoteAfterRecovery(r) PROVE TypeOK'
  <2>1. /\ reply' = [reply EXCEPT ![r] = "none"]
        /\ UNCHANGED <<answer, signalled, disk, handled, up, crashes>>
    BY <1>17 DEF PromoteAfterRecovery
  <2>2. CASE pending # None \/ queue = <<>>
    BY <1>17, <2>1, <2>2 DEF PromoteAfterRecovery, PromoteNext
  <2>3. CASE ~(pending # None \/ queue = <<>>)
    <3>1. PromoteInto(pc)
      BY <1>17, <2>3 DEF PromoteAfterRecovery, PromoteNext
    <3>2. /\ pending' \in Requests \cup {None} /\ event' = pending'
          /\ response' = None /\ queue' \in Seq(Requests) /\ pc' \in [Requests -> PC]
      BY <1>0, <3>1, PromoteWorks
    <3> QED
      BY <2>1, <3>2
  <2> QED
    BY <2>2, <2>3
<1>18. ASSUME NEW r \in Requests, HandlerRaises(r) PROVE TypeOK'
  BY <1>18 DEF HandlerRaises
<1>19. ASSUME NEW r \in Requests, NEW ok \in BOOLEAN, Respond(r, ok) PROVE TypeOK'
  <2>1. Response(r, ok) \in Responses
    BY DEF Response, Responses
  <2> QED
    BY <1>19, <2>1 DEF Respond, Archive
<1>20. CASE UserRow
  BY <1>20 DEF UserRow
<1>21. CASE Crash
  <2>1. crashes' \in 0..MaxCrashes
    BY <1>21, Parameters DEF Crash
  <2>2. /\ pc' \in [Requests -> PC] /\ reply' \in [Requests -> ReplyPC]
        /\ queue' \in Seq(Requests)
    BY <1>21, EmptySeq DEF Crash
  <2>3. /\ UNCHANGED <<answer, decided, tail, handled>> /\ up' = FALSE
        /\ pending' = None /\ event' = None /\ response' = None /\ signalled' = {}
    BY <1>21 DEF Crash
  <2> QED
    BY <2>1, <2>2, <2>3
<1>22. CASE Restart
  BY <1>22 DEF Restart
<1>23. CASE UNCHANGED vars
  BY <1>23 DEF vars
<1> QED
  BY <1>1, <1>2, <1>3, <1>4, <1>5, <1>6, <1>7, <1>8, <1>9, <1>10, <1>11, <1>12, <1>13, <1>14, <1>15, <1>16, <1>17, <1>18, <1>19, <1>20, <1>21, <1>22, <1>23 DEF Next, WaiterStep, ReplierStep

-----------------------------------------------------------------------------
(* QueueHoldsWaiters *)

\* where each way into ClearAndPromote comes from, the queue is intact
LEMMA ClearsHold ==
    ASSUME TypeOK, QueueHoldsWaiters, NEW r \in Requests
    PROVE  /\ Holds(pc, queue) /\ queue \in Seq(Requests) /\ pc \in [Requests -> PC]
           /\ Claim(r) => /\ Holds([pc EXCEPT ![r] = "returned"], queue)
                          /\ [pc EXCEPT ![r] = "returned"] \in [Requests -> PC]
           /\ pc[r] \notin {"queued", "leaving"} =>
                /\ Holds([pc EXCEPT ![r] = "cancelled"], queue)
                /\ [pc EXCEPT ![r] = "cancelled"] \in [Requests -> PC]
           /\ ~Queued(r) =>
                \A x \in {"withdrawing", "cancelled"} :
                    pc[r] = "leaving" =>
                      /\ Holds([pc EXCEPT ![r] = x], queue)
                      /\ [pc EXCEPT ![r] = x] \in [Requests -> PC]
<1>1. Holds(pc, queue) /\ queue \in Seq(Requests) /\ pc \in [Requests -> PC]
  BY HoldsIsInvariant DEF TypeOK
<1>2. \A i \in 1..Len(queue) : queue[i] \in Requests
  BY <1>1, ElementOfSeq
<1>3. Claim(r) => pc[r] \notin {"queued", "leaving"}
  BY DEF Claim, At
<1> QED
  BY <1>1, <1>2, <1>3, OthersHold DEF PC, Waiting, Holds, Queued

LEMMA QueueStep ==
    ASSUME TypeOK, QueueHoldsWaiters, [Next]_vars
    PROVE  QueueHoldsWaiters'
<1> SUFFICES Holds(pc', queue')
  BY DEF QueueHoldsWaiters, Holds, Queued
<1>0. /\ Holds(pc, queue) /\ queue \in Seq(Requests) /\ pc \in [Requests -> PC]
      /\ \A i \in 1..Len(queue) : queue[i] \in Requests
      /\ Len(queue) \in Nat
  BY HoldsIsInvariant, ElementOfSeq, LenProperties DEF TypeOK
<1>1. ASSUME NEW r \in Requests, Request(r) PROVE Holds(pc', queue')
  BY <1>0, <1>1 DEF Request, At, GoesTo, slot, Holds
<1>2. ASSUME NEW r \in Requests, Install(r) PROVE Holds(pc', queue')
  <2>1. CASE pending = None
    BY <1>0, <1>2, <2>1 DEF Install, At, GoesTo, Holds
  <2>2. CASE pending # None
    <3>1. /\ pc[r] = "archived" /\ pc' = [pc EXCEPT ![r] = "queued"]
          /\ queue' = Append(queue, r)
      BY <1>2, <2>2 DEF Install, At, GoesTo
    <3>2. /\ Len(queue') = Len(queue) + 1 /\ queue'[Len(queue) + 1] = r
          /\ \A i \in 1..Len(queue) : queue'[i] = queue[i]
      BY <1>0, <3>1, AppendProperties
    <3>3. \A i \in 1..Len(queue) : queue[i] # r
      BY <1>0, <3>1 DEF Holds
    <3>4. \A i \in 1..Len(queue') : i \in 1..Len(queue) \/ i = Len(queue) + 1
      BY <1>0, <3>2
    <3>5. \A s \in Requests : pc'[s] = "queued" => \E i \in 1..Len(queue') : queue'[i] = s
      BY <1>0, <3>1, <3>2 DEF Holds
    <3>6. \A i \in 1..Len(queue') : pc'[queue'[i]] \in {"queued", "leaving"}
      BY <1>0, <3>1, <3>2, <3>3, <3>4 DEF Holds
    <3>7. \A i, j \in 1..Len(queue') : queue'[i] = queue'[j] => i = j
      BY <1>0, <3>2, <3>3, <3>4 DEF Holds
    <3> QED
      BY <3>5, <3>6, <3>7 DEF Holds
  <2> QED
    BY <2>1, <2>2
<1>3. ASSUME NEW r \in Requests, Promoted(r) PROVE Holds(pc', queue')
  BY <1>0, <1>3 DEF Promoted, At, GoesTo, slot, Holds
<1>4. ASSUME NEW r \in Requests, Await(r) PROVE Holds(pc', queue')
  BY <1>0, <1>4 DEF Await, At, GoesTo, slot, Holds
<1>5. ASSUME NEW r \in Requests, Awake(r) PROVE Holds(pc', queue')
  BY <1>0, <1>5 DEF Awake, At, GoesTo, slot, Holds
<1>6. ASSUME NEW r \in Requests, Claim(r) PROVE Holds(pc', queue')
  <2>1. PromoteInto([pc EXCEPT ![r] = "returned"])
    BY <1>6 DEF Claim, ClearAndPromote
  <2> QED
    BY <1>0, <1>6, <2>1, ClearsHold, PromoteWorks
<1>7. ASSUME NEW r \in Requests, Leave(r) PROVE Holds(pc', queue')
  <2>1. pc[r] = "leaving"
    BY <1>7 DEF Leave, At
  <2>2. PICK x \in {"withdrawing", "cancelled"} :
             x = IF r \in Widgets THEN "withdrawing" ELSE "cancelled"
    OBVIOUS
  <2>3. CASE Queued(r)
    <3>1. PICK i \in 1..Len(queue) : queue[i] = r
               /\ queue' = SubSeq(queue, 1, i - 1) \o SubSeq(queue, i + 1, Len(queue))
      BY <1>7, <2>3 DEF Leave
    <3>2. pc' = [pc EXCEPT ![r] = x]
      BY <1>7, <2>2, <2>3 DEF Leave
    <3>3. /\ Len(queue') = Len(queue) - 1
          /\ \A k \in 1..(Len(queue) - 1) : queue'[k] = IF k < i THEN queue[k] ELSE queue[k + 1]
      BY <1>0, <3>1, DroppedFromQueue
    <3>4. \A k \in 1..Len(queue) : k # i => queue[k] # r
      BY <3>1, <1>0 DEF Holds
    <3>5. ASSUME NEW k \in 1..Len(queue')
          PROVE  \E m \in 1..Len(queue) : m # i /\ queue'[k] = queue[m]
                                           /\ m = IF k < i THEN k ELSE k + 1
      <4>1. k \in 1..(Len(queue) - 1) /\ k \in Nat
        BY <1>0, <3>3
      <4>2. CASE k < i
        BY <1>0, <3>3, <4>1, <4>2
      <4>3. CASE ~(k < i)
        <5>1. k + 1 \in 1..Len(queue) /\ k + 1 # i
          BY <1>0, <4>1, <4>3
        <5> QED
          BY <3>3, <4>1, <4>3, <5>1
      <4> QED
        BY <4>2, <4>3
    <3>6. \A s \in Requests : pc'[s] = "queued" => \E k \in 1..Len(queue') : queue'[k] = s
      <4> SUFFICES ASSUME NEW s \in Requests, pc'[s] = "queued"
                   PROVE  \E k \in 1..Len(queue') : queue'[k] = s
        OBVIOUS
      <4>1. s # r /\ pc[s] = "queued"
        BY <1>0, <2>2, <3>2
      <4>2. PICK m \in 1..Len(queue) : queue[m] = s
        BY <1>0, <4>1 DEF Holds
      <4>3. m # i
        BY <3>1, <4>1, <4>2
      <4>4. CASE m < i
        <5>1. m \in 1..(Len(queue) - 1)
          BY <1>0, <4>4
        <5> QED
          BY <3>3, <4>2, <4>4, <5>1
      <4>5. CASE m > i
        <5>1. m - 1 \in 1..(Len(queue) - 1) /\ ~(m - 1 < i) /\ (m - 1) + 1 = m
          BY <1>0, <3>1, <4>5
        <5> QED
          BY <3>3, <4>2, <5>1
      <4>6. m < i \/ m > i
        BY <1>0, <4>3
      <4> QED
        BY <4>4, <4>5, <4>6
    <3>7. \A k \in 1..Len(queue') : pc'[queue'[k]] \in {"queued", "leaving"}
      BY <1>0, <3>2, <3>4, <3>5 DEF Holds
    <3>8. \A k, m \in 1..Len(queue') : queue'[k] = queue'[m] => k = m
      <4> SUFFICES ASSUME NEW k \in 1..Len(queue'), NEW m \in 1..Len(queue'),
                          queue'[k] = queue'[m]
                   PROVE  k = m
        OBVIOUS
      <4>1. PICK kk \in 1..Len(queue) :
                 queue'[k] = queue[kk] /\ kk = IF k < i THEN k ELSE k + 1
        BY <3>5
      <4>2. PICK mm \in 1..Len(queue) :
                 queue'[m] = queue[mm] /\ mm = IF m < i THEN m ELSE m + 1
        BY <3>5
      <4>0. \A a, b \in 1..Len(queue) : queue[a] = queue[b] => a = b
        BY <1>0 DEF Holds
      <4>3. kk = mm
        BY <4>0, <4>1, <4>2
      <4> QED
        BY <1>0, <3>1, <3>3, <4>1, <4>2, <4>3
    <3> QED
      BY <3>6, <3>7, <3>8 DEF Holds
  <2>4. CASE ~Queued(r) /\ pending = r
    <3>1. PromoteInto([pc EXCEPT ![r] = x])
      BY <1>7, <2>2, <2>4 DEF Leave, ClearAndPromote
    <3> QED
      BY <1>0, <2>1, <2>4, <3>1, ClearsHold, PromoteWorks
  <2>5. CASE ~Queued(r) /\ pending # r
    <3>1. pc' = [pc EXCEPT ![r] = x] /\ UNCHANGED slot
      BY <1>7, <2>2, <2>5 DEF Leave
    <3> QED
      BY <2>1, <2>5, <3>1, ClearsHold DEF slot
  <2> QED
    BY <2>3, <2>4, <2>5
<1>8. ASSUME NEW r \in Requests, CancelPending(r) PROVE Holds(pc', queue')
  <2>1. pc[r] = "withdrawing"
    BY <1>8 DEF CancelPending, At
  <2>2. /\ Holds([pc EXCEPT ![r] = "cancelled"], queue)
        /\ [pc EXCEPT ![r] = "cancelled"] \in [Requests -> PC]
    BY <2>1, ClearsHold
  <2>3. CASE pending # None /\ response = None /\ event = None
    <3>1. PromoteInto([pc EXCEPT ![r] = "cancelled"])
      BY <1>8, <2>3 DEF CancelPending, ClearAndPromote
    <3> QED
      BY <1>0, <2>2, <3>1, PromoteWorks
  <2>4. CASE ~(pending # None /\ response = None /\ event = None)
    BY <1>8, <2>2, <2>4 DEF CancelPending, GoesTo, slot
  <2> QED
    BY <2>3, <2>4
<1>9. ASSUME NEW r \in Requests, Expire(r) PROVE Holds(pc', queue')
  BY <1>0, <1>9 DEF Expire, At, GoesTo, slot, Holds
<1>10. ASSUME NEW r \in Requests, ClaimFails(r) PROVE Holds(pc', queue')
  BY <1>0, <1>10 DEF ClaimFails, At, GoesTo, slot, Holds
<1>11. ASSUME NEW r \in Requests, CancelWaiter(r) PROVE Holds(pc', queue')
  BY <1>0, <1>11 DEF CancelWaiter, GoesTo, slot, Holds
<1>12. ASSUME NEW r \in Requests, Post(r) PROVE Holds(pc', queue')
  BY <1>0, <1>12 DEF Post, At, GoesTo, slot, Holds
<1>13. ASSUME NEW r \in Requests, Wake(r) PROVE Holds(pc', queue')
  BY <1>0, <1>13 DEF Wake, slot
<1>14. ASSUME NEW r \in Requests, BeginRecovery(r) PROVE Holds(pc', queue')
  BY <1>0, <1>14 DEF BeginRecovery, slot
<1>15. ASSUME NEW r \in Requests, HandlerDone(r) PROVE Holds(pc', queue')
  BY <1>0, <1>15 DEF HandlerDone, slot
<1>16. ASSUME NEW r \in Requests, Restore(r) PROVE Holds(pc', queue')
  BY <1>0, <1>16 DEF Restore, slot
<1>17. ASSUME NEW r \in Requests, PromoteAfterRecovery(r) PROVE Holds(pc', queue')
  <2>1. CASE pending # None \/ queue = <<>>
    BY <1>0, <1>17, <2>1 DEF PromoteAfterRecovery, PromoteNext, slot
  <2>2. CASE ~(pending # None \/ queue = <<>>)
    <3>1. PromoteInto(pc)
      BY <1>17, <2>2 DEF PromoteAfterRecovery, PromoteNext
    <3> QED
      BY <1>0, <3>1, PromoteWorks
  <2> QED
    BY <2>1, <2>2
<1>18. ASSUME NEW r \in Requests, HandlerRaises(r) PROVE Holds(pc', queue')
  BY <1>0, <1>18 DEF HandlerRaises, slot
<1>19. ASSUME NEW r \in Requests, NEW ok \in BOOLEAN, Respond(r, ok) PROVE Holds(pc', queue')
  BY <1>0, <1>19 DEF Respond
<1>20. CASE UserRow
  BY <1>0, <1>20 DEF UserRow, slot
<1>21. CASE Crash
  <2>1. /\ queue' = <<>> /\ Len(queue') = 0
        /\ \A r \in Requests : pc'[r] # "queued"
    BY <1>0, <1>21, EmptySeq DEF Crash, Waiting, PC
  <2> QED
    BY <2>1 DEF Holds
<1>22. CASE Restart
  BY <1>0, <1>22 DEF Restart
<1>23. CASE UNCHANGED vars
  BY <1>0, <1>23 DEF vars, slot
<1> QED
  BY <1>1, <1>2, <1>3, <1>4, <1>5, <1>6, <1>7, <1>8, <1>9, <1>10, <1>11, <1>12, <1>13, <1>14, <1>15, <1>16, <1>17, <1>18, <1>19, <1>20, <1>21, <1>22, <1>23 DEF Next, WaiterStep, ReplierStep

-----------------------------------------------------------------------------
(* SlotMatchesEvent *)

SlotInv == SlotMatchesEvent /\ NoWaiterBehind

\* a promotion keeps the invariant when the caller's own move is harmless
LEMMA PromoteKeepsSlot ==
    ASSUME TypeOK, SlotInv, NEW pcs \in [Requests -> PC], Holds(pcs, queue),
           PromoteInto(pcs), up' = TRUE,
           \A q \in Requests :
              \/ pcs[q] = pc[q]
              \/ pcs[q] \notin Waiting \cup {"idle"}
              \/ (pc[q] \in Waiting /\ pcs[q] \in Waiting),
           tail' \in {tail, None},
           \A q \in Requests : reply'[q] \in {reply[q], "none"}
    PROVE  SlotInv'
<1>1. /\ event' = pending'
      /\ \A r \in Requests : pc'[r] = pcs[r] \/ (pcs[r] = "queued" /\ pc'[r] = "promoted")
      /\ \A r \in Requests : pending' = r => pc'[r] # "idle"
  BY PromoteWorks DEF TypeOK
<1>2. \A r \in Requests : pc'[r] = "idle" => pc[r] = "idle"
  BY <1>1 DEF Waiting
<1>3. \A r \in Requests : pc'[r] \in Waiting \cup {"idle"} => pc[r] \in Waiting \cup {"idle"}
  BY <1>1 DEF Waiting
<1>4. \A r \in Requests : tail' = r => pc'[r] # "idle"
  BY <1>2, Parameters DEF SlotInv, NoWaiterBehind
<1>5. \A r \in Requests :
        reply'[r] \in {"recover", "dispatch", "restore"} => pc'[r] \notin Waiting \cup {"idle"}
  BY <1>3 DEF SlotInv, NoWaiterBehind
<1> QED
  BY <1>1, <1>4, <1>5 DEF SlotInv, SlotMatchesEvent, NoWaiterBehind

LEMMA SlotStep ==
    ASSUME TypeOK, QueueHoldsWaiters, SlotInv, [Next]_vars
    PROVE  SlotInv'
<1> USE DEF SlotInv, SlotMatchesEvent, NoWaiterBehind, At, GoesTo, ReplyStep, slot, disk, Waiting
<1>0. /\ Holds(pc, queue) /\ pc \in [Requests -> PC] /\ reply \in [Requests -> ReplyPC]
      /\ pending \in Requests \cup {None} /\ tail \in Requests \cup {None} /\ None \notin Requests
  BY HoldsIsInvariant, Parameters DEF TypeOK
<1>1. ASSUME NEW r \in Requests, Request(r) PROVE SlotInv'
  BY <1>0, <1>1 DEF Request
<1>2. ASSUME NEW r \in Requests, Install(r) PROVE SlotInv'
  BY <1>0, <1>2 DEF Install
<1>3. ASSUME NEW r \in Requests, Promoted(r) PROVE SlotInv'
  BY <1>0, <1>3 DEF Promoted
<1>4. ASSUME NEW r \in Requests, Await(r) PROVE SlotInv'
  BY <1>0, <1>4 DEF Await
<1>5. ASSUME NEW r \in Requests, Awake(r) PROVE SlotInv'
  BY <1>0, <1>5 DEF Awake
<1>6. ASSUME NEW r \in Requests, Claim(r) PROVE SlotInv'
  <2>1. PromoteInto([pc EXCEPT ![r] = "returned"])
    BY <1>6 DEF Claim, ClearAndPromote
  <2>2. /\ Holds([pc EXCEPT ![r] = "returned"], queue)
        /\ [pc EXCEPT ![r] = "returned"] \in [Requests -> PC]
    BY <1>6, ClearsHold
  <2>3. up' = TRUE /\ tail' \in {tail, None} /\ reply' = reply
    BY <1>6 DEF Claim, Archive, TypeOK
  <2> QED
    BY <1>0, <2>1, <2>2, <2>3, PromoteKeepsSlot
<1>7. ASSUME NEW r \in Requests, Leave(r) PROVE SlotInv'
  <2>1. pc[r] = "leaving" /\ up' = TRUE /\ tail' = tail /\ reply' = reply
    BY <1>7 DEF Leave, TypeOK
  <2>2. PICK x \in {"withdrawing", "cancelled"} :
             x = IF r \in Widgets THEN "withdrawing" ELSE "cancelled"
    OBVIOUS
  <2>3. CASE ~Queued(r) /\ pending = r
    <3>1. PromoteInto([pc EXCEPT ![r] = x])
      BY <1>7, <2>2, <2>3 DEF Leave, ClearAndPromote
    <3>2. /\ Holds([pc EXCEPT ![r] = x], queue) /\ [pc EXCEPT ![r] = x] \in [Requests -> PC]
      BY <2>1, <2>3, ClearsHold
    <3> QED
      BY <1>0, <2>1, <3>1, <3>2, PromoteKeepsSlot
  <2>4. CASE Queued(r) \/ pending # r
    <3>1. pc' = [pc EXCEPT ![r] = x] /\ UNCHANGED <<pending, event>>
      BY <1>7, <2>2, <2>4 DEF Leave
    <3> QED
      BY <1>0, <2>1, <3>1
  <2> QED
    BY <2>3, <2>4
<1>8. ASSUME NEW r \in Requests, CancelPending(r) PROVE SlotInv'
  <2>1. pc[r] = "withdrawing" /\ up' = TRUE /\ reply' = reply /\ tail' \in {tail, None}
    BY <1>8 DEF CancelPending, Archive, TypeOK
  <2>2. CASE pending # None /\ response = None /\ event = None
    <3>1. PromoteInto([pc EXCEPT ![r] = "cancelled"])
      BY <1>8, <2>2 DEF CancelPending, ClearAndPromote
    <3>2. /\ Holds([pc EXCEPT ![r] = "cancelled"], queue)
          /\ [pc EXCEPT ![r] = "cancelled"] \in [Requests -> PC]
      BY <2>1, ClearsHold
    <3> QED
      BY <1>0, <2>1, <3>1, <3>2, PromoteKeepsSlot
  <2>3. CASE ~(pending # None /\ response = None /\ event = None)
    <3>1. /\ pc' = [pc EXCEPT ![r] = "cancelled"]
          /\ (pending' = pending /\ event' = event) \/ (pending' = None /\ event' = None)
      BY <1>8, <2>3 DEF CancelPending
    <3> QED
      BY <1>0, <2>1, <3>1
  <2> QED
    BY <2>2, <2>3
<1>9. ASSUME NEW r \in Requests, Expire(r) PROVE SlotInv'
  BY <1>0, <1>9 DEF Expire
<1>10. ASSUME NEW r \in Requests, ClaimFails(r) PROVE SlotInv'
  BY <1>0, <1>10 DEF ClaimFails
<1>11. ASSUME NEW r \in Requests, CancelWaiter(r) PROVE SlotInv'
  BY <1>0, <1>11 DEF CancelWaiter
<1>12. ASSUME NEW r \in Requests, Post(r) PROVE SlotInv'
  BY <1>0, <1>12 DEF Post
<1>13. ASSUME NEW r \in Requests, Wake(r) PROVE SlotInv'
  BY <1>0, <1>13 DEF Wake
<1>14. ASSUME NEW r \in Requests, BeginRecovery(r) PROVE SlotInv'
  BY <1>0, <1>14 DEF BeginRecovery
<1>15. ASSUME NEW r \in Requests, HandlerDone(r) PROVE SlotInv'
  BY <1>0, <1>15 DEF HandlerDone
<1>16. ASSUME NEW r \in Requests, Restore(r) PROVE SlotInv'
  BY <1>0, <1>16 DEF Restore
<1>17. ASSUME NEW r \in Requests, PromoteAfterRecovery(r) PROVE SlotInv'
  <2>1. up' = TRUE /\ tail' = tail /\ reply' = [reply EXCEPT ![r] = "none"]
    BY <1>17 DEF PromoteAfterRecovery, TypeOK
  <2>2. CASE pending # None \/ queue = <<>>
    <3>1. UNCHANGED <<pc, pending, event, queue>>
      BY <1>17, <2>2 DEF PromoteAfterRecovery, PromoteNext
    <3> QED
      BY <1>0, <2>1, <3>1
  <2>3. CASE ~(pending # None \/ queue = <<>>)
    <3>1. PromoteInto(pc)
      BY <1>17, <2>3 DEF PromoteAfterRecovery, PromoteNext
    <3> QED
      BY <1>0, <2>1, <3>1, PromoteKeepsSlot
  <2> QED
    BY <2>2, <2>3
<1>18. ASSUME NEW r \in Requests, HandlerRaises(r) PROVE SlotInv'
  BY <1>0, <1>18 DEF HandlerRaises
<1>19. ASSUME NEW r \in Requests, NEW ok \in BOOLEAN, Respond(r, ok) PROVE SlotInv'
  BY <1>0, <1>19 DEF Respond, Archive
<1>20. CASE UserRow
  BY <1>0, <1>20 DEF UserRow
<1>21. CASE Crash
  BY <1>0, <1>21 DEF Crash
<1>22. CASE Restart
  BY <1>0, <1>22 DEF Restart
<1>23. CASE UNCHANGED vars
  BY <1>0, <1>23 DEF vars
<1> QED
  BY <1>1, <1>2, <1>3, <1>4, <1>5, <1>6, <1>7, <1>8, <1>9, <1>10, <1>11, <1>12, <1>13, <1>14, <1>15, <1>16, <1>17, <1>18, <1>19, <1>20, <1>21, <1>22, <1>23 DEF Next, WaiterStep, ReplierStep

-----------------------------------------------------------------------------
(* ApprovalOnRecord *)

RecordInv == ResponseOnRecord /\ ApprovalOnRecord

\* the archive only grows, and what enters the slot is in it
LEMMA RecordStep ==
    ASSUME TypeOK, QueueHoldsWaiters, RecordInv, [Next]_vars
    PROVE  RecordInv'
<1> USE DEF RecordInv, ResponseOnRecord, ApprovalOnRecord
<1>1. decided \subseteq decided'
  BY DEF Next, vars, disk, WaiterStep, ReplierStep, Request, Install, Promoted, Await, Awake,
         Claim, Leave, CancelPending, Expire, ClaimFails, CancelWaiter, Post, Wake,
         BeginRecovery, HandlerDone, Restore, PromoteAfterRecovery, HandlerRaises, Respond,
         UserRow, Crash, Restart, Archive
<1>2. response' = None \/ response' = response \/ response' \in decided'
  <2>1. \A r \in Requests : CancelPending(r) =>
            response' = None \/ response' = response \/ response' \in decided'
    BY DEF CancelPending, Archive, ClearAndPromote, PromoteInto, slot
  <2>2. \A r \in Requests, ok \in BOOLEAN : Respond(r, ok) => response' \in decided'
    BY DEF Respond, Archive
  <2>3. \A r \in Requests : Claim(r) => response' = None
    BY DEF Claim, ClearAndPromote, PromoteInto
  <2>4. \A r \in Requests : Leave(r) => response' = None \/ response' = response
    BY DEF Leave, ClearAndPromote, PromoteInto, slot
  <2>5. \A r \in Requests : PromoteAfterRecovery(r) => response' = None \/ response' = response
    BY DEF PromoteAfterRecovery, PromoteNext, PromoteInto, slot
  <2> QED
    BY <2>1, <2>2, <2>3, <2>4, <2>5
       DEF Next, vars, slot, WaiterStep, ReplierStep, Request, Install, Promoted, Await, Awake,
           Expire, ClaimFails, CancelWaiter, Post, Wake, BeginRecovery, HandlerDone, Restore,
           HandlerRaises, UserRow, Crash, Restart
<1>3. \A r \in Requests : Claim(r) =>
         \A q \in Requests :
            \/ answer'[q] = answer[q]
            \/ q = r /\ answer'[q] = response /\ response # None
            \/ q = r /\ answer'[q] = Response(r, FALSE)
  <2> SUFFICES ASSUME NEW r \in Requests, Claim(r), NEW q \in Requests
               PROVE  \/ answer'[q] = answer[q]
                      \/ q = r /\ answer'[q] = response /\ response # None
                      \/ q = r /\ answer'[q] = Response(r, FALSE)
    OBVIOUS
  <2>1. answer' = [answer EXCEPT ![r] = IF response # None THEN response ELSE Response(r, FALSE)]
    BY DEF Claim
  <2>2. answer \in [Requests -> Responses \cup {None}]
    BY DEF TypeOK
  <2> QED
    BY <2>1, <2>2
<1>4. UNCHANGED answer \/ \E r \in Requests : Claim(r)
  BY DEF Next, vars, WaiterStep, ReplierStep, Request, Install, Promoted, Await, Awake,
         Leave, CancelPending, Expire, ClaimFails, CancelWaiter, Post, Wake,
         BeginRecovery, HandlerDone, Restore, PromoteAfterRecovery, HandlerRaises, Respond,
         UserRow, Crash, Restart
<1>5. ASSUME NEW q \in Requests, answer'[q] # None, answer'[q].approved
      PROVE  answer'[q] \in decided'
  <2>1. CASE answer'[q] = answer[q]
    BY <1>1, <1>5, <2>1
  <2>2. CASE answer'[q] = response /\ response # None
    BY <1>1, <2>2
  <2>3. CASE answer'[q] = Response(q, FALSE)
    BY <1>5, <2>3 DEF Response
  <2> QED
    BY <1>3, <1>4, <2>1, <2>2, <2>3
<1> QED
  BY <1>1, <1>2, <1>5

-----------------------------------------------------------------------------
(* ActedOnce *)

\* the recovery handler has the request, or failed and is about to give it back
Replying == {"recover", "dispatch", "restore"}
\* a caller that reads the response in the slot before it looks at its own
Asked == {"promoted", "asking", "waiting", "claiming", "expired"}

\* nothing can answer the request once more: it is not pending, a restart does
\* not find it, no handler is at work and no caller waits
Closed(r) ==
    /\ pending # r /\ tail # r
    /\ reply[r] \notin Replying
    /\ pc[r] \notin Waiting \cup {"idle"}

\* What ActedOnce needs to be inductive: an answer closes its request, for the
\* slot, for the restart that reads the archive and for the handler alike.
Acted(r) ==
    /\ reply[r] \in Replying => pending # r /\ tail # r
    /\ handled[r] # 0 => handled[r] = 1 /\ answer[r] = None /\ Closed(r)
    /\ answer[r] # None => Closed(r)
    /\ tail = r /\ response # None => pc[r] \notin Asked
    /\ tail = r => r \notin signalled /\ reply[r] # "wake"
    /\ r \in signalled \/ reply[r] = "wake" => pc[r] # "idle"
    /\ ~up => reply[r] = "none"
    /\ pc[r] = "claiming" => r \in signalled

ActedInv == \A r \in Requests : Acted(r)

\* PromoteInto by its effect: it empties the slot, or hands it to the head,
\* which was waiting in the queue or is on its way out of it
LEMMA PromoteTakesHead ==
    ASSUME queue \in Seq(Requests), NEW pcs \in [Requests -> PC], Holds(pcs, queue),
           PromoteInto(pcs)
    PROVE  /\ queue = <<>> =>
                pending' = None /\ event' = None /\ pc' = pcs /\ queue' = <<>>
           /\ queue # <<>> =>
                /\ Head(queue) \in Requests
                /\ pending' = Head(queue) /\ event' = Head(queue)
                /\ pcs[Head(queue)] \in {"queued", "leaving"}
                /\ pc'[Head(queue)] \in {"promoted", "leaving"}
                /\ \A r \in Requests : r # Head(queue) => pc'[r] = pcs[r]
           /\ response' = None
<1>1. CASE queue = <<>>
  BY <1>1 DEF PromoteInto
<1>2. CASE queue # <<>>
  <2>1. /\ pending' = Head(queue) /\ event' = Head(queue) /\ response' = None
        /\ pc' = Signal(pcs, Head(queue))
    BY <1>2 DEF PromoteInto
  <2>2. Head(queue) \in Requests /\ Head(queue) = queue[1] /\ Len(queue) \in Nat /\ Len(queue) > 0
    BY <1>2, HeadLeaves
  <2>3. pcs[Head(queue)] \in {"queued", "leaving"}
    BY <2>2 DEF Holds
  <2> QED
    BY <1>2, <2>1, <2>2, <2>3 DEF Signal
<1> QED
  BY <1>1, <1>2

\* a promotion answers nothing, and reopens no request
LEMMA PromoteReopensNone ==
    ASSUME TypeOK, NoWaiterBehind, NEW pcs \in [Requests -> PC], Holds(pcs, queue),
           PromoteInto(pcs), up' = TRUE, NEW s \in Requests, Acted(s),
           pcs[s] = pc[s] \/ (pcs[s] \in {"withdrawing", "cancelled"} /\ pc[s] \in Waiting),
           tail' \in {tail, None}, signalled' = signalled,
           reply'[s] = reply[s] \/ reply'[s] = "none",
           answer'[s] = answer[s], handled'[s] = handled[s]
    PROVE  Acted(s)'
<1>1. queue \in Seq(Requests) /\ None \notin Requests
  BY Parameters DEF TypeOK
<1>2. response' = None
  BY <1>1, PromoteTakesHead
<1>3. \/ pc'[s] = pcs[s] /\ pending' # s
      \/ pcs[s] \in {"queued", "leaving"} /\ pc'[s] \in {"promoted", "leaving"}
  BY <1>1, PromoteTakesHead
<1>4. CASE pc'[s] = pcs[s] /\ pending' # s
  BY <1>1, <1>2, <1>4 DEF Acted, Closed, Replying, Asked, Waiting
<1>5. CASE pcs[s] \in {"queued", "leaving"} /\ pc'[s] \in {"promoted", "leaving"}
  <2>1. pc[s] \in {"queued", "leaving"}
    BY <1>5
  <2>2. handled[s] = 0 /\ answer[s] = None /\ reply[s] \notin Replying
    BY <2>1 DEF Acted, Closed, NoWaiterBehind, Waiting, Replying
  <2>3. handled'[s] = 0 /\ answer'[s] = None /\ reply'[s] \notin Replying
    BY <2>2 DEF Replying
  <2>4. tail' = s => s \notin signalled' /\ reply'[s] # "wake"
    BY <1>1 DEF Acted
  <2> QED
    BY <1>2, <1>5, <2>3, <2>4 DEF Acted
<1> QED
  BY <1>3, <1>4, <1>5

LEMMA ActedStep ==
    ASSUME IInv, ActedInv, [Next]_vars, NEW s \in Requests
    PROVE  Acted(s)'
<1> USE DEF At, GoesTo, ReplyStep, slot, disk
<1>0. /\ TypeOK /\ NoWaiterBehind /\ Acted(s) /\ Holds(pc, queue) /\ queue \in Seq(Requests)
      /\ pc \in [Requests -> PC] /\ reply \in [Requests -> ReplyPC]
      /\ handled \in [Requests -> Nat] /\ answer \in [Requests -> Responses \cup {None}]
      /\ None \notin Requests /\ up \in BOOLEAN
  BY HoldsIsInvariant, Parameters DEF IInv, TypeOK, ActedInv
<1>1. ASSUME NEW r \in Requests, Request(r) PROVE Acted(s)'
  BY <1>0, <1>1 DEF Request, Acted, Closed, Replying, Asked, Waiting, NoWaiterBehind
<1>2. ASSUME NEW r \in Requests, Install(r) PROVE Acted(s)'
  BY <1>0, <1>2 DEF Install, Acted, Closed, Replying, Asked, Waiting, NoWaiterBehind
<1>3. ASSUME NEW r \in Requests, Promoted(r) PROVE Acted(s)'
  BY <1>0, <1>3 DEF Promoted, Acted, Closed, Asked, Waiting
<1>4. ASSUME NEW r \in Requests, Await(r) PROVE Acted(s)'
  BY <1>0, <1>4 DEF Await, Acted, Closed, Asked, Waiting
<1>5. ASSUME NEW r \in Requests, Awake(r) PROVE Acted(s)'
  BY <1>0, <1>5 DEF Awake, Acted, Closed, Asked, Waiting
<1>6. ASSUME NEW r \in Requests, Claim(r) PROVE Acted(s)'
  <2> DEFINE pcs == [pc EXCEPT ![r] = "returned"]
  <2>1. /\ pc[r] \in {"claiming", "expired"} /\ up' = TRUE
        /\ UNCHANGED <<signalled, reply, handled>> /\ tail' \in {tail, None}
    BY <1>0, <1>6 DEF Claim, Archive
  <2>2. PromoteInto(pcs) /\ Holds(pcs, queue) /\ pcs \in [Requests -> PC]
    BY <1>0, <1>6, ClearsHold DEF Claim, ClearAndPromote, IInv
  <2>3. CASE s # r
    <3>1. answer'[s] = answer[s] /\ pcs[s] = pc[s]
      BY <1>0, <1>6, <2>3 DEF Claim
    <3> HIDE DEF pcs
    <3> QED
      BY <1>0, <2>1, <2>2, <3>1, PromoteReopensNone
  <2>4. CASE s = r
    <3>1. pcs[r] = "returned"
      BY <1>0
    <3> HIDE DEF pcs
    <3>2. pc'[r] = "returned" /\ pending' # r
      BY <1>0, <2>2, <3>1, PromoteTakesHead
    <3>3. handled[r] = 0 /\ reply[r] \notin Replying
      BY <1>0, <2>1, <2>4 DEF Acted, Closed, Waiting, NoWaiterBehind, Replying
    <3>4. tail' # r
      <4>1. CASE response = None /\ pc[r] = "expired"
        BY <1>0, <1>6, <4>1 DEF Claim, Archive
      <4>2. CASE response = None /\ pc[r] = "claiming"
        BY <1>0, <2>1, <2>4, <4>2 DEF Acted
      <4>3. CASE response # None
        BY <1>0, <2>1, <2>4, <4>3 DEF Acted, Asked
      <4> QED
        BY <2>1, <4>1, <4>2, <4>3
    <3>5. Closed(r)'
      BY <2>1, <3>2, <3>3, <3>4 DEF Closed, Waiting
    <3> QED
      BY <2>1, <2>4, <3>2, <3>3, <3>4, <3>5 DEF Acted
  <2> QED
    BY <2>3, <2>4
<1>7. ASSUME NEW r \in Requests, Leave(r) PROVE Acted(s)'
  <2>1. /\ pc[r] = "leaving" /\ up' = TRUE
        /\ UNCHANGED <<answer, signalled, reply, tail, handled, up>>
    BY <1>0, <1>7 DEF Leave
  <2>2. PICK x \in {"withdrawing", "cancelled"} :
             x = IF r \in Widgets THEN "withdrawing" ELSE "cancelled"
    OBVIOUS
  <2> DEFINE pcs == [pc EXCEPT ![r] = x]
  <2>3. pcs[s] = pc[s] \/ (pcs[s] \in {"withdrawing", "cancelled"} /\ pc[s] \in Waiting)
    BY <1>0, <2>1 DEF Waiting
  <2>4. CASE ~Queued(r) /\ pending = r
    <3>1. PromoteInto(pcs)
      BY <1>7, <2>2, <2>4 DEF Leave, ClearAndPromote
    <3>2. Holds(pcs, queue) /\ pcs \in [Requests -> PC]
      BY <2>1, <2>4, ClearsHold DEF IInv
    <3> HIDE DEF pcs
    <3> QED
      BY <1>0, <2>1, <2>3, <3>1, <3>2, PromoteReopensNone
  <2>5. CASE Queued(r) \/ pending # r
    <3>1. pc' = pcs /\ UNCHANGED <<pending, response>>
      BY <1>7, <2>2, <2>5 DEF Leave
    <3> HIDE DEF pcs
    <3> QED
      BY <1>0, <2>1, <2>3, <3>1 DEF Acted, Closed, Asked, Waiting
  <2> QED
    BY <2>4, <2>5
<1>8. ASSUME NEW r \in Requests, CancelPending(r) PROVE Acted(s)'
  <2> DEFINE pcs == [pc EXCEPT ![r] = "cancelled"]
  <2>1. /\ pc[r] = "withdrawing" /\ up' = TRUE /\ tail' \in {tail, None}
        /\ UNCHANGED <<answer, reply, handled, up>>
    BY <1>0, <1>8 DEF CancelPending, Archive
  <2>2. pcs[s] = pc[s] \/ (pcs[s] \in {"withdrawing", "cancelled"} /\ pc[s] \in Waiting)
    BY <1>0, <2>1 DEF Waiting
  <2>3. CASE pending = None \/ response # None
    <3>1. pc' = pcs /\ UNCHANGED <<pending, response, signalled, tail>>
      BY <1>8, <2>3 DEF CancelPending
    <3> HIDE DEF pcs
    <3> QED
      BY <1>0, <2>1, <2>2, <3>1 DEF Acted, Closed, Asked, Waiting
  <2>4. CASE pending # None /\ response = None /\ event # None
    <3>1. /\ pc' = pcs /\ pending' = None /\ tail' = None
          /\ signalled' = signalled \cup {event}
      BY <1>8, <2>4 DEF CancelPending, Archive
    <3>2. event = s => pc[s] # "idle"
      BY <1>0 DEF IInv, SlotMatchesEvent, NoWaiterBehind, TypeOK
    <3> HIDE DEF pcs
    <3>3. pc'[s] = "idle" => pc[s] = "idle" /\ s \notin signalled'
      BY <1>0, <2>1, <2>2, <3>1, <3>2 DEF Acted, Waiting
    <3>4. pc'[s] = "claiming" => pc[s] = "claiming"
      BY <2>2, <3>1
    <3>5. Closed(s) => Closed(s)'
      BY <1>0, <2>1, <2>2, <3>1 DEF Closed, Waiting
    <3> QED
      BY <1>0, <2>1, <3>1, <3>3, <3>4, <3>5 DEF Acted
  <2>5. CASE pending # None /\ response = None /\ event = None
    <3>1. PromoteInto(pcs) /\ UNCHANGED signalled
      BY <1>8, <2>5 DEF CancelPending, ClearAndPromote
    <3>2. Holds(pcs, queue) /\ pcs \in [Requests -> PC]
      BY <2>1, ClearsHold DEF IInv
    <3> HIDE DEF pcs
    <3> QED
      BY <1>0, <2>1, <2>2, <3>1, <3>2, PromoteReopensNone
  <2> QED
    BY <2>3, <2>4, <2>5
<1>9. ASSUME NEW r \in Requests, Expire(r) PROVE Acted(s)'
  BY <1>0, <1>9 DEF Expire, Acted, Closed, Asked, Waiting
<1>10. ASSUME NEW r \in Requests, ClaimFails(r) PROVE Acted(s)'
  BY <1>0, <1>10 DEF ClaimFails, Acted, Closed, Asked, Waiting
<1>11. ASSUME NEW r \in Requests, CancelWaiter(r) PROVE Acted(s)'
  BY <1>0, <1>11 DEF CancelWaiter, Acted, Closed, Asked, Waiting
<1>12. ASSUME NEW r \in Requests, Post(r) PROVE Acted(s)'
  BY <1>0, <1>12 DEF Post, Acted, Closed, Asked, Waiting, Replying, NoWaiterBehind
<1>13. ASSUME NEW r \in Requests, Wake(r) PROVE Acted(s)'
  BY <1>0, <1>13 DEF Wake, Acted, Closed, Replying
<1>14. ASSUME NEW r \in Requests, BeginRecovery(r) PROVE Acted(s)'
  BY <1>0, <1>14 DEF BeginRecovery, Acted, Closed, Replying
<1>15. ASSUME NEW r \in Requests, HandlerDone(r) PROVE Acted(s)'
  <2>1. CASE s # r
    BY <1>0, <1>15, <2>1 DEF HandlerDone, Acted, Closed
  <2>2. CASE s = r
    <3>1. handled[r] = 0 /\ answer[r] = None /\ pending # r /\ tail # r
      BY <1>0, <1>15, <2>2 DEF HandlerDone, Acted, Closed, Replying
    <3>2. pc[r] \notin Waiting \cup {"idle"}
      BY <1>0, <1>15 DEF HandlerDone, NoWaiterBehind
    <3>3. /\ handled'[r] = 1 /\ reply'[r] = "promote"
          /\ UNCHANGED <<pc, answer, pending, response, tail, signalled, up>>
      BY <1>0, <1>15, <3>1 DEF HandlerDone
    <3>4. Closed(r)'
      BY <3>1, <3>2, <3>3 DEF Closed, Replying
    <3>5. tail' = r => r \notin signalled' /\ reply'[r] # "wake"
      BY <3>1, <3>3
    <3>6. pc'[r] # "idle" /\ pc'[r] # "claiming" /\ pc'[r] \notin Asked /\ up'
      BY <1>15, <3>2, <3>3 DEF HandlerDone, Asked, Waiting
    <3> QED
      BY <2>2, <3>1, <3>3, <3>4, <3>5, <3>6 DEF Acted, Replying
  <2> QED
    BY <2>1, <2>2
<1>16. ASSUME NEW r \in Requests, Restore(r) PROVE Acted(s)'
  BY <1>0, <1>16 DEF Restore, Acted, Closed, Replying, TypeOK
<1>17. ASSUME NEW r \in Requests, PromoteAfterRecovery(r) PROVE Acted(s)'
  <2>1. /\ up' = TRUE /\ reply[r] = "promote" /\ reply' = [reply EXCEPT ![r] = "none"]
        /\ UNCHANGED <<answer, signalled, tail, handled, up>>
    BY <1>0, <1>17 DEF PromoteAfterRecovery
  <2>2. CASE pending # None \/ queue = <<>>
    <3>1. UNCHANGED <<pc, pending, response>>
      BY <1>17, <2>2 DEF PromoteAfterRecovery, PromoteNext
    <3> QED
      BY <1>0, <2>1, <3>1 DEF Acted, Closed, Replying
  <2>3. CASE ~(pending # None \/ queue = <<>>)
    <3>1. PromoteInto(pc)
      BY <1>17, <2>3 DEF PromoteAfterRecovery, PromoteNext
    <3> QED
      BY <1>0, <2>1, <3>1, PromoteReopensNone
  <2> QED
    BY <2>2, <2>3
<1>18. ASSUME NEW r \in Requests, HandlerRaises(r) PROVE Acted(s)'
  BY <1>0, <1>18 DEF HandlerRaises, Acted, Closed, Replying
<1>19. ASSUME NEW r \in Requests, NEW ok \in BOOLEAN, Respond(r, ok) PROVE Acted(s)'
  BY <1>0, <1>19 DEF Respond, Archive, Acted, Closed, Replying, NoWaiterBehind
<1>20. CASE UserRow
  BY <1>0, <1>20 DEF UserRow, Acted, Closed
<1>21. CASE Crash
  BY <1>0, <1>21 DEF Crash, Acted, Closed, Replying, Asked, Waiting
<1>22. CASE Restart
  BY <1>0, <1>22 DEF Restart, Acted, Closed, Replying
<1>23. CASE UNCHANGED vars
  BY <1>0, <1>23 DEF vars, Acted, Closed
<1> QED
  BY <1>1, <1>2, <1>3, <1>4, <1>5, <1>6, <1>7, <1>8, <1>9, <1>10, <1>11, <1>12, <1>13, <1>14, <1>15, <1>16, <1>17, <1>18, <1>19, <1>20, <1>21, <1>22, <1>23 DEF Next, WaiterStep, ReplierStep

-----------------------------------------------------------------------------
(* QueueHasPromoter *)

\* the callers that will hand the slot on, or are gone without doing so
Holding == {"promoted", "asking", "waiting", "claiming", "expired",
            "leaving", "withdrawing", "cancelled", "raised"}
Recovering == {"recover", "dispatch", "promote", "restore"}

Promoter(q) ==
    pc[q] \in Holding \/ (pending = q /\ event = None) \/ reply[q] \in Recovering

\* The Event in the slot belongs to a caller that was handed the slot: what
\* QueueHasPromoter needs to be inductive, for the slot may be occupied, or
\* answered, while the queue grows.
HasPromoter ==
    /\ queue # <<>> => \E q \in Requests : Promoter(q)
    /\ event # None => event \in Requests /\ pc[event] \in Holding

LEMMA PromoterMeans == (queue # <<>> => \E q \in Requests : Promoter(q)) <=> QueueHasPromoter
BY DEF Promoter, QueueHasPromoter, Holding, Recovering

\* a promotion makes the head of the queue the promoter of the next one
LEMMA PromoteMakesPromoter ==
    ASSUME queue \in Seq(Requests), NEW pcs \in [Requests -> PC], Holds(pcs, queue),
           PromoteInto(pcs)
    PROVE  HasPromoter'
<1>1. CASE queue = <<>>
  BY <1>1, PromoteTakesHead DEF HasPromoter
<1>2. CASE queue # <<>>
  BY <1>2, PromoteTakesHead DEF HasPromoter, Promoter, Holding
<1> QED
  BY <1>1, <1>2

\* an occupied slot has a promoter
LEMMA OccupiedHasPromoter ==
    ASSUME TypeOK, HasPromoter, pending # None
    PROVE  \E q \in Requests : pc[q] \in Holding \/ (pending = q /\ event = None)
BY DEF TypeOK, HasPromoter

LEMMA PromoterStep ==
    ASSUME IInv, HasPromoter, [Next]_vars
    PROVE  HasPromoter'
<1> USE DEF At, GoesTo, ReplyStep, slot, disk
<1>0. /\ TypeOK /\ Holds(pc, queue) /\ queue \in Seq(Requests) /\ pc \in [Requests -> PC]
      /\ reply \in [Requests -> ReplyPC] /\ None \notin Requests /\ SlotMatchesEvent
      /\ pending \in Requests \cup {None} /\ event \in Requests \cup {None}
  BY HoldsIsInvariant, Parameters DEF IInv, TypeOK
\* a caller that moves from one holding place to another keeps the queue served
<1>m. ASSUME NEW r \in Requests, NEW x \in Holding, pc' = [pc EXCEPT ![r] = x],
             UNCHANGED event
      PROVE  HasPromoter'
  BY <1>0, <1>m DEF HasPromoter, Promoter
<1>1. ASSUME NEW r \in Requests, Request(r) PROVE HasPromoter'
  BY <1>0, <1>1 DEF Request, HasPromoter, Promoter, Holding
<1>2. ASSUME NEW r \in Requests, Install(r) PROVE HasPromoter'
  <2>1. CASE pending = None
    BY <1>0, <1>2, <2>1 DEF Install, HasPromoter, Promoter, Holding
  <2>2. CASE pending # None
    <3>1. PICK q \in Requests : pc[q] \in Holding \/ (pending = q /\ event = None)
      BY <1>0, <2>2, OccupiedHasPromoter
    <3>2. pc[r] = "archived" /\ pc' = [pc EXCEPT ![r] = "queued"] /\ UNCHANGED <<pending, event>>
      BY <1>2, <2>2 DEF Install
    <3>3. \A x \in Requests : pc[x] \in Holding => pc'[x] \in Holding
      BY <1>0, <3>2 DEF Holding
    <3> QED
      BY <3>1, <3>2, <3>3 DEF HasPromoter, Promoter
  <2> QED
    BY <2>1, <2>2
<1>3. ASSUME NEW r \in Requests, Promoted(r) PROVE HasPromoter'
  BY <1>m, <1>3 DEF Promoted, Holding
<1>4. ASSUME NEW r \in Requests, Await(r) PROVE HasPromoter'
  BY <1>m, <1>4 DEF Await, Holding
<1>5. ASSUME NEW r \in Requests, Awake(r) PROVE HasPromoter'
  BY <1>m, <1>5 DEF Awake, Holding
<1>6. ASSUME NEW r \in Requests, Claim(r) PROVE HasPromoter'
  <2>1. PromoteInto([pc EXCEPT ![r] = "returned"])
    BY <1>6 DEF Claim, ClearAndPromote
  <2>2. /\ Holds([pc EXCEPT ![r] = "returned"], queue)
        /\ [pc EXCEPT ![r] = "returned"] \in [Requests -> PC]
    BY <1>6, ClearsHold DEF IInv
  <2> QED
    BY <1>0, <2>1, <2>2, PromoteMakesPromoter
<1>7. ASSUME NEW r \in Requests, Leave(r) PROVE HasPromoter'
  <2>1. pc[r] = "leaving"
    BY <1>7 DEF Leave
  <2>2. PICK x \in {"withdrawing", "cancelled"} :
             x = IF r \in Widgets THEN "withdrawing" ELSE "cancelled"
    OBVIOUS
  <2>3. CASE ~Queued(r) /\ pending = r
    <3>1. PromoteInto([pc EXCEPT ![r] = x])
      BY <1>7, <2>2, <2>3 DEF Leave, ClearAndPromote
    <3>2. /\ Holds([pc EXCEPT ![r] = x], queue) /\ [pc EXCEPT ![r] = x] \in [Requests -> PC]
      BY <2>1, <2>3, ClearsHold DEF IInv
    <3> QED
      BY <1>0, <3>1, <3>2, PromoteMakesPromoter
  <2>4. CASE Queued(r) \/ pending # r
    <3>1. pc' = [pc EXCEPT ![r] = x] /\ UNCHANGED event /\ x \in Holding
      BY <1>7, <2>2, <2>4 DEF Leave, Holding
    <3> QED
      BY <1>m, <3>1
  <2> QED
    BY <2>3, <2>4
<1>8. ASSUME NEW r \in Requests, CancelPending(r) PROVE HasPromoter'
  <2>1. pc[r] = "withdrawing"
    BY <1>8 DEF CancelPending
  <2>2. CASE pending # None /\ response = None /\ event = None
    <3>1. PromoteInto([pc EXCEPT ![r] = "cancelled"])
      BY <1>8, <2>2 DEF CancelPending, ClearAndPromote
    <3>2. /\ Holds([pc EXCEPT ![r] = "cancelled"], queue)
          /\ [pc EXCEPT ![r] = "cancelled"] \in [Requests -> PC]
      BY <2>1, ClearsHold DEF IInv
    <3> QED
      BY <1>0, <3>1, <3>2, PromoteMakesPromoter
  <2>3. CASE ~(pending # None /\ response = None /\ event = None)
    <3>1. pc' = [pc EXCEPT ![r] = "cancelled"] /\ (event' = event \/ event' = None)
      BY <1>8, <2>3 DEF CancelPending
    <3>2. pc'[r] \in Holding /\ (event' # None => event' \in Requests /\ pc'[event'] \in Holding)
      BY <1>0, <3>1 DEF HasPromoter, Holding
    <3> QED
      BY <3>2 DEF HasPromoter, Promoter
  <2> QED
    BY <2>2, <2>3
<1>9. ASSUME NEW r \in Requests, Expire(r) PROVE HasPromoter'
  BY <1>m, <1>9 DEF Expire, Holding
<1>10. ASSUME NEW r \in Requests, ClaimFails(r) PROVE HasPromoter'
  BY <1>m, <1>10 DEF ClaimFails, Holding
<1>11. ASSUME NEW r \in Requests, CancelWaiter(r) PROVE HasPromoter'
  <2>1. PICK x \in {"leaving", "withdrawing", "cancelled"} : pc' = [pc EXCEPT ![r] = x]
    BY <1>11 DEF CancelWaiter
  <2> QED
    BY <1>m, <1>11, <2>1 DEF CancelWaiter, Holding
<1>12. ASSUME NEW r \in Requests, Post(r) PROVE HasPromoter'
  <2>1. CASE pending # None
    BY <1>m, <1>12, <2>1 DEF Post, Holding
  <2>2. CASE pending = None
    BY <1>12, <2>2 DEF Post, HasPromoter, Promoter
  <2> QED
    BY <2>1, <2>2
<1>13. ASSUME NEW r \in Requests, Wake(r) PROVE HasPromoter'
  BY <1>0, <1>13 DEF Wake, HasPromoter, Promoter, Recovering
<1>14. ASSUME NEW r \in Requests, BeginRecovery(r) PROVE HasPromoter'
  BY <1>0, <1>14 DEF BeginRecovery, HasPromoter, Promoter, Recovering
<1>15. ASSUME NEW r \in Requests, HandlerDone(r) PROVE HasPromoter'
  BY <1>0, <1>15 DEF HandlerDone, HasPromoter, Promoter, Recovering
<1>16. ASSUME NEW r \in Requests, Restore(r) PROVE HasPromoter'
  <2>1. UNCHANGED <<pc, event>> /\ pending' = IF pending = None THEN r ELSE pending
    BY <1>16 DEF Restore
  <2>2. CASE pending = None
    <3>1. event = None /\ pending' = r
      BY <1>0, <2>1, <2>2 DEF SlotMatchesEvent
    <3> QED
      BY <2>1, <3>1 DEF HasPromoter, Promoter
  <2>3. CASE pending # None
    <3>1. PICK q \in Requests : pc[q] \in Holding \/ (pending = q /\ event = None)
      BY <1>0, <2>3, OccupiedHasPromoter
    <3> QED
      BY <2>1, <2>3, <3>1 DEF HasPromoter, Promoter
  <2> QED
    BY <2>2, <2>3
<1>17. ASSUME NEW r \in Requests, PromoteAfterRecovery(r) PROVE HasPromoter'
  <2>1. CASE pending # None
    <3>1. UNCHANGED <<pc, pending, event, queue>>
      BY <1>17, <2>1 DEF PromoteAfterRecovery, PromoteNext
    <3>2. PICK q \in Requests : pc[q] \in Holding \/ (pending = q /\ event = None)
      BY <1>0, <2>1, OccupiedHasPromoter
    <3> QED
      BY <3>1, <3>2 DEF HasPromoter, Promoter
  <2>2. CASE queue = <<>>
    <3>1. UNCHANGED <<pc, event, queue>>
      BY <1>17, <2>2 DEF PromoteAfterRecovery, PromoteNext
    <3> QED
      BY <2>2, <3>1 DEF HasPromoter
  <2>3. CASE ~(pending # None \/ queue = <<>>)
    <3>1. PromoteInto(pc)
      BY <1>17, <2>3 DEF PromoteAfterRecovery, PromoteNext
    <3> QED
      BY <1>0, <3>1, PromoteMakesPromoter
  <2> QED
    BY <2>1, <2>2, <2>3
<1>18. ASSUME NEW r \in Requests, HandlerRaises(r) PROVE HasPromoter'
  BY <1>0, <1>18 DEF HandlerRaises, HasPromoter, Promoter, Recovering
<1>19. ASSUME NEW r \in Requests, NEW ok \in BOOLEAN, Respond(r, ok) PROVE HasPromoter'
  <2>1. UNCHANGED pc /\ event' = None /\ pending = r
        /\ reply' = [reply EXCEPT ![r] = IF event # None THEN "wake" ELSE "recover"]
    BY <1>19 DEF Respond
  <2>2. CASE event # None
    BY <2>1, <2>2 DEF HasPromoter, Promoter
  <2>3. CASE event = None
    BY <1>0, <2>1, <2>3 DEF HasPromoter, Promoter, Recovering
  <2> QED
    BY <2>2, <2>3
<1>20. CASE UserRow
  BY <1>20 DEF UserRow, HasPromoter, Promoter
<1>21. CASE Crash
  BY <1>21 DEF Crash, HasPromoter
<1>22. CASE Restart
  BY <1>22 DEF Restart, HasPromoter, IInv, NoWaiterBehind
<1>23. CASE UNCHANGED vars
  BY <1>23 DEF vars, HasPromoter, Promoter
<1> QED
  BY <1>1, <1>2, <1>3, <1>4, <1>5, <1>6, <1>7, <1>8, <1>9, <1>10, <1>11, <1>12, <1>13, <1>14, <1>15, <1>16, <1>17, <1>18, <1>19, <1>20, <1>21, <1>22, <1>23 DEF Next, WaiterStep, ReplierStep

-----------------------------------------------------------------------------
(* PromotionIsFifo *)

\* whoever is handed the slot out of the queue was its head
LEMMA OnlyHeadIsPromoted ==
    ASSUME IInv, [Next]_vars, NEW r \in Requests, pc[r] = "queued", pc'[r] = "promoted"
    PROVE  queue # <<>> /\ r = Head(queue)
<1>0. /\ TypeOK /\ Holds(pc, queue) /\ queue \in Seq(Requests) /\ pc \in [Requests -> PC]
  BY HoldsIsInvariant DEF IInv, TypeOK
<1>1. ASSUME NEW pcs \in [Requests -> PC], Holds(pcs, queue), PromoteInto(pcs),
             pcs[r] # "promoted"
      PROVE  queue # <<>> /\ r = Head(queue)
  BY <1>0, <1>1, PromoteTakesHead
<1>2. ASSUME NEW q \in Requests, Claim(q) PROVE queue # <<>> /\ r = Head(queue)
  <2>1. PromoteInto([pc EXCEPT ![q] = "returned"])
    BY <1>2 DEF Claim, ClearAndPromote
  <2>2. /\ Holds([pc EXCEPT ![q] = "returned"], queue)
        /\ [pc EXCEPT ![q] = "returned"] \in [Requests -> PC]
    BY <1>2, ClearsHold DEF IInv
  <2> QED
    BY <1>0, <1>1, <2>1, <2>2
<1>3. ASSUME NEW q \in Requests, Leave(q) PROVE queue # <<>> /\ r = Head(queue)
  <2>1. pc[q] = "leaving"
    BY <1>3 DEF Leave, At
  <2>2. PICK x \in {"withdrawing", "cancelled"} :
             x = IF q \in Widgets THEN "withdrawing" ELSE "cancelled"
    OBVIOUS
  <2>3. pc' # [pc EXCEPT ![q] = x]
    BY <1>0, <2>1
  <2>4. ~Queued(q) /\ PromoteInto([pc EXCEPT ![q] = x])
    BY <1>3, <2>2, <2>3 DEF Leave, ClearAndPromote
  <2>5. /\ Holds([pc EXCEPT ![q] = x], queue) /\ [pc EXCEPT ![q] = x] \in [Requests -> PC]
    BY <2>1, <2>4, ClearsHold DEF IInv
  <2> QED
    BY <1>0, <1>1, <2>4, <2>5
<1>4. ASSUME NEW q \in Requests, CancelPending(q) PROVE queue # <<>> /\ r = Head(queue)
  <2>1. pc[q] = "withdrawing"
    BY <1>4 DEF CancelPending, At
  <2>2. pc' # [pc EXCEPT ![q] = "cancelled"]
    BY <1>0, <2>1
  <2>3. PromoteInto([pc EXCEPT ![q] = "cancelled"])
    BY <1>4, <2>2 DEF CancelPending, ClearAndPromote, GoesTo
  <2>4. /\ Holds([pc EXCEPT ![q] = "cancelled"], queue)
        /\ [pc EXCEPT ![q] = "cancelled"] \in [Requests -> PC]
    BY <2>1, ClearsHold DEF IInv
  <2> QED
    BY <1>0, <1>1, <2>3, <2>4
<1>5. ASSUME NEW q \in Requests, PromoteAfterRecovery(q) PROVE queue # <<>> /\ r = Head(queue)
  <2>1. PromoteInto(pc)
    BY <1>5 DEF PromoteAfterRecovery, PromoteNext
  <2> QED
    BY <1>0, <1>1, <2>1
<1>6. \/ \E q \in Requests : Claim(q) \/ Leave(q) \/ CancelPending(q) \/ PromoteAfterRecovery(q)
      \/ pc'[r] # "promoted"
  <2> USE DEF At, GoesTo
  <2>1. \A q \in Requests : Request(q) \/ Install(q) \/ Promoted(q) => pc'[r] # "promoted"
    BY <1>0 DEF Request, Install, Promoted
  <2>2. \A q \in Requests : Await(q) \/ Awake(q) \/ Expire(q) \/ ClaimFails(q) => pc'[r] # "promoted"
    BY <1>0 DEF Await, Awake, Expire, ClaimFails
  <2>3. \A q \in Requests : CancelWaiter(q) \/ Post(q) => pc'[r] # "promoted"
    BY <1>0 DEF CancelWaiter, Post
  <2>4. \A q \in Requests : Wake(q) \/ BeginRecovery(q) \/ HandlerDone(q) \/ Restore(q)
                            \/ HandlerRaises(q) => pc'[r] # "promoted"
    BY DEF Wake, BeginRecovery, HandlerDone, Restore, HandlerRaises
  <2>5. \A q \in Requests, ok \in BOOLEAN : Respond(q, ok) => pc'[r] # "promoted"
    BY DEF Respond
  <2>6. UserRow \/ Restart \/ UNCHANGED vars => pc'[r] # "promoted"
    BY DEF UserRow, Restart, vars
  <2>7. Crash => pc'[r] # "promoted"
    BY <1>0 DEF Crash
  <2> QED
    BY <2>1, <2>2, <2>3, <2>4, <2>5, <2>6, <2>7 DEF Next, WaiterStep, ReplierStep
<1> QED
  BY <1>2, <1>3, <1>4, <1>5, <1>6

\* so nothing stood before it
LEMMA FifoStep ==
    ASSUME IInv, [Next]_vars,
           NEW i \in 1..Len(queue), NEW j \in 1..Len(queue), i < j,
           pc[queue[j]] = "queued", pc'[queue[j]] = "promoted"
    PROVE  FALSE
<1>1. queue \in Seq(Requests) /\ Len(queue) \in Nat /\ queue[j] \in Requests
  BY ElementOfSeq, LenProperties DEF IInv, TypeOK
<1>2. queue # <<>> /\ queue[j] = Head(queue)
  BY <1>1, OnlyHeadIsPromoted
<1>3. Head(queue) = queue[1] /\ 1 \in 1..Len(queue)
  BY <1>1, <1>2, HeadLeaves
<1>4. j = 1
  BY <1>2, <1>3 DEF IInv, QueueHoldsWaiters
<1> QED
  BY <1>1, <1>4

-----------------------------------------------------------------------------
(* The inductive invariant and its theorems *)

LEMMA IndInit == Init => IInv
<1> SUFFICES ASSUME Init PROVE IInv
  OBVIOUS
<1>1. TypeOK
  BY TypeInit
<1>2. Len(queue) = 0
  BY EmptySeq DEF Init
<1> QED
  BY <1>1, <1>2, Parameters
     DEF Init, IInv, QueueHoldsWaiters, SlotMatchesEvent, NoWaiterBehind, ResponseOnRecord,
         ApprovalOnRecord, Waiting

LEMMA IndStep == IInv /\ [Next]_vars => IInv'
BY TypeStep, QueueStep, SlotStep, RecordStep DEF IInv, SlotInv, RecordInv

\* Every reachable state satisfies the inductive invariant.
THEOREM Inductive == Spec => []IInv
BY IndInit, IndStep, PTL DEF Spec

\* The variables keep their types: what the slot, the queue and the archive
\* hold are requests and responses, in any interleaving and after any crash.
THEOREM TypeCorrect == Spec => []TypeOK
<1>1. IInv => TypeOK
  BY DEF IInv
<1> QED
  BY <1>1, Inductive, PTL

\* No caller is lost in confirmation_queue and no corpse stays in it.
THEOREM QueueIntact == Spec => []QueueHoldsWaiters
<1>1. IInv => QueueHoldsWaiters
  BY DEF IInv
<1> QED
  BY <1>1, Inductive, PTL

\* A waiting caller whose request is pending has its own Event in the slot:
\* respond_to_confirmation never takes it for a request without a waiter.
THEOREM EventOfWaiter == Spec => []SlotMatchesEvent
<1>1. IInv => SlotMatchesEvent
  BY DEF IInv
<1> QED
  BY <1>1, Inductive, PTL

\* No caller acts on an approval that is not in the archive.
THEOREM Recorded == Spec => []ApprovalOnRecord
<1>1. IInv => ApprovalOnRecord
  BY DEF IInv
<1> QED
  BY <1>1, Inductive, PTL

LEMMA ActedInit == Init => ActedInv
<1> SUFFICES ASSUME Init, NEW r \in Requests PROVE Acted(r)
  BY DEF ActedInv
<1>1. /\ pc[r] = "idle" /\ answer[r] = None /\ reply[r] = "none" /\ handled[r] = 0
      /\ tail = None /\ signalled = {} /\ r # None /\ up
  BY Parameters DEF Init
<1> QED
  BY <1>1 DEF Acted, Replying

LEMMA PromoterInit == Init => HasPromoter
BY DEF Init, HasPromoter

LEMMA ActedNext == IInv /\ ActedInv /\ [Next]_vars => ActedInv'
BY ActedStep DEF ActedInv

LEMMA PromoterNext == IInv /\ HasPromoter /\ [Next]_vars => HasPromoter'
BY PromoterStep

\* No request is acted on twice: not by its handler twice, not by its handler
\* and its caller, whatever is answered, cancelled, timed out or restarted.
THEOREM AtMostOnce == Spec => []ActedOnce
<1>1. ActedInv => ActedOnce
  <2> SUFFICES ASSUME ActedInv, NEW r \in Requests
               PROVE  handled[r] <= 1 /\ (handled[r] = 1 => answer[r] = None)
    BY DEF ActedOnce
  <2>1. handled[r] # 0 => handled[r] = 1 /\ answer[r] = None
    BY DEF ActedInv, Acted
  <2> QED
    BY <2>1
<1> QED
  BY <1>1, ActedInit, ActedNext, Inductive, PTL DEF Spec

\* While a caller waits in confirmation_queue, somebody is on the way to
\* promote it, or a caller that is gone has left the slot behind.
THEOREM Served == Spec => []QueueHasPromoter
<1>1. HasPromoter => QueueHasPromoter
  BY PromoterMeans DEF HasPromoter
<1> QED
  BY <1>1, PromoterInit, PromoterNext, Inductive, PTL DEF Spec

LEMMA PromotesInOrder ==
    IInv /\ [Next]_vars =>
        [\A i, j \in 1..Len(queue) :
           i < j /\ pc[queue[j]] = "queued" /\ pc'[queue[j]] = "promoted"
               => \A k \in 1..Len(queue') : queue'[k] # queue[i]]_vars
<1> SUFFICES ASSUME IInv, [Next]_vars,
                    NEW i \in 1..Len(queue), NEW j \in 1..Len(queue),
                    i < j /\ pc[queue[j]] = "queued" /\ pc'[queue[j]] = "promoted"
             PROVE  \A k \in 1..Len(queue') : queue'[k] # queue[i]
  OBVIOUS
<1> QED
  BY FifoStep

\* Callers get the slot in the order in which they were queued.
THEOREM Fifo == Spec => PromotionIsFifo
BY PromotesInOrder, Inductive, PTL DEF Spec, PromotionIsFifo
=============================================================================
