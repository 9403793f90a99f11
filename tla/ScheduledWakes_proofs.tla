----------------------- MODULE ScheduledWakes_proofs -----------------------
(***************************************************************************)
(* Proofs about ScheduledWakes, for any set of wakes and any number of     *)
(* crashes: every live timer can be reached and a dead process has none; a *)
(* wake is never forgotten, runs once, and stays cancelled.                *)
(***************************************************************************)
EXTENDS ScheduledWakes, TLAPS, SequenceTheorems

\* The timers that may still act are keys of self._tasks; a wake is being
\* started by its own timer only; after shutdown no timer is left.  The last
\* two are what makes KillTimers complete: a killed starter frees state.lock.
TimerInv ==
    /\ timer \in [Wakes -> TimerPC]
    /\ tasks \subseteq Wakes
    /\ \A w \in Wakes : timer[w] \in LiveTimer => w \in tasks
    /\ \A w \in Wakes : timer[w] = "starting" <=> conv = Timer(w)
    /\ phase # "up" => tasks = {}

-----------------------------------------------------------------------------
LEMMA InitTimerInv == Init => TimerInv
BY DEF Init, TimerInv, TimerPC, LiveTimer, Recording, Timer, Free

\* what KillTimers leaves of a timer, and of the lock
LEMMA KilledTimers ==
    ASSUME TimerInv, NEW gone \in SUBSET tasks, KillTimers(gone), tasks' = tasks \ gone
    PROVE  /\ timer' \in [Wakes -> TimerPC]
           /\ tasks' \subseteq Wakes
           /\ \A w \in Wakes : timer'[w] \in LiveTimer => w \in tasks'
           /\ \A w \in Wakes : timer'[w] = "starting" <=> conv' = Timer(w)
<1>1. timer' = [w \in Wakes |-> IF w \in gone /\ timer[w] \in LiveTimer THEN "done" ELSE timer[w]]
  BY DEF KillTimers
<1>2. timer' \in [Wakes -> TimerPC] /\ tasks' \subseteq Wakes
  BY <1>1 DEF TimerInv, TimerPC
<1>3. ASSUME NEW w \in Wakes, timer'[w] \in LiveTimer PROVE w \in tasks'
  <2>1. w \notin gone /\ timer[w] \in LiveTimer
    BY <1>1, <1>3 DEF LiveTimer, Recording
  <2> QED
    BY <2>1 DEF TimerInv
<1>4. ASSUME NEW w \in Wakes PROVE timer'[w] = "starting" <=> conv' = Timer(w)
  <2>1. CASE \E v \in gone : conv = Timer(v)
    <3>1. conv' = Free
      BY <2>1 DEF KillTimers
    <3>2. PICK v \in gone : conv = Timer(v)
      BY <2>1
    <3>3. timer'[w] # "starting"
      <4>1. CASE w = v
        BY <1>1, <3>2, <4>1 DEF LiveTimer, Recording, TimerInv
      <4>2. CASE w # v
        BY <1>1, <3>2, <4>2 DEF TimerInv, Timer, LiveTimer
      <4> QED
        BY <4>1, <4>2
    <3> QED
      BY <3>1, <3>3 DEF Free, Timer
  <2>2. CASE ~ \E v \in gone : conv = Timer(v)
    <3>1. conv' = conv
      BY <2>2 DEF KillTimers
    <3>2. timer'[w] = "starting" <=> timer[w] = "starting"
      BY <1>1, <2>2 DEF TimerInv
    <3> QED
      BY <3>1, <3>2 DEF TimerInv
  <2> QED
    BY <2>1, <2>2
<1> QED
  BY <1>2, <1>3, <1>4

\* what Return leaves of one
LEMMA Returned ==
    ASSUME TimerInv, NEW w \in Wakes, NEW how \in Recording, Return(w, how), w \in tasks
    PROVE  /\ timer' \in [Wakes -> TimerPC]
           /\ tasks' \subseteq Wakes
           /\ timer'[w] # "starting"
           /\ \A v \in Wakes \ {w} : timer'[v] = timer[v]
           /\ \A v \in Wakes : timer'[v] \in LiveTimer => v \in tasks'
BY DEF TimerInv, Return, RecordAs, TimerPC, LiveTimer, Recording

LEMMA StepTimerInv == TimerInv /\ [Next]_vars => TimerInv'
<1> SUFFICES ASSUME TimerInv, [Next]_vars PROVE TimerInv'
  OBVIOUS
<1> USE DEF TimerPC, LiveTimer, Recording, Timer, Free, Drain
<1>1. ASSUME NEW w \in Wakes, Schedule(w) PROVE TimerInv'
  BY <1>1 DEF TimerInv, Schedule, convVars
<1>2. ASSUME NEW w \in Wakes, Fire(w) PROVE TimerInv'
  BY <1>2 DEF TimerInv, Fire, convVars
<1>3. ASSUME NEW w \in Wakes, RateLimited(w) PROVE TimerInv'
  BY <1>3 DEF TimerInv, RateLimited, convVars
<1>4. ASSUME NEW w \in Wakes, Queue(w) PROVE TimerInv'
  <2>1. w \in tasks /\ Return(w, "recordQueued") /\ timer[w] = "enqueue" /\ UNCHANGED <<conv, phase>>
    BY <1>4 DEF TimerInv, Queue
  <2> QED
    BY <2>1, Returned DEF TimerInv
<1>5. ASSUME NEW w \in Wakes, StartNow(w) PROVE TimerInv'
  BY <1>5 DEF TimerInv, StartNow
<1>6. ASSUME NEW w \in Wakes, Started(w) PROVE TimerInv'
  <2>1. w \in tasks /\ Return(w, "recordStarted") /\ conv = Timer(w) /\ conv' = Free /\ phase' = phase
    BY <1>6 DEF TimerInv, Started, TurnBegins
  <2> QED
    BY <2>1, Returned DEF TimerInv
<1>7. ASSUME NEW w \in Wakes, Record(w) PROVE TimerInv'
  BY <1>7 DEF TimerInv, Record, RecordAs, convVars
<1>8. ASSUME NEW w \in Wakes, EnqueueFails(w) PROVE TimerInv'
  BY <1>8 DEF TimerInv, EnqueueFails
<1>9. ASSUME NEW w \in Wakes, CancelCall(w) PROVE TimerInv'
  BY <1>9 DEF TimerInv, CancelCall, wakeVars, convVars
<1>10. ASSUME NEW w \in Wakes, CancelEntry(w) PROVE TimerInv'
  <2>1. CASE sidecar[w] = "none"
    BY <1>10, <2>1 DEF TimerInv, CancelEntry, wakeVars
  <2>2. CASE sidecar[w] # "none"
    <3>1. KillTimers(tasks \cap {w}) /\ tasks' = tasks \ (tasks \cap {w}) /\ phase' = phase
      BY <1>10, <2>2 DEF CancelEntry
    <3> QED
      BY <3>1, KilledTimers DEF TimerInv
  <2> QED
    BY <2>1, <2>2
<1>11. ASSUME NEW w \in Wakes, CancelQueued(w) PROVE TimerInv'
  BY <1>11 DEF TimerInv, CancelQueued, wakeVars
<1>12. ASSUME NEW w \in Wakes, Drained(w) PROVE TimerInv'
  BY <1>12 DEF TimerInv, Drained, TurnBegins, wakeVars
<1>13. ASSUME NEW w \in Wakes, DrainFails(w) PROVE TimerInv'
  BY <1>13 DEF TimerInv, DrainFails, wakeVars
<1>14. ASSUME NEW w \in Wakes, ScanArms(w) PROVE TimerInv'
  BY <1>14 DEF TimerInv, ScanArms, Arm, convVars
<1>15. CASE OtherTakesLock
  BY <1>15 DEF TimerInv, OtherTakesLock, wakeVars
<1>16. CASE OtherReleases
  BY <1>16 DEF TimerInv, OtherReleases, wakeVars
<1>17. CASE TurnEnds
  BY <1>17 DEF TimerInv, TurnEnds, wakeVars
<1>18. CASE DrainPending
  BY <1>18 DEF TimerInv, DrainPending, PopWake
<1>19. CASE DeleteConversation
  <2> DEFINE listed == {w \in Wakes : sidecar[w] # "none"}
  <2>1. KillTimers(tasks \cap listed) /\ tasks' = tasks \ (tasks \cap listed) /\ phase' = phase
    BY <1>19 DEF DeleteConversation
  <2> QED
    BY <2>1, KilledTimers DEF TimerInv
<1>20. CASE Shutdown
  <2>1. KillTimers(tasks) /\ tasks' = tasks \ tasks /\ tasks' = {}
    BY <1>20 DEF Shutdown
  <2> QED
    BY <2>1, KilledTimers DEF TimerInv
<1>21. CASE Crash
  BY <1>21 DEF TimerInv, Crash
<1>22. CASE Restart
  BY <1>22 DEF TimerInv, Restart, PopWake
<1>23. CASE Scan
  BY <1>23 DEF TimerInv, Scan, Arm, convVars
<1>24. CASE UNCHANGED vars
  BY <1>24 DEF TimerInv, vars, wakeVars, convVars
<1> QED
  BY <1>1, <1>2, <1>3, <1>4, <1>5, <1>6, <1>7, <1>8, <1>9, <1>10, <1>11, <1>12, <1>13,
     <1>14, <1>15, <1>16, <1>17, <1>18, <1>19, <1>20, <1>21, <1>22, <1>23, <1>24
     DEF Next, Enqueue

-----------------------------------------------------------------------------
(* The inbox.  The proofs below know it by two operators: Queued, the wakes  *)
(* in it, and Once.                                                          *)

\* the inbox has at most one entry of w
Once(w) == \A i, j \in 1..Len(inbox) : inbox[i] = w /\ inbox[j] = w => i = j

LEMMA Unchanged ==
    ASSUME inbox' = inbox
    PROVE  Queued' = Queued /\ \A w \in Wakes : Once(w)' = Once(w)
BY DEF Queued, Once

LEMMA Emptied ==
    ASSUME inbox' = <<>>
    PROVE  /\ inbox' \in Seq(Wakes) /\ Queued' = {}
           /\ \A w \in Wakes : Once(w)'
<1>1. Len(inbox') = 0
  BY EmptySeq
<1> QED
  BY <1>1, EmptySeq DEF Queued, Once

LEMMA Appended ==
    ASSUME inbox \in Seq(Wakes), NEW w \in Wakes, inbox' = Append(inbox, w)
    PROVE  /\ inbox' \in Seq(Wakes) /\ Queued' = Queued \cup {w}
           /\ w \notin Queued => Once(w)'
           /\ \A v \in Wakes \ {w} : Once(v) => Once(v)'
<1>1. /\ inbox' \in Seq(Wakes) /\ Len(inbox) \in Nat /\ Len(inbox') = Len(inbox) + 1
      /\ inbox'[Len(inbox) + 1] = w
      /\ \A i \in 1..Len(inbox) : inbox'[i] = inbox[i]
  BY AppendProperties, LenProperties
<1>2. \A i \in 1..Len(inbox') : i \in 1..Len(inbox) \/ i = Len(inbox) + 1
  BY <1>1
<1>3. Queued' = Queued \cup {w}
  BY <1>1, <1>2 DEF Queued
<1>4. w \notin Queued => Once(w)'
  BY <1>1, <1>2 DEF Queued, Once
<1>5. \A v \in Wakes \ {w} : Once(v) => Once(v)'
  BY <1>1, <1>2 DEF Once
<1> QED
  BY <1>1, <1>3, <1>4, <1>5

LEMMA Popped ==
    ASSUME inbox \in Seq(Wakes), inbox # <<>>, inbox' = Tail(inbox)
    PROVE  /\ inbox' \in Seq(Wakes) /\ Head(inbox) \in Wakes
           /\ Queued = Queued' \cup {Head(inbox)}
           /\ Once(Head(inbox)) => Head(inbox) \notin Queued'
           /\ \A v \in Wakes : Once(v) => Once(v)'
<1>1. Len(inbox) \in Nat /\ Len(inbox) > 0
  BY EmptySeq, LenProperties
<1>2. /\ Head(inbox) \in Wakes /\ Head(inbox) = inbox[1]
      /\ inbox' \in Seq(Wakes) /\ Len(inbox') = Len(inbox) - 1
      /\ \A i \in 1..Len(inbox') : inbox'[i] = inbox[i + 1]
  BY <1>1, HeadTailProperties, ElementOfSeq
<1>3. \A i \in 1..Len(inbox') : i + 1 \in 1..Len(inbox) /\ i + 1 # 1
  BY <1>1, <1>2
<1>4. \A i \in 1..Len(inbox) : i = 1 \/ (i - 1 \in 1..Len(inbox') /\ inbox'[i - 1] = inbox[i])
  <2> SUFFICES ASSUME NEW i \in 1..Len(inbox), i # 1
               PROVE  i - 1 \in 1..Len(inbox') /\ inbox'[i - 1] = inbox[i]
    OBVIOUS
  <2>1. i - 1 \in 1..Len(inbox') /\ (i - 1) + 1 = i
    BY <1>1, <1>2
  <2> QED
    BY <1>2, <2>1
<1>5. 1 \in 1..Len(inbox)
  BY <1>1
<1>6. Queued = Queued' \cup {Head(inbox)}
  BY <1>2, <1>3, <1>4, <1>5 DEF Queued
<1>7. Once(Head(inbox)) => Head(inbox) \notin Queued'
  BY <1>2, <1>3, <1>5 DEF Queued, Once
<1>8. \A v \in Wakes : Once(v) => Once(v)'
  <2> SUFFICES ASSUME NEW v \in Wakes, Once(v),
                      NEW i \in 1..Len(inbox'), NEW j \in 1..Len(inbox'),
                      inbox'[i] = v, inbox'[j] = v
               PROVE  i = j
    BY DEF Once
  <2>1. inbox[i + 1] = v /\ inbox[j + 1] = v
    BY <1>2
  <2>2. i + 1 = j + 1
    BY <1>3, <2>1 DEF Once
  <2> QED
    BY <2>2
<1> QED
  BY <1>2, <1>6, <1>7, <1>8

LEMMA Removed ==
    ASSUME inbox \in Seq(Wakes), NEW w \in Wakes, RemoveFromInbox(w)
    PROVE  /\ inbox' \in Seq(Wakes) /\ Queued' = Queued \ {w}
           /\ \A v \in Wakes : Once(v) => Once(v)'
<1> DEFINE others == {i \in 1..Len(inbox) : inbox[i] # w}
<1>1. Len(inbox) \in Nat /\ \A i \in 1..Len(inbox) : inbox[i] \in Wakes
  BY LenProperties, ElementOfSeq
<1>a. PICK n \in 0..Len(inbox) : \E at \in [1..n -> others] :
           /\ \A i, j \in 1..n : i < j => at[i] < at[j]
           /\ \A k \in others : \E i \in 1..n : at[i] = k
           /\ inbox' = [i \in 1..n |-> inbox[at[i]]]
  BY DEF RemoveFromInbox
<1>2. PICK at \in [1..n -> others] :
           /\ \A i, j \in 1..n : i < j => at[i] < at[j]
           /\ \A k \in others : \E i \in 1..n : at[i] = k
           /\ inbox' = [i \in 1..n |-> inbox[at[i]]]
  BY <1>a
<1>3. /\ n \in Nat /\ inbox' \in [1..n -> Wakes]
      /\ \A i \in 1..n : at[i] \in others /\ inbox'[i] = inbox[at[i]]
  BY <1>1, <1>2
<1>4. inbox' \in Seq(Wakes) /\ Len(inbox') = n
  BY <1>3, LenProperties, IsASeq
<1>5. Queued' = Queued \ {w}
  <2>1. ASSUME NEW v \in Queued' PROVE v \in Queued \ {w}
    BY <1>3, <1>4, <2>1 DEF Queued
  <2>2. ASSUME NEW v \in Queued \ {w} PROVE v \in Queued'
    <3>1. PICK k \in 1..Len(inbox) : inbox[k] = v /\ k \in others
      BY <2>2 DEF Queued
    <3>2. PICK i \in 1..n : at[i] = k
      BY <1>2, <3>1
    <3> QED
      BY <1>3, <1>4, <3>1, <3>2 DEF Queued
  <2> QED
    BY <2>1, <2>2
<1>6. \A v \in Wakes : Once(v) => Once(v)'
  <2> SUFFICES ASSUME NEW v \in Wakes, Once(v),
                      NEW i \in 1..n, NEW j \in 1..n, inbox'[i] = v, inbox'[j] = v
               PROVE  i = j
    BY <1>4 DEF Once
  <2>1. at[i] = at[j]
    BY <1>3 DEF Once
  <2>2. at[i] \in Nat /\ at[j] \in Nat /\ i \in Nat /\ j \in Nat
    BY <1>1, <1>3
  <2> QED
    BY <1>2, <2>1, <2>2
<1> QED
  BY <1>4, <1>5, <1>6

\* what KillTimers does to the lock
LEMMA Killed ==
    ASSUME NEW gone, KillTimers(gone)
    PROVE  /\ timer' = [w \in Wakes |-> IF w \in gone /\ timer[w] \in LiveTimer THEN "done" ELSE timer[w]]
           /\ conv' \in {conv, Free}
           /\ busy' \in BOOLEAN \cup {busy}
           /\ \A w \in Wakes : conv' = Drain(w) <=> conv = Drain(w)
BY DEF KillTimers, Timer, Drain, Free

-----------------------------------------------------------------------------
(* Types *)

LEMMA InitTypeOK == Init => TypeOK
<1> SUFFICES ASSUME Init PROVE TypeOK
  OBVIOUS
<1>1. <<>> \in Seq(Wakes)
  BY EmptySeq
<1>2. Free \in Holders /\ "none" \in TimerPC /\ "idle" \in CancelPC /\ 0 \in 0..MaxCrashes
  BY Parameters DEF Free, Holders, TimerPC, CancelPC
<1>3. /\ sidecar \in [Wakes -> {"none", "pending", "queued"}]
      /\ timer \in [Wakes -> TimerPC] /\ cancel \in [Wakes -> CancelPC]
      /\ begun \in [Wakes -> Nat]
  BY <1>2 DEF Init
<1>4. /\ tasks \subseteq Wakes /\ found \subseteq Wakes /\ scans \in 0..2
      /\ wlock \in Wakes \cup {None} /\ inbox \in Seq(Wakes) /\ conv \in Holders
      /\ crashes \in 0..MaxCrashes
  BY <1>1, <1>2 DEF Init
<1>5. /\ busy \in BOOLEAN /\ turn \in Wakes \cup {Other, None} /\ phase \in {"up", "closing", "down"}
      /\ lost \subseteq Wakes /\ stale \subseteq Wakes /\ withdrawn \subseteq Wakes
  BY DEF Init
<1> QED
  BY <1>3, <1>4, <1>5 DEF TypeOK

LEMMA StepTypeOK == TypeOK /\ [Next]_vars => TypeOK'
<1> SUFFICES ASSUME TypeOK, [Next]_vars PROVE TypeOK'
  OBVIOUS
<1> USE DEF TypeOK, wakeVars, scanVars, convVars, history
<1>0. /\ None \notin Wakes /\ MaxCrashes \in Nat
      /\ Free \in Holders /\ <<"other", Other>> \in Holders
      /\ \A w \in Wakes : Timer(w) \in Holders /\ Drain(w) \in Holders
      /\ LiveTimer \subseteq TimerPC /\ Recording \subseteq TimerPC
      /\ {"none", "failed", "done", "sleep", "enqueue", "starting"} \subseteq TimerPC
      /\ CancelPC = {"idle", "lock", "inbox", "true", "false", "gone"}
  BY Parameters DEF Free, Timer, Drain, Holders, TimerPC, LiveTimer, Recording, CancelPC
<1>r. ASSUME NEW w \in Wakes, NEW how \in Recording, Return(w, how)
      PROVE  /\ sidecar' \in [Wakes -> {"none", "pending", "queued"}]
             /\ tasks' \subseteq Wakes /\ timer' \in [Wakes -> TimerPC]
  <2>1. CASE wlock = None
    <3>1. /\ tasks' = tasks \ {w} /\ timer' = [timer EXCEPT ![w] = "done"]
          /\ \/ sidecar' = [sidecar EXCEPT ![w] = "queued"]
             \/ sidecar' = [sidecar EXCEPT ![w] = "none"]
      BY <1>r, <2>1 DEF Return, RecordAs
    <3> QED
      BY <1>0, <3>1
  <2>2. CASE wlock # None
    BY <1>0, <1>r, <2>2 DEF Return
  <2> QED
    BY <2>1, <2>2
<1>k. ASSUME NEW gone, KillTimers(gone)
      PROVE  timer' \in [Wakes -> TimerPC] /\ conv' \in Holders /\ busy' \in BOOLEAN
  BY <1>0, <1>k, Killed
<1>p. ASSUME inbox # <<>>, PopWake
      PROVE  /\ inbox' \in Seq(Wakes) /\ conv' \in Holders /\ busy' \in BOOLEAN
             /\ sidecar' \in [Wakes -> {"none", "pending", "queued"}]
  BY <1>0, <1>p, Popped DEF PopWake
<1>1. ASSUME NEW w \in Wakes, Schedule(w) PROVE TypeOK'
  BY <1>0, <1>1 DEF Schedule
<1>2. ASSUME NEW w \in Wakes, Fire(w) PROVE TypeOK'
  BY <1>0, <1>2 DEF Fire
<1>3. ASSUME NEW w \in Wakes, RateLimited(w) PROVE TypeOK'
  BY <1>0, <1>3 DEF RateLimited
<1>4. ASSUME NEW w \in Wakes, Queue(w) PROVE TypeOK'
  <2>1. Return(w, "recordQueued") /\ inbox' \in Seq(Wakes)
    BY <1>4, Appended DEF Queue
  <2> QED
    BY <1>4, <1>r, <2>1 DEF Queue, Recording
<1>5. ASSUME NEW w \in Wakes, StartNow(w) PROVE TypeOK'
  BY <1>0, <1>5 DEF StartNow
<1>6. ASSUME NEW w \in Wakes, Started(w) PROVE TypeOK'
  BY <1>0, <1>6, <1>r DEF Started, TurnBegins, Recording
<1>7. ASSUME NEW w \in Wakes, Record(w) PROVE TypeOK'
  BY <1>0, <1>7 DEF Record, RecordAs
<1>8. ASSUME NEW w \in Wakes, EnqueueFails(w) PROVE TypeOK'
  BY <1>0, <1>8 DEF EnqueueFails
<1>9. ASSUME NEW w \in Wakes, CancelCall(w) PROVE TypeOK'
  BY <1>0, <1>9 DEF CancelCall
<1>10. ASSUME NEW w \in Wakes, CancelEntry(w) PROVE TypeOK'
  <2>1. CASE sidecar[w] = "none"
    BY <1>0, <1>10, <2>1 DEF CancelEntry
  <2>2. CASE sidecar[w] # "none"
    <3>1. timer' \in [Wakes -> TimerPC] /\ conv' \in Holders /\ busy' \in BOOLEAN
      BY <1>10, <1>k, <2>2 DEF CancelEntry
    <3>2. /\ cancel' \in [Wakes -> CancelPC] /\ wlock' \in Wakes \cup {None}
          /\ stale' \subseteq Wakes /\ withdrawn' \subseteq Wakes /\ tasks' \subseteq Wakes
          /\ sidecar' \in [Wakes -> {"none", "pending", "queued"}]
      BY <1>0, <1>10, <2>2 DEF CancelEntry
    <3> QED
      BY <1>10, <3>1, <3>2 DEF CancelEntry
  <2> QED
    BY <2>1, <2>2
<1>11. ASSUME NEW w \in Wakes, CancelQueued(w) PROVE TypeOK'
  <2>1. inbox' \in Seq(Wakes)
    BY <1>11, Removed DEF CancelQueued
  <2> QED
    BY <1>0, <1>11, <2>1 DEF CancelQueued
<1>12. ASSUME NEW w \in Wakes, Drained(w) PROVE TypeOK'
  BY <1>0, <1>12 DEF Drained, TurnBegins
<1>13. ASSUME NEW w \in Wakes, DrainFails(w) PROVE TypeOK'
  BY <1>0, <1>13 DEF DrainFails
<1>14. ASSUME NEW w \in Wakes, ScanArms(w) PROVE TypeOK'
  BY <1>0, <1>14 DEF ScanArms, Arm
<1>15. CASE OtherTakesLock
  BY <1>0, <1>15 DEF OtherTakesLock
<1>16. CASE OtherReleases
  BY <1>0, <1>16 DEF OtherReleases
<1>17. CASE TurnEnds
  BY <1>0, <1>17 DEF TurnEnds
<1>18. CASE DrainPending
  BY <1>18, <1>p DEF DrainPending
<1>19. CASE DeleteConversation
  <2> DEFINE listed == {w \in Wakes : sidecar[w] # "none"}
  <2>1. timer' \in [Wakes -> TimerPC] /\ conv' \in Holders /\ busy' \in BOOLEAN
    BY <1>19, <1>k DEF DeleteConversation
  <2>2. inbox' \in Seq(Wakes)
    BY <1>19, Emptied DEF DeleteConversation
  <2> QED
    BY <1>19, <2>1, <2>2 DEF DeleteConversation
<1>20. CASE Shutdown
  <2>1. timer' \in [Wakes -> TimerPC] /\ conv' \in Holders /\ busy' \in BOOLEAN
    BY <1>20, <1>k DEF Shutdown
  <2> QED
    BY <1>20, <2>1 DEF Shutdown, Unrecorded
<1>21. CASE Crash
  <2>1. crashes' \in 0..MaxCrashes
    BY <1>0, <1>21 DEF Crash
  <2>2. timer' \in [Wakes -> TimerPC] /\ cancel' \in [Wakes -> CancelPC]
    BY <1>0, <1>21 DEF Crash
  <2>3. /\ tasks' = {} /\ found' = {} /\ scans' = 0 /\ wlock' = None /\ phase' = "down"
        /\ conv' = Free /\ busy' = FALSE /\ turn' = None
        /\ lost' \subseteq Wakes /\ stale' \subseteq Wakes
        /\ UNCHANGED <<sidecar, inbox, begun, withdrawn>>
    BY <1>21 DEF Crash, Unrecorded
  <2>4. conv' \in Holders /\ turn' \in Wakes \cup {Other, None} /\ wlock' \in Wakes \cup {None}
    BY <1>0, <2>3
  <2>5. scans' \in 0..2 /\ tasks' \subseteq Wakes /\ found' \subseteq Wakes
    <3>1. scans' = 0 /\ tasks' = {} /\ found' = {}
      BY <2>3
    <3> QED
      BY <3>1
  <2>7. busy' \in BOOLEAN
    <3>1. busy' = FALSE
      BY <2>3
    <3> QED
      BY <3>1
  <2>6. inbox' \in Seq(Wakes)
    BY <2>3
  <2> QED
    BY <2>1, <2>2, <2>3, <2>4, <2>5, <2>6, <2>7
<1>22. CASE Restart
  BY <1>22, <1>p DEF Restart
<1>23. CASE Scan
  BY <1>0, <1>23 DEF Scan, Arm
<1>24. CASE UNCHANGED vars
  BY <1>24 DEF vars
<1> QED
  BY <1>1, <1>2, <1>3, <1>4, <1>5, <1>6, <1>7, <1>8, <1>9, <1>10, <1>11, <1>12, <1>13,
     <1>14, <1>15, <1>16, <1>17, <1>18, <1>19, <1>20, <1>21, <1>22, <1>23, <1>24
     DEF Next, Enqueue

-----------------------------------------------------------------------------
(* NothingForgotten *)

\* the wake left the scheduler's hands: its turn begins or began, or could not
\* be started, or somebody withdrew it
Handed(w) == begun[w] > 0 \/ conv = Drain(w) \/ w \in lost \cup withdrawn

\* nothing is known of a wake before schedule()
Unmade(w) ==
    timer[w] = "none" =>
        /\ sidecar[w] = "none" /\ w \notin Queued /\ conv # Drain(w)
        /\ begun[w] = 0 /\ cancel[w] = "idle" /\ w \notin found

\* What NothingForgotten needs to be inductive: how an entry leaves the sidecar,
\* what a timer on its way back from enqueue_turn relies on, and that a key of
\* self._tasks has a timer that lives or failed.
Kept(w) ==
    /\ timer[w] # "none" /\ sidecar[w] = "none" => Handed(w)
    /\ timer[w] = "recordStarted" => begun[w] > 0
    /\ sidecar[w] = "queued" \/ timer[w] = "recordQueued" => w \in Queued \/ Handed(w)
    /\ conv = Drain(w) => sidecar[w] = "none"
    /\ cancel[w] = "inbox" => w \in withdrawn /\ sidecar[w] = "none"
    /\ w \in tasks => timer[w] \in LiveTimer \cup {"failed"}
    /\ sidecar[w] = "pending" /\ ~Handed(w) /\ w \notin Queued /\ Scanned =>
           timer[w] \in LiveTimer \cup {"failed"} \/ w \in found

WakeInv ==
    /\ TypeOK /\ TimerInv
    /\ phase = "down" => scans = 0 /\ conv = Free
    /\ \A w \in Wakes : Unmade(w) /\ Kept(w)

LEMMA InitWakeInv == Init => WakeInv
<1> SUFFICES ASSUME Init PROVE WakeInv
  OBVIOUS
<1>1. TypeOK /\ TimerInv
  BY InitTypeOK, InitTimerInv
<1>2. Queued = {}
  BY EmptySeq DEF Init, Queued
<1>3. ASSUME NEW w \in Wakes PROVE Unmade(w) /\ Kept(w)
  <2>1. /\ timer[w] = "none" /\ sidecar[w] = "none" /\ cancel[w] = "idle" /\ begun[w] = 0
        /\ w \notin Queued /\ conv # Drain(w) /\ w \notin found /\ w \notin tasks
    BY <1>2 DEF Init, Drain, Free
  <2> QED
    BY <2>1 DEF Unmade, Kept
<1>4. phase # "down"
  BY DEF Init
<1> QED
  BY <1>1, <1>3, <1>4 DEF WakeInv

\* the record a timer makes, at once or when self._lock is free
LEMMA Recorded ==
    ASSUME TypeOK, NEW v \in Wakes, NEW how \in Recording, Return(v, how)
    PROVE  /\ \A w \in Wakes \ {v} : sidecar'[w] = sidecar[w] /\ timer'[w] = timer[w]
                                     /\ (w \in tasks' <=> w \in tasks)
           /\ \/ /\ timer'[v] = "done" /\ v \notin tasks'
                 /\ sidecar'[v] = IF how = "recordQueued" /\ sidecar[v] # "none" THEN "queued" ELSE "none"
              \/ timer'[v] = how /\ tasks' = tasks /\ sidecar' = sidecar
<1>1. CASE wlock = None
  <2>1. /\ tasks' = tasks \ {v} /\ timer' = [timer EXCEPT ![v] = "done"]
        /\ sidecar' = [sidecar EXCEPT ![v] =
                         IF how = "recordQueued" /\ sidecar[v] # "none" THEN "queued" ELSE "none"]
    BY <1>1 DEF Return, RecordAs, TypeOK
  <2> QED
    BY <2>1 DEF TypeOK
<1>2. CASE wlock # None
  BY <1>2 DEF Return, TypeOK
<1> QED
  BY <1>1, <1>2

\* the head of the inbox goes to the drain
LEMMA Taken ==
    ASSUME TypeOK, inbox # <<>>, PopWake, NEW w \in Wakes
    PROVE  /\ w \in Queued => w \in Queued' \/ conv' = Drain(w)
           /\ w \in Queued' \/ conv' = Drain(w) => w \in Queued
           /\ conv' = Drain(w) => sidecar'[w] = "none" /\ (Once(w) => w \notin Queued')
           /\ conv' # Drain(w) => sidecar'[w] = sidecar[w]
           /\ Once(w) => Once(w)'
<1>1. /\ inbox \in Seq(Wakes) /\ inbox' = Tail(inbox) /\ conv' = Drain(Head(inbox))
      /\ sidecar' = [sidecar EXCEPT ![Head(inbox)] = "none"]
      /\ sidecar \in [Wakes -> {"none", "pending", "queued"}]
  BY DEF PopWake, TypeOK
<1>2. /\ Head(inbox) \in Wakes
      /\ Queued = Queued' \cup {Head(inbox)}
      /\ Once(Head(inbox)) => Head(inbox) \notin Queued'
      /\ \A v \in Wakes : Once(v) => Once(v)'
  BY <1>1, Popped
<1>3. conv' = Drain(w) <=> w = Head(inbox)
  BY <1>1 DEF Drain
<1> QED
  BY <1>1, <1>2, <1>3

LEMMA StepUnmade ==
    ASSUME WakeInv, [Next]_vars, NEW w \in Wakes
    PROVE  Unmade(w)'
<1> USE DEF wakeVars, scanVars, convVars, history
<1>0. /\ TypeOK /\ TimerInv /\ Unmade(w) /\ Kept(w)
      /\ sidecar \in [Wakes -> {"none", "pending", "queued"}] /\ timer \in [Wakes -> TimerPC]
      /\ cancel \in [Wakes -> CancelPC] /\ begun \in [Wakes -> Nat] /\ inbox \in Seq(Wakes)
  BY DEF WakeInv, TypeOK
<1>q. inbox' = inbox => Queued' = Queued
  BY Unchanged
<1>1. ASSUME NEW v \in Wakes, Schedule(v) PROVE Unmade(w)'
  BY <1>0, <1>q, <1>1 DEF Schedule, Unmade, Free, Drain
<1>2. ASSUME NEW v \in Wakes, Fire(v) PROVE Unmade(w)'
  BY <1>0, <1>q, <1>2 DEF Fire, Unmade, Free, Drain
<1>3. ASSUME NEW v \in Wakes, RateLimited(v) PROVE Unmade(w)'
  BY <1>0, <1>q, <1>3 DEF RateLimited, Unmade, Free, Drain
<1>4. ASSUME NEW v \in Wakes, Queue(v) PROVE Unmade(w)'
  <2>1. /\ Return(v, "recordQueued") /\ "recordQueued" \in Recording /\ timer[v] = "enqueue"
        /\ Queued' = Queued \cup {v} /\ UNCHANGED <<conv, begun, cancel, found>>
    BY <1>0, <1>4, Appended DEF Queue, Recording
  <2>2. /\ w # v => sidecar'[w] = sidecar[w] /\ timer'[w] = timer[w]
        /\ timer'[v] # "none"
    BY <1>0, <2>1, Recorded
  <2> QED
    BY <1>0, <2>1, <2>2 DEF Unmade
<1>5. ASSUME NEW v \in Wakes, StartNow(v) PROVE Unmade(w)'
  BY <1>0, <1>q, <1>5 DEF StartNow, Unmade, Free, Drain, Timer
<1>6. ASSUME NEW v \in Wakes, Started(v) PROVE Unmade(w)'
  <2>1. /\ Return(v, "recordStarted") /\ "recordStarted" \in Recording /\ conv' = Free
        /\ begun' = [begun EXCEPT ![v] = @ + 1] /\ UNCHANGED <<inbox, cancel, found>>
    BY <1>6 DEF Started, TurnBegins, Recording
  <2>2. /\ w # v => sidecar'[w] = sidecar[w] /\ timer'[w] = timer[w]
        /\ timer'[v] # "none"
    BY <1>0, <2>1, Recorded
  <2> QED
    BY <1>0, <1>q, <2>1, <2>2 DEF Unmade, Free, Drain
<1>7. ASSUME NEW v \in Wakes, Record(v) PROVE Unmade(w)'
  BY <1>0, <1>q, <1>7 DEF Record, RecordAs, Unmade, Free, Drain
<1>8. ASSUME NEW v \in Wakes, EnqueueFails(v) PROVE Unmade(w)'
  BY <1>0, <1>q, <1>8 DEF EnqueueFails, Unmade, Free, Drain
<1>9. ASSUME NEW v \in Wakes, CancelCall(v) PROVE Unmade(w)'
  BY <1>0, <1>q, <1>9 DEF CancelCall, Unmade, Free, Drain
<1>10. ASSUME NEW v \in Wakes, CancelEntry(v) PROVE Unmade(w)'
  <2>1. CASE sidecar[v] = "none"
    BY <1>0, <1>q, <1>10, <2>1 DEF CancelEntry, Unmade
  <2>2. CASE sidecar[v] # "none"
    <3>1. /\ timer' = [x \in Wakes |-> IF x \in tasks \cap {v} /\ timer[x] \in LiveTimer THEN "done" ELSE timer[x]]
          /\ conv' = Drain(w) <=> conv = Drain(w)
      BY <1>10, <2>2, Killed DEF CancelEntry
    <3>2. /\ sidecar' = [sidecar EXCEPT ![v] = "none"] /\ UNCHANGED <<inbox, begun, found>>
          /\ w # v => cancel'[w] = cancel[w]
      BY <1>0, <1>10, <2>2 DEF CancelEntry
    <3> QED
      BY <1>0, <1>q, <2>2, <3>1, <3>2 DEF Unmade
  <2> QED
    BY <2>1, <2>2
<1>11. ASSUME NEW v \in Wakes, CancelQueued(v) PROVE Unmade(w)'
  <2>1. Queued' = Queued \ {v}
    BY <1>0, <1>11, Removed DEF CancelQueued
  <2> QED
    BY <1>0, <1>11, <2>1 DEF CancelQueued, Unmade
<1>12. ASSUME NEW v \in Wakes, Drained(v) PROVE Unmade(w)'
  BY <1>0, <1>q, <1>12 DEF Drained, TurnBegins, Unmade, Free, Drain
<1>13. ASSUME NEW v \in Wakes, DrainFails(v) PROVE Unmade(w)'
  BY <1>0, <1>q, <1>13 DEF DrainFails, Unmade, Free, Drain
<1>14. ASSUME NEW v \in Wakes, ScanArms(v) PROVE Unmade(w)'
  BY <1>0, <1>q, <1>14 DEF ScanArms, Arm, Unmade, Free, Drain
<1>15. CASE OtherTakesLock
  BY <1>0, <1>q, <1>15 DEF OtherTakesLock, Unmade, Free, Drain
<1>16. CASE OtherReleases
  BY <1>0, <1>q, <1>16 DEF OtherReleases, Unmade, Free, Drain
<1>17. CASE TurnEnds
  BY <1>0, <1>q, <1>17 DEF TurnEnds, Unmade, Free, Drain
<1>18. CASE DrainPending
  <2>1. inbox # <<>> /\ PopWake /\ UNCHANGED <<timer, begun, cancel, found>>
    BY <1>18 DEF DrainPending
  <2> QED
    BY <1>0, <2>1, Taken DEF Unmade
<1>19. CASE DeleteConversation
  <2> DEFINE gone == tasks \cap {x \in Wakes : sidecar[x] # "none"}
  <2>1. KillTimers(gone) /\ Queued' = {} /\ UNCHANGED <<begun, cancel, found>>
        /\ sidecar' = [x \in Wakes |-> "none"]
    BY <1>19, Emptied DEF DeleteConversation
  <2>2. /\ timer'[w] = "none" => timer[w] = "none"
        /\ conv' = Drain(w) <=> conv = Drain(w)
    BY <2>1, Killed
  <2> QED
    BY <1>0, <2>1, <2>2 DEF Unmade
<1>20. CASE Shutdown
  <2>1. KillTimers(tasks) /\ UNCHANGED <<sidecar, inbox, begun, cancel, found>>
    BY <1>20 DEF Shutdown
  <2>2. /\ timer'[w] = "none" => timer[w] = "none"
        /\ conv' = Drain(w) <=> conv = Drain(w)
    BY <2>1, Killed
  <2> QED
    BY <1>0, <1>q, <2>1, <2>2 DEF Unmade
<1>21. CASE Crash
  BY <1>0, <1>q, <1>21 DEF Crash, Unmade, Free, Drain
<1>22. CASE Restart
  <2>1. UNCHANGED <<timer, begun, cancel, found>>
    BY <1>22 DEF Restart
  <2>2. CASE inbox = <<>>
    BY <1>0, <1>q, <1>22, <2>1, <2>2 DEF Restart, Unmade
  <2>3. CASE inbox # <<>>
    BY <1>0, <1>22, <2>1, <2>3, Taken DEF Restart, Unmade
  <2> QED
    BY <2>2, <2>3
<1>23. CASE Scan
  BY <1>0, <1>q, <1>23 DEF Scan, Arm, Unmade, Free, Drain
<1>24. CASE UNCHANGED vars
  BY <1>0, <1>q, <1>24 DEF vars, Unmade, Free, Drain
<1> QED
  BY <1>1, <1>2, <1>3, <1>4, <1>5, <1>6, <1>7, <1>8, <1>9, <1>10, <1>11, <1>12,
     <1>13, <1>14, <1>15, <1>16, <1>17, <1>18, <1>19, <1>20, <1>21, <1>22, <1>23, <1>24
     DEF Next, Enqueue
\* what was handed over stays so: the lock is taken from a drain only when the
\* turn has begun, failed to, or died with the process
LEMMA HandedStays ==
    ASSUME WakeInv, [Next]_vars, NEW w \in Wakes, Handed(w)
    PROVE  Handed(w)'
<1> USE DEF wakeVars, scanVars, convVars, history
<1>0. /\ begun \in [Wakes -> Nat] /\ Handed(w) /\ (phase = "down" => conv = Free)
      /\ \A v \in Wakes : timer[v] = "starting" => conv = Timer(v)
  BY DEF WakeInv, TypeOK, TimerInv
<1>1. ASSUME NEW v \in Wakes, Schedule(v) PROVE Handed(w)'
  BY <1>0, <1>1 DEF Schedule, Handed, Free, Drain, Timer
<1>2. ASSUME NEW v \in Wakes, Fire(v) PROVE Handed(w)'
  BY <1>0, <1>2 DEF Fire, Handed, Free, Drain, Timer
<1>3. ASSUME NEW v \in Wakes, RateLimited(v) PROVE Handed(w)'
  BY <1>0, <1>3 DEF RateLimited, Handed, Free, Drain, Timer
<1>4. ASSUME NEW v \in Wakes, Queue(v) PROVE Handed(w)'
  BY <1>0, <1>4 DEF Queue, Handed, Free, Drain, Timer
<1>5. ASSUME NEW v \in Wakes, StartNow(v) PROVE Handed(w)'
  BY <1>0, <1>5 DEF StartNow, Handed, Free, Drain, Timer
<1>6. ASSUME NEW v \in Wakes, Started(v) PROVE Handed(w)'
  BY <1>0, <1>6 DEF Started, TurnBegins, Handed, Free, Drain, Timer
<1>7. ASSUME NEW v \in Wakes, Record(v) PROVE Handed(w)'
  BY <1>0, <1>7 DEF Record, RecordAs, Handed, Free, Drain, Timer
<1>8. ASSUME NEW v \in Wakes, EnqueueFails(v) PROVE Handed(w)'
  BY <1>0, <1>8 DEF EnqueueFails, Handed, Free, Drain, Timer
<1>9. ASSUME NEW v \in Wakes, CancelCall(v) PROVE Handed(w)'
  BY <1>0, <1>9 DEF CancelCall, Handed, Free, Drain, Timer
<1>10. ASSUME NEW v \in Wakes, CancelEntry(v) PROVE Handed(w)'
  <2>1. CASE sidecar[v] = "none"
    BY <1>10, <2>1 DEF CancelEntry, Handed
  <2>2. CASE sidecar[v] # "none"
    <3>1. conv' = Drain(w) <=> conv = Drain(w)
      BY <1>10, <2>2, Killed DEF CancelEntry
    <3>2. withdrawn \subseteq withdrawn' /\ UNCHANGED <<begun, lost>>
      BY <1>10, <2>2 DEF CancelEntry
    <3> QED
      BY <3>1, <3>2 DEF Handed
  <2> QED
    BY <2>1, <2>2
<1>11. ASSUME NEW v \in Wakes, CancelQueued(v) PROVE Handed(w)'
  BY <1>0, <1>11 DEF CancelQueued, Handed, Free, Drain, Timer
<1>12. ASSUME NEW v \in Wakes, Drained(v) PROVE Handed(w)'
  BY <1>0, <1>12 DEF Drained, TurnBegins, Handed, Free, Drain, Timer
<1>13. ASSUME NEW v \in Wakes, DrainFails(v) PROVE Handed(w)'
  BY <1>0, <1>13 DEF DrainFails, Handed, Free, Drain, Timer
<1>14. ASSUME NEW v \in Wakes, ScanArms(v) PROVE Handed(w)'
  BY <1>0, <1>14 DEF ScanArms, Arm, Handed, Free, Drain, Timer
<1>15. CASE OtherTakesLock
  BY <1>0, <1>15 DEF OtherTakesLock, Handed, Free, Drain, Timer
<1>16. CASE OtherReleases
  BY <1>0, <1>16 DEF OtherReleases, Handed, Free, Drain, Timer
<1>17. CASE TurnEnds
  BY <1>0, <1>17 DEF TurnEnds, Handed, Free, Drain, Timer
<1>18. CASE DrainPending
  BY <1>0, <1>18 DEF DrainPending, PopWake, Handed, Free, Drain, Timer
<1>19. CASE DeleteConversation
  <2>1. conv' = Drain(w) <=> conv = Drain(w)
    BY <1>19, Killed DEF DeleteConversation
  <2>2. withdrawn \subseteq withdrawn' /\ UNCHANGED <<begun, lost>>
    BY <1>19 DEF DeleteConversation
  <2> QED
    BY <2>1, <2>2 DEF Handed
<1>20. CASE Shutdown
  <2>1. conv' = Drain(w) <=> conv = Drain(w)
    BY <1>20, Killed DEF Shutdown
  <2> QED
    BY <1>20, <2>1 DEF Shutdown, Handed
<1>21. CASE Crash
  BY <1>0, <1>21 DEF Crash, Unrecorded, Handed, Free, Drain, Timer
<1>22. CASE Restart
  BY <1>0, <1>22 DEF Restart, PopWake, Handed, Free, Drain, Timer
<1>23. CASE Scan
  BY <1>0, <1>23 DEF Scan, Arm, Handed, Free, Drain, Timer
<1>24. CASE UNCHANGED vars
  BY <1>0, <1>24 DEF vars, Handed, Free, Drain, Timer
<1> QED
  BY <1>1, <1>2, <1>3, <1>4, <1>5, <1>6, <1>7, <1>8, <1>9, <1>10, <1>11, <1>12,
     <1>13, <1>14, <1>15, <1>16, <1>17, <1>18, <1>19, <1>20, <1>21, <1>22, <1>23, <1>24
     DEF Next, Enqueue

LEMMA StepKept ==
    ASSUME WakeInv, [Next]_vars, NEW w \in Wakes
    PROVE  Kept(w)'
<1> USE DEF wakeVars, scanVars, convVars, history
<1>0. /\ TypeOK /\ TimerInv /\ Unmade(w) /\ Kept(w) /\ (phase = "down" => scans = 0)
      /\ (timer[w] # "none" /\ sidecar[w] = "none" => Handed(w))
      /\ sidecar \in [Wakes -> {"none", "pending", "queued"}] /\ timer \in [Wakes -> TimerPC]
      /\ cancel \in [Wakes -> CancelPC] /\ begun \in [Wakes -> Nat] /\ inbox \in Seq(Wakes)
      /\ scans \in 0..2 /\ tasks \subseteq Wakes
      /\ Handed(w) => Handed(w)'
  BY HandedStays DEF WakeInv, TypeOK, Kept
<1>h. Handed(w) => Handed(w)'
  BY HandedStays
<1>q. inbox' = inbox => Queued' = Queued
  BY Unchanged
<1>1. ASSUME NEW v \in Wakes, Schedule(v) PROVE Kept(w)'
  BY <1>0, <1>q, <1>1 DEF Schedule, Unmade, Kept, Scanned, LiveTimer, Recording, Free, Drain, Timer
<1>2. ASSUME NEW v \in Wakes, Fire(v) PROVE Kept(w)'
  BY <1>0, <1>q, <1>2 DEF Fire, Kept, Scanned, LiveTimer, Recording, Free, Drain, Timer
<1>3. ASSUME NEW v \in Wakes, RateLimited(v) PROVE Kept(w)'
  BY <1>0, <1>q, <1>3 DEF RateLimited, Kept, Scanned, LiveTimer, Recording, Free, Drain, Timer
<1>4. ASSUME NEW v \in Wakes, Queue(v) PROVE Kept(w)'
  <2>1. /\ Return(v, "recordQueued") /\ "recordQueued" \in Recording /\ timer[v] = "enqueue"
        /\ Queued' = Queued \cup {v} /\ UNCHANGED <<conv, cancel, found, scans, phase, begun, withdrawn>>
    BY <1>0, <1>4, Appended DEF Queue, Recording
  <2>2. /\ w # v => /\ sidecar'[w] = sidecar[w] /\ timer'[w] = timer[w]
                    /\ (w \in tasks' <=> w \in tasks)
        /\ w = v => \/ timer'[w] = "done" /\ w \notin tasks' /\ sidecar'[w] \in {"none", "queued"}
                        /\ (sidecar'[w] = "none" <=> sidecar[w] = "none")
                    \/ timer'[w] = "recordQueued" /\ tasks' = tasks /\ sidecar' = sidecar
    BY <1>0, <2>1, Recorded
  <2>3. CASE w # v
    BY <1>0, <2>1, <2>2, <2>3 DEF Kept, Scanned
  <2>4. CASE w = v
    BY <1>0, <2>1, <2>2, <2>4 DEF Kept, Scanned, LiveTimer, Recording
  <2> QED
    BY <2>3, <2>4
<1>5. ASSUME NEW v \in Wakes, StartNow(v) PROVE Kept(w)'
  BY <1>0, <1>q, <1>5 DEF StartNow, Kept, Scanned, LiveTimer, Recording, Free, Drain, Timer
<1>6. ASSUME NEW v \in Wakes, Started(v) PROVE Kept(w)'
  <2>1. /\ Return(v, "recordStarted") /\ "recordStarted" \in Recording /\ timer[v] = "starting"
        /\ begun'[v] > 0 /\ conv' = Free
        /\ w # v => begun'[w] = begun[w]
        /\ UNCHANGED <<inbox, cancel, found, scans, phase, withdrawn>>
    BY <1>0, <1>6 DEF Started, TurnBegins, Recording
  <2>2. /\ w # v => /\ sidecar'[w] = sidecar[w] /\ timer'[w] = timer[w]
                    /\ (w \in tasks' <=> w \in tasks)
        /\ w = v => \/ timer'[w] = "done" /\ w \notin tasks'
                    \/ timer'[w] = "recordStarted"
        /\ sidecar[w] = "none" => sidecar'[w] = "none"
    BY <1>0, <2>1, Recorded
  <2>3. CASE w # v
    BY <1>0, <1>q, <2>1, <2>2, <2>3 DEF Kept, Scanned, Free, Drain
  <2>4. CASE w = v
    <3>1. Handed(w)' /\ conv' # Drain(w)
      BY <2>1, <2>4 DEF Handed, Free, Drain
    <3> QED
      BY <1>0, <2>1, <2>2, <2>4, <3>1 DEF Kept, LiveTimer, Recording
  <2> QED
    BY <2>3, <2>4
<1>7. ASSUME NEW v \in Wakes, Record(v) PROVE Kept(w)'
  <2>1. /\ timer[v] \in Recording /\ timer' = [timer EXCEPT ![v] = "done"] /\ tasks' = tasks \ {v}
        /\ sidecar' = [sidecar EXCEPT ![v] =
                         IF timer[v] = "recordQueued" /\ sidecar[v] # "none" THEN "queued" ELSE "none"]
        /\ UNCHANGED <<inbox, conv, begun, cancel, found, scans, phase, withdrawn>>
    BY <1>0, <1>7 DEF Record, RecordAs
  <2>2. CASE w # v
    BY <1>0, <1>q, <2>1, <2>2 DEF Kept, Scanned
  <2>3. CASE w = v /\ timer[v] = "recordQueued"
    BY <1>0, <1>q, <2>1, <2>3 DEF Kept
  <2>4. CASE w = v /\ timer[v] = "recordStarted"
    <3>1. Handed(w)
      BY <1>0, <2>4 DEF Kept, Handed
    <3> QED
      BY <1>0, <1>q, <2>1, <2>4, <3>1 DEF Kept
  <2> QED
    BY <2>1, <2>2, <2>3, <2>4 DEF Recording
<1>8. ASSUME NEW v \in Wakes, EnqueueFails(v) PROVE Kept(w)'
  BY <1>0, <1>q, <1>8 DEF EnqueueFails, Kept, Scanned, LiveTimer, Recording, Free, Drain, Timer
<1>9. ASSUME NEW v \in Wakes, CancelCall(v) PROVE Kept(w)'
  BY <1>0, <1>q, <1>9 DEF CancelCall, Kept, Scanned, LiveTimer, Recording, Free, Drain, Timer
<1>10. ASSUME NEW v \in Wakes, CancelEntry(v) PROVE Kept(w)'
  <2>1. CASE sidecar[v] = "none"
    BY <1>0, <1>q, <1>10, <2>1 DEF CancelEntry, Kept, Scanned
  <2>2. CASE sidecar[v] # "none"
    <3>1. /\ timer' = [x \in Wakes |-> IF x \in tasks \cap {v} /\ timer[x] \in LiveTimer THEN "done" ELSE timer[x]]
          /\ conv' = Drain(w) <=> conv = Drain(w)
      BY <1>10, <2>2, Killed DEF CancelEntry
    <3>2. /\ sidecar' = [sidecar EXCEPT ![v] = "none"] /\ withdrawn' = withdrawn \cup {v}
          /\ tasks' = tasks \ {v} /\ UNCHANGED <<inbox, begun, found, scans, phase>>
          /\ w # v => cancel'[w] = cancel[w]
      BY <1>0, <1>10, <2>2 DEF CancelEntry
    <3>3. CASE w # v
      BY <1>0, <1>q, <3>1, <3>2, <3>3 DEF Kept, Scanned
    <3>4. CASE w = v
      <4>1. Handed(w)' /\ sidecar'[w] = "none" /\ w \in withdrawn' /\ w \notin tasks'
        BY <1>0, <3>2, <3>4 DEF Handed
      <4>2. timer'[w] = "recordStarted" => begun'[w] > 0
        BY <1>0, <3>1, <3>2 DEF Kept
      <4> QED
        BY <4>1, <4>2 DEF Kept
    <3> QED
      BY <3>3, <3>4
  <2> QED
    BY <2>1, <2>2
<1>11. ASSUME NEW v \in Wakes, CancelQueued(v) PROVE Kept(w)'
  <2>1. Queued' = Queued \ {v}
    BY <1>0, <1>11, Removed DEF CancelQueued
  <2>2. w = v => Handed(w)'
    BY <1>0, <1>11 DEF CancelQueued, Kept, Handed
  <2> QED
    BY <1>0, <1>11, <2>1, <2>2 DEF CancelQueued, Kept, Scanned
<1>12. ASSUME NEW v \in Wakes, Drained(v) PROVE Kept(w)'
  BY <1>0, <1>q, <1>12 DEF Drained, TurnBegins, Kept, Scanned, LiveTimer, Recording, Free, Drain, Timer
<1>13. ASSUME NEW v \in Wakes, DrainFails(v) PROVE Kept(w)'
  BY <1>0, <1>q, <1>13 DEF DrainFails, Kept, Scanned, LiveTimer, Recording, Free, Drain, Timer
<1>14. ASSUME NEW v \in Wakes, ScanArms(v) PROVE Kept(w)'
  BY <1>0, <1>q, <1>14 DEF ScanArms, Arm, Unmade, Kept, Scanned, LiveTimer, Recording, Free, Drain, Timer
<1>15. CASE OtherTakesLock
  BY <1>0, <1>q, <1>15 DEF OtherTakesLock, Kept, Scanned, LiveTimer, Recording, Free, Drain, Timer
<1>16. CASE OtherReleases
  BY <1>0, <1>q, <1>16 DEF OtherReleases, Kept, Scanned, LiveTimer, Recording, Free, Drain, Timer
<1>17. CASE TurnEnds
  BY <1>0, <1>q, <1>17 DEF TurnEnds, Kept, Scanned, LiveTimer, Recording, Free, Drain, Timer
<1>18. CASE DrainPending
  <2>1. inbox # <<>> /\ PopWake /\ UNCHANGED <<timer, tasks, begun, cancel, found, scans, phase, withdrawn>>
    BY <1>18 DEF DrainPending
  <2>2. conv' = Drain(w) => Handed(w)'
    BY DEF Handed
  <2> QED
    BY <1>0, <2>1, <2>2, Taken DEF Kept, Scanned
<1>19. CASE DeleteConversation
  <2> DEFINE gone == tasks \cap {x \in Wakes : sidecar[x] # "none"}
  <2>1. /\ KillTimers(gone) /\ tasks' = tasks \ gone
        /\ withdrawn' = withdrawn \cup {x \in Wakes : sidecar[x] # "none"}
        /\ sidecar' = [x \in Wakes |-> "none"] /\ UNCHANGED <<begun, cancel>>
    BY <1>19 DEF DeleteConversation
  <2>2. /\ timer' = [x \in Wakes |-> IF x \in gone /\ timer[x] \in LiveTimer THEN "done" ELSE timer[x]]
        /\ conv' = Drain(w) <=> conv = Drain(w)
    BY <2>1, Killed
  <2> HIDE DEF gone
  <2>3. timer'[w] # "none" => Handed(w)'
    <3>1. CASE sidecar[w] = "none"
      BY <1>0, <2>2, <3>1 DEF LiveTimer, Recording
    <3>2. CASE sidecar[w] # "none"
      BY <2>1, <3>2 DEF Handed
    <3> QED
      BY <3>1, <3>2
  <2>4. timer'[w] = "recordStarted" => begun'[w] > 0
    BY <1>0, <2>1, <2>2 DEF Kept
  <2>5. w \in tasks' => timer'[w] \in LiveTimer \cup {"failed"}
    BY <1>0, <2>1, <2>2 DEF Kept
  <2>6. cancel'[w] = "inbox" => w \in withdrawn'
    BY <1>0, <2>1 DEF Kept
  <2> QED
    BY <2>1, <2>3, <2>4, <2>5, <2>6 DEF Kept
<1>20. CASE Shutdown
  <2>1. KillTimers(tasks) /\ tasks' = {} /\ UNCHANGED <<sidecar, inbox, begun, cancel, withdrawn>> /\ ~Scanned'
    BY <1>20 DEF Shutdown, Scanned
  <2>2. /\ timer' = [x \in Wakes |-> IF x \in tasks /\ timer[x] \in LiveTimer THEN "done" ELSE timer[x]]
        /\ conv' = Drain(w) <=> conv = Drain(w)
    BY <2>1, Killed
  <2> QED
    BY <1>0, <1>q, <2>1, <2>2 DEF Kept, LiveTimer, Recording
<1>21. CASE Crash
  BY <1>0, <1>q, <1>21 DEF Crash, Unrecorded, Kept, Scanned, LiveTimer, Recording, Free, Drain, Timer
<1>22. CASE Restart
  <2>1. UNCHANGED <<timer, tasks, begun, cancel, found, scans, withdrawn>> /\ ~Scanned'
    BY <1>0, <1>22 DEF Restart, Scanned
  <2>2. CASE inbox = <<>>
    BY <1>0, <1>q, <1>22, <2>1, <2>2 DEF Restart, Kept
  <2>3. CASE inbox # <<>>
    <3>1. conv' = Drain(w) => Handed(w)'
      BY DEF Handed
    <3> QED
      BY <1>0, <1>22, <2>1, <2>3, <3>1, Taken DEF Restart, Kept
  <2> QED
    BY <2>2, <2>3
<1>23. CASE Scan
  BY <1>0, <1>q, <1>23 DEF Scan, Arm, Kept, Scanned, LiveTimer, Recording, Free, Drain, Timer
<1>24. CASE UNCHANGED vars
  BY <1>0, <1>q, <1>24 DEF vars, Kept, Scanned, LiveTimer, Recording, Free, Drain, Timer
<1> QED
  BY <1>1, <1>2, <1>3, <1>4, <1>5, <1>6, <1>7, <1>8, <1>9, <1>10, <1>11, <1>12,
     <1>13, <1>14, <1>15, <1>16, <1>17, <1>18, <1>19, <1>20, <1>21, <1>22, <1>23, <1>24
     DEF Next, Enqueue

LEMMA StepDown ==
    ASSUME WakeInv, [Next]_vars
    PROVE  (phase = "down" => scans = 0 /\ conv = Free)'
<1> USE DEF wakeVars, scanVars, convVars, history
<1>0. /\ phase = "down" => scans = 0 /\ conv = Free
      /\ phase = "down" => \A w \in Wakes : timer[w] \notin LiveTimer
  BY DEF WakeInv, TimerInv
<1>1. ASSUME NEW v \in Wakes, Schedule(v) PROVE (phase = "down" => scans = 0 /\ conv = Free)'
  BY <1>0, <1>1 DEF Schedule, Alive, LiveTimer, Recording, Free, Drain
<1>2. ASSUME NEW v \in Wakes, Fire(v) PROVE (phase = "down" => scans = 0 /\ conv = Free)'
  BY <1>0, <1>2 DEF Fire, Alive, LiveTimer, Recording, Free, Drain
<1>3. ASSUME NEW v \in Wakes, RateLimited(v) PROVE (phase = "down" => scans = 0 /\ conv = Free)'
  BY <1>0, <1>3 DEF RateLimited, Alive, LiveTimer, Recording, Free, Drain
<1>4. ASSUME NEW v \in Wakes, Queue(v) PROVE (phase = "down" => scans = 0 /\ conv = Free)'
  BY <1>0, <1>4 DEF Queue, Alive, LiveTimer, Recording, Free, Drain
<1>5. ASSUME NEW v \in Wakes, StartNow(v) PROVE (phase = "down" => scans = 0 /\ conv = Free)'
  BY <1>0, <1>5 DEF StartNow, Alive, LiveTimer, Recording, Free, Drain
<1>6. ASSUME NEW v \in Wakes, Started(v) PROVE (phase = "down" => scans = 0 /\ conv = Free)'
  BY <1>0, <1>6 DEF Started, TurnBegins, Alive, LiveTimer, Recording, Free, Drain
<1>7. ASSUME NEW v \in Wakes, Record(v) PROVE (phase = "down" => scans = 0 /\ conv = Free)'
  BY <1>0, <1>7 DEF Record, RecordAs, Alive, LiveTimer, Recording, Free, Drain
<1>8. ASSUME NEW v \in Wakes, EnqueueFails(v) PROVE (phase = "down" => scans = 0 /\ conv = Free)'
  BY <1>0, <1>8 DEF EnqueueFails, Alive, LiveTimer, Recording, Free, Drain
<1>9. ASSUME NEW v \in Wakes, CancelCall(v) PROVE (phase = "down" => scans = 0 /\ conv = Free)'
  BY <1>0, <1>9 DEF CancelCall, Alive, LiveTimer, Recording, Free, Drain
<1>10. ASSUME NEW v \in Wakes, CancelEntry(v) PROVE (phase = "down" => scans = 0 /\ conv = Free)'
  <2>1. phase' = phase /\ scans' = scans /\ conv' \in {conv, Free}
    BY <1>10, Killed DEF CancelEntry
  <2> QED
    BY <1>0, <2>1
<1>11. ASSUME NEW v \in Wakes, CancelQueued(v) PROVE (phase = "down" => scans = 0 /\ conv = Free)'
  BY <1>0, <1>11 DEF CancelQueued, Alive, LiveTimer, Recording, Free, Drain
<1>12. ASSUME NEW v \in Wakes, Drained(v) PROVE (phase = "down" => scans = 0 /\ conv = Free)'
  BY <1>0, <1>12 DEF Drained, TurnBegins, Alive, LiveTimer, Recording, Free, Drain
<1>13. ASSUME NEW v \in Wakes, DrainFails(v) PROVE (phase = "down" => scans = 0 /\ conv = Free)'
  BY <1>0, <1>13 DEF DrainFails, Alive, LiveTimer, Recording, Free, Drain
<1>14. ASSUME NEW v \in Wakes, ScanArms(v) PROVE (phase = "down" => scans = 0 /\ conv = Free)'
  BY <1>0, <1>14 DEF ScanArms, Arm, Alive, LiveTimer, Recording, Free, Drain
<1>15. CASE OtherTakesLock
  BY <1>0, <1>15 DEF OtherTakesLock, Alive, LiveTimer, Recording, Free, Drain
<1>16. CASE OtherReleases
  BY <1>0, <1>16 DEF OtherReleases, Alive, LiveTimer, Recording, Free, Drain
<1>17. CASE TurnEnds
  BY <1>0, <1>17 DEF TurnEnds, Alive, LiveTimer, Recording, Free, Drain
<1>18. CASE DrainPending
  BY <1>0, <1>18 DEF DrainPending, PopWake, Alive, LiveTimer, Recording, Free, Drain
<1>19. CASE DeleteConversation
  BY <1>19 DEF DeleteConversation
<1>20. CASE Shutdown
  BY <1>20 DEF Shutdown
<1>21. CASE Crash
  BY <1>0, <1>21 DEF Crash, Unrecorded, Alive, LiveTimer, Recording, Free, Drain
<1>22. CASE Restart
  BY <1>0, <1>22 DEF Restart, PopWake, Alive, LiveTimer, Recording, Free, Drain
<1>23. CASE Scan
  BY <1>0, <1>23 DEF Scan, Arm, Alive, LiveTimer, Recording, Free, Drain
<1>24. CASE UNCHANGED vars
  BY <1>0, <1>24 DEF vars, Alive, LiveTimer, Recording, Free, Drain
<1> QED
  BY <1>1, <1>2, <1>3, <1>4, <1>5, <1>6, <1>7, <1>8, <1>9, <1>10, <1>11, <1>12,
     <1>13, <1>14, <1>15, <1>16, <1>17, <1>18, <1>19, <1>20, <1>21, <1>22, <1>23, <1>24
     DEF Next, Enqueue

LEMMA StepWakeInv == WakeInv /\ [Next]_vars => WakeInv'
<1> SUFFICES ASSUME WakeInv, [Next]_vars PROVE WakeInv'
  OBVIOUS
<1>1. TypeOK' /\ TimerInv'
  BY StepTypeOK, StepTimerInv DEF WakeInv
<1>2. \A w \in Wakes : Unmade(w)' /\ Kept(w)'
  BY StepUnmade, StepKept
<1> QED
  BY <1>1, <1>2, StepDown DEF WakeInv

-----------------------------------------------------------------------------
(* RunsOnce, CancelledStaysCancelled *)

\* the timer has still to hand the wake to enqueue_turn
Ahead == {"sleep", "enqueue", "starting"}

\* enqueue_turn has accepted the wake
Accepted(w) == begun[w] > 0 \/ conv = Drain(w) \/ w \in Queued

\* A wake is in one place: with a timer that is ahead of enqueue_turn and a
\* pending record, or in the inbox, or in the hands of a drain, or begun; and
\* one that was cancelled is nowhere.
Single(w) ==
    w \notin stale =>
        /\ sidecar[w] = "pending" => ~Accepted(w) \/ timer[w] \in Recording
        /\ timer[w] \in Ahead => sidecar[w] = "pending"
        /\ begun[w] <= 1
        /\ begun[w] = 1 => conv # Drain(w) /\ w \notin Queued
        /\ conv = Drain(w) => w \notin Queued
        /\ Once(w)
        /\ cancel[w] = "true" => sidecar[w] = "none" /\ w \notin Queued /\ conv # Drain(w)

LEMMA InitSingle == Init => \A w \in Wakes : Single(w)
<1> SUFFICES ASSUME Init, NEW w \in Wakes PROVE Single(w)
  OBVIOUS
<1>1. Queued = {} /\ Once(w)
  BY EmptySeq DEF Init, Queued, Once
<1>2. /\ timer[w] = "none" /\ sidecar[w] = "none" /\ cancel[w] = "idle" /\ begun[w] = 0
      /\ conv # Drain(w)
  BY DEF Init, Drain, Free
<1> QED
  BY <1>1, <1>2 DEF Single, Ahead

\* a timer ahead of enqueue_turn has a wake that was not accepted
LEMMA AheadIsNew ==
    ASSUME WakeInv, NEW w \in Wakes, Single(w), w \notin stale, timer[w] \in Ahead
    PROVE  begun[w] = 0 /\ conv # Drain(w) /\ w \notin Queued
<1>1. timer[w] \notin Recording /\ begun[w] \in Nat
  BY DEF Ahead, Recording, WakeInv, TypeOK
<1> QED
  BY <1>1 DEF Single, Accepted

LEMMA StepSingle ==
    ASSUME WakeInv, [Next]_vars, NEW w \in Wakes, Single(w)
    PROVE  Single(w)'
<1> USE DEF wakeVars, scanVars, convVars, history
<1>0. /\ TypeOK /\ Single(w) /\ Unmade(w)
      /\ sidecar \in [Wakes -> {"none", "pending", "queued"}] /\ timer \in [Wakes -> TimerPC]
      /\ cancel \in [Wakes -> CancelPC] /\ begun \in [Wakes -> Nat] /\ inbox \in Seq(Wakes)
      /\ tasks \subseteq Wakes
      /\ timer[w] \in LiveTimer => w \in tasks
      /\ conv = Drain(w) \/ cancel[w] = "inbox" => sidecar[w] = "none"
      /\ w \in tasks => timer[w] \in LiveTimer \cup {"failed"}
      /\ phase = "down" => conv = Free
      /\ \A v \in Wakes : timer[v] = "starting" => conv = Timer(v)
  BY DEF WakeInv, TypeOK, TimerInv, Kept
<1>n. w \notin stale /\ timer[w] \in Ahead => begun[w] = 0 /\ conv # Drain(w) /\ w \notin Queued
  BY AheadIsNew
<1>q. inbox' = inbox => Queued' = Queued /\ Once(w)' = Once(w)
  BY Unchanged
<1>p. ASSUME inbox # <<>>, PopWake, conv = Free, UNCHANGED <<timer, begun, cancel, stale>>
      PROVE  Single(w)'
  <2>1. /\ w \in Queued' \/ conv' = Drain(w) => w \in Queued
        /\ conv' = Drain(w) => sidecar'[w] = "none" /\ (Once(w) => w \notin Queued')
        /\ conv' # Drain(w) => sidecar'[w] = sidecar[w]
        /\ Once(w) => Once(w)'
    BY <1>0, <1>p, Taken
  <2>2. CASE conv' = Drain(w)
    BY <1>0, <1>n, <1>p, <2>1, <2>2 DEF Single
  <2>3. CASE conv' # Drain(w)
    BY <1>0, <1>p, <2>1, <2>3 DEF Single, Accepted
  <2> QED
    BY <2>2, <2>3
<1>1. ASSUME NEW v \in Wakes, Schedule(v) PROVE Single(w)'
  BY <1>0, <1>n, <1>q, <1>1 DEF Schedule, Unmade, Single, Accepted, Ahead, LiveTimer, Recording, Free, Drain, Timer
<1>2. ASSUME NEW v \in Wakes, Fire(v) PROVE Single(w)'
  BY <1>0, <1>n, <1>q, <1>2 DEF Fire, Single, Accepted, Ahead, LiveTimer, Recording, Free, Drain, Timer
<1>3. ASSUME NEW v \in Wakes, RateLimited(v) PROVE Single(w)'
  BY <1>0, <1>n, <1>q, <1>3 DEF RateLimited, Single, Accepted, Ahead, LiveTimer, Recording, Free, Drain, Timer
<1>4. ASSUME NEW v \in Wakes, Queue(v) PROVE Single(w)'
  <2>1. /\ Return(v, "recordQueued") /\ "recordQueued" \in Recording /\ timer[v] = "enqueue"
        /\ Queued' = Queued \cup {v} /\ UNCHANGED <<conv, cancel, begun, stale>>
        /\ (w = v /\ w \notin Queued => Once(w)') /\ (w # v /\ Once(w) => Once(w)')
    BY <1>0, <1>4, Appended DEF Queue, Recording
  <2>2. /\ w # v => sidecar'[w] = sidecar[w] /\ timer'[w] = timer[w]
        /\ w = v => \/ timer'[w] = "done" /\ sidecar'[w] # "pending"
                    \/ timer'[w] = "recordQueued" /\ sidecar' = sidecar
    BY <1>0, <2>1, Recorded
  <2>3. CASE w # v
    BY <1>0, <2>1, <2>2, <2>3 DEF Single, Accepted
  <2>4. CASE w = v /\ w \notin stale
    <3>1. begun[w] = 0 /\ conv # Drain(w) /\ w \notin Queued /\ sidecar[w] = "pending"
      BY <1>0, <1>n, <2>1, <2>4 DEF Single, Ahead
    <3>2. cancel[w] # "true"
      BY <1>0, <2>4, <3>1 DEF Single
    <3> QED
      BY <2>1, <2>2, <2>4, <3>1, <3>2 DEF Single, Accepted, Ahead, Recording
  <2> QED
    BY <2>1, <2>3, <2>4 DEF Single
<1>5. ASSUME NEW v \in Wakes, StartNow(v) PROVE Single(w)'
  BY <1>0, <1>n, <1>q, <1>5 DEF StartNow, Single, Accepted, Ahead, LiveTimer, Recording, Free, Drain, Timer
<1>6. ASSUME NEW v \in Wakes, Started(v) PROVE Single(w)'
  <2>1. /\ Return(v, "recordStarted") /\ "recordStarted" \in Recording /\ timer[v] = "starting"
        /\ begun'[v] = begun[v] + 1 /\ conv = Timer(v) /\ conv' = Free
        /\ w # v => begun'[w] = begun[w]
        /\ UNCHANGED <<inbox, cancel, stale>>
    BY <1>0, <1>6 DEF Started, TurnBegins, Recording
  <2>2. /\ w # v => sidecar'[w] = sidecar[w] /\ timer'[w] = timer[w]
        /\ w = v => \/ timer'[w] = "done" /\ sidecar'[w] # "pending"
                    \/ timer'[w] = "recordStarted" /\ sidecar' = sidecar
    BY <1>0, <2>1, Recorded
  <2>3. CASE w # v
    BY <1>0, <1>q, <2>1, <2>2, <2>3 DEF Single, Accepted, Free, Drain
  <2>4. CASE w = v /\ w \notin stale
    <3>1. begun[w] = 0 /\ w \notin Queued /\ sidecar[w] = "pending" /\ Once(w)
      BY <1>0, <1>n, <2>1, <2>4 DEF Single, Ahead
    <3>2. cancel[w] # "true"
      BY <1>0, <2>4, <3>1 DEF Single
    <3>3. conv' # Drain(w) /\ begun'[w] = 1
      BY <2>1, <2>4, <3>1 DEF Free, Drain
    <3> QED
      BY <1>q, <2>1, <2>2, <2>4, <3>1, <3>2, <3>3 DEF Single, Accepted, Ahead, Recording
  <2> QED
    BY <2>1, <2>3, <2>4 DEF Single
<1>7. ASSUME NEW v \in Wakes, Record(v) PROVE Single(w)'
  BY <1>0, <1>n, <1>q, <1>7 DEF Record, RecordAs, Single, Accepted, Ahead, LiveTimer, Recording, Free, Drain, Timer
<1>8. ASSUME NEW v \in Wakes, EnqueueFails(v) PROVE Single(w)'
  BY <1>0, <1>n, <1>q, <1>8 DEF EnqueueFails, Single, Accepted, Ahead, LiveTimer, Recording, Free, Drain, Timer
<1>9. ASSUME NEW v \in Wakes, CancelCall(v) PROVE Single(w)'
  BY <1>0, <1>n, <1>q, <1>9 DEF CancelCall, Single, Accepted, Ahead, LiveTimer, Recording, Free, Drain, Timer
<1>10. ASSUME NEW v \in Wakes, CancelEntry(v) PROVE Single(w)'
  <2>1. CASE sidecar[v] = "none"
    BY <1>0, <1>q, <1>10, <2>1 DEF CancelEntry, Single, Accepted
  <2>2. CASE sidecar[v] # "none"
    <3>1. /\ timer' = [x \in Wakes |-> IF x \in tasks \cap {v} /\ timer[x] \in LiveTimer THEN "done" ELSE timer[x]]
          /\ conv' = Drain(w) <=> conv = Drain(w)
      BY <1>10, <2>2, Killed DEF CancelEntry
    <3>2. /\ sidecar' = [sidecar EXCEPT ![v] = "none"] /\ UNCHANGED <<inbox, begun>>
          /\ stale \subseteq stale'
          /\ sidecar[v] = "pending" /\ v \in Queued => v \in stale'
          /\ w # v => cancel'[w] = cancel[w]
          /\ cancel'[v] = IF sidecar[v] = "queued" THEN "inbox" ELSE "true"
      BY <1>0, <1>10, <2>2 DEF CancelEntry
    <3>3. CASE w # v
      BY <1>0, <1>q, <3>1, <3>2, <3>3 DEF Single, Accepted
    <3>4. CASE w = v /\ w \notin stale'
      <4>1. sidecar'[w] = "none" /\ timer'[w] \notin Ahead
        BY <1>0, <3>1, <3>2, <3>4 DEF LiveTimer, Ahead
      <4>2. cancel'[w] = "true" => w \notin Queued /\ conv # Drain(w)
        BY <1>0, <2>2, <3>2, <3>4
      <4> QED
        BY <1>0, <1>q, <3>1, <3>2, <3>4, <4>1, <4>2 DEF Single
    <3> QED
      BY <3>3, <3>4 DEF Single
  <2> QED
    BY <2>1, <2>2
<1>11. ASSUME NEW v \in Wakes, CancelQueued(v) PROVE Single(w)'
  <2>1. Queued' = Queued \ {v} /\ (Once(w) => Once(w)')
    BY <1>0, <1>11, Removed DEF CancelQueued
  <2>2. /\ conv = Free /\ cancel[v] = "inbox" /\ cancel' = [cancel EXCEPT ![v] = "true"]
        /\ UNCHANGED <<sidecar, timer, begun, conv, stale>>
    BY <1>11 DEF CancelQueued
  <2>3. CASE w # v
    BY <1>0, <2>1, <2>2, <2>3 DEF Single, Accepted
  <2>4. CASE w = v /\ w \notin stale
    <3>1. sidecar[w] = "none"
      BY <1>0, <2>2, <2>4
    <3> QED
      BY <1>0, <2>1, <2>2, <2>4, <3>1 DEF Single, Accepted, Free, Drain
  <2> QED
    BY <2>2, <2>3, <2>4 DEF Single
<1>12. ASSUME NEW v \in Wakes, Drained(v) PROVE Single(w)'
  BY <1>0, <1>n, <1>q, <1>12 DEF Drained, TurnBegins, Single, Accepted, Ahead, LiveTimer, Recording, Free, Drain, Timer
<1>13. ASSUME NEW v \in Wakes, DrainFails(v) PROVE Single(w)'
  BY <1>0, <1>n, <1>q, <1>13 DEF DrainFails, Single, Accepted, Ahead, LiveTimer, Recording, Free, Drain, Timer
<1>14. ASSUME NEW v \in Wakes, ScanArms(v) PROVE Single(w)'
  BY <1>0, <1>n, <1>q, <1>14 DEF ScanArms, Arm, Single, Accepted, Ahead, LiveTimer, Recording, Free, Drain, Timer
<1>15. CASE OtherTakesLock
  BY <1>0, <1>n, <1>q, <1>15 DEF OtherTakesLock, Single, Accepted, Ahead, LiveTimer, Recording, Free, Drain, Timer
<1>16. CASE OtherReleases
  BY <1>0, <1>n, <1>q, <1>16 DEF OtherReleases, Single, Accepted, Ahead, LiveTimer, Recording, Free, Drain, Timer
<1>17. CASE TurnEnds
  BY <1>0, <1>n, <1>q, <1>17 DEF TurnEnds, Single, Accepted, Ahead, LiveTimer, Recording, Free, Drain, Timer
<1>18. CASE DrainPending
  <2>1. /\ inbox # <<>> /\ PopWake /\ conv = Free
        /\ UNCHANGED <<timer, begun, cancel, stale>>
    BY <1>18 DEF DrainPending
  <2> QED
    BY <1>0, <1>n, <1>p, <2>1
<1>19. CASE DeleteConversation
  <2> DEFINE gone == tasks \cap {x \in Wakes : sidecar[x] # "none"}
  <2>1. /\ KillTimers(gone) /\ Queued' = {} /\ Once(w)'
        /\ sidecar' = [x \in Wakes |-> "none"] /\ UNCHANGED <<begun, cancel, stale>>
    BY <1>19, Emptied DEF DeleteConversation
  <2>2. /\ timer' = [x \in Wakes |-> IF x \in gone /\ timer[x] \in LiveTimer THEN "done" ELSE timer[x]]
        /\ conv' = Drain(w) <=> conv = Drain(w)
    BY <2>1, Killed
  <2>3. w \notin stale => timer'[w] \notin Ahead
    BY <1>0, <2>2 DEF Single, Ahead, LiveTimer
  <2> HIDE DEF gone
  <2> QED
    BY <1>0, <2>1, <2>2, <2>3 DEF Single
<1>20. CASE Shutdown
  <2>1. /\ KillTimers(tasks) /\ UNCHANGED <<sidecar, inbox, begun, cancel>>
        /\ stale' = stale \cup Unrecorded
    BY <1>20 DEF Shutdown
  <2>2. /\ timer' = [x \in Wakes |-> IF x \in tasks /\ timer[x] \in LiveTimer THEN "done" ELSE timer[x]]
        /\ conv' = Drain(w) <=> conv = Drain(w)
    BY <2>1, Killed
  <2>3. w \notin stale' => w \notin stale /\ timer[w] \notin Recording
    BY <2>1 DEF Unrecorded
  <2>4. timer'[w] \in Ahead => timer'[w] = timer[w]
    BY <2>2 DEF Ahead
  <2> QED
    BY <1>0, <1>q, <2>1, <2>2, <2>3, <2>4 DEF Single, Accepted
<1>21. CASE Crash
  BY <1>0, <1>n, <1>q, <1>21 DEF Crash, Unrecorded, Single, Accepted, Ahead, LiveTimer, Recording, Free, Drain, Timer
<1>22. CASE Restart
  <2>1. UNCHANGED <<timer, begun, cancel, stale>> /\ conv = Free
    BY <1>0, <1>22 DEF Restart
  <2>2. CASE inbox = <<>>
    BY <1>0, <1>q, <1>22, <2>1, <2>2 DEF Restart, Single, Accepted
  <2>3. CASE inbox # <<>>
    BY <1>22, <1>p, <2>1, <2>3 DEF Restart
  <2> QED
    BY <2>2, <2>3
<1>23. CASE Scan
  BY <1>0, <1>n, <1>q, <1>23 DEF Scan, Arm, Single, Accepted, Ahead, LiveTimer, Recording, Free, Drain, Timer
<1>24. CASE UNCHANGED vars
  BY <1>0, <1>n, <1>q, <1>24 DEF vars, Single, Accepted, Ahead, LiveTimer, Recording, Free, Drain, Timer
<1> QED
  BY <1>1, <1>2, <1>3, <1>4, <1>5, <1>6, <1>7, <1>8, <1>9, <1>10, <1>11, <1>12,
     <1>13, <1>14, <1>15, <1>16, <1>17, <1>18, <1>19, <1>20, <1>21, <1>22, <1>23, <1>24
     DEF Next, Enqueue

-----------------------------------------------------------------------------
\* No timer escapes self._tasks: whatever is still to fire, enqueue or record
\* is reached by cancel, by deletion of the conversation and by shutdown.
THEOREM NoTimerEscapes == Spec => []TimersAreReachable
<1>1. TimerInv => TimersAreReachable
  BY DEF TimerInv, TimersAreReachable
<1> QED
  BY <1>1, InitTimerInv, StepTimerInv, PTL DEF Spec

\* Once shutdown has collected the timers, none is armed before the restart.
THEOREM NoTimerOutlivesShutdown ==
    Spec => [](phase # "up" => \A w \in Wakes : timer[w] \notin LiveTimer)
<1>1. TimerInv => (phase # "up" => \A w \in Wakes : timer[w] \notin LiveTimer)
  BY DEF TimerInv
<1> QED
  BY <1>1, InitTimerInv, StepTimerInv, PTL DEF Spec

\* A scheduled wake is always somewhere: in the inbox, with a drain, or pending
\* in the sidecar with a timer or a scan to come, until it runs or is withdrawn.
THEOREM NoWakeForgotten == Spec => []NothingForgotten
<1>1. ASSUME WakeInv PROVE NothingForgotten
  <2> SUFFICES ASSUME NEW w \in Wakes, timer[w] # "none", begun[w] = 0, w \notin withdrawn \cup lost,
                      w \notin Queued, conv # Drain(w)
               PROVE  /\ sidecar[w] = "pending"
                      /\ Scanned => timer[w] \in LiveTimer \cup {"failed"} \/ w \in found
    BY DEF NothingForgotten
  <2>1. Kept(w) /\ ~Handed(w) /\ sidecar \in [Wakes -> {"none", "pending", "queued"}]
    BY <1>1 DEF WakeInv, TypeOK, Handed
  <2> QED
    BY <2>1 DEF Kept
<1> QED
  BY <1>1, InitWakeInv, StepWakeInv, PTL DEF Spec

\* The types of the sidecar, the timers, the inbox and the locks.
THEOREM TypeCorrect == Spec => []TypeOK
BY InitTypeOK, StepTypeOK, PTL DEF Spec

SingleInv == WakeInv /\ \A w \in Wakes : Single(w)

LEMMA InitSingleInv == Init => SingleInv
BY InitWakeInv, InitSingle DEF SingleInv

LEMMA StepSingleInv == SingleInv /\ [Next]_vars => SingleInv'
BY StepWakeInv, StepSingle DEF SingleInv

\* No wake runs twice, whatever crash, scan, cancel and drain do to it.
THEOREM WakesRunOnce == Spec => []RunsOnce
<1>1. ASSUME SingleInv, NEW w \in Wakes \ stale PROVE begun[w] <= 1
  BY <1>1 DEF SingleInv, Single
<1>2. SingleInv => RunsOnce
  BY <1>1 DEF RunsOnce
<1> QED
  BY <1>2, InitSingleInv, StepSingleInv, PTL DEF Spec

\* no turn of a cancelled wake begins
LEMMA StepCancelled ==
    ASSUME SingleInv, [Next]_vars, NEW w \in Wakes \ stale, cancel[w] = "true"
    PROVE  begun'[w] = begun[w]
<1>0. /\ conv # Drain(w) /\ timer[w] # "starting" /\ begun \in [Wakes -> Nat]
  BY DEF SingleInv, WakeInv, TypeOK, Single, Ahead
<1>1. \A v \in Wakes : Started(v) \/ Drained(v) => begun'[w] = begun[w]
  BY <1>0 DEF Started, Drained, TurnBegins
<1>2. (\E v \in Wakes : Started(v) \/ Drained(v)) \/ begun' = begun
  BY DEF Next, Enqueue, Schedule, Fire, RateLimited, Queue, StartNow, EnqueueFails, Record,
         CancelCall, CancelEntry, CancelQueued, DrainFails, ScanArms, OtherTakesLock,
         OtherReleases, TurnEnds, DrainPending, DeleteConversation, Shutdown, Crash, Restart,
         Scan, vars, history
<1> QED
  BY <1>1, <1>2

LEMMA CancelledStep ==
    SingleInv /\ [Next]_vars =>
        [\A w \in Wakes \ stale : cancel[w] = "true" => begun'[w] = begun[w]]_vars
BY StepCancelled

\* What schedule_cancel reported as cancelled never starts a turn again.
THEOREM CancelledIsOver == Spec => CancelledStaysCancelled
BY CancelledStep, InitSingleInv, StepSingleInv, PTL DEF Spec, CancelledStaysCancelled
=============================================================================
