---------------------------- MODULE FileLocks_proofs ----------------------------
(***************************************************************************)
(* Proofs about FileLocks, for any calls and any size of the thread pool:  *)
(* its types, the exclusion the locks give, through entries that are made, *)
(* shared and forgotten, and that no change but the approved one is lost.  *)
(***************************************************************************)
EXTENDS FileLocks, FiniteSetTheorems, SequenceTheorems, TLAPS

Bounds ==
    /\ NoTool \notin Tools /\ Admins \cap Movers = {}
    /\ Workers \in Nat /\ MaxToolCancels \in Nat

-----------------------------------------------------------------------------
(* The executor's queue *)

Jobs == Tools \X Kinds

\* A job is submitted once.
NoDuplicates(q) == \A i, k \in 1..Len(q) : q[i] = q[k] => i = k
OneJob == NoDuplicates(fifo) /\ \A i \in 1..Len(fifo) : fifo[i] \notin running

\* a worker takes the first job
LEMMA StartedJob ==
    ASSUME fifo \in Seq(Jobs), fifo # <<>>, OneJob, running \subseteq Jobs,
           running' = running \cup {Head(fifo)}, fifo' = Tail(fifo)
    PROVE  /\ fifo' \in Seq(Jobs) /\ OneJob' /\ Head(fifo) \in Jobs /\ Head(fifo) \notin running
           /\ \A j : Ended(j)' <=> Ended(j)
           /\ \A j : Queued(j)' => Queued(j)
           /\ \A j \in running' : j \in running \/ Queued(j)
<1> DEFINE S == Jobs
<1>1. fifo \in Seq(S)  OBVIOUS
<1> HIDE DEF S
<1>2. /\ Tail(fifo) \in Seq(S) /\ Len(Tail(fifo)) = Len(fifo) - 1 /\ Head(fifo) \in S
      /\ \A i \in 1..Len(Tail(fifo)) : Tail(fifo)[i] = fifo[i + 1]
  BY <1>1, HeadTailProperties
<1>3. Len(fifo) \in Nat /\ Len(fifo) > 0 /\ Head(fifo) = fifo[1]
  BY <1>1, EmptySeq, LenProperties
<1>4. \A j : Queued(j) <=> j = Head(fifo) \/ Queued(j)'
  <2> SUFFICES ASSUME NEW j  PROVE Queued(j) <=> j = Head(fifo) \/ Queued(j)'
    OBVIOUS
  <2>1. ASSUME NEW i \in 1..Len(fifo), fifo[i] = j, i # 1  PROVE Queued(j)'
    <3>1. i - 1 \in 1..Len(fifo') /\ fifo'[i - 1] = j  BY <1>2, <1>3, <2>1
    <3> QED  BY <3>1 DEF Queued
  <2>2. ASSUME Queued(j)'  PROVE Queued(j)
    <3>1. PICK i \in 1..Len(fifo') : fifo'[i] = j  BY <2>2 DEF Queued
    <3>2. i + 1 \in 1..Len(fifo) /\ fifo[i + 1] = j  BY <1>2, <1>3, <3>1
    <3> QED  BY <3>2 DEF Queued
  <2>3. 1 \in 1..Len(fifo)  BY <1>3
  <2> QED  BY <1>3, <2>1, <2>2, <2>3 DEF Queued
<1>5. \A j : j = Head(fifo) => ~Queued(j)'
  <2> SUFFICES ASSUME NEW i \in 1..Len(fifo'), fifo'[i] = Head(fifo)  PROVE FALSE
    BY DEF Queued
  <2>1. i + 1 \in 1..Len(fifo) /\ fifo[i + 1] = fifo[1] /\ 1 \in 1..Len(fifo) /\ i + 1 # 1
    BY <1>2, <1>3
  <2> QED  BY <2>1 DEF OneJob, NoDuplicates
<1>6. NoDuplicates(fifo')
  <2> SUFFICES ASSUME NEW i \in 1..Len(fifo'), NEW k \in 1..Len(fifo'), fifo'[i] = fifo'[k]
               PROVE  i = k
    BY DEF NoDuplicates
  <2>1. /\ i + 1 \in 1..Len(fifo) /\ k + 1 \in 1..Len(fifo) /\ fifo[i + 1] = fifo[k + 1]
        /\ i \in Int /\ k \in Int
    BY <1>2, <1>3
  <2>2. i + 1 = k + 1  BY <2>1 DEF OneJob, NoDuplicates
  <2> QED  BY <2>1, <2>2
<1>7. \A j : Queued(j) => j \notin running  BY DEF OneJob, Queued
<1>8. OneJob'  BY <1>4, <1>5, <1>6, <1>7 DEF OneJob, Queued
<1>9. Head(fifo) \notin running  BY <1>4, <1>7
<1> QED  BY <1>2, <1>4, <1>8, <1>9 DEF Ended, S

\* a job that ended, or was never there, is submitted
LEMMA AppendedJob ==
    ASSUME NEW q \in Seq(Jobs), NoDuplicates(q), NEW j \in Jobs, \A i \in 1..Len(q) : q[i] # j
    PROVE  /\ Append(q, j) \in Seq(Jobs) /\ NoDuplicates(Append(q, j))
           /\ \A i \in 1..Len(Append(q, j)) : Append(q, j)[i] = j \/ \E k \in 1..Len(q) : q[k] = Append(q, j)[i]
           /\ \A i \in 1..Len(q) : \E k \in 1..Len(Append(q, j)) : Append(q, j)[k] = q[i]
           /\ \E k \in 1..Len(Append(q, j)) : Append(q, j)[k] = j
<1> DEFINE S == Jobs
           a == Append(q, j)
<1>1. q \in Seq(S) /\ j \in S  OBVIOUS
<1> HIDE DEF S
<1>2. /\ a \in Seq(S) /\ Len(a) = Len(q) + 1 /\ Len(q) \in Nat
      /\ \A i \in 1..Len(q) : a[i] = q[i]
      /\ a[Len(q) + 1] = j
  BY <1>1, AppendProperties, LenProperties
<1> HIDE DEF a
<1>3. \A i \in 1..Len(a) : i \in 1..Len(q) \/ i = Len(q) + 1  BY <1>2
<1>4. \A i \in 1..Len(q) : i \in 1..Len(a)  BY <1>2
<1>5. Len(q) + 1 \in 1..Len(a)  BY <1>2
<1>6. NoDuplicates(a)  BY <1>2, <1>3 DEF NoDuplicates
<1> QED  BY <1>2, <1>3, <1>4, <1>5, <1>6 DEF S, a

\* a queue without a job
LEMMA DroppedJob ==
    ASSUME fifo \in Seq(Jobs), NoDuplicates(fifo), NEW j
    PROVE  /\ Without(j) \in Seq(Jobs) /\ NoDuplicates(Without(j))
           /\ \A i \in 1..Len(Without(j)) : Without(j)[i] # j /\ Queued(Without(j)[i])
           /\ \A i \in 1..Len(fifo) :
                fifo[i] # j => \E k \in 1..Len(Without(j)) : Without(j)[k] = fifo[i]
<1> DEFINE S == Jobs
           w == Without(j)
<1>1. fifo \in Seq(S)  OBVIOUS
<1> HIDE DEF S
<1>2. CASE ~Queued(j)
  <2>1. w = fifo  BY <1>2 DEF Without
  <2> HIDE DEF w
  <2> QED  BY <1>1, <1>2, <2>1 DEF Queued, S, w
<1>3. CASE Queued(j)
  <2> DEFINE n == CHOOSE i \in 1..Len(fifo) : fifo[i] = j
             a == SubSeq(fifo, 1, n - 1)
             b == SubSeq(fifo, n + 1, Len(fifo))
  <2>1. n \in 1..Len(fifo) /\ fifo[n] = j  BY <1>3 DEF Queued
  <2>2. w = a \o b  BY <1>3 DEF Without
  <2> HIDE DEF n, w
  <2>3. Len(fifo) \in Nat /\ n \in Nat /\ n >= 1 /\ n <= Len(fifo)
    BY <1>1, <2>1, LenProperties
  <2>4. \A i \in 1..Len(fifo) : fifo[i] \in S  BY <1>1, ElementOfSeq
  <2>5. a \in Seq(S) /\ Len(a) = n - 1 /\ \A i \in 1..(n - 1) : a[i] = fifo[i]
    <3>1. \A i \in 1..(n - 1) : fifo[i] \in S  BY <2>3, <2>4
    <3>2. /\ a \in Seq(S) /\ Len(a) = IF 1 <= n - 1 THEN n - 1 - 1 + 1 ELSE 0
          /\ \A i \in 1..(n - 1 - 1 + 1) : a[i] = fifo[1 + i - 1]
      BY <2>3, <3>1, SubSeqProperties
    <3>3. Len(a) = n - 1  BY <2>3, <3>2
    <3>4. ASSUME NEW i \in 1..(n - 1)  PROVE a[i] = fifo[i]
      <4>1. i \in 1..(n - 1 - 1 + 1) /\ 1 + i - 1 = i  BY <2>3
      <4> QED  BY <3>2, <4>1
    <3> QED  BY <3>2, <3>3, <3>4
  <2>6. b \in Seq(S) /\ Len(b) = Len(fifo) - n /\ \A i \in 1..(Len(fifo) - n) : b[i] = fifo[i + n]
    <3>1. \A i \in (n + 1)..Len(fifo) : fifo[i] \in S  BY <2>3, <2>4
    <3>2. /\ b \in Seq(S)
          /\ Len(b) = IF n + 1 <= Len(fifo) THEN Len(fifo) - (n + 1) + 1 ELSE 0
          /\ \A i \in 1..(Len(fifo) - (n + 1) + 1) : b[i] = fifo[(n + 1) + i - 1]
      BY <2>3, <3>1, SubSeqProperties
    <3>3. Len(b) = Len(fifo) - n  BY <2>3, <3>2
    <3>4. ASSUME NEW i \in 1..(Len(fifo) - n)  PROVE b[i] = fifo[i + n]
      <4>1. i \in 1..(Len(fifo) - (n + 1) + 1) /\ (n + 1) + i - 1 = i + n  BY <2>3
      <4> QED  BY <3>2, <4>1
    <3> QED  BY <3>2, <3>3, <3>4
  <2> HIDE DEF a, b
  <2>7. /\ w \in Seq(S) /\ Len(w) = Len(fifo) - 1
        /\ \A i \in 1..Len(w) : w[i] = fifo[IF i < n THEN i ELSE i + 1]
    <3>1. /\ a \o b \in Seq(S) /\ Len(a \o b) = Len(a) + Len(b)
          /\ \A i \in 1..(Len(a) + Len(b)) : (a \o b)[i] = IF i <= Len(a) THEN a[i] ELSE b[i - Len(a)]
      BY <2>5, <2>6, ConcatProperties
    <3>2. Len(w) = Len(fifo) - 1  BY <2>2, <2>3, <2>5, <2>6, <3>1
    <3>3. ASSUME NEW i \in 1..Len(w)  PROVE w[i] = fifo[IF i < n THEN i ELSE i + 1]
      <4>1. i \in 1..(Len(a) + Len(b))  BY <2>2, <3>1
      <4>2. CASE i < n
        <5>1. i <= Len(a) /\ i \in 1..(n - 1)  BY <2>3, <2>5, <4>2
        <5> QED  BY <2>2, <2>5, <3>1, <4>1, <4>2, <5>1
      <4>3. CASE ~(i < n)
        <5>1. /\ ~(i <= Len(a)) /\ i - Len(a) \in 1..(Len(fifo) - n)
              /\ (i - Len(a)) + n = i + 1
          BY <2>3, <2>5, <3>2, <4>3
        <5> QED  BY <2>2, <2>6, <3>1, <4>1, <4>3, <5>1
      <4> QED  BY <4>2, <4>3
    <3> QED  BY <2>2, <3>1, <3>2, <3>3
  <2> DEFINE from(i) == IF i < n THEN i ELSE i + 1
  <2>8. \A i \in 1..Len(w) : from(i) \in 1..Len(fifo) /\ from(i) # n
    BY <2>3, <2>7
  <2>9. \A i, k \in 1..Len(w) : from(i) = from(k) => i = k
    BY <2>3, <2>7
  <2>10. \A i \in 1..Len(w) : w[i] = fifo[from(i)]  BY <2>7
  <2>11. ASSUME NEW i \in 1..Len(fifo), fifo[i] # j
         PROVE  \E k \in 1..Len(w) : w[k] = fifo[i]
    <3>1. i # n  BY <2>1, <2>11
    <3>2. CASE i < n
      <4>1. i \in 1..Len(w) /\ from(i) = i  BY <2>3, <2>7, <3>2
      <4> QED  BY <2>10, <4>1
    <3>3. CASE i > n
      <4>1. i - 1 \in 1..Len(w) /\ from(i - 1) = i  BY <2>3, <2>7, <3>3
      <4> QED  BY <2>10, <4>1
    <3> QED  BY <2>3, <3>1, <3>2, <3>3
  <2> HIDE DEF from
  <2>12. NoDuplicates(w)  BY <2>8, <2>9, <2>10 DEF NoDuplicates
  <2>13. \A i \in 1..Len(w) : w[i] # j /\ Queued(w[i])
    BY <2>1, <2>8, <2>10 DEF NoDuplicates, Queued
  <2> QED  BY <2>7, <2>11, <2>12, <2>13 DEF S, w
<1> QED  BY <1>2, <1>3

\* the steps of the queue, as the coroutines take them
LEMMA SubmittedJob ==
    ASSUME fifo \in Seq(Jobs), OneJob, NEW j \in Jobs, Ended(j), Submit(j), running' = running
    PROVE  /\ fifo' \in Seq(Jobs) /\ OneJob'
           /\ \A i : Queued(i)' <=> Queued(i) \/ i = j
<1>1. \A i \in 1..Len(fifo) : fifo[i] # j  BY DEF Ended, Queued
<1>2. /\ fifo' \in Seq(Jobs) /\ NoDuplicates(fifo')
      /\ \A i \in 1..Len(fifo') : fifo'[i] = j \/ \E k \in 1..Len(fifo) : fifo[k] = fifo'[i]
      /\ \A i \in 1..Len(fifo) : \E k \in 1..Len(fifo') : fifo'[k] = fifo[i]
      /\ \E k \in 1..Len(fifo') : fifo'[k] = j
  BY <1>1, AppendedJob DEF Submit, OneJob
<1>3. \A i : Queued(i)' <=> Queued(i) \/ i = j  BY <1>2 DEF Queued
<1>4. j \notin running  BY DEF Ended
<1> QED  BY <1>2, <1>3, <1>4 DEF OneJob, Queued

LEMMA DropsJob ==
    ASSUME fifo \in Seq(Jobs), OneJob, NEW j, Drop(j), running' = running
    PROVE  /\ fifo' \in Seq(Jobs) /\ OneJob'
           /\ \A i : Queued(i)' <=> Queued(i) /\ i # j
<1>1. /\ fifo' \in Seq(Jobs) /\ NoDuplicates(fifo')
      /\ \A i \in 1..Len(fifo') : fifo'[i] # j /\ Queued(fifo'[i])
      /\ \A i \in 1..Len(fifo) : fifo[i] # j => \E k \in 1..Len(fifo') : fifo'[k] = fifo[i]
  BY DroppedJob DEF Drop, OneJob
<1>2. \A i : Queued(i)' => Queued(i) /\ i # j  BY <1>1 DEF Queued
<1>3. \A i : Queued(i) /\ i # j => Queued(i)'  BY <1>1 DEF Queued
<1> QED  BY <1>1, <1>2, <1>3 DEF OneJob, Queued

\* the cancelled body: its job goes, the exit is submitted
LEMMA ReplacedJob ==
    ASSUME fifo \in Seq(Jobs), OneJob, NEW j, NEW x \in Jobs, x # j, Ended(x),
           fifo' = Append(Without(j), x), running' \subseteq running
    PROVE  /\ fifo' \in Seq(Jobs) /\ OneJob'
           /\ \A i : Queued(i)' <=> (Queued(i) /\ i # j) \/ i = x
<1> DEFINE w == Without(j)
<1>1. /\ w \in Seq(Jobs) /\ NoDuplicates(w)
      /\ \A i \in 1..Len(w) : w[i] # j /\ Queued(w[i])
      /\ \A i \in 1..Len(fifo) : fifo[i] # j => \E k \in 1..Len(w) : w[k] = fifo[i]
  BY DroppedJob DEF OneJob
<1>2. fifo' = Append(w, x)  OBVIOUS
<1> HIDE DEF w
<1>3. \A i \in 1..Len(w) : w[i] # x  BY <1>1 DEF Ended
<1>4. /\ fifo' \in Seq(Jobs) /\ NoDuplicates(fifo')
      /\ \A i \in 1..Len(fifo') : fifo'[i] = x \/ \E k \in 1..Len(w) : w[k] = fifo'[i]
      /\ \A i \in 1..Len(w) : \E k \in 1..Len(fifo') : fifo'[k] = w[i]
      /\ \E k \in 1..Len(fifo') : fifo'[k] = x
  BY <1>1, <1>2, <1>3, AppendedJob
<1>5. \A i : Queued(i)' => (Queued(i) /\ i # j) \/ i = x
  <2> SUFFICES ASSUME NEW i, Queued(i)', i # x  PROVE Queued(i) /\ i # j
    OBVIOUS
  <2>1. PICK n \in 1..Len(fifo') : fifo'[n] = i  BY DEF Queued
  <2>2. PICK k \in 1..Len(w) : w[k] = i  BY <1>4, <2>1
  <2> QED  BY <1>1, <2>2
<1>6. \A i : Queued(i) /\ i # j => Queued(i)'
  <2> SUFFICES ASSUME NEW i, Queued(i), i # j  PROVE Queued(i)'
    OBVIOUS
  <2>1. PICK n \in 1..Len(fifo) : fifo[n] = i  BY DEF Queued
  <2>2. PICK k \in 1..Len(w) : w[k] = i  BY <1>1, <2>1
  <2>3. PICK m \in 1..Len(fifo') : fifo'[m] = i  BY <1>4, <2>2
  <2> QED  BY <2>3 DEF Queued
<1>7. Queued(x)'  BY <1>4 DEF Queued
<1>8. \A i \in 1..Len(fifo') : fifo'[i] \notin running'
  <2> SUFFICES ASSUME NEW n \in 1..Len(fifo')  PROVE fifo'[n] \notin running
    OBVIOUS
  <2>1. CASE fifo'[n] = x  BY <2>1 DEF Ended
  <2>2. CASE fifo'[n] # x
    <3>1. PICK k \in 1..Len(w) : w[k] = fifo'[n]  BY <1>4, <2>2
    <3>2. Queued(w[k])  BY <1>1
    <3> QED  BY <3>1, <3>2 DEF Queued, OneJob
  <2> QED  BY <2>1, <2>2
<1> QED  BY <1>4, <1>5, <1>6, <1>7, <1>8 DEF OneJob

\* a job ends: some leave the workers, none comes
LEMMA FinishedJobs ==
    ASSUME OneJob, fifo' = fifo, running' \subseteq running
    PROVE  OneJob' /\ \A i : Queued(i)' <=> Queued(i)
BY DEF OneJob, Queued

-----------------------------------------------------------------------------
(* The coroutines and their jobs *)

\* A job is awaited by its coroutine in the state that submitted it, apart from
\* the jobs a cancellation leaves; in the body of the lock the generator is at
\* its yield.
Awaited(t) ==
    /\ t \in Movers => tool[t] \in {"idle", "move", "done"}
    /\ t \in Admins => tool[t] # "move"
    /\ ~Ended(<<t, "enter">>) => tool[t] \in {"enter", "undo", "dropped"}
    /\ ~Ended(<<t, "read">>) => tool[t] = "read"
    /\ Queued(<<t, "write">>) => tool[t] = "write"
    /\ <<t, "write">> \in running => tool[t] = "write" \/ t \in strays
    /\ t \in strays => tool[t] \in {"exit", "dropped", "done"}
    /\ ~Ended(<<t, "exit">>) => tool[t] \in {"exit", "undoexit", "dropped"}
    /\ ~Ended(<<t, "move">>) => t \in Movers
    /\ tool[t] = "idle" => Ended(<<t, "move">>)
    /\ tool[t] \in {"read", "write"} => phase[t] = "hold"
    /\ tool[t] \in {"enter", "undo"} /\ Ended(<<t, "enter">>) => phase[t] = "hold"

JobsInv ==
    /\ TypeOK /\ IsFiniteSet(running) /\ OneJob
    /\ \A t \in Tools : Awaited(t)

LEMMA AwaitedKept ==
    ASSUME NEW u, Awaited(u), tool'[u] = tool[u], phase'[u] = phase[u], u \in strays' <=> u \in strays,
           \A kind \in Kinds : /\ Queued(<<u, kind>>)' <=> Queued(<<u, kind>>)
                               /\ <<u, kind>> \in running' <=> <<u, kind>> \in running
    PROVE  Awaited(u)'
BY DEF Awaited, Ended, Kinds

\* a step of one call leaves the others' jobs alone
LEMMA OthersAwaited ==
    ASSUME JobsInv, NEW t \in Tools, \A u \in Tools \ {t} : tool'[u] = tool[u] /\ phase'[u] = phase[u],
           \A u \in Tools \ {t} : u \in strays' <=> u \in strays,
           \A u \in Tools \ {t}, kind \in Kinds :
               /\ Queued(<<u, kind>>)' <=> Queued(<<u, kind>>)
               /\ <<u, kind>> \in running' <=> <<u, kind>> \in running,
           Awaited(t)'
    PROVE  \A u \in Tools : Awaited(u)'
<1> SUFFICES ASSUME NEW u \in Tools \ {t}  PROVE Awaited(u)'
  OBVIOUS
<1>1. Awaited(u)  BY DEF JobsInv
<1> QED  BY <1>1, AwaitedKept

Elsewhere(t) ==
    \A u \in Tools \ {t}, kind \in Kinds : Ended(<<u, kind>>)' <=> Ended(<<u, kind>>)

\* a coroutine goes on and submits its next job
LEMMA SubmitStep ==
    ASSUME JobsInv, NEW t \in Tools, NEW kind \in Kinds, NEW from, NEW to, Ended(<<t, kind>>),
           Goes(t, from, to), Submit(<<t, kind>>), UNCHANGED <<running, lockState, strays>>
    PROVE  /\ fifo' \in Seq(Jobs) /\ OneJob' /\ IsFiniteSet(running') /\ tool[t] = from /\ tool'[t] = to
           /\ \A k \in Kinds : Ended(<<t, k>>)' <=> Ended(<<t, k>>) /\ k # kind
           /\ \A k \in Kinds : Queued(<<t, k>>)' <=> Queued(<<t, k>>) \/ k = kind
           /\ Elsewhere(t)
           /\ Awaited(t)' => \A u \in Tools : Awaited(u)'
<1>1. <<t, kind>> \in Jobs /\ fifo \in Seq(Jobs)  BY DEF Jobs, JobsInv, TypeOK
<1>2. /\ fifo' \in Seq(Jobs) /\ OneJob'
      /\ \A i : Queued(i)' <=> Queued(i) \/ i = <<t, kind>>
  BY <1>1, SubmittedJob DEF JobsInv
<1>3. tool[t] = from /\ tool'[t] = to /\ \A u \in Tools \ {t} : tool'[u] = tool[u]
  BY DEF Goes, JobsInv, TypeOK
<1>4. Awaited(t)' => \A u \in Tools : Awaited(u)'
  <2> SUFFICES ASSUME Awaited(t)'  PROVE \A u \in Tools : Awaited(u)'
    OBVIOUS
  <2>1. \A u \in Tools \ {t}, k \in Kinds :
          /\ Queued(<<u, k>>)' <=> Queued(<<u, k>>)
          /\ <<u, k>> \in running' <=> <<u, k>> \in running
    BY <1>2
  <2>2. phase' = phase /\ strays' = strays  BY DEF lockState
  <2> QED  BY <1>3, <2>1, <2>2, OthersAwaited
<1>5. \A k \in Kinds : Queued(<<t, k>>)' <=> Queued(<<t, k>>) \/ k = kind  BY <1>2
<1>6. Elsewhere(t)  BY <1>2 DEF Elsewhere, Ended
<1> QED  BY <1>2, <1>3, <1>4, <1>5, <1>6 DEF JobsInv, Ended

\* a coroutine goes on without a job
LEMMA QuietStep ==
    ASSUME JobsInv, NEW t \in Tools, NEW from, NEW to, Goes(t, from, to),
           UNCHANGED <<fifo, running, lockState, strays>>
    PROVE  /\ fifo' \in Seq(Jobs) /\ OneJob' /\ IsFiniteSet(running') /\ tool[t] = from /\ tool'[t] = to
           /\ \A j : Queued(j)' <=> Queued(j)
           /\ Elsewhere(t)
           /\ Awaited(t)' => \A u \in Tools : Awaited(u)'
<1>1. fifo' \in Seq(Jobs) /\ OneJob' /\ \A j : Queued(j)' <=> Queued(j)
  BY FinishedJobs DEF JobsInv, TypeOK, Jobs
<1>2. tool[t] = from /\ tool'[t] = to /\ \A u \in Tools \ {t} : tool'[u] = tool[u]
  BY DEF Goes, JobsInv, TypeOK
<1>3. Awaited(t)' => \A u \in Tools : Awaited(u)'
  BY <1>1, <1>2, OthersAwaited DEF lockState
<1>4. Elsewhere(t)  BY <1>1 DEF Elsewhere, Ended
<1> QED  BY <1>1, <1>2, <1>3, <1>4 DEF JobsInv

\* a coroutine is cancelled and its job dropped
LEMMA DropStep ==
    ASSUME JobsInv, NEW t \in Tools, NEW kind \in Kinds, NEW from, NEW to,
           Goes(t, from, to), Drop(<<t, kind>>), UNCHANGED <<running, lockState, strays>>
    PROVE  /\ fifo' \in Seq(Jobs) /\ OneJob' /\ IsFiniteSet(running') /\ tool[t] = from /\ tool'[t] = to
           /\ \A k \in Kinds : Queued(<<t, k>>)' <=> Queued(<<t, k>>) /\ k # kind
           /\ Elsewhere(t)
           /\ Awaited(t)' => \A u \in Tools : Awaited(u)'
<1>1. fifo \in Seq(Jobs)  BY DEF Jobs, JobsInv, TypeOK
<1>2. /\ fifo' \in Seq(Jobs) /\ OneJob'
      /\ \A i : Queued(i)' <=> Queued(i) /\ i # <<t, kind>>
  BY <1>1, DropsJob DEF JobsInv
<1>3. tool[t] = from /\ tool'[t] = to /\ \A u \in Tools \ {t} : tool'[u] = tool[u]
  BY DEF Goes, JobsInv, TypeOK
<1>4. Awaited(t)' => \A u \in Tools : Awaited(u)'
  <2> SUFFICES ASSUME Awaited(t)'  PROVE \A u \in Tools : Awaited(u)'
    OBVIOUS
  <2>1. \A u \in Tools \ {t}, k \in Kinds :
          /\ Queued(<<u, k>>)' <=> Queued(<<u, k>>)
          /\ <<u, k>> \in running' <=> <<u, k>> \in running
    BY <1>2
  <2>2. phase' = phase /\ strays' = strays  BY DEF lockState
  <2> QED  BY <1>3, <2>1, <2>2, OthersAwaited
<1>5. \A k \in Kinds : Queued(<<t, k>>)' <=> Queued(<<t, k>>) /\ k # kind  BY <1>2
<1>6. Elsewhere(t)  BY <1>2 DEF Elsewhere, Ended
<1> QED  BY <1>2, <1>3, <1>4, <1>5, <1>6 DEF JobsInv

\* a worker is at a step of a call, and perhaps done with the job
LEMMA WorkerStep ==
    ASSUME JobsInv, NEW t \in Tools, UNCHANGED <<tool, fifo, strays>>, running' \subseteq running,
           \A j \in running \ running' : j[1] = t,
           \A u \in Tools \ {t} : phase'[u] = phase[u]
    PROVE  /\ fifo' \in Seq(Jobs) /\ OneJob' /\ IsFiniteSet(running')
           /\ \A j : Queued(j)' <=> Queued(j)
           /\ Awaited(t)' => \A u \in Tools : Awaited(u)'
<1>1. fifo' \in Seq(Jobs) /\ OneJob' /\ \A j : Queued(j)' <=> Queued(j)
  BY FinishedJobs DEF JobsInv, TypeOK, Jobs
<1>2. IsFiniteSet(running')  BY FS_Subset DEF JobsInv
<1>3. Awaited(t)' => \A u \in Tools : Awaited(u)'
  <2>1. \A u \in Tools \ {t}, k \in Kinds : <<u, k>> \in running' <=> <<u, k>> \in running
    OBVIOUS
  <2> QED  BY <1>1, <2>1, OthersAwaited
<1> QED  BY <1>1, <1>2, <1>3

QueueInv == /\ fifo \in Seq(Jobs) /\ OneJob /\ IsFiniteSet(running)
            /\ \A t \in Tools : Awaited(t)

LEMMA ThreadJobs ==
    ASSUME Bounds, JobsInv, NEW t \in Tools, Thread(t)
    PROVE  QueueInv'
<1> USE DEF Kinds
<1>0. Awaited(t) /\ ~(t \in Admins /\ t \in Movers)  BY DEF JobsInv, Bounds
<1>1. phase \in [Tools -> {"out", "acquire", "hold", "release"}] /\ running \subseteq Jobs
  BY DEF JobsInv, TypeOK, Jobs
<1>2. CASE Reference(t)
  <2>1. UNCHANGED <<tool, fifo, running, strays>> /\ phase' = [phase EXCEPT ![t] = "acquire"]
    BY <1>2 DEF Reference, fileState
  <2>2. /\ fifo' \in Seq(Jobs) /\ OneJob' /\ IsFiniteSet(running')
        /\ \A j : Queued(j)' <=> Queued(j)
        /\ Awaited(t)' => \A u \in Tools : Awaited(u)'
    BY <1>1, <2>1, WorkerStep
  <2>3. <<t, "enter">> \in running \/ <<t, "move">> \in running  BY <1>2 DEF Reference, Acquiring
  <2>4. Awaited(t)'  BY <1>0, <2>1, <2>2, <2>3 DEF Awaited, Ended, Tools
  <2> QED  BY <2>2, <2>4 DEF QueueInv
<1>3. CASE Lock(t)
  <2>1. /\ UNCHANGED <<tool, fifo, strays>>
        /\ phase[t] = "acquire"
        /\ \/ phase' = [phase EXCEPT ![t] = "hold"] /\ running' = running \ {<<t, "enter">>}
           \/ phase' = [phase EXCEPT ![t] = "acquire"] /\ running' = running
    BY <1>1, <1>3 DEF Lock, fileState
  <2>2. /\ fifo' \in Seq(Jobs) /\ OneJob' /\ IsFiniteSet(running')
        /\ \A j : Queued(j)' <=> Queued(j)
        /\ Awaited(t)' => \A u \in Tools : Awaited(u)'
    <3>1. running' \subseteq running /\ \A j \in running \ running' : j[1] = t  BY <2>1
    <3>2. \A u \in Tools \ {t} : phase'[u] = phase[u]  BY <1>1, <2>1
    <3> QED  BY <2>1, <3>1, <3>2, WorkerStep
  <2>3. <<t, "enter">> \in running \/ <<t, "move">> \in running  BY <1>3 DEF Lock, Acquiring
  <2>4. phase'[t] = "hold" \/ (phase'[t] = "acquire" /\ running' = running)  BY <1>1, <2>1
  <2>5. \A k \in Kinds : k # "enter" => (<<t, k>> \in running' <=> <<t, k>> \in running)
    BY <2>1
  <2>6. Awaited(t)'  BY <1>0, <2>1, <2>2, <2>3, <2>4, <2>5 DEF Awaited, Ended, Tools
  <2> QED  BY <2>2, <2>6 DEF QueueInv
<1>4. Finishing(t) => tool[t] \notin {"read", "write", "enter", "undo"}
  BY <1>0 DEF Finishing, Awaited, Ended, Tools
<1>5. CASE Unlock(t)
  <2>1. UNCHANGED <<tool, fifo, running, strays>> /\ phase' = [phase EXCEPT ![t] = "release"]
    BY <1>5 DEF Unlock, fileState
  <2>2. /\ fifo' \in Seq(Jobs) /\ OneJob' /\ IsFiniteSet(running')
        /\ \A j : Queued(j)' <=> Queued(j)
        /\ Awaited(t)' => \A u \in Tools : Awaited(u)'
    BY <1>1, <2>1, WorkerStep
  <2>3. Finishing(t)  BY <1>5 DEF Unlock
  <2>4. Awaited(t)'  BY <1>0, <1>4, <2>1, <2>2, <2>3 DEF Awaited, Ended
  <2> QED  BY <2>2, <2>4 DEF QueueInv
<1>6. CASE Unreference(t)
  <2>1. /\ UNCHANGED <<tool, fifo, strays>> /\ Finishing(t)
        /\ \A u \in Tools \ {t} : phase'[u] = phase[u]
        /\ running' = running \/ running' = running \ {<<t, "exit">>, <<t, "move">>}
    BY <1>1, <1>6 DEF Unreference, fileState
  <2>2. /\ fifo' \in Seq(Jobs) /\ OneJob' /\ IsFiniteSet(running')
        /\ \A j : Queued(j)' <=> Queued(j)
        /\ Awaited(t)' => \A u \in Tools : Awaited(u)'
    <3>1. running' \subseteq running /\ \A j \in running \ running' : j[1] = t  BY <2>1
    <3> QED  BY <2>1, <3>1, WorkerStep
  <2>3. \A k \in Kinds : /\ <<t, k>> \in running' => <<t, k>> \in running
                         /\ k \notin {"exit", "move"} /\ <<t, k>> \in running => <<t, k>> \in running'
    BY <2>1
  <2>4. Awaited(t)'  BY <1>0, <1>4, <2>1, <2>2, <2>3 DEF Awaited, Ended
  <2> QED  BY <2>2, <2>4 DEF QueueInv
<1>7. ASSUME NEW kind \in {"read", "write"}, running' = running \ {<<t, kind>>},
             UNCHANGED <<tool, fifo, phase, strays>>
      PROVE  QueueInv'
  <2>1. /\ fifo' \in Seq(Jobs) /\ OneJob' /\ IsFiniteSet(running')
        /\ \A j : Queued(j)' <=> Queued(j)
        /\ Awaited(t)' => \A u \in Tools : Awaited(u)'
    <3>1. running' \subseteq running /\ \A j \in running \ running' : j[1] = t  BY <1>7
    <3> QED  BY <1>7, <3>1, WorkerStep
  <2>2. \A k \in Kinds : /\ <<t, k>> \in running' => <<t, k>> \in running
                         /\ k # kind /\ <<t, k>> \in running => <<t, k>> \in running'
    BY <1>7
  <2>3. Awaited(t)'  BY <1>0, <1>7, <2>1, <2>2 DEF Awaited, Ended
  <2> QED  BY <2>1, <2>3 DEF QueueInv
<1>8. CASE Read(t)  BY <1>7, <1>8 DEF Read, lockState
<1>9. CASE Write(t)  BY <1>7, <1>9 DEF Write, lockState
<1> QED  BY <1>2, <1>3, <1>5, <1>6, <1>8, <1>9 DEF Thread

LEMMA CoroutineJobs ==
    ASSUME Bounds, JobsInv, NEW t \in Tools,
           Coroutine(t) \/ Ask(t) \/ Approve(t) \/ Deny(t) \/ Move(t) \/ CancelEnter(t) \/ CancelAway(t)
    PROVE  QueueInv' /\ Elsewhere(t)
<1> USE DEF Kinds
<1>0. Awaited(t) /\ ~(t \in Admins /\ t \in Movers) /\ (t \in Admins \/ t \in Movers)
  BY DEF JobsInv, Bounds, Tools
<1>1. ASSUME NEW kind \in Kinds, NEW from, NEW to, Ended(<<t, kind>>), Goes(t, from, to), Submit(<<t, kind>>),
             UNCHANGED <<running, lockState, strays>>,
             <<from, to, kind>> \in {<<"asked", "enter", "enter">>, <<"enter", "read", "read">>,
                 <<"enter", "exit", "exit">>, <<"read", "write", "write">>, <<"read", "exit", "exit">>,
                 <<"write", "exit", "exit">>, <<"undo", "undoexit", "exit">>, <<"idle", "move", "move">>},
             to = "read" => Ended(<<t, "enter">>),
             from = "enter" => Ended(<<t, "enter">>),
             from = "undo" => Ended(<<t, "enter">>),
             from = "read" => Ended(<<t, "read">>),
             from = "write" => Ended(<<t, "write">>),
             from = "idle" => t \in Movers
      PROVE  QueueInv' /\ Elsewhere(t)
  <2>1. /\ fifo' \in Seq(Jobs) /\ OneJob' /\ IsFiniteSet(running') /\ tool[t] = from /\ tool'[t] = to
        /\ \A k \in Kinds : Ended(<<t, k>>)' <=> Ended(<<t, k>>) /\ k # kind
        /\ \A k \in Kinds : Queued(<<t, k>>)' <=> Queued(<<t, k>>) \/ k = kind
        /\ Elsewhere(t)
        /\ Awaited(t)' => \A u \in Tools : Awaited(u)'
    BY <1>1, SubmitStep
  <2>2. phase'[t] = phase[t] /\ strays' = strays /\ running' = running  BY <1>1 DEF lockState
  <2>3. Ended(<<t, "write">>) => <<t, "write">> \notin running /\ ~Queued(<<t, "write">>)
    BY DEF Ended
  <2>4. Awaited(t)'
    <3> HIDE DEF Kinds
    <3>1. {"enter", "read", "write", "exit", "move"} \subseteq Kinds  BY DEF Kinds
    <3> QED  BY <1>0, <1>1, <2>1, <2>2, <2>3, <3>1 DEF Awaited
  <2> QED  BY <2>1, <2>4 DEF QueueInv
<1>2. ASSUME NEW from, NEW to, Goes(t, from, to), UNCHANGED <<fifo, running, lockState, strays>>,
             \/ from = "idle" /\ to = "asked" /\ t \in Admins
             \/ from = "asked" /\ to = "done"
             \/ from = "enter" /\ to = "undo"
             \/ from \in {"exit", "undoexit"} /\ to = "done" /\ Ended(<<t, "exit">>)
             \/ from = "move" /\ to = "done"
      PROVE  QueueInv' /\ Elsewhere(t)
  <2>1. /\ fifo' \in Seq(Jobs) /\ OneJob' /\ IsFiniteSet(running') /\ tool[t] = from /\ tool'[t] = to
        /\ \A j : Queued(j)' <=> Queued(j)
        /\ Elsewhere(t)
        /\ Awaited(t)' => \A u \in Tools : Awaited(u)'
    BY <1>2, QuietStep
  <2>2. \A j : Ended(j)' <=> Ended(j)  BY <1>2, <2>1 DEF Ended
  <2>3. phase'[t] = phase[t] /\ strays' = strays /\ running' = running  BY <1>2 DEF lockState
  <2>4. Awaited(t)'  BY <1>0, <1>2, <2>1, <2>2, <2>3 DEF Awaited
  <2> QED  BY <2>1, <2>4 DEF QueueInv
<1>3. ASSUME NEW kind \in Kinds, NEW from, NEW to, Goes(t, from, to), Drop(<<t, kind>>),
             UNCHANGED <<running, lockState, strays>>,
             <<from, to, kind>> \in {<<"undo", "dropped", "enter">>, <<"exit", "dropped", "exit">>,
                 <<"undoexit", "dropped", "exit">>, <<"move", "done", "move">>}
      PROVE  QueueInv' /\ Elsewhere(t)
  <2>1. /\ fifo' \in Seq(Jobs) /\ OneJob' /\ IsFiniteSet(running') /\ tool[t] = from /\ tool'[t] = to
        /\ \A k \in Kinds : Queued(<<t, k>>)' <=> Queued(<<t, k>>) /\ k # kind
        /\ Elsewhere(t)
        /\ Awaited(t)' => \A u \in Tools : Awaited(u)'
    BY <1>3, DropStep
  <2>2. phase'[t] = phase[t] /\ strays' = strays /\ running' = running  BY <1>3 DEF lockState
  <2>3. Awaited(t)'
    <3> HIDE DEF Kinds
    <3>1. {"enter", "read", "write", "exit", "move"} \subseteq Kinds  BY DEF Kinds
    <3> QED  BY <1>0, <1>3, <2>1, <2>2, <3>1 DEF Awaited, Ended
  <2> QED  BY <2>1, <2>3 DEF QueueInv
<1>4. CASE Coroutine(t)
  <2>1. CASE Entered(t)
    BY <1>0, <1>1, <2>1 DEF Entered, Goes, fileState, Awaited
  <2>2. CASE EnteredCancelled(t)
    BY <1>0, <1>1, <2>2 DEF EnteredCancelled, Goes, fileState, Awaited
  <2>3. CASE Revalidated(t)
    BY <1>0, <1>1, <2>3 DEF Revalidated, Goes, fileState, Awaited, Ended
  <2>4. CASE Stale(t)
    BY <1>0, <1>1, <2>4 DEF Stale, Goes, fileState, Awaited
  <2>5. CASE Written(t)
    BY <1>0, <1>1, <2>5 DEF Written, Goes, fileState, Awaited
  <2>6. CASE Exited(t)
    BY <1>2, <2>6 DEF Exited, fileState
  <2>7. CASE Undo(t)
    BY <1>0, <1>1, <2>7 DEF Undo, Goes, fileState, Awaited
  <2> QED  BY <1>4, <2>1, <2>2, <2>3, <2>4, <2>5, <2>6, <2>7 DEF Coroutine
<1>5. CASE Ask(t)  BY <1>2, <1>5 DEF Ask
<1>6. CASE Approve(t)  BY <1>0, <1>1, <1>6 DEF Approve, Goes, fileState, Awaited
<1>7. CASE Deny(t)  BY <1>2, <1>7 DEF Deny, fileState
<1>8. CASE Move(t)  BY <1>0, <1>1, <1>8 DEF Move, Goes, fileState, Awaited
<1>9. CASE CancelEnter(t)  BY <1>2, <1>9 DEF CancelEnter, fileState
<1>10. CASE CancelAway(t)  BY <1>2, <1>3, <1>10 DEF CancelAway, fileState
<1> QED  BY <1>4, <1>5, <1>6, <1>7, <1>8, <1>9, <1>10

LEMMA CancelBodyJobs ==
    ASSUME Bounds, JobsInv, NEW t \in Tools, CancelBody(t)
    PROVE  QueueInv' /\ Elsewhere(t)
<1> USE DEF Kinds
<1>1. PICK kind \in {"read", "write"} :
        /\ Goes(t, kind, "exit")
        /\ fifo' = Append(Without(<<t, kind>>), <<t, "exit">>)
        /\ running' = running \ {<<t, "read">>}
        /\ strays' = IF <<t, "write">> \in running THEN strays \cup {t} ELSE strays
        /\ phase' = phase
  BY DEF CancelBody, lockState
<1>2. Awaited(t) /\ tool[t] = kind /\ tool'[t] = "exit" /\ \A u \in Tools \ {t} : tool'[u] = tool[u]
  BY <1>1 DEF JobsInv, TypeOK, Goes
<1>3. <<t, "exit">> \in Jobs /\ fifo \in Seq(Jobs) /\ <<t, "exit">> # <<t, kind>>
  BY DEF Jobs, JobsInv, TypeOK
<1>4. Ended(<<t, "exit">>)  BY <1>2 DEF Awaited
<1>5. /\ fifo' \in Seq(Jobs) /\ OneJob'
      /\ \A i : Queued(i)' <=> (Queued(i) /\ i # <<t, kind>>) \/ i = <<t, "exit">>
  <2>1. running' \subseteq running /\ OneJob  BY <1>1 DEF JobsInv
  <2> QED  BY <1>1, <1>3, <1>4, <2>1, ReplacedJob
<1>6. IsFiniteSet(running')  BY <1>1, FS_Subset DEF JobsInv
<1>7. Awaited(t)'
  <2>1. \A k \in Kinds : Queued(<<t, k>>)' <=> (Queued(<<t, k>>) /\ k # kind) \/ k = "exit"  BY <1>5
  <2>2. \A k \in Kinds : <<t, k>> \in running' <=> <<t, k>> \in running /\ k # "read"  BY <1>1
  <2>3. t \in strays' <=> t \in strays \/ <<t, "write">> \in running  BY <1>1
  <2>4. ~(t \in Admins /\ t \in Movers) /\ (t \in Admins \/ t \in Movers)  BY DEF Bounds, Tools
  <2> QED  BY <1>1, <1>2, <2>1, <2>2, <2>3, <2>4 DEF Awaited, Ended
<1>8. \A u \in Tools : Awaited(u)'
  <2>1. \A u \in Tools \ {t}, k \in Kinds :
          /\ Queued(<<u, k>>)' <=> Queued(<<u, k>>)
          /\ <<u, k>> \in running' <=> <<u, k>> \in running
    BY <1>1, <1>5
  <2>2. \A u \in Tools \ {t} : u \in strays' <=> u \in strays  BY <1>1
  <2> QED  BY <1>1, <1>2, <1>7, <2>1, <2>2, OthersAwaited
<1>9. Elsewhere(t)  BY <1>1, <1>5 DEF Elsewhere, Ended
<1> QED  BY <1>5, <1>6, <1>8, <1>9 DEF QueueInv

LEMMA StartJobs ==
    ASSUME Bounds, JobsInv, Start
    PROVE  /\ QueueInv' /\ running' \subseteq Jobs /\ Cardinality(running') <= Workers
<1>1. fifo \in Seq(Jobs) /\ running \subseteq Jobs  BY DEF JobsInv, TypeOK, Jobs
<1>2. /\ fifo' \in Seq(Jobs) /\ OneJob' /\ Head(fifo) \in Jobs /\ Head(fifo) \notin running
      /\ \A j : Ended(j)' <=> Ended(j)
      /\ \A j : Queued(j)' => Queued(j)
      /\ \A j \in running' : j \in running \/ Queued(j)
  BY <1>1, StartedJob DEF Start, JobsInv
<1>3. IsFiniteSet(running') /\ Cardinality(running') = Cardinality(running) + 1
  BY <1>2, FS_AddElement DEF Start, JobsInv
<1>4. Cardinality(running') <= Workers
  <2>1. Cardinality(running) \in Nat /\ Cardinality(running) < Workers
    BY FS_CardinalityType DEF JobsInv, Start
  <2> QED  BY <1>3, <2>1 DEF Bounds
<1>5. ASSUME NEW t \in Tools  PROVE Awaited(t)'
  <2>1. Awaited(t)  BY DEF JobsInv
  <2>2. tool' = tool /\ phase' = phase /\ strays' = strays  BY DEF Start, lockState, fileState
  <2> QED  BY <1>2, <2>1, <2>2 DEF Awaited
<1> QED  BY <1>1, <1>2, <1>3, <1>4, <1>5 DEF QueueInv, Start

LEMMA JobsStep == Bounds /\ JobsInv /\ [Next]_lockVars => QueueInv'
<1> SUFFICES ASSUME Bounds, JobsInv, [Next]_lockVars  PROVE QueueInv'
  OBVIOUS
<1>1. CASE Start  BY <1>1, StartJobs
<1>2. ASSUME NEW t \in Tools, Thread(t)  PROVE QueueInv'
  BY <1>2, ThreadJobs
<1>3. ASSUME NEW t \in Tools,
             Coroutine(t) \/ Ask(t) \/ Approve(t) \/ Deny(t) \/ Move(t) \/ CancelEnter(t) \/ CancelAway(t)
      PROVE  QueueInv'
  BY <1>3, CoroutineJobs
<1>4. ASSUME NEW t \in Tools, CancelBody(t)  PROVE QueueInv'
  BY <1>4, CancelBodyJobs
<1>5. CASE UNCHANGED lockVars
  <2>1. UNCHANGED <<tool, fifo, running, phase, strays>>  BY <1>5 DEF lockVars
  <2>2. fifo' \in Seq(Jobs) /\ IsFiniteSet(running')
    <3>1. fifo \in Seq(Jobs) /\ IsFiniteSet(running)  BY DEF JobsInv, TypeOK, Jobs
    <3> QED  BY <2>1, <3>1
  <2>3. OneJob'  BY <2>1 DEF JobsInv, OneJob, NoDuplicates
  <2>4. ASSUME NEW t \in Tools  PROVE Awaited(t)'
    <3>1. Awaited(t)  BY DEF JobsInv
    <3> QED  BY <2>1, <3>1 DEF Awaited, Ended, Queued
  <2> QED  BY <2>2, <2>3, <2>4 DEF QueueInv
<1> QED  BY <1>1, <1>2, <1>3, <1>4, <1>5 DEF Next

-----------------------------------------------------------------------------
(* The entries of the registry *)

\* Where the generator of a call is, and what it has acquired there.
Generator(t) ==
    /\ phase[t] = "out" => mine[t] = <<>> /\ entry[t] = NoTool
    /\ phase[t] = "acquire" => Len(mine[t]) < Len(Need[t])
    /\ phase[t] = "hold" => Len(mine[t]) = Len(Need[t]) /\ entry[t] = NoTool
    /\ phase[t] = "release" =>
         /\ 1 <= Len(mine[t]) /\ Len(mine[t]) <= Len(Need[t])
         /\ entry[t] # NoTool => entry[t] = mine[t][Len(mine[t])]

\* A call counts in the entry it waits for and in those it locked, until it
\* gives its count back.
Refers(t, k, e) ==
    \/ Holds(t, k, e)
    \/ phase[t] = "acquire" /\ entry[t] = e /\ Need[t][Len(mine[t]) + 1] = k
Users(k, e) == {t \in Tools : Refers(t, k, e)}

\* It owns the lock until it releases it, one step earlier.
Owns(t, k, e) ==
    \E i \in 1..Len(mine[t]) :
        /\ Need[t][i] = k /\ mine[t][i] = e
        /\ ~(phase[t] = "release" /\ entry[t] # NoTool /\ i = Len(mine[t]))

\* The count of an entry is the number of the calls that refer to it, and an
\* entry somebody refers to is the one in the registry.
References ==
    \A k \in Keys, e \in Tools :
        /\ IsFiniteSet(Users(k, e)) /\ refs[<<k, e>>] = Cardinality(Users(k, e))
        /\ \A t \in Users(k, e) : registry[k] = e

\* A lock that is owned is locked, by one call.
Owners ==
    \A k \in Keys, e \in Tools, t, u \in Tools :
        Owns(t, k, e) => locked[<<k, e>>] /\ (Owns(u, k, e) => u = t)

LockInv == (\A t \in Tools : Generator(t)) /\ References /\ Owners

LEMMA NeedFacts ==
    ASSUME NEW t \in Tools
    PROVE  /\ Need[t] \in Seq(Keys) /\ Len(Need[t]) \in Nat /\ Len(Need[t]) >= 1
           /\ \A i \in 1..Len(Need[t]) : Need[t][i] \in Keys
           /\ \A i, k \in 1..Len(Need[t]) : Need[t][i] = Need[t][k] => i = k
           /\ t \in Admins => Len(Need[t]) = 1 /\ Need[t][1] = 1
<1>1. CASE t \in Admins
  <2>1. Need[t] = <<1>>  BY <1>1 DEF Need
  <2> QED  BY <2>1 DEF Keys
<1>2. CASE t \notin Admins
  <2>1. Need[t] = <<2, 3>>  BY <1>2 DEF Need
  <2> QED  BY <1>2, <2>1 DEF Keys
<1> QED  BY <1>1, <1>2

\* nothing of a call that makes no step changes
LEMMA OthersRefer ==
    ASSUME NEW u, mine'[u] = mine[u], phase'[u] = phase[u], entry'[u] = entry[u]
    PROVE  /\ \A k, e : Refers(u, k, e)' <=> Refers(u, k, e)
           /\ \A k, e : Owns(u, k, e)' <=> Owns(u, k, e)
           /\ Generator(u)' <=> Generator(u)
BY DEF Refers, Holds, Owns, Generator

LEMMA MineFacts ==
    ASSUME TypeOK, NEW t \in Tools
    PROVE  /\ mine[t] \in Seq(Tools) /\ Len(mine[t]) \in Nat
           /\ \A i \in 1..Len(mine[t]) : mine[t][i] \in Tools
           /\ entry[t] \in Tools \cup {NoTool} /\ phase[t] \in {"out", "acquire", "hold", "release"}
<1> HIDE DEF Tools
<1>1. mine[t] \in Seq(Tools)  BY DEF TypeOK
<1> QED  BY <1>1, ElementOfSeq, LenProperties DEF TypeOK

\* the key a call is at, and the entry it will count in
NextKey(t) == Need[t][Len(mine[t]) + 1]
LastKey(t) == Need[t][Len(mine[t])]
EntryFor(t) == IF registry[NextKey(t)] = NoTool THEN t ELSE registry[NextKey(t)]

LEMMA ReferenceRefers ==
    ASSUME Bounds, TypeOK, LockInv, NEW t \in Tools, Reference(t)
    PROVE  /\ NextKey(t) \in Keys /\ EntryFor(t) \in Tools
           /\ registry' = [registry EXCEPT ![NextKey(t)] = EntryFor(t)]
           /\ refs' = [refs EXCEPT ![<<NextKey(t), EntryFor(t)>>] = @ + 1]
           /\ ~Refers(t, NextKey(t), EntryFor(t))
           /\ \A u, d \in Tools, q \in Keys :
                /\ Refers(u, q, d)' <=> Refers(u, q, d) \/ (u = t /\ q = NextKey(t) /\ d = EntryFor(t))
                /\ Owns(u, q, d)' <=> Owns(u, q, d)
           /\ \A u \in Tools : Generator(u)'
<1> HIDE DEF Tools
<1>1. Generator(t)  BY DEF LockInv
<1> DEFINE n == Len(mine[t]) + 1
           k == NextKey(t)
           e == EntryFor(t)
<1>2. /\ mine[t] \in Seq(Tools) /\ Len(mine[t]) \in Nat /\ \A i \in 1..Len(mine[t]) : mine[t][i] \in Tools
      /\ Len(Need[t]) \in Nat /\ Len(Need[t]) >= 1
      /\ \A i \in 1..Len(Need[t]) : Need[t][i] \in Keys
      /\ \A i, j \in 1..Len(Need[t]) : Need[t][i] = Need[t][j] => i = j
  BY NeedFacts, MineFacts
<1>3. phase[t] \in {"out", "acquire"} /\ entry[t] = NoTool  BY DEF Reference
<1>4. n \in 1..Len(Need[t]) /\ Len(mine[t]) < Len(Need[t]) /\ k = Need[t][n]
  <2>1. Len(mine[t]) < Len(Need[t])  BY <1>1, <1>2, <1>3 DEF Generator
  <2> QED  BY <1>2, <2>1 DEF NextKey
<1>5. k \in Keys /\ e \in Tools
  <2>1. k \in Keys  BY <1>2, <1>4
  <2> QED  BY <2>1 DEF TypeOK, EntryFor
<1>6. /\ registry' = [registry EXCEPT ![k] = e] /\ refs' = [refs EXCEPT ![<<k, e>>] = @ + 1]
      /\ entry' = [entry EXCEPT ![t] = e] /\ phase' = [phase EXCEPT ![t] = "acquire"] /\ mine' = mine
  BY DEF Reference, NextKey, EntryFor
<1> HIDE DEF k, e
<1>7. /\ entry'[t] = e /\ phase'[t] = "acquire" /\ mine'[t] = mine[t]
      /\ \A u \in Tools \ {t} : entry'[u] = entry[u] /\ phase'[u] = phase[u] /\ mine'[u] = mine[u]
  BY <1>6 DEF TypeOK
<1>8. NoTool \notin Tools  BY DEF Bounds
<1>9. ~Refers(t, k, e)
  <2>1. ~Holds(t, k, e)
    <3> SUFFICES ASSUME NEW i \in 1..Len(mine[t]), Need[t][i] = k  PROVE FALSE
      BY DEF Holds
    <3>1. i \in 1..Len(Need[t]) /\ i # n  BY <1>2, <1>4
    <3> QED  BY <1>2, <1>4, <3>1
  <2> QED  BY <1>3, <1>5, <1>8, <2>1 DEF Refers
<1>10. ASSUME NEW q \in Keys, NEW d \in Tools
       PROVE  /\ Refers(t, q, d)' <=> Refers(t, q, d) \/ (q = k /\ d = e)
              /\ Owns(t, q, d)' <=> Owns(t, q, d)
  <2>1. Holds(t, q, d)' <=> Holds(t, q, d)  BY <1>7 DEF Holds
  <2>2. entry[t] # d  BY <1>3, <1>8
  <2>3. Refers(t, q, d)' <=> Refers(t, q, d) \/ (q = k /\ d = e)  BY <1>4, <1>7, <2>1, <2>2 DEF Refers
  <2>4. Owns(t, q, d)' <=> Owns(t, q, d)  BY <1>3, <1>7 DEF Owns
  <2> QED  BY <2>3, <2>4
<1>11. \A u \in Tools : Generator(u)'
  <2>1. Generator(t)'  BY <1>4, <1>7 DEF Generator
  <2>2. ASSUME NEW u \in Tools \ {t}  PROVE Generator(u)'
    BY <1>7, OthersRefer DEF LockInv
  <2> QED  BY <2>1, <2>2
<1>12. \A u, d \in Tools, q \in Keys :
         /\ Refers(u, q, d)' <=> Refers(u, q, d) \/ (u = t /\ q = k /\ d = e)
         /\ Owns(u, q, d)' <=> Owns(u, q, d)
  <2> SUFFICES ASSUME NEW u \in Tools, NEW d \in Tools, NEW q \in Keys
               PROVE  /\ Refers(u, q, d)' <=> Refers(u, q, d) \/ (u = t /\ q = k /\ d = e)
                      /\ Owns(u, q, d)' <=> Owns(u, q, d)
    OBVIOUS
  <2>1. CASE u = t  BY <1>10, <2>1
  <2>2. CASE u # t  BY <1>7, <2>2, OthersRefer
  <2> QED  BY <2>1, <2>2
<1> QED  BY <1>5, <1>6, <1>9, <1>11, <1>12 DEF k, e

\* the lock is taken: the entry passes from the one it waits for to its own
LEMMA LockRefers ==
    ASSUME Bounds, TypeOK, LockInv, NEW t \in Tools, Lock(t)
    PROVE  /\ NextKey(t) \in Keys /\ entry[t] \in Tools
           /\ ~locked[<<NextKey(t), entry[t]>>]
           /\ locked' = [locked EXCEPT ![<<NextKey(t), entry[t]>>] = TRUE]
           /\ \A u, d \in Tools, q \in Keys :
                /\ Refers(u, q, d)' <=> Refers(u, q, d)
                /\ Owns(u, q, d)' <=> Owns(u, q, d) \/ (u = t /\ q = NextKey(t) /\ d = entry[t])
           /\ \A u \in Tools : Generator(u)'
<1> HIDE DEF Tools
<1> DEFINE n == Len(mine[t]) + 1
           k == NextKey(t)
           e == entry[t]
<1>1. Generator(t)  BY DEF LockInv
<1>2. /\ mine[t] \in Seq(Tools) /\ Len(mine[t]) \in Nat /\ \A i \in 1..Len(mine[t]) : mine[t][i] \in Tools
      /\ Len(Need[t]) \in Nat /\ Len(Need[t]) >= 1
      /\ \A i \in 1..Len(Need[t]) : Need[t][i] \in Keys
  BY NeedFacts, MineFacts
<1>3. phase[t] = "acquire" /\ entry[t] # NoTool  BY DEF Lock
<1>4. e \in Tools /\ NoTool \notin Tools  BY <1>3, MineFacts DEF Bounds
<1>5. n \in 1..Len(Need[t]) /\ Len(mine[t]) < Len(Need[t]) /\ k = Need[t][n] /\ k \in Keys
  <2>1. Len(mine[t]) < Len(Need[t])  BY <1>1, <1>3 DEF Generator
  <2> QED  BY <1>2, <2>1 DEF NextKey
<1>6. /\ ~locked[<<k, e>>] /\ locked' = [locked EXCEPT ![<<k, e>>] = TRUE]
      /\ mine' = [mine EXCEPT ![t] = Append(@, e)] /\ entry' = [entry EXCEPT ![t] = NoTool]
      /\ phase' = [phase EXCEPT ![t] = IF n = Len(Need[t]) THEN "hold" ELSE @]
  BY DEF Lock, NextKey
<1> HIDE DEF k, e
<1>7. /\ entry'[t] = NoTool /\ mine'[t] = Append(mine[t], e)
      /\ phase'[t] = IF n = Len(Need[t]) THEN "hold" ELSE "acquire"
      /\ \A u \in Tools \ {t} : entry'[u] = entry[u] /\ phase'[u] = phase[u] /\ mine'[u] = mine[u]
  BY <1>3, <1>6 DEF TypeOK
<1>8. /\ Len(mine'[t]) = n /\ mine'[t][n] = e
      /\ \A i \in 1..Len(mine[t]) : mine'[t][i] = mine[t][i]
  BY <1>2, <1>4, <1>7, AppendProperties
<1>9. \A i : i \in 1..n <=> i \in 1..Len(mine[t]) \/ i = n
  BY <1>2
<1>10. ASSUME NEW q \in Keys, NEW d \in Tools
       PROVE  /\ Refers(t, q, d)' <=> Refers(t, q, d)
              /\ Owns(t, q, d)' <=> Owns(t, q, d) \/ (q = k /\ d = e)
  <2>1. Holds(t, q, d)' <=> Holds(t, q, d) \/ (q = k /\ d = e)
    BY <1>5, <1>8, <1>9 DEF Holds
  <2>2. ~(entry'[t] = d)  BY <1>4, <1>7
  <2>3. Refers(t, q, d)' <=> Holds(t, q, d)'  BY <2>2 DEF Refers
  <2>4. Refers(t, q, d) <=> Holds(t, q, d) \/ (q = k /\ d = e)  BY <1>3, <1>5 DEF Refers, e
  <2>5. Owns(t, q, d) <=> Holds(t, q, d)  BY <1>3 DEF Owns, Holds
  <2>6. Owns(t, q, d)' <=> Holds(t, q, d)'  BY <1>7 DEF Owns, Holds
  <2> QED  BY <2>1, <2>3, <2>4, <2>5, <2>6
<1>11. \A u \in Tools : Generator(u)'
  <2>1. Generator(t)'
    <3>1. n # Len(Need[t]) => Len(mine'[t]) < Len(Need[t])  BY <1>2, <1>5, <1>8
    <3> QED  BY <1>7, <1>8, <3>1 DEF Generator
  <2>2. ASSUME NEW u \in Tools \ {t}  PROVE Generator(u)'
    BY <1>7, OthersRefer DEF LockInv
  <2> QED  BY <2>1, <2>2
<1>12. \A u, d \in Tools, q \in Keys :
         /\ Refers(u, q, d)' <=> Refers(u, q, d)
         /\ Owns(u, q, d)' <=> Owns(u, q, d) \/ (u = t /\ q = k /\ d = e)
  <2> SUFFICES ASSUME NEW u \in Tools, NEW d \in Tools, NEW q \in Keys
               PROVE  /\ Refers(u, q, d)' <=> Refers(u, q, d)
                      /\ Owns(u, q, d)' <=> Owns(u, q, d) \/ (u = t /\ q = k /\ d = e)
    OBVIOUS
  <2>1. CASE u = t  BY <1>10, <2>1
  <2>2. CASE u # t  BY <1>7, <2>2, OthersRefer
  <2> QED  BY <2>1, <2>2
<1> QED  BY <1>4, <1>5, <1>6, <1>11, <1>12 DEF k, e

\* the lock of the last key is released, and still counted
LEMMA UnlockRefers ==
    ASSUME Bounds, TypeOK, LockInv, NEW t \in Tools, Unlock(t)
    PROVE  \E e \in Tools :
             /\ LastKey(t) \in Keys /\ Owns(t, LastKey(t), e)
             /\ locked' = [locked EXCEPT ![<<LastKey(t), e>>] = FALSE]
             /\ entry' = [entry EXCEPT ![t] = e]
             /\ \A u, d \in Tools, q \in Keys :
                  /\ Refers(u, q, d)' <=> Refers(u, q, d)
                  /\ Owns(u, q, d)' <=> Owns(u, q, d) /\ ~(u = t /\ q = LastKey(t) /\ d = e)
             /\ \A u \in Tools : Generator(u)'
<1> HIDE DEF Tools
<1> DEFINE n == Len(mine[t])
           k == LastKey(t)
<1>1. Generator(t)  BY DEF LockInv
<1>2. /\ mine[t] \in Seq(Tools) /\ n \in Nat /\ \A i \in 1..n : mine[t][i] \in Tools
      /\ Len(Need[t]) \in Nat /\ Len(Need[t]) >= 1
      /\ \A i \in 1..Len(Need[t]) : Need[t][i] \in Keys
      /\ \A i, j \in 1..Len(Need[t]) : Need[t][i] = Need[t][j] => i = j
  BY NeedFacts, MineFacts
<1>3. phase[t] \in {"hold", "release"} /\ entry[t] = NoTool  BY DEF Unlock
<1>4. n >= 1 /\ n <= Len(Need[t]) /\ k = Need[t][n]
  BY <1>1, <1>2, <1>3 DEF Generator, LastKey
<1>5. PICK e \in Tools : e = mine[t][n]
  <2>1. n \in 1..n  BY <1>2, <1>4
  <2> QED  BY <1>2, <2>1
<1>6. k \in Keys
  <2>1. n \in 1..Len(Need[t])  BY <1>2, <1>4
  <2> QED  BY <1>2, <1>4, <2>1
<1>7. /\ locked' = [locked EXCEPT ![<<k, e>>] = FALSE] /\ mine' = mine
      /\ entry' = [entry EXCEPT ![t] = e] /\ phase' = [phase EXCEPT ![t] = "release"]
  BY <1>5 DEF Unlock, LastKey
<1> HIDE DEF k
<1>8. /\ entry'[t] = e /\ mine'[t] = mine[t] /\ phase'[t] = "release"
      /\ \A u \in Tools \ {t} : entry'[u] = entry[u] /\ phase'[u] = phase[u] /\ mine'[u] = mine[u]
  BY <1>7 DEF TypeOK
<1>9. e # NoTool  BY DEF Bounds
<1>10. ASSUME NEW q \in Keys, NEW d \in Tools
       PROVE  /\ Refers(t, q, d)' <=> Refers(t, q, d)
              /\ Owns(t, q, d)' <=> Owns(t, q, d) /\ ~(q = k /\ d = e)
  <2>1. Holds(t, q, d)' <=> Holds(t, q, d)  BY <1>8 DEF Holds
  <2>2. Refers(t, q, d)' <=> Refers(t, q, d)  BY <1>3, <1>8, <2>1 DEF Refers
  <2>3. Owns(t, q, d) <=> \E i \in 1..n : Need[t][i] = q /\ mine[t][i] = d
    BY <1>3 DEF Owns
  <2>4. Owns(t, q, d)' <=> \E i \in 1..n : Need[t][i] = q /\ mine[t][i] = d /\ i # n
    BY <1>8, <1>9 DEF Owns
  <2>5. \A i \in 1..n : i \in 1..Len(Need[t])  BY <1>2, <1>4
  <2>6. n \in 1..n  BY <1>2, <1>4
  <2>7. \A i \in 1..n : Need[t][i] = k => i = n  BY <1>2, <1>4, <2>5, <2>6
  <2>8. Owns(t, q, d)' => Owns(t, q, d) /\ ~(q = k /\ d = e)  BY <2>3, <2>4, <2>7
  <2>9. ASSUME Owns(t, q, d), ~(q = k /\ d = e)  PROVE Owns(t, q, d)'
    <3>1. PICK i \in 1..n : Need[t][i] = q /\ mine[t][i] = d  BY <2>3, <2>9
    <3>2. i # n  BY <1>4, <1>5, <2>9, <3>1
    <3> QED  BY <2>4, <3>1, <3>2
  <2> QED  BY <2>2, <2>8, <2>9
<1>11. Owns(t, k, e)
  <2>1. n \in 1..n  BY <1>2, <1>4
  <2> QED  BY <1>3, <1>4, <1>5, <2>1 DEF Owns
<1>12. \A u \in Tools : Generator(u)'
  <2>1. Generator(t)'  BY <1>4, <1>5, <1>8 DEF Generator
  <2>2. ASSUME NEW u \in Tools \ {t}  PROVE Generator(u)'
    BY <1>8, OthersRefer DEF LockInv
  <2> QED  BY <2>1, <2>2
<1>13. \A u, d \in Tools, q \in Keys :
         /\ Refers(u, q, d)' <=> Refers(u, q, d)
         /\ Owns(u, q, d)' <=> Owns(u, q, d) /\ ~(u = t /\ q = k /\ d = e)
  <2> SUFFICES ASSUME NEW u \in Tools, NEW d \in Tools, NEW q \in Keys
               PROVE  /\ Refers(u, q, d)' <=> Refers(u, q, d)
                      /\ Owns(u, q, d)' <=> Owns(u, q, d) /\ ~(u = t /\ q = k /\ d = e)
    OBVIOUS
  <2>1. CASE u = t  BY <1>10, <2>1
  <2>2. CASE u # t  BY <1>8, <2>2, OthersRefer
  <2> QED  BY <2>1, <2>2
<1> QED  BY <1>6, <1>7, <1>11, <1>12, <1>13 DEF k

\* the count is given back, and the entry forgotten with the last one
LEMMA UnreferenceRefers ==
    ASSUME Bounds, TypeOK, LockInv, NEW t \in Tools, Unreference(t)
    PROVE  /\ LastKey(t) \in Keys /\ entry[t] \in Tools /\ Refers(t, LastKey(t), entry[t])
           /\ refs' = [refs EXCEPT ![<<LastKey(t), entry[t]>>] = @ - 1]
           /\ registry' = [registry EXCEPT ![LastKey(t)] =
                              IF refs[<<LastKey(t), entry[t]>>] <= 1 THEN NoTool ELSE @]
           /\ \A u, d \in Tools, q \in Keys :
                /\ Refers(u, q, d)' <=> Refers(u, q, d) /\ ~(u = t /\ q = LastKey(t) /\ d = entry[t])
                /\ Owns(u, q, d)' <=> Owns(u, q, d)
           /\ \A u \in Tools : Generator(u)'
           /\ mine'[t] \in Seq(Tools)
<1> HIDE DEF Tools
<1> DEFINE n == Len(mine[t])
           k == LastKey(t)
           e == entry[t]
<1>1. Generator(t)  BY DEF LockInv
<1>2. /\ mine[t] \in Seq(Tools) /\ n \in Nat /\ \A i \in 1..n : mine[t][i] \in Tools
      /\ Len(Need[t]) \in Nat /\ Len(Need[t]) >= 1
      /\ \A i \in 1..Len(Need[t]) : Need[t][i] \in Keys
      /\ \A i, j \in 1..Len(Need[t]) : Need[t][i] = Need[t][j] => i = j
  BY NeedFacts, MineFacts
<1>3. phase[t] = "release" /\ e # NoTool  BY DEF Unreference
<1>4. n >= 1 /\ n <= Len(Need[t]) /\ k = Need[t][n] /\ e = mine[t][n] /\ n \in 1..n
  BY <1>1, <1>2, <1>3 DEF Generator, LastKey
<1>5. e \in Tools /\ NoTool \notin Tools  BY <1>2, <1>4 DEF Bounds
<1>6. k \in Keys
  <2>1. n \in 1..Len(Need[t])  BY <1>2, <1>4
  <2> QED  BY <1>2, <1>4, <2>1
<1>7. /\ refs' = [refs EXCEPT ![<<k, e>>] = @ - 1]
      /\ registry' = [registry EXCEPT ![k] = IF refs[<<k, e>>] <= 1 THEN NoTool ELSE @]
      /\ mine' = [mine EXCEPT ![t] = SubSeq(@, 1, n - 1)]
      /\ entry' = [entry EXCEPT ![t] = NoTool]
      /\ phase' = [phase EXCEPT ![t] = IF n = 1 THEN "out" ELSE @]
  BY DEF Unreference, LastKey
<1> HIDE DEF k, e
<1>8. /\ entry'[t] = NoTool /\ mine'[t] = SubSeq(mine[t], 1, n - 1)
      /\ phase'[t] = IF n = 1 THEN "out" ELSE "release"
      /\ \A u \in Tools \ {t} : entry'[u] = entry[u] /\ phase'[u] = phase[u] /\ mine'[u] = mine[u]
  BY <1>3, <1>7 DEF TypeOK
<1>9. mine'[t] \in Seq(Tools) /\ Len(mine'[t]) = n - 1 /\ \A i \in 1..(n - 1) : mine'[t][i] = mine[t][i]
  <2>1. \A i \in 1..(n - 1) : mine[t][i] \in Tools  BY <1>2
  <2>2. n - 1 \in Int /\ 1 \in Int  BY <1>2
  <2> DEFINE m == n - 1
  <2>3. m \in Int /\ \A i \in 1..m : mine[t][i] \in Tools  BY <2>1, <2>2
  <2> HIDE DEF m
  <2>4. /\ SubSeq(mine[t], 1, m) \in Seq(Tools)
        /\ Len(SubSeq(mine[t], 1, m)) = IF 1 <= m THEN m - 1 + 1 ELSE 0
        /\ \A i \in 1..(m - 1 + 1) : SubSeq(mine[t], 1, m)[i] = mine[t][1 + i - 1]
    BY <2>2, <2>3, SubSeqProperties
  <2>5. m = n - 1 /\ m >= 0  BY <1>2, <1>4 DEF m
  <2>6. Len(SubSeq(mine[t], 1, m)) = m  BY <2>3, <2>4, <2>5
  <2>7. ASSUME NEW i \in 1..m  PROVE SubSeq(mine[t], 1, m)[i] = mine[t][i]
    <3>1. i \in 1..(m - 1 + 1) /\ 1 + i - 1 = i  BY <2>3
    <3> QED  BY <2>4, <3>1
  <2> QED  BY <1>8, <2>4, <2>5, <2>6, <2>7
<1>10. \A i : i \in 1..(n - 1) <=> i \in 1..n /\ i # n  BY <1>2
<1>11. \A i \in 1..n : Need[t][i] = k => i = n
  <2>1. \A i \in 1..n : i \in 1..Len(Need[t])  BY <1>2, <1>4
  <2> QED  BY <1>2, <1>4, <2>1
<1>12. ASSUME NEW q \in Keys, NEW d \in Tools
       PROVE  /\ Refers(t, q, d)' <=> Refers(t, q, d) /\ ~(q = k /\ d = e)
              /\ Owns(t, q, d)' <=> Owns(t, q, d)
  <2>1. Holds(t, q, d)' <=> \E i \in 1..n : i # n /\ Need[t][i] = q /\ mine[t][i] = d
    BY <1>9, <1>10 DEF Holds
  <2>2. Owns(t, q, d) <=> \E i \in 1..n : i # n /\ Need[t][i] = q /\ mine[t][i] = d
    BY <1>3 DEF Owns, e
  <2>3. Owns(t, q, d)' <=> Holds(t, q, d)'
    BY <1>8 DEF Owns, Holds
  <2>4. Refers(t, q, d)' <=> Holds(t, q, d)'  BY <1>8 DEF Refers
  <2>5. Refers(t, q, d) <=> Holds(t, q, d)  BY <1>3 DEF Refers
  <2>6. Holds(t, q, d)' => Holds(t, q, d) /\ ~(q = k /\ d = e)
    BY <1>11, <2>1 DEF Holds
  <2>7. ASSUME Holds(t, q, d), ~(q = k /\ d = e)  PROVE Holds(t, q, d)'
    <3>1. PICK i \in 1..n : Need[t][i] = q /\ mine[t][i] = d  BY <2>7 DEF Holds
    <3>2. i # n  BY <1>4, <2>7, <3>1
    <3> QED  BY <2>1, <3>1, <3>2
  <2> QED  BY <2>1, <2>2, <2>3, <2>4, <2>5, <2>6, <2>7
<1>13. Refers(t, k, e)  BY <1>4 DEF Refers, Holds
<1>14. \A u \in Tools : Generator(u)'
  <2>1. Generator(t)'
    <3>1. CASE n = 1
      <4>1. mine'[t] = <<>>
        <5>1. Len(mine'[t]) = 0  BY <1>9, <3>1
        <5> QED  BY <1>9, <5>1, EmptySeq
      <4> QED  BY <1>8, <3>1, <4>1 DEF Generator
    <3>2. CASE n # 1
      <4>0. 1 <= n - 1 /\ n - 1 <= Len(Need[t])
        <5> HIDE DEF n
        <5> QED  BY <1>2, <1>4, <3>2
      <4>1. 1 <= Len(mine'[t]) /\ Len(mine'[t]) <= Len(Need[t])  BY <1>9, <4>0
      <4> QED  BY <1>8, <3>2, <4>1 DEF Generator
    <3> QED  BY <3>1, <3>2
  <2>2. ASSUME NEW u \in Tools \ {t}  PROVE Generator(u)'
    BY <1>8, OthersRefer DEF LockInv
  <2> QED  BY <2>1, <2>2
<1>15. \A u, d \in Tools, q \in Keys :
         /\ Refers(u, q, d)' <=> Refers(u, q, d) /\ ~(u = t /\ q = k /\ d = e)
         /\ Owns(u, q, d)' <=> Owns(u, q, d)
  <2> SUFFICES ASSUME NEW u \in Tools, NEW d \in Tools, NEW q \in Keys
               PROVE  /\ Refers(u, q, d)' <=> Refers(u, q, d) /\ ~(u = t /\ q = k /\ d = e)
                      /\ Owns(u, q, d)' <=> Owns(u, q, d)
    OBVIOUS
  <2>1. CASE u = t  BY <1>12, <2>1
  <2>2. CASE u # t  BY <1>8, <2>2, OthersRefer
  <2> QED  BY <2>1, <2>2
<1> QED  BY <1>5, <1>6, <1>7, <1>9, <1>13, <1>14, <1>15 DEF k, e

-----------------------------------------------------------------------------
(* The counts and the owners *)

LEMMA LocksRest ==
    ASSUME TypeOK, LockInv, UNCHANGED lockState
    PROVE  LockInv' /\ refs' \in [Keys \X Tools -> Nat]
<1>1. UNCHANGED <<registry, refs, locked, phase, mine, entry>>  BY DEF lockState
<1>2. \A u \in Tools : /\ \A k, e : Refers(u, k, e)' <=> Refers(u, k, e)
                       /\ \A k, e : Owns(u, k, e)' <=> Owns(u, k, e)
                       /\ Generator(u)' <=> Generator(u)
  BY <1>1, OthersRefer
<1>3. \A k \in Keys, e \in Tools : Users(k, e)' = Users(k, e)  BY <1>2 DEF Users
<1>4. References'  BY <1>1, <1>3 DEF LockInv, References
<1>5. Owners'  BY <1>1, <1>2 DEF LockInv, Owners
<1> QED  BY <1>1, <1>2, <1>4, <1>5 DEF LockInv, TypeOK

\* What changes in the registry changes by one reference, or not at all.
LEMMA RegistryStep ==
    ASSUME Bounds, TypeOK, LockInv, NEW t \in Tools, Thread(t)
    PROVE  LockInv' /\ refs' \in [Keys \X Tools -> Nat]
<1> HIDE DEF Tools, Keys
<1>0. /\ refs \in [Keys \X Tools -> Nat] /\ registry \in [Keys -> Tools \cup {NoTool}]
      /\ locked \in [Keys \X Tools -> BOOLEAN] /\ References /\ Owners /\ NoTool \notin Tools
      /\ \A u \in Tools : Generator(u)
  BY DEF TypeOK, LockInv, Bounds
<1>1. ASSUME \A u, d \in Tools, q \in Keys : Refers(u, q, d)' <=> Refers(u, q, d),
             UNCHANGED <<refs, registry>>
      PROVE  References' /\ refs' \in [Keys \X Tools -> Nat]
  <2>1. \A q \in Keys, d \in Tools : Users(q, d)' = Users(q, d)  BY <1>1 DEF Users
  <2> QED  BY <1>0, <1>1, <2>1 DEF References
<1>2. ASSUME \A u, d \in Tools, q \in Keys : Owns(u, q, d)' <=> Owns(u, q, d),
             UNCHANGED locked
      PROVE  Owners'
  BY <1>0, <1>2 DEF Owners
<1>3. CASE Reference(t)
  <2>0. NextKey(t) \in Keys /\ EntryFor(t) \in Tools  BY <1>3, ReferenceRefers
  <2> PICK k \in Keys, e \in Tools : k = NextKey(t) /\ e = EntryFor(t)
    BY <2>0
  <2>1. /\ registry' = [registry EXCEPT ![k] = e] /\ refs' = [refs EXCEPT ![<<k, e>>] = @ + 1]
        /\ ~Refers(t, k, e)
        /\ \A u, d \in Tools, q \in Keys :
             /\ Refers(u, q, d)' <=> Refers(u, q, d) \/ (u = t /\ q = k /\ d = e)
             /\ Owns(u, q, d)' <=> Owns(u, q, d)
        /\ \A u \in Tools : Generator(u)'
    BY <1>3, ReferenceRefers
  <2>2. e = IF registry[k] = NoTool THEN t ELSE registry[k]  BY DEF EntryFor
  <2>3. ASSUME NEW q \in Keys, NEW d \in Tools, ~(q = k /\ d = e)
        PROVE  Users(q, d)' = Users(q, d) /\ refs'[<<q, d>>] = refs[<<q, d>>]
    <3>1. Users(q, d)' = Users(q, d)  BY <2>1, <2>3 DEF Users
    <3> QED  BY <1>0, <2>1, <2>3, <3>1
  <2>4. /\ Users(k, e)' = Users(k, e) \cup {t} /\ t \notin Users(k, e)
        /\ refs'[<<k, e>>] = refs[<<k, e>>] + 1
    <3>1. Users(k, e)' = Users(k, e) \cup {t} /\ t \notin Users(k, e)
      BY <2>1 DEF Users
    <3> QED  BY <1>0, <2>1, <3>1
  <2>5. IsFiniteSet(Users(k, e)') /\ refs'[<<k, e>>] = Cardinality(Users(k, e)')
    <3>1. IsFiniteSet(Users(k, e)) /\ refs[<<k, e>>] = Cardinality(Users(k, e))
      BY <1>0 DEF References
    <3>2. IsFiniteSet(Users(k, e) \cup {t}) /\ Cardinality(Users(k, e) \cup {t}) = Cardinality(Users(k, e)) + 1
      BY <2>4, <3>1, FS_AddElement
    <3> QED  BY <2>4, <3>1, <3>2
  <2>6. ASSUME NEW q \in Keys, NEW d \in Tools, NEW u \in Users(q, d)'  PROVE registry'[q] = d
    <3>1. CASE q = k /\ d = e  BY <1>0, <2>1, <3>1
    <3>2. CASE ~(q = k /\ d = e)
      <4>1. u \in Users(q, d)  BY <2>3, <2>6, <3>2
      <4>2. registry[q] = d  BY <1>0, <4>1 DEF References
      <4>3. q # k  BY <1>0, <2>2, <3>2, <4>2
      <4> QED  BY <1>0, <2>1, <4>2, <4>3
    <3> QED  BY <3>1, <3>2
  <2>7. References'
    <3> SUFFICES ASSUME NEW q \in Keys, NEW d \in Tools
                 PROVE  /\ IsFiniteSet(Users(q, d)') /\ refs'[<<q, d>>] = Cardinality(Users(q, d)')
                        /\ \A u \in Users(q, d)' : registry'[q] = d
      BY DEF References
    <3>1. CASE q = k /\ d = e
      <4>1. Users(q, d)' = Users(k, e)' /\ refs'[<<q, d>>] = refs'[<<k, e>>]
        BY <2>1, <2>4, <3>1 DEF Users
      <4> QED  BY <2>5, <2>6, <4>1
    <3>2. CASE ~(q = k /\ d = e)  BY <1>0, <2>3, <2>6, <3>2 DEF References
    <3> QED  BY <3>1, <3>2
  <2>8. refs' \in [Keys \X Tools -> Nat]  BY <1>0, <2>1
  <2>9. Owners'  BY <1>2, <1>3, <2>1 DEF Reference
  <2> QED  BY <2>1, <2>7, <2>8, <2>9 DEF LockInv
<1>4. CASE Lock(t)
  <2>0. NextKey(t) \in Keys /\ entry[t] \in Tools  BY <1>4, LockRefers
  <2> PICK k \in Keys, e \in Tools : k = NextKey(t) /\ e = entry[t]
    BY <2>0
  <2>1. /\ ~locked[<<k, e>>] /\ locked' = [locked EXCEPT ![<<k, e>>] = TRUE]
        /\ \A u, d \in Tools, q \in Keys :
             /\ Refers(u, q, d)' <=> Refers(u, q, d)
             /\ Owns(u, q, d)' <=> Owns(u, q, d) \/ (u = t /\ q = k /\ d = e)
        /\ \A u \in Tools : Generator(u)'
    BY <1>4, LockRefers
  <2>2. References' /\ refs' \in [Keys \X Tools -> Nat]  BY <1>1, <1>4, <2>1 DEF Lock
  <2>3. \A u \in Tools : ~Owns(u, k, e)  BY <1>0, <2>1 DEF Owners
  <2>4. Owners'
    <3> SUFFICES ASSUME NEW q \in Keys, NEW d \in Tools, NEW w \in Tools, NEW u \in Tools, Owns(w, q, d)'
                 PROVE  locked'[<<q, d>>] /\ (Owns(u, q, d)' => u = w)
      BY DEF Owners
    <3>1. CASE q = k /\ d = e
      <4>1. w = t /\ (Owns(u, q, d)' => u = t)  BY <2>1, <2>3, <3>1
      <4>2. locked'[<<q, d>>]  BY <1>0, <2>1, <3>1
      <4> QED  BY <4>1, <4>2
    <3>2. CASE ~(q = k /\ d = e)
      <4>1. Owns(w, q, d) /\ (Owns(u, q, d)' => Owns(u, q, d))  BY <2>1, <3>2
      <4>2. locked'[<<q, d>>] = locked[<<q, d>>]  BY <1>0, <2>1, <3>2
      <4> QED  BY <1>0, <4>1, <4>2 DEF Owners
    <3> QED  BY <3>1, <3>2
  <2> QED  BY <2>1, <2>2, <2>4 DEF LockInv
<1>5. CASE Unlock(t)
  <2>0. LastKey(t) \in Keys  BY <1>5, UnlockRefers
  <2> PICK k \in Keys : k = LastKey(t)
    BY <2>0
  <2>1. PICK e \in Tools :
          /\ Owns(t, k, e) /\ locked' = [locked EXCEPT ![<<k, e>>] = FALSE]
          /\ \A u, d \in Tools, q \in Keys :
               /\ Refers(u, q, d)' <=> Refers(u, q, d)
               /\ Owns(u, q, d)' <=> Owns(u, q, d) /\ ~(u = t /\ q = k /\ d = e)
          /\ \A u \in Tools : Generator(u)'
    BY <1>5, UnlockRefers
  <2>2. References' /\ refs' \in [Keys \X Tools -> Nat]  BY <1>1, <1>5, <2>1 DEF Unlock
  <2>3. \A u \in Tools : Owns(u, k, e) => u = t  BY <1>0, <2>1 DEF Owners
  <2>4. Owners'
    <3> SUFFICES ASSUME NEW q \in Keys, NEW d \in Tools, NEW w \in Tools, NEW u \in Tools, Owns(w, q, d)'
                 PROVE  locked'[<<q, d>>] /\ (Owns(u, q, d)' => u = w)
      BY DEF Owners
    <3>1. Owns(w, q, d) /\ (Owns(u, q, d)' => Owns(u, q, d)) /\ ~(q = k /\ d = e)
      BY <2>1, <2>3
    <3>2. locked'[<<q, d>>] = locked[<<q, d>>]  BY <1>0, <2>1, <3>1
    <3> QED  BY <1>0, <3>1, <3>2 DEF Owners
  <2> QED  BY <2>1, <2>2, <2>4 DEF LockInv
<1>6. CASE Unreference(t)
  <2>0. LastKey(t) \in Keys /\ entry[t] \in Tools  BY <1>6, UnreferenceRefers
  <2> PICK k \in Keys, e \in Tools : k = LastKey(t) /\ e = entry[t]
    BY <2>0
  <2>1. /\ Refers(t, k, e) /\ refs' = [refs EXCEPT ![<<k, e>>] = @ - 1]
        /\ registry' = [registry EXCEPT ![k] = IF refs[<<k, e>>] <= 1 THEN NoTool ELSE @]
        /\ \A u, d \in Tools, q \in Keys :
             /\ Refers(u, q, d)' <=> Refers(u, q, d) /\ ~(u = t /\ q = k /\ d = e)
             /\ Owns(u, q, d)' <=> Owns(u, q, d)
        /\ \A u \in Tools : Generator(u)'
    BY <1>6, UnreferenceRefers
  <2>2. ASSUME NEW q \in Keys, NEW d \in Tools, ~(q = k /\ d = e)
        PROVE  Users(q, d)' = Users(q, d) /\ refs'[<<q, d>>] = refs[<<q, d>>]
    <3>1. Users(q, d)' = Users(q, d)  BY <2>1, <2>2 DEF Users
    <3> QED  BY <1>0, <2>1, <2>2, <3>1
  <2>3. /\ Users(k, e)' = Users(k, e) \ {t} /\ t \in Users(k, e)
        /\ refs'[<<k, e>>] = refs[<<k, e>>] - 1
    <3>1. Users(k, e)' = Users(k, e) \ {t} /\ t \in Users(k, e)
      BY <2>1 DEF Users
    <3> QED  BY <1>0, <2>1, <3>1
  <2>4. IsFiniteSet(Users(k, e)) /\ refs[<<k, e>>] = Cardinality(Users(k, e)) /\ registry[k] = e
    BY <1>0, <2>3 DEF References
  <2>5. IsFiniteSet(Users(k, e)') /\ refs'[<<k, e>>] = Cardinality(Users(k, e)')
    <3>1. IsFiniteSet(Users(k, e) \ {t}) /\ Cardinality(Users(k, e) \ {t}) = Cardinality(Users(k, e)) - 1
      BY <2>3, <2>4, FS_RemoveElement
    <3> QED  BY <2>3, <2>4, <3>1
  <2>6. refs'[<<k, e>>] \in Nat  BY <2>5, FS_CardinalityType
  <2>7. Users(k, e)' # {} => refs[<<k, e>>] > 1
    <3>1. Users(k, e)' # {} => Cardinality(Users(k, e)') # 0  BY <2>5, FS_EmptySet
    <3> QED  BY <1>0, <2>3, <2>5, <2>6, <3>1
  <2>8. References'
    <3> SUFFICES ASSUME NEW q \in Keys, NEW d \in Tools
                 PROVE  /\ IsFiniteSet(Users(q, d)') /\ refs'[<<q, d>>] = Cardinality(Users(q, d)')
                        /\ \A u \in Users(q, d)' : registry'[q] = d
      BY DEF References
    <3>1. CASE q = k /\ d = e
      <4>1. Users(q, d)' = Users(k, e)' /\ refs'[<<q, d>>] = refs'[<<k, e>>]
        BY <3>1 DEF Users
      <4>2. Users(k, e)' # {} => registry'[k] = e
        <5>1. refs[<<k, e>>] \in Nat  BY <1>0
        <5>2. Users(k, e)' # {} => ~(refs[<<k, e>>] <= 1)  BY <2>7, <5>1
        <5> QED  BY <1>0, <2>1, <2>4, <5>2
      <4> QED  BY <2>5, <3>1, <4>1, <4>2
    <3>2. CASE ~(q = k /\ d = e)
      <4>1. ASSUME NEW u \in Users(q, d)'  PROVE registry'[q] = d
        <5>1. registry[q] = d
          <6>1. u \in Users(q, d)  BY <2>2, <3>2, <4>1
          <6>2. References  BY <1>0
          <6> QED  BY <6>1, <6>2 DEF References
        <5>2. q # k  BY <2>4, <3>2, <5>1
        <5> QED  BY <1>0, <2>1, <5>1, <5>2
      <4> QED  BY <1>0, <2>2, <3>2, <4>1 DEF References
    <3> QED  BY <3>1, <3>2
  <2>9. refs' \in [Keys \X Tools -> Nat]
    <3>1. refs[<<k, e>>] - 1 \in Nat  BY <2>3, <2>6
    <3> QED  BY <1>0, <2>1, <3>1
  <2>10. Owners'  BY <1>2, <1>6, <2>1 DEF Unreference
  <2> QED  BY <2>1, <2>8, <2>9, <2>10 DEF LockInv
<1>7. CASE UNCHANGED lockState
  BY <1>0, <1>7, LocksRest
<1> QED  BY <1>3, <1>4, <1>5, <1>6, <1>7 DEF Thread, Read, Write

LEMMA LocksStep == Bounds /\ TypeOK /\ LockInv /\ [Next]_lockVars => LockInv' /\ refs' \in [Keys \X Tools -> Nat]
<1> SUFFICES ASSUME Bounds, TypeOK, LockInv, [Next]_lockVars
             PROVE  LockInv' /\ refs' \in [Keys \X Tools -> Nat]
  OBVIOUS
<1>1. CASE UNCHANGED lockState  BY <1>1, LocksRest
<1>2. ASSUME NEW t \in Tools, Thread(t)  PROVE LockInv' /\ refs' \in [Keys \X Tools -> Nat]
  BY <1>2, RegistryStep
<1>3. ASSUME NEW t \in Tools,
             \/ Coroutine(t) \/ Ask(t) \/ Approve(t) \/ Deny(t) \/ Move(t)
             \/ CancelBody(t) \/ CancelEnter(t) \/ CancelAway(t)
      PROVE  UNCHANGED lockState
  BY <1>3 DEF Coroutine, Entered, EnteredCancelled, Revalidated, Stale, Written, Exited, Undo, Ask, Approve,
     Deny, Move, CancelBody, CancelEnter, CancelAway
<1> QED  BY <1>1, <1>2, <1>3 DEF Next, Start, lockVars, lockState

\* Two calls at the yield of their locks have no file in common.
MutualExclusion ==
    \A t, u \in Tools :
        /\ phase[t] = "hold" /\ phase[u] = "hold"
        /\ \E i \in 1..Len(Need[t]), j \in 1..Len(Need[u]) : Need[t][i] = Need[u][j]
        => t = u

LEMMA ExclusionHolds == TypeOK /\ LockInv => MutualExclusion
<1> SUFFICES ASSUME TypeOK, LockInv, NEW t \in Tools, NEW u \in Tools,
                    phase[t] = "hold", phase[u] = "hold",
                    NEW i \in 1..Len(Need[t]), NEW j \in 1..Len(Need[u]), Need[t][i] = Need[u][j]
             PROVE  t = u
  BY DEF MutualExclusion
<1> HIDE DEF Tools
<1>1. /\ Len(mine[t]) = Len(Need[t]) /\ Len(mine[u]) = Len(Need[u])
  BY DEF LockInv, Generator
<1>2. mine[t][i] \in Tools /\ mine[u][j] \in Tools /\ Need[t][i] \in Keys
  BY <1>1, MineFacts, NeedFacts
<1>3. Owns(t, Need[t][i], mine[t][i]) /\ Holds(t, Need[t][i], mine[t][i])
  BY <1>1 DEF Owns, Holds
<1>4. Owns(u, Need[t][i], mine[u][j]) /\ Holds(u, Need[t][i], mine[u][j])
  BY <1>1 DEF Owns, Holds
<1>5. registry[Need[t][i]] = mine[t][i] /\ registry[Need[t][i]] = mine[u][j]
  BY <1>2, <1>3, <1>4 DEF LockInv, References, Users, Refers
<1> QED  BY <1>2, <1>3, <1>4, <1>5 DEF LockInv, Owners

-----------------------------------------------------------------------------
(* Types *)

ToolStates == {"idle", "asked", "enter", "undo", "read", "write", "exit", "undoexit", "move", "done", "dropped"}

GeneratorType ==
    /\ registry \in [Keys -> Tools \cup {NoTool}] /\ locked \in [Keys \X Tools -> BOOLEAN]
    /\ phase \in [Tools -> {"out", "acquire", "hold", "release"}]
    /\ mine \in [Tools -> Seq(Tools)] /\ entry \in [Tools -> Tools \cup {NoTool}]
ToolType ==
    /\ tool \in [Tools -> ToolStates] /\ running \subseteq Jobs /\ Cardinality(running) <= Workers
    /\ thrown \in 0..MaxToolCancels
FileType ==
    /\ file \in Contents /\ base \in [Admins -> Contents] /\ seen \in [Admins -> Contents]
    /\ overwrote \in [Admins -> Contents \cup {"nothing"}] /\ strays \subseteq Admins

LEMMA TypeParts ==
    TypeOK <=> /\ fifo \in Seq(Jobs) /\ refs \in [Keys \X Tools -> Nat]
               /\ GeneratorType /\ ToolType /\ FileType
BY DEF TypeOK, GeneratorType, ToolType, FileType, ToolStates, Jobs

LEMMA GeneratorTypes ==
    ASSUME Bounds, TypeOK, LockInv, NEW t \in Tools, Thread(t)
    PROVE  GeneratorType'
<1> HIDE DEF Tools, Keys
<1>0. GeneratorType  BY TypeParts
<1>1. CASE Reference(t)
  <2>1. NextKey(t) \in Keys /\ EntryFor(t) \in Tools /\ registry' = [registry EXCEPT ![NextKey(t)] = EntryFor(t)]
    BY <1>1, ReferenceRefers
  <2>2. entry' = [entry EXCEPT ![t] = EntryFor(t)] /\ phase' = [phase EXCEPT ![t] = "acquire"] /\ UNCHANGED <<locked, mine>>
    BY <1>1 DEF Reference, EntryFor, NextKey
  <2> QED  BY <1>0, <2>1, <2>2 DEF GeneratorType
<1>2. CASE Lock(t)
  <2>1. /\ NextKey(t) \in Keys /\ entry[t] \in Tools
        /\ locked' = [locked EXCEPT ![<<NextKey(t), entry[t]>>] = TRUE]
    BY <1>2, LockRefers
  <2>2. Append(mine[t], entry[t]) \in Seq(Tools)  BY <2>1, MineFacts, AppendProperties
  <2>3. /\ mine' = [mine EXCEPT ![t] = Append(@, entry[t])] /\ entry' = [entry EXCEPT ![t] = NoTool]
        /\ registry' = registry /\ phase' \in [Tools -> {"out", "acquire", "hold", "release"}]
    BY <1>0, <1>2 DEF Lock, GeneratorType
  <2> QED  BY <1>0, <2>1, <2>2, <2>3 DEF GeneratorType
<1>3. CASE Unlock(t)
  <2>1. PICK e \in Tools : /\ LastKey(t) \in Keys /\ entry' = [entry EXCEPT ![t] = e]
                           /\ locked' = [locked EXCEPT ![<<LastKey(t), e>>] = FALSE]
    BY <1>3, UnlockRefers
  <2>2. UNCHANGED <<registry, mine>> /\ phase' = [phase EXCEPT ![t] = "release"]
    BY <1>3 DEF Unlock
  <2> QED  BY <1>0, <2>1, <2>2 DEF GeneratorType
<1>4. CASE Unreference(t)
  <2>1. /\ LastKey(t) \in Keys /\ mine'[t] \in Seq(Tools)
        /\ registry' = [registry EXCEPT ![LastKey(t)] =
                           IF refs[<<LastKey(t), entry[t]>>] <= 1 THEN NoTool ELSE @]
    BY <1>4, UnreferenceRefers
  <2>2. mine' = [mine EXCEPT ![t] = SubSeq(@, 1, Len(mine[t]) - 1)]
        /\ entry' = [entry EXCEPT ![t] = NoTool] /\ locked' = locked
        /\ phase' \in [Tools -> {"out", "acquire", "hold", "release"}]
    BY <1>0, <1>4 DEF Unreference, GeneratorType
  <2>3. mine' \in [Tools -> Seq(Tools)]
    <3>1. mine' = [mine EXCEPT ![t] = mine'[t]]  BY <1>0, <2>2 DEF GeneratorType
    <3> QED  BY <1>0, <2>1, <3>1 DEF GeneratorType
  <2>4. registry' \in [Keys -> Tools \cup {NoTool}]  BY <1>0, <2>1 DEF GeneratorType
  <2> QED  BY <1>0, <2>2, <2>3, <2>4 DEF GeneratorType
<1>5. CASE UNCHANGED lockState
  BY <1>0, <1>5 DEF lockState, GeneratorType
<1> QED  BY <1>1, <1>2, <1>3, <1>4, <1>5 DEF Thread, Read, Write

LEMMA ToolTypes ==
    ASSUME Bounds, JobsInv, [Next]_lockVars
    PROVE  ToolType'
<1>0. ToolType /\ IsFiniteSet(running)  BY TypeParts DEF JobsInv
<1>1. ASSUME running' \subseteq running, tool' \in [Tools -> ToolStates], thrown' \in 0..MaxToolCancels
      PROVE  ToolType'
  <2>1. /\ Cardinality(running') <= Cardinality(running)
        /\ Cardinality(running') \in Nat /\ Cardinality(running) \in Nat
    BY <1>0, <1>1, FS_Subset, FS_CardinalityType
  <2>2. Cardinality(running') <= Workers  BY <1>0, <2>1 DEF ToolType, Bounds
  <2> QED  BY <1>0, <1>1, <2>2 DEF ToolType
<1>2. CASE Start
  BY <1>0, <1>2, StartJobs DEF ToolType, Start
<1>3. ASSUME NEW t \in Tools, Thread(t)  PROVE ToolType'
  BY <1>0, <1>1, <1>3 DEF Thread, Reference, Lock, Unlock, Unreference, Read, Write, ToolType
<1>4. ASSUME NEW t \in Tools, NEW from, NEW to \in ToolStates, Goes(t, from, to), running' \subseteq running,
             thrown' = thrown \/ Throw(t)
      PROVE  ToolType'
  <2>1. tool' \in [Tools -> ToolStates]  BY <1>0, <1>4 DEF Goes, ToolType
  <2>2. thrown' \in 0..MaxToolCancels  BY <1>0, <1>4 DEF Throw, ToolType, Bounds
  <2> QED  BY <1>1, <1>4, <2>1, <2>2
<1>5. ASSUME NEW t \in Tools, Coroutine(t)  PROVE ToolType'
  BY <1>4, <1>5 DEF Coroutine, Entered, EnteredCancelled, Revalidated, Stale, Written, Exited, Undo, ToolStates
<1>6. ASSUME NEW t \in Tools, Ask(t) \/ Approve(t) \/ Deny(t) \/ Move(t)  PROVE ToolType'
  BY <1>4, <1>6 DEF Ask, Approve, Deny, Move, ToolStates
<1>7. ASSUME NEW t \in Tools, CancelBody(t) \/ CancelEnter(t) \/ CancelAway(t)  PROVE ToolType'
  BY <1>4, <1>7 DEF CancelBody, CancelEnter, CancelAway, ToolStates
<1>8. CASE UNCHANGED lockVars
  BY <1>0, <1>8 DEF lockVars, ToolType
<1> QED  BY <1>2, <1>3, <1>5, <1>6, <1>7, <1>8 DEF Next

LEMMA FileTypes ==
    ASSUME Bounds, JobsInv, [Next]_lockVars
    PROVE  FileType'
<1>0. FileType /\ \A t \in Tools : Awaited(t)  BY TypeParts DEF JobsInv
<1>1. CASE UNCHANGED fileState  BY <1>0, <1>1 DEF fileState, FileType
<1>2. ASSUME NEW t \in Tools, Read(t)  PROVE FileType'
  BY <1>0, <1>2 DEF Read, FileType
<1>3. ASSUME NEW t \in Tools, Write(t)  PROVE FileType'
  <2>1. t \in Admins
    <3>1. t \notin Movers \/ t \in strays  BY <1>0, <1>3 DEF Write, Awaited
    <3> QED  BY <1>0, <3>1 DEF Tools, FileType
  <2> QED  BY <1>0, <1>3, <2>1 DEF Write, FileType, Contents
<1>4. ASSUME NEW t \in Tools, Ask(t)  PROVE FileType'
  BY <1>0, <1>4 DEF Ask, FileType
<1>5. ASSUME NEW t \in Tools, CancelBody(t)  PROVE FileType'
  <2>1. PICK kind \in {"read", "write"} :
          /\ tool[t] = kind /\ UNCHANGED <<file, base, seen, overwrote>>
          /\ strays' = IF <<t, "write">> \in running THEN strays \cup {t} ELSE strays
    BY <1>5 DEF CancelBody, Goes
  <2>2. t \in Admins  BY <1>0, <2>1 DEF Awaited, Tools
  <2> QED  BY <1>0, <2>1, <2>2 DEF FileType
<1>6. ASSUME NEW t \in Tools,
             \/ Coroutine(t) \/ Approve(t) \/ Deny(t) \/ Move(t) \/ CancelEnter(t) \/ CancelAway(t)
             \/ Reference(t) \/ Lock(t) \/ Unlock(t) \/ Unreference(t)
      PROVE  UNCHANGED fileState
  BY <1>6 DEF Coroutine, Entered, EnteredCancelled, Revalidated, Stale, Written, Exited, Undo, Approve, Deny,
     Move, CancelEnter, CancelAway, Reference, Lock, Unlock, Unreference
<1> QED  BY <1>1, <1>2, <1>3, <1>4, <1>5, <1>6 DEF Next, Start, Thread, lockVars, fileState

-----------------------------------------------------------------------------
(* The approved change *)

\* What an admin tool does to the file, as long as no cancelled write runs
\* on: the content read under the lock stays until the lock is left.
Agrees(t) ==
    /\ overwrote[t] \in {"nothing", base[t]}
    /\ tool[t] = "idle" => overwrote[t] = "nothing"
    /\ tool[t] = "read" /\ Ended(<<t, "read">>) => seen[t] = file
    /\ tool[t] = "write" => seen[t] = base[t]
    /\ tool[t] = "write" /\ ~Ended(<<t, "write">>) => file = base[t]
FileInv == strays = {} => \A t \in Admins : Agrees(t)

LEMMA AgreesKept ==
    ASSUME NEW u, Agrees(u), tool'[u] = tool[u], overwrote'[u] = overwrote[u], base'[u] = base[u],
           seen'[u] = seen[u], file' = file,
           Ended(<<u, "read">>)' <=> Ended(<<u, "read">>), Ended(<<u, "write">>)' <=> Ended(<<u, "write">>)
    PROVE  Agrees(u)'
BY DEF Agrees

\* an admin tool reads and writes under the lock of the file, alone
LEMMA OneInBody ==
    ASSUME Bounds, JobsInv, LockInv, NEW t \in Admins, NEW u \in Admins,
           tool[t] \in {"read", "write"}, tool[u] \in {"read", "write"}
    PROVE  t = u
<1>1. t \in Tools /\ u \in Tools  BY DEF Tools
<1>2. phase[t] = "hold" /\ phase[u] = "hold"  BY <1>1 DEF JobsInv, Awaited
<1>3. MutualExclusion  BY ExclusionHolds DEF JobsInv
<1>4. Len(Need[t]) = 1 /\ Need[t][1] = 1 /\ Len(Need[u]) = 1 /\ Need[u][1] = 1
  BY <1>1, NeedFacts
<1> QED  BY <1>1, <1>2, <1>3, <1>4 DEF MutualExclusion

LEMMA FileStep == Bounds /\ JobsInv /\ LockInv /\ FileInv /\ [Next]_lockVars => FileInv'
<1> SUFFICES ASSUME Bounds, JobsInv, LockInv, FileInv, [Next]_lockVars, strays' = {}
             PROVE  \A u \in Admins : Agrees(u)'
  BY DEF FileInv
<1>0. /\ Admins \subseteq Tools /\ \A t \in Tools : Awaited(t)
      /\ tool \in [Tools -> ToolStates] /\ FileType /\ running \subseteq Jobs /\ fifo \in Seq(Jobs)
  BY TypeParts DEF JobsInv, Tools, ToolType
<1>1. ASSUME strays = {}, UNCHANGED <<tool, file, base, seen, overwrote>>,
             \A u \in Admins, k \in {"read", "write"} : Ended(<<u, k>>)' <=> Ended(<<u, k>>)
      PROVE  \A u \in Admins : Agrees(u)'
  BY <1>1, AgreesKept DEF FileInv
<1>2. CASE Start
  <2>1. \A j : Ended(j)' <=> Ended(j)
    BY <1>0, <1>2, StartedJob DEF Start, JobsInv
  <2> QED  BY <1>1, <1>2, <2>1 DEF Start, fileState
<1>3. ASSUME NEW t \in Tools, Reference(t) \/ Lock(t) \/ Unlock(t) \/ Unreference(t)
      PROVE  \A u \in Admins : Agrees(u)'
  <2>1. /\ UNCHANGED <<tool, fifo, fileState>> /\ running' \subseteq running
        /\ \A j \in running \ running' : j \in {<<t, "enter">>, <<t, "exit">>, <<t, "move">>}
    BY <1>3 DEF Reference, Lock, Unlock, Unreference
  <2>2. \A u \in Admins, k \in {"read", "write"} : <<u, k>> \in running' <=> <<u, k>> \in running
    BY <2>1
  <2>3. \A u \in Admins, k \in {"read", "write"} : Ended(<<u, k>>)' <=> Ended(<<u, k>>)
    BY <2>1, <2>2 DEF Ended, Queued
  <2> QED  BY <1>1, <2>1, <2>3 DEF fileState
<1>4. ASSUME NEW t \in Tools, Read(t)  PROVE \A u \in Admins : Agrees(u)'
  <2>1. /\ UNCHANGED <<tool, fifo, file, base, overwrote, strays>>
        /\ running' = running \ {<<t, "read">>} /\ <<t, "read">> \in running
        /\ seen' = [seen EXCEPT ![t] = file]
    BY <1>4 DEF Read
  <2>2. \A u \in Admins, k \in {"read", "write"} :
          <<u, k>> # <<t, "read">> => (Ended(<<u, k>>)' <=> Ended(<<u, k>>))
    BY <2>1 DEF Ended, Queued
  <2>3. ASSUME NEW u \in Admins, u # t  PROVE Agrees(u)'
    <3>1. seen'[u] = seen[u]  BY <1>0, <2>1, <2>3 DEF FileType
    <3>2. Ended(<<u, "read">>)' <=> Ended(<<u, "read">>)  BY <2>2, <2>3
    <3>3. Ended(<<u, "write">>)' <=> Ended(<<u, "write">>)  BY <2>2, <2>3
    <3> QED  BY <2>1, <3>1, <3>2, <3>3, AgreesKept DEF FileInv
  <2>4. ASSUME t \in Admins  PROVE Agrees(t)'
    <3>1. tool[t] = "read"  BY <1>0, <2>1 DEF Awaited, Ended
    <3>2. seen'[t] = file  BY <1>0, <2>1, <2>4 DEF FileType
    <3>3. Agrees(t)  BY <2>1, <2>4 DEF FileInv
    <3> QED  BY <2>1, <3>1, <3>2, <3>3 DEF Agrees
  <2> QED  BY <2>3, <2>4
<1>5. ASSUME NEW t \in Tools, Write(t)  PROVE \A u \in Admins : Agrees(u)'
  <2>1. /\ UNCHANGED <<tool, fifo, base, seen, strays>>
        /\ running' = running \ {<<t, "write">>} /\ <<t, "write">> \in running
        /\ overwrote' = [overwrote EXCEPT ![t] = file] /\ file' = t
    BY <1>5 DEF Write
  <2>2. tool[t] = "write" /\ t \in Admins
    BY <1>0, <2>1 DEF Awaited, Tools
  <2>3. ASSUME NEW u \in Admins, u # t  PROVE Agrees(u)'
    <3>1. tool[u] \notin {"read", "write"}  BY <2>2, <2>3, OneInBody
    <3>2. Agrees(u) /\ overwrote'[u] = overwrote[u]  BY <1>0, <2>1, <2>3 DEF FileInv, FileType
    <3> QED  BY <2>1, <3>1, <3>2 DEF Agrees
  <2>4. Agrees(t)'
    <3>1. Agrees(t)  BY <2>1, <2>2 DEF FileInv
    <3>2. ~Ended(<<t, "write">>)  BY <2>1 DEF Ended
    <3>3. overwrote'[t] = base[t]  BY <1>0, <2>1, <2>2, <3>1, <3>2 DEF Agrees, FileType
    <3>4. Ended(<<t, "write">>)'
      <4>1. ~Queued(<<t, "write">>)  BY <2>1 DEF JobsInv, OneJob, Queued
      <4> QED  BY <2>1, <4>1 DEF Ended, Queued
    <3> QED  BY <2>1, <2>2, <3>1, <3>3, <3>4 DEF Agrees
  <2> QED  BY <2>3, <2>4
\* the steps of a coroutine leave the others, and the file, as they are
<1>6. ASSUME NEW t \in Tools, NEW from, NEW to, Goes(t, from, to), Elsewhere(t),
             strays = {}, UNCHANGED <<file, seen, overwrote>>,
             base' = base \/ (from = "idle" /\ t \in Admins /\ base' = [base EXCEPT ![t] = file]),
             to # "idle",
             to = "read" => ~Ended(<<t, "read">>)',
             to = "write" => from = "read" /\ Ended(<<t, "read">>) /\ seen[t] = base[t] /\ base' = base
      PROVE  \A u \in Admins : Agrees(u)'
  <2>1. tool[t] = from /\ tool'[t] = to /\ \A u \in Tools \ {t} : tool'[u] = tool[u]
    BY <1>0, <1>6 DEF Goes
  <2>2. \A u \in Tools \ {t} : base'[u] = base[u] \/ u \notin Admins  BY <1>0, <1>6 DEF FileType
  <2>3. ASSUME NEW u \in Admins, u # t  PROVE Agrees(u)'
    <3>1. Ended(<<u, "read">>)' <=> Ended(<<u, "read">>)  BY <1>0, <1>6, <2>3 DEF Elsewhere, Kinds
    <3>2. Ended(<<u, "write">>)' <=> Ended(<<u, "write">>)  BY <1>0, <1>6, <2>3 DEF Elsewhere, Kinds
    <3>3. Agrees(u)  BY <1>6, <2>3 DEF FileInv
    <3> QED  BY <1>0, <1>6, <2>1, <2>2, <2>3, <3>1, <3>2, <3>3, AgreesKept
  <2>4. ASSUME t \in Admins  PROVE Agrees(t)'
    <3>1. Agrees(t)  BY <1>6, <2>4 DEF FileInv
    <3>2. overwrote'[t] \in {"nothing", base'[t]}  BY <1>6, <2>1, <3>1 DEF Agrees
    <3>3. to = "write" => file' = base'[t] /\ seen'[t] = base'[t]
      BY <1>6, <2>1, <3>1 DEF Agrees
    <3> QED  BY <1>6, <2>1, <3>2, <3>3 DEF Agrees
  <2> QED  BY <2>3, <2>4
<1>7. ASSUME NEW t \in Tools,
             Coroutine(t) \/ Ask(t) \/ Approve(t) \/ Deny(t) \/ Move(t) \/ CancelEnter(t) \/ CancelAway(t)
      PROVE  \A u \in Admins : Agrees(u)'
  <2>1. Elsewhere(t)  BY <1>7, CoroutineJobs
  <2>2. strays' = strays /\ UNCHANGED <<file, seen, overwrote>>
    BY <1>7 DEF Coroutine, Entered, EnteredCancelled, Revalidated, Stale, Written, Exited, Undo, Ask, Approve,
       Deny, Move, CancelEnter, CancelAway, fileState
  <2>3. CASE Entered(t)
    <3>1. Goes(t, "enter", "read") /\ base' = base  BY <2>3 DEF Entered, fileState
    <3>2. ~Ended(<<t, "read">>)'
      <4>1. Ended(<<t, "read">>) /\ <<t, "read">> \in Jobs
        BY <1>0, <3>1 DEF Goes, Awaited, Jobs, Kinds
      <4>2. Submit(<<t, "read">>) /\ running' = running  BY <2>3 DEF Entered
      <4> QED  BY <1>0, <4>1, <4>2, SubmittedJob DEF JobsInv, Ended
    <3> QED  BY <1>6, <2>1, <2>2, <3>1, <3>2
  <2>4. CASE Revalidated(t)
    BY <1>6, <2>1, <2>2, <2>4 DEF Revalidated, fileState
  <2>5. CASE Ask(t)
    <3>1. Goes(t, "idle", "asked") /\ t \in Admins /\ base' = [base EXCEPT ![t] = file]  BY <2>5 DEF Ask
    <3> QED  BY <1>6, <2>1, <2>2, <3>1
  <2>6. CASE \/ EnteredCancelled(t) \/ Stale(t) \/ Written(t) \/ Exited(t) \/ Undo(t) \/ Approve(t) \/ Deny(t)
             \/ Move(t) \/ CancelEnter(t) \/ CancelAway(t)
    <3>1. base' = base
      BY <2>6 DEF EnteredCancelled, Stale, Written, Exited, Undo, Approve, Deny, Move, CancelEnter, CancelAway,
         fileState
    <3>2. PICK from \in ToolStates, to \in {"enter", "exit", "undo", "undoexit", "done", "dropped", "move"} :
            Goes(t, from, to)
      BY <2>6 DEF EnteredCancelled, Stale, Written, Exited, Undo, Approve, Deny, Move, CancelEnter, CancelAway,
         ToolStates
    <3> QED  BY <1>6, <2>1, <2>2, <3>1, <3>2
  <2> QED  BY <1>7, <2>3, <2>4, <2>5, <2>6 DEF Coroutine
<1>8. ASSUME NEW t \in Tools, CancelBody(t)  PROVE \A u \in Admins : Agrees(u)'
  <2>1. Elsewhere(t)  BY <1>8, CancelBodyJobs
  <2>2. PICK kind \in {"read", "write"} :
          /\ Goes(t, kind, "exit") /\ UNCHANGED <<file, base, seen, overwrote>>
          /\ strays' = IF <<t, "write">> \in running THEN strays \cup {t} ELSE strays
    BY <1>8 DEF CancelBody
  <2>3. strays = {}  BY <2>2
  <2> QED  BY <1>6, <2>1, <2>2, <2>3
<1>9. CASE UNCHANGED lockVars
  BY <1>1, <1>9 DEF lockVars, Ended, Queued
<1> QED  BY <1>2, <1>3, <1>4, <1>5, <1>7, <1>8, <1>9 DEF Next, Thread

-----------------------------------------------------------------------------
(* The theorems *)

IInv == JobsInv /\ LockInv /\ FileInv

LEMMA InvInit == Bounds /\ Init => IInv
<1> SUFFICES ASSUME Bounds, Init  PROVE IInv
  OBVIOUS
<1>1. IsFiniteSet({}) /\ Cardinality({}) = 0  BY FS_EmptySet
<1>2. TypeOK
  <2>1. fifo \in Seq(Jobs) /\ refs \in [Keys \X Tools -> Nat]  BY DEF Init
  <2>2. GeneratorType  BY DEF Init, GeneratorType
  <2>3. ToolType  BY <1>1 DEF Init, ToolType, ToolStates, Bounds
  <2>4. FileType  BY DEF Init, FileType, Contents
  <2> QED  BY <2>1, <2>2, <2>3, <2>4, TypeParts
<1>3. OneJob /\ \A j : Ended(j) /\ ~Queued(j)
  BY DEF Init, OneJob, NoDuplicates, Ended, Queued
<1>4. \A t \in Tools : Awaited(t)
  BY <1>3 DEF Init, Awaited
<1>5. \A t \in Tools : Generator(t)  BY DEF Init, Generator
<1>6. ASSUME NEW t \in Tools, NEW k, NEW e  PROVE ~Refers(t, k, e) /\ ~Owns(t, k, e)
  BY DEF Init, Refers, Holds, Owns
<1>7. References
  <2>1. \A k \in Keys, e \in Tools : Users(k, e) = {}  BY <1>6 DEF Users
  <2> QED  BY <1>1, <2>1 DEF References, Init
<1>8. Owners  BY <1>6 DEF Owners
<1>9. FileInv  BY DEF Init, FileInv, Agrees, Tools
<1> QED  BY <1>1, <1>2, <1>3, <1>4, <1>5, <1>7, <1>8, <1>9 DEF IInv, JobsInv, LockInv, Init

LEMMA InvStep == Bounds /\ IInv /\ [Next]_lockVars => IInv'
<1> SUFFICES ASSUME Bounds, IInv, [Next]_lockVars  PROVE IInv'
  OBVIOUS
<1>1. QueueInv'  BY JobsStep DEF IInv
<1>2. LockInv' /\ refs' \in [Keys \X Tools -> Nat]  BY LocksStep DEF IInv, JobsInv
<1>3. FileInv'  BY FileStep DEF IInv
<1>4. GeneratorType'
  <2>1. ASSUME NEW t \in Tools, Thread(t)  PROVE GeneratorType'
    BY <2>1, GeneratorTypes DEF IInv, JobsInv
  <2>2. ASSUME NEW t \in Tools,
               \/ Coroutine(t) \/ Ask(t) \/ Approve(t) \/ Deny(t) \/ Move(t)
               \/ CancelBody(t) \/ CancelEnter(t) \/ CancelAway(t)
        PROVE  UNCHANGED lockState
    BY <2>2 DEF Coroutine, Entered, EnteredCancelled, Revalidated, Stale, Written, Exited, Undo, Ask, Approve,
       Deny, Move, CancelBody, CancelEnter, CancelAway
  <2>3. CASE UNCHANGED lockState
    <3>1. GeneratorType  BY TypeParts DEF IInv, JobsInv
    <3> QED  BY <2>3, <3>1 DEF lockState, GeneratorType
  <2> QED  BY <2>1, <2>2, <2>3 DEF Next, Start, lockVars, lockState
<1>5. ToolType' /\ FileType'  BY ToolTypes, FileTypes DEF IInv
<1>6. TypeOK'  BY <1>1, <1>2, <1>4, <1>5, TypeParts DEF QueueInv, TypeOK, GeneratorType, ToolType, FileType,
                  ToolStates, Jobs
<1> QED  BY <1>1, <1>2, <1>3, <1>6 DEF IInv, JobsInv, QueueInv

LEMMA InvCorrect ==
    ASSUME Bounds
    PROVE  Spec => []IInv
<1>1. Init => IInv  BY InvInit
<1>2. IInv /\ [Next]_lockVars => IInv'  BY InvStep
<1> QED  BY <1>1, <1>2, PTL DEF Spec

\* The variables keep their types; in particular no count of an entry is ever
\* negative, and no more jobs run than the pool has threads.
THEOREM TypeCorrect ==
    ASSUME Bounds
    PROVE  Spec => []TypeOK
<1>1. IInv => TypeOK  BY DEF IInv, JobsInv
<1> QED  BY <1>1, InvCorrect, PTL

\* Two calls that hold their locks have no file in common, however the entries
\* of the registry were made and forgotten in between.
THEOREM Exclusion ==
    ASSUME Bounds
    PROVE  Spec => []MutualExclusion
<1>1. IInv => MutualExclusion  BY ExclusionHolds DEF IInv, JobsInv
<1> QED  BY <1>1, InvCorrect, PTL

\* What an admin tool overwrites is the content its user approved a change of,
\* unless a write was cancelled while it ran.
THEOREM NoUpdateLost ==
    ASSUME Bounds
    PROVE  Spec => []NoLostUpdate
<1>1. IInv => NoLostUpdate  BY DEF IInv, FileInv, Agrees, NoLostUpdate
<1> QED  BY <1>1, InvCorrect, PTL
=============================================================================
