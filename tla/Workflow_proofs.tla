---------------------------- MODULE Workflow_proofs ----------------------------
(***************************************************************************)
(* Proofs about Workflow, for every script and every bound, with chat and  *)
(* repeated commands beside it: its types, that what is journaled is kept, *)
(* and that an outcome is shown.                                           *)
(* WebChat, an instance: that what a page shows of an answer is what the   *)
(* archive has of it, and that no streamed piece is lost.                  *)
(***************************************************************************)
EXTENDS Workflow, Integers, FiniteSetTheorems, WellFoundedInduction, TLAPS

CONSTANTS Pages, MaxRounds, MaxPieces, MaxOpens
VARIABLES doing, round, streamed, turnText, kept, rows, forwards, stream, buffer, clearing, loading,
    loaded, shows, opens, partial, unsaid
Web == INSTANCE WebChat

-----------------------------------------------------------------------------
(* Positions and journals *)

\* a call of a branch is a triple
LEMMA BranchCall ==
    ASSUME NEW i \in DOMAIN Script, NEW p
    PROVE  p \in BranchCalls(i) <=>
             \E b \in DOMAIN Script[i].width : \E k \in 1..Script[i].width[b] : p = <<i, b, k>>
BY DEF BranchCalls

LEMMA ScriptType ==
    /\ DOMAIN Script \subseteq Nat \ {0}
    /\ \A i \in DOMAIN Script :
         /\ DOMAIN Script[i].width \subseteq Nat \ {0}
         /\ \A b \in DOMAIN Script[i].width : Script[i].width[b] \in Nat
<1>1. DOMAIN Script = 1..Len(Script) /\ Len(Script) \in Nat
  BY ScriptAssumption
<1>2. ASSUME NEW i \in DOMAIN Script
      PROVE  Script[i].width \in Seq(Nat \ {0})
  <2>1. Script[i] \in [kind : {"call", "ask", "fan"}, width : Seq(Nat \ {0})]
    <3> DEFINE S == [kind : {"call", "ask", "fan"}, width : Seq(Nat \ {0})]
    <3>1. i \in 1..Len(Script) /\ Script \in Seq(S)  BY <1>1, ScriptAssumption
    <3> HIDE DEF S
    <3>2. Script[i] \in S  BY <3>1
    <3> QED  BY <3>2 DEF S
  <2> QED  BY <2>1
<1>3. ASSUME NEW i \in DOMAIN Script
      PROVE  /\ DOMAIN Script[i].width \subseteq Nat \ {0}
             /\ \A b \in DOMAIN Script[i].width : Script[i].width[b] \in Nat
  <2>1. DOMAIN Script[i].width = 1..Len(Script[i].width) /\ Len(Script[i].width) \in Nat
    BY <1>2
  <2>2. \A b \in 1..Len(Script[i].width) : Script[i].width[b] \in Nat \ {0}
    BY <1>2
  <2> QED  BY <2>1, <2>2
<1> QED  BY <1>1, <1>3

\* None is not a position, a journal, a turn, an answer or a request.
LEMMA SomeIsNotNone ==
    /\ \A p \in Positions : p # None
    /\ \A j \in Journal : j # None
    /\ \A t \in Turns : t # None
    /\ \A r \in Replies : r # None
    /\ \A a \in Askers : a # None
    /\ AgentRequest # None /\ AgentRequest \notin Positions
BY NoneAssumption

LEMMA FreshType == Fresh \in Journal /\ Fresh.entries = {}
BY BoundAssumption DEF Fresh, Journal, Statuses

\* What a run does next is a position without an entry.
LEMMA ReadyType ==
    ASSUME NEW E, NEW p \in Ready(E)
    PROVE  /\ p \in Positions /\ p \notin E
           /\ p[1] \in DOMAIN Script /\ Reached(E, p[1])
           /\ \/ /\ p = <<p[1]>>
                 /\ {x \in BranchCalls(p[1]) \ E : \A k \in 1..(x[3] - 1) : <<p[1], x[2], k>> \in E} = {}
              \/ /\ p \in BranchCalls(p[1])
                 /\ \A k \in 1..(p[3] - 1) : <<p[1], p[2], k>> \in E
<1>1. PICK i \in DOMAIN Script :
        /\ Reached(E, i)
        /\ \/ /\ {x \in BranchCalls(i) \ E : \A k \in 1..(x[3] - 1) : <<i, x[2], k>> \in E} = {}
              /\ p = <<i>>
           \/ p \in {x \in BranchCalls(i) \ E : \A k \in 1..(x[3] - 1) : <<i, x[2], k>> \in E}
  BY DEF Ready
<1>2. CASE p = <<i>> /\ {x \in BranchCalls(i) \ E : \A k \in 1..(x[3] - 1) : <<i, x[2], k>> \in E} = {}
  <2>1. p[1] = i  BY <1>2
  <2>2. p \in Positions /\ p \notin E  BY <1>1, <1>2 DEF Positions, Reached
  <2> QED  BY <1>1, <1>2, <2>1, <2>2
<1>3. CASE p \in {x \in BranchCalls(i) \ E : \A k \in 1..(x[3] - 1) : <<i, x[2], k>> \in E}
  <2>1. p[1] = i  BY <1>3, BranchCall
  <2>2. p \in Positions  BY <1>3 DEF Positions
  <2> QED  BY <1>1, <1>3, <2>1, <2>2
<1> QED  BY <1>1, <1>2, <1>3

LEMMA QuestionType ==
    ASSUME NEW E, NEW q \in Question(E)
    PROVE  q \in Questions /\ q \in Positions /\ q # None /\ q \in Ready(E) /\ q \notin E
BY ReadyType, SomeIsNotNone DEF Question, Questions

\* A non-empty set of numbers has a least one.
LEMMA LeastNumber ==
    ASSUME NEW T \in SUBSET Nat, T # {}
    PROVE  \E n \in T : \A m \in T : n <= m
<1>1. PICK n \in T : \A m \in T : ~ (<<m, n>> \in OpToRel(<, Nat))
  BY NatLessThanWellFounded, WFMin
<1>2. ASSUME NEW m \in T  PROVE n <= m
  <2>1. ~ (<<m, n>> \in {ss \in Nat \X Nat : ss[1] < ss[2]})  BY <1>1 DEF OpToRel
  <2>2. m \in Nat /\ n \in Nat /\ ~ (m < n)  BY <2>1
  <2> QED  BY <2>2
<1> QED  BY <1>2

\* A branch whose calls are not all recorded has a first call that is missing.
LEMMA BranchesComplete ==
    ASSUME NEW E, NEW i \in DOMAIN Script,
           {x \in BranchCalls(i) \ E : \A k \in 1..(x[3] - 1) : <<i, x[2], k>> \in E} = {}
    PROVE  BranchCalls(i) \subseteq E
<1> SUFFICES ASSUME NEW y \in BranchCalls(i), y \notin E  PROVE FALSE
  OBVIOUS
<1>1. PICK b \in DOMAIN Script[i].width : \E k \in 1..Script[i].width[b] : y = <<i, b, k>>
  BY BranchCall
<1> DEFINE T == {k \in 1..Script[i].width[b] : <<i, b, k>> \notin E}
<1>2. T \in SUBSET Nat /\ T # {} /\ Script[i].width[b] \in Nat
  BY <1>1, ScriptType
<1>3. PICK k \in T : \A m \in T : k <= m
  <2> HIDE DEF T
  <2> QED  BY <1>2, LeastNumber
<1> DEFINE x == <<i, b, k>>
<1>4. x \in BranchCalls(i) /\ x \notin E /\ x[2] = b /\ x[3] = k /\ k \in Nat
  BY <1>1, <1>2, <1>3, BranchCall
<1>5. \A h \in 1..(k - 1) : <<i, b, h>> \in E
  <2> SUFFICES ASSUME NEW h \in 1..(k - 1), <<i, b, h>> \notin E  PROVE FALSE
    OBVIOUS
  <2>1. h \in T /\ ~(k <= h)  BY <1>2, <1>3
  <2> QED  BY <1>3, <2>1
<1> HIDE DEF x
<1> QED  BY <1>4, <1>5

\* A run that records what it does next leaves no hole in the journal.
LEMMA RecordingReplays ==
    ASSUME NEW E, Replayable(E), NEW p \in Ready(E)
    PROVE  Replayable(E \cup {p})
<1> DEFINE F == E \cup {p}
<1> SUFFICES ASSUME NEW q \in F
             PROVE  /\ \A h \in 1..(q[1] - 1) : <<h>> \in F
                    /\ Len(q) = 1 => BranchCalls(q[1]) \subseteq F
                    /\ Len(q) = 3 => \A k \in 1..(q[3] - 1) : <<q[1], q[2], k>> \in F
  BY DEF Replayable
<1>1. CASE q \in E
  BY <1>1 DEF Replayable
<1>2. CASE q = p
  <2>1. \A h \in 1..(p[1] - 1) : <<h>> \in E  BY ReadyType DEF Reached
  <2>2. CASE p = <<p[1]>> /\ {x \in BranchCalls(p[1]) \ E : \A k \in 1..(x[3] - 1) : <<p[1], x[2], k>> \in E} = {}
    <3>1. BranchCalls(p[1]) \subseteq E  BY <2>2, ReadyType, BranchesComplete
    <3>2. Len(p) = 1
      <4>1. Len(<<p[1]>>) = 1  OBVIOUS
      <4> QED  BY <2>2, <4>1
    <3> QED  BY <1>2, <2>1, <3>1, <3>2
  <2>3. CASE p \in BranchCalls(p[1]) /\ \A k \in 1..(p[3] - 1) : <<p[1], p[2], k>> \in E
    <3>1. Len(p) = 3
      <4>1. PICK b, k : p = <<p[1], b, k>>  BY <2>3, ReadyType, BranchCall
      <4>2. Len(<<p[1], b, k>>) = 3  OBVIOUS
      <4> QED  BY <4>1, <4>2
    <3> QED  BY <1>2, <2>1, <2>3, <3>1
  <2> QED  BY <2>2, <2>3, ReadyType
<1> QED  BY <1>1, <1>2

-----------------------------------------------------------------------------
(* Type correctness *)

\* What the records of the slot, the archive and a claimed answer, and a turn
\* about to post, presuppose.
TypeInv ==
  /\ TypeOK
  /\ pending \in Questions \/ tail \in Questions \/ reply # None => disk # None
  /\ turn # None /\ turn.pc \in {"publish", "post"} => disk # None
  /\ phase = "down" => turn = None /\ reply = None /\ asker = None /\ pending = None
  /\ Asks("waiting") => pending = AgentRequest

LEMMA TypeInit == Init => TypeInv
<1> SUFFICES ASSUME Init  PROVE TypeInv
  OBVIOUS
<1>1. left \in [triggers : 0..MaxTriggers, chats : 0..MaxChats, cancels : 0..MaxCancels,
                crashes : 0..MaxCrashes]
  BY BoundAssumption DEF Init
<1>2. pending \notin Questions /\ tail \notin Questions  BY SomeIsNotNone DEF Init, Questions
<1> QED  BY <1>1, <1>2 DEF Init, TypeInv, TypeOK, Asks

\* A journal with another status, or with what the run does next.
LEMMA JournalSaved ==
    ASSUME NEW j \in Journal
    PROVE  /\ \A s \in Statuses :
                /\ [j EXCEPT !.status = s] \in Journal
                /\ [j EXCEPT !.status = s].status = s
                /\ [j EXCEPT !.status = s].entries = j.entries
           /\ \A p \in Positions :
                /\ [j EXCEPT !.entries = @ \cup {p}] \in Journal
                /\ [j EXCEPT !.entries = @ \cup {p}].status = j.status
                /\ [j EXCEPT !.entries = @ \cup {p}].entries = j.entries \cup {p}
BY DEF Journal

\* Where a run goes on, and what it saves.
LEMMA ProceedCases ==
    ASSUME NEW j \in Journal, Proceed(j)
    PROVE  \/ /\ disk' \in Journal /\ disk'.entries = j.entries /\ disk'.status = "done"
              /\ Finished(j.entries)
              /\ turn' = [pc |-> "publish", copy |-> disk']
           \/ /\ disk' \in Journal /\ disk'.entries = j.entries /\ disk'.status = "suspended"
              /\ Question(j.entries) # {}
              /\ turn' = [pc |-> "post", copy |-> disk']
           \/ /\ turn' = [pc |-> "run", copy |-> j]
              /\ ~Finished(j.entries) /\ Question(j.entries) = {}
              /\ disk' = IF turn.pc = "run" THEN j ELSE disk
<1>1. CASE /\ disk' = [j EXCEPT !.status = "done"] /\ Finished(j.entries)
           /\ turn' = [pc |-> "publish", copy |-> disk']
  BY <1>1, JournalSaved DEF Statuses
<1>2. CASE /\ disk' = [j EXCEPT !.status = "suspended"] /\ Question(j.entries) # {}
           /\ turn' = [pc |-> "post", copy |-> disk']
  BY <1>2, JournalSaved DEF Statuses
<1>3. CASE /\ turn' = [pc |-> "run", copy |-> j] /\ ~Finished(j.entries) /\ Question(j.entries) = {}
           /\ disk' = IF turn.pc = "run" THEN j ELSE disk
  BY <1>3
<1> QED  BY <1>1, <1>2, <1>3 DEF Proceed

LEMMA ProceedType ==
    ASSUME TypeInv, NEW j \in Journal, Proceed(j)
    PROVE  /\ disk' \in Journal \cup {None} /\ turn' \in Turns
           /\ disk # None => disk' # None
           /\ turn'.pc \in {"publish", "post"} => disk' # None
<1>1. CASE \E c \in {"publish", "post"} : disk' \in Journal /\ turn' = [pc |-> c, copy |-> disk']
  BY <1>1, SomeIsNotNone DEF Turns
<1>2. CASE turn' = [pc |-> "run", copy |-> j] /\ disk' = IF turn.pc = "run" THEN j ELSE disk
  BY <1>2, SomeIsNotNone DEF Turns, TypeInv, TypeOK
<1> QED  BY <1>1, <1>2, ProceedCases

LEMMA BareType ==
    /\ Bare("start") \in Turns /\ Bare("start").pc = "start" /\ Bare("start") # None
    /\ Bare("chat") \in Turns /\ Bare("chat").pc = "chat" /\ Bare("chat") # None
    /\ Bare("agent") \in Turns /\ Bare("agent").pc = "agent" /\ Bare("agent") # None
    /\ Bare("held") \in Turns /\ Bare("held").pc = "held" /\ Bare("held") # None
BY SomeIsNotNone DEF Bare, Turns

LEMMA EnqueueType ==
    ASSUME TypeInv, Enqueue
    PROVE  /\ turn' \in Turns /\ waiting' \in Nat /\ turn' # None
           /\ turn' = turn \/ turn'.pc = "start"
BY BareType, SomeIsNotNone DEF Enqueue, TypeInv, TypeOK

LEMMA PromoteType ==
    ASSUME TypeInv, NEW p \in Questions \cup {AgentRequest, None}, Promote(p), Asks("waiting") => p = AgentRequest
    PROVE  /\ pending' \in Questions \cup {AgentRequest, None} /\ asker' \in Askers \cup {None}
           /\ Asks("waiting")' => pending' = AgentRequest
           /\ pending' \in Questions => p \in Questions
<1>1. CASE p = None /\ Asks("queued")
  BY <1>1, SomeIsNotNone DEF Promote, Asks, TypeInv, TypeOK, Askers, Questions
<1>2. CASE ~(p = None /\ Asks("queued"))
  BY <1>2 DEF Promote, Asks, TypeInv, TypeOK
<1> QED  BY <1>1, <1>2

\* the turn that holds a copy of the journal
Loaded == turn # None /\ turn.pc \in {"activate", "run", "publish", "post"}

\* A turn past its start holds a journal, and no other does.
LEMMA CopyType ==
    ASSUME TypeInv
    PROVE  /\ Loaded => turn.copy \in Journal /\ turn.copy # None
           /\ turn # None /\ ~Loaded => turn.copy = None
BY SomeIsNotNone DEF TypeInv, TypeOK, Turns, Loaded

LEMMA TypeStep == TypeInv /\ [Next]_vars => TypeInv'
<1> SUFFICES ASSUME TypeInv, [Next]_vars  PROVE TypeInv'
  OBVIOUS
<1> DEFINE Bounds == [triggers : 0..MaxTriggers, chats : 0..MaxChats, cancels : 0..MaxCancels,
                      crashes : 0..MaxCrashes]
<1>0. left' \in Bounds
  <2>1. left \in Bounds  BY DEF TypeInv, TypeOK
  <2>2. CASE left' = left  BY <2>1, <2>2
  <2>3. CASE Trigger  BY <2>1, <2>3, BoundAssumption DEF Trigger
  <2>4. CASE ChatBegins  BY <2>1, <2>4, BoundAssumption DEF ChatBegins
  <2>5. CASE CancelTurn  BY <2>1, <2>5, BoundAssumption DEF CancelTurn
  <2>6. CASE Crash  BY <2>1, <2>6, BoundAssumption DEF Crash
  <2> QED
    BY <2>2, <2>3, <2>4, <2>5, <2>6 DEF Next, Inside, Agent, Drain, LoadJournal, Activate, ActivationFails,
       CallReturns, CallFails, Publish, PostQuestion, JournalAnswer, EnqueueResume, JournalDenial, Restart,
       ScanWorkflows, ChatRow, ChatEnds, AgentAsks, AnswerAgent, AskerWakes, Answer, Deny, Respond, StartDies,
       OrphanReturns, vars
<1> HIDE DEF Bounds
<1>a. left' \in [triggers : 0..MaxTriggers, chats : 0..MaxChats, cancels : 0..MaxCancels,
                 crashes : 0..MaxCrashes]
  BY <1>0 DEF Bounds
<1>b. AgentRequest \notin Questions /\ None \notin Questions /\ AgentRequest # None
  BY SomeIsNotNone DEF Questions
<1> USE <1>a DEF TypeInv, slot, past
<1>1. CASE Trigger
  BY <1>1, <1>b, EnqueueType DEF Trigger, TypeOK, Asks, Live
<1>2. CASE Drain \/ ChatBegins \/ StartDies \/ ChatRow \/ ChatEnds
  <2>1. /\ turn' = None \/ (turn' \in Turns /\ turn'.pc \in {"start", "chat", "held", "agent"})
        /\ waiting' \in Nat /\ phase = phase' /\ phase # "down"
        /\ tail' \in {tail, None}
        /\ UNCHANGED <<disk, orphan, pending, asker, reply, shown, lost, late, crossed>>
        /\ stopped' \in BOOLEAN
    <3>1. CASE Drain  BY <3>1, BareType DEF Drain, Live, TypeOK
    <3>2. CASE ChatBegins  BY <3>2, BareType DEF ChatBegins, Live, TypeOK
    <3>3. CASE StartDies  BY <3>3, BareType DEF StartDies, At, Live, TypeOK
    <3>4. CASE ChatRow  BY <3>4, BareType DEF ChatRow, At, Live, TypeOK
    <3>5. CASE ChatEnds  BY <3>5 DEF ChatEnds, At, Live, TypeOK
    <3> QED  BY <1>2, <3>1, <3>2, <3>3, <3>4, <3>5
  <2> QED  BY <2>1, <1>b DEF TypeOK, Asks
<1>4. CASE LoadJournal
  <2>1. turn' \in Turns /\ turn'.pc = "activate"
    BY <1>4, FreshType DEF LoadJournal, TypeOK, Turns
  <2> QED  BY <1>4, <2>1 DEF LoadJournal, TypeOK, At, Live, Asks
<1>5. CASE Activate
  <2>1. turn.copy \in Journal /\ Proceed(turn.copy)  BY <1>5, CopyType DEF Activate, At, Loaded
  <2> QED  BY <1>5, <2>1, ProceedType DEF Activate, TypeOK, At, Live, Asks
<1>6. CASE ActivationFails \/ CallFails
  <2>1. /\ turn.copy \in Journal /\ disk' = [turn.copy EXCEPT !.status = "error"] /\ TurnEnds
        /\ phase' = phase /\ phase # "down"
        /\ asker' \in {asker, None}
        /\ UNCHANGED <<orphan, waiting, pending, tail, reply, shown, lost, stopped, late>>
    BY <1>6, CopyType DEF ActivationFails, CallFails, At, Live, Loaded
  <2>2. disk' \in Journal /\ disk' # None  BY <2>1, JournalSaved, SomeIsNotNone DEF Statuses
  <2> QED  BY <2>1, <2>2 DEF TypeOK, TurnEnds, Asks
<1>7. CASE CallReturns
  <2>1. turn.copy \in Journal  BY <1>7, CopyType DEF CallReturns, At, Loaded
  <2>2. PICK p \in Back(turn.copy.entries) : Proceed([turn.copy EXCEPT !.entries = @ \cup {p}])
    BY <1>7 DEF CallReturns
  <2>3. p \in Positions  BY <2>2, ReadyType DEF Back, Calls
  <2>4. [turn.copy EXCEPT !.entries = @ \cup {p}] \in Journal  BY <2>1, <2>3, JournalSaved
  <2> QED  BY <1>7, <2>2, <2>4, ProceedType DEF CallReturns, TypeOK, At, Live, Asks
<1>8. CASE Publish
  BY <1>8 DEF Publish, TurnEnds, TypeOK, At, Live, Asks
<1>9. CASE PostQuestion
  <2>1. /\ pending' \in Questions \cup {AgentRequest, None} /\ tail' \in Questions \cup {AgentRequest, None}
        /\ pending = AgentRequest => pending' = AgentRequest
    BY <1>9, <1>b, QuestionType DEF PostQuestion, TypeOK
  <2>2. disk' = disk /\ disk # None  BY <1>9 DEF PostQuestion, At
  <2> QED  BY <1>9, <2>1, <2>2 DEF PostQuestion, TurnEnds, TypeOK, At, Live, Asks
<1>10. CASE Answer \/ Deny
  <2>1. PICK s \in {"append", "deny"} : Respond(s)  BY <1>10 DEF Answer, Deny
  <2>2. pending \in Questions /\ pending \in Positions
    BY <2>1 DEF Respond, TypeOK, Questions
  <2>3. reply' \in Replies /\ reply'.seq \in Questions  BY <2>1, <2>2 DEF Respond, Replies
  <2> QED  BY <2>1, <2>2, <2>3, <1>b DEF Respond, TypeOK, Asks
<1>11. CASE JournalAnswer
  <2>1. reply \in Replies /\ reply.seq \in Questions /\ disk \in Journal
    BY <1>11 DEF JournalAnswer, TypeOK
  <2>2. reply.seq \in Positions  BY <2>1 DEF Replies
  <2>3. disk' \in Journal /\ disk' # None
    <3>1. CASE disk' = disk  BY <2>1, <3>1, SomeIsNotNone
    <3>2. CASE disk' = [disk EXCEPT !.entries = @ \cup {reply.seq}, !.status = "running"]
      <4>1. disk' \in Journal  BY <2>1, <2>2, <3>2 DEF Journal, Statuses
      <4> QED  BY <4>1, SomeIsNotNone
    <3> QED  BY <1>11, <3>1, <3>2 DEF JournalAnswer
  <2>4. reply' \in {r \in Replies : r.seq \in Questions} \cup {None}
    BY <1>11, <2>1 DEF JournalAnswer, Replies
  <2>5. /\ pending' \in Questions \cup {AgentRequest, None}
        /\ pending = AgentRequest => pending' = AgentRequest
    BY <1>11, <1>b, <2>1 DEF JournalAnswer, TypeOK
  <2>6. crossed' \in BOOLEAN  BY <1>11 DEF JournalAnswer, TypeOK
  <2> QED  BY <1>11, <2>3, <2>4, <2>5, <2>6 DEF JournalAnswer, TypeOK, Live, Asks
<1>12. CASE EnqueueResume
  <2>1. pending \in Questions \cup {AgentRequest, None} /\ Promote(pending) /\ Enqueue
    BY <1>12 DEF EnqueueResume, TypeOK
  <2>2. disk # None  BY <1>12 DEF EnqueueResume
  <2> QED  BY <1>12, <2>1, <2>2, EnqueueType, PromoteType DEF EnqueueResume, TypeOK, Live
<1>13. CASE JournalDenial
  <2>1. disk' \in Journal /\ disk' # None
    BY <1>13, JournalSaved, SomeIsNotNone DEF JournalDenial, TypeOK, Statuses
  <2>2. pending \in Questions \cup {AgentRequest, None} /\ Promote(pending)
    BY <1>13 DEF JournalDenial, TypeOK
  <2> QED  BY <1>13, <2>1, <2>2, PromoteType DEF JournalDenial, TypeOK, Live
<1>14. CASE CancelTurn
  <2>1. orphan' \in Journal \cup {None}
    <3>1. orphan' = turn.copy \/ orphan' = orphan  BY <1>14 DEF CancelTurn
    <3>2. orphan' = turn.copy => turn.pc = "run" \/ orphan' = orphan  BY <1>14 DEF CancelTurn
    <3>3. turn # None /\ (turn.pc = "run" => turn.copy \in Journal)  BY <1>14, CopyType DEF CancelTurn, Loaded
    <3> QED  BY <3>1, <3>2, <3>3 DEF TypeOK
  <2>2. asker' \in {asker, None} \cup {[asker EXCEPT !.by = "stray"]} /\ (~TurnAsks => asker' = asker)
    BY <1>14 DEF CancelTurn
  <2>3. asker' \in Askers \cup {None} /\ (Asks("waiting")' => Asks("waiting"))
    BY <2>2, SomeIsNotNone DEF TurnAsks, TypeOK, Askers, Asks
  <2>4. lost' \in BOOLEAN /\ stopped' \in BOOLEAN  BY <1>14 DEF CancelTurn, TypeOK
  <2> QED  BY <1>14, <2>1, <2>3, <2>4 DEF CancelTurn, TurnEnds, TypeOK
<1>15. CASE OrphanReturns
  <2>1. PICK p \in Ready(orphan.entries) :
          orphan' = [orphan EXCEPT !.entries = @ \cup {p}] /\ disk' = orphan'
    BY <1>15 DEF OrphanReturns
  <2>2. orphan \in Journal  BY <1>15 DEF OrphanReturns, TypeOK
  <2>3. orphan' \in Journal /\ disk' \in Journal /\ disk' # None
    BY <2>1, <2>2, ReadyType, JournalSaved, SomeIsNotNone
  <2> QED  BY <1>15, <2>3 DEF OrphanReturns, TypeOK, Live, Asks
<1>16. CASE Crash
  <2>1. lost' \in BOOLEAN  BY <1>16 DEF Crash, TypeOK
  <2> QED  BY <1>16, <2>1, <1>b DEF Crash, TurnEnds, TypeOK, Asks
<1>17. CASE Restart
  <2>1. lost' \in BOOLEAN /\ pending' \in Questions \cup {AgentRequest, None} /\ tail' = pending'
        /\ (pending' \in Questions => tail \in Questions)
    BY <1>17, <1>b DEF Restart, TypeOK
  <2>2. ~Asks("waiting")  BY <1>17 DEF Restart, Asks
  <2>3. ~Asks("waiting")'  BY <1>17, <2>2 DEF Restart, Asks
  <2>4. turn' = None /\ reply' = None /\ disk' = disk  BY <1>17 DEF Restart
  <2> QED  BY <1>17, <2>1, <2>3, <2>4 DEF Restart, TypeOK
<1>18. CASE ScanWorkflows
  <2>1. CASE UNCHANGED <<disk, turn, waiting>>
    BY <1>18, <2>1 DEF ScanWorkflows, TypeOK, Asks
  <2>2. CASE disk # None /\ disk' = [disk EXCEPT !.status = "error"] /\ UNCHANGED <<turn, waiting>>
    <3>1. disk' \in Journal /\ disk' # None
      BY <2>2, JournalSaved, SomeIsNotNone DEF TypeOK, Statuses
    <3> QED  BY <1>18, <2>2, <3>1 DEF ScanWorkflows, TypeOK, Asks
  <2>3. CASE disk # None /\ disk.attempts < Cap /\ disk' = [disk EXCEPT !.attempts = @ + 1] /\ Enqueue
    <3>1. disk' \in Journal /\ disk' # None
      BY <2>3, SomeIsNotNone, BoundAssumption DEF TypeOK, Journal
    <3> QED  BY <1>18, <2>3, <3>1, EnqueueType DEF ScanWorkflows, TypeOK, Asks
  <2> QED  BY <1>18, <2>1, <2>2, <2>3 DEF ScanWorkflows
<1>19. CASE AgentAsks
  <2>1. asker' \in Askers /\ (Asks("waiting")' => pending' = AgentRequest)
    BY <1>19 DEF AgentAsks, Askers, Asks
  <2> QED  BY <1>19, <2>1, <1>b DEF AgentAsks, TypeOK, Live
<1>20. CASE AnswerAgent
  <2>1. CASE Asks("waiting")
    <3>1. asker' \in Askers /\ asker'.pc = "claimed"  BY <1>20, <2>1 DEF AnswerAgent, Asks, TypeOK, Askers
    <3> QED  BY <1>20, <2>1, <3>1, <1>b DEF AnswerAgent, TypeOK, Asks
  <2>2. CASE ~Asks("waiting") /\ Promote(None)
    BY <1>20, <2>2, <1>b, PromoteType DEF AnswerAgent, TypeOK
  <2>3. CASE ~Asks("waiting") /\ pending' = None /\ asker' = asker
    BY <1>20, <2>3, <1>b DEF AnswerAgent, TypeOK, Asks
  <2> QED  BY <1>20, <2>1, <2>2, <2>3 DEF AnswerAgent
<1>21. CASE AskerWakes
  <2>1. lost' \in BOOLEAN  BY <1>21 DEF AskerWakes, TypeOK
  <2> QED  BY <1>21, <2>1, <1>b DEF AskerWakes, TypeOK, Asks, Live
<1>22. CASE UNCHANGED vars
  BY <1>22 DEF vars, TypeOK, Asks
<1> QED
  BY <1>1, <1>2, <1>4, <1>5, <1>6, <1>7, <1>8, <1>9, <1>10, <1>11, <1>12, <1>13, <1>14, <1>15,
     <1>16, <1>17, <1>18, <1>19, <1>20, <1>21, <1>22 DEF Next, Inside, Agent

\* Every journal on disk, in a turn or with an orphan is one of the script's,
\* within the cap on resumes, and only questions are asked and answered; the
\* command may be typed at any time, and chat may share the conversation.
THEOREM TypeCorrect == Spec => []TypeOK
<1>1. TypeInv => TypeOK  BY DEF TypeInv
<1> QED  BY <1>1, TypeInit, TypeStep, PTL DEF Spec

-----------------------------------------------------------------------------
(* A journal, its copy, and an outcome that is shown                       *)

\* What the status of a journal says of its entries.
Sound(j) ==
  /\ j.status = "suspended" => Question(j.entries) # {}
  /\ j.status = "done" => Finished(j.entries)

SoundOnDisk == disk # None => Sound(disk)

\* the entries of workflow.json
Recorded == IF disk = None THEN {} ELSE disk.entries

\* A turn works on the journal that was on disk when it began: an answer that
\* crosses it is all that may separate the two.
CopyIsCurrent ==
  Loaded =>
    /\ Sound(turn.copy)
    /\ turn.copy.entries \subseteq Recorded
    /\ ~crossed => turn.copy.entries = Recorded
    /\ turn.pc = "run" => turn.copy.status \notin {"suspended", "done"}
    /\ turn.pc = "post" =>
         disk.status # "done" /\ (disk.status = "suspended" => turn.copy.entries = disk.entries)
    /\ turn.pc = "publish" => disk.status # "suspended"

\* The questions in the slot, in the archive and on their way.
Asked == {q \in Questions : q \in {pending, tail} \/ (reply # None /\ q = reply.seq)}

\* The steps before a question that is asked are recorded, and in the copy too.
Before(q) == {<<h>> : h \in 1..(q[1] - 1)}
AskedInOrder ==
  \A q \in Asked : Before(q) \subseteq Recorded /\ (Loaded => Before(q) \subseteq turn.copy.entries)

\* Who still has to show the outcome.
ToBeShown ==
  disk # None /\ ~lost =>
    /\ disk.status = "suspended" =>
         \/ turn # None /\ turn.pc = "post"
         \/ pending \in Question(disk.entries)
         \/ reply # None /\ reply.step \in {"append", "deny"} /\ reply.seq \in Question(disk.entries)
         \/ phase = "down" /\ tail \in Question(disk.entries)
    /\ disk.status = "done" => shown \/ (turn # None /\ turn.pc = "publish")

Rest == SoundOnDisk /\ CopyIsCurrent /\ AskedInOrder /\ ToBeShown

\* It all holds until a thunk that outlived its turn saves.
RestInv == ~late => Rest

LEMMA RestInit == Init => RestInv
<1> SUFFICES ASSUME Init  PROVE Rest
  BY DEF RestInv
<1>1. None \notin Questions  BY SomeIsNotNone DEF Questions
<1> QED
  BY <1>1 DEF Init, Rest, SoundOnDisk, CopyIsCurrent, AskedInOrder, ToBeShown, Asked, Loaded

\* Nothing that is asked, recorded or copied changes, but for what is no longer
\* asked and what is recorded in addition.
LEMMA AskedKept ==
    ASSUME AskedInOrder, Asked' \subseteq Asked, Recorded \subseteq Recorded',
           Loaded' => \/ Loaded /\ turn.copy.entries \subseteq turn'.copy.entries
                      \/ Recorded \subseteq turn'.copy.entries
    PROVE  AskedInOrder'
BY DEF AskedInOrder

\* A question that is asked is a step of its own, and its prefix is recorded.
LEMMA OpenQuestion ==
    ASSUME NEW E, NEW q \in Question(E)
    PROVE  Before(q) \subseteq E
<1>1. \A h \in 1..(q[1] - 1) : <<h>> \in E  BY QuestionType, ReadyType DEF Reached
<1> QED  BY <1>1 DEF Before

\* The run of the turn in flight goes on, with its copy and perhaps one more
\* entry.
LEMMA ProceedRest ==
    ASSUME TypeInv, Rest, Loaded, turn.pc \in {"activate", "run"},
           NEW j \in Journal, Proceed(j), j.status = turn.copy.status,
           turn.copy.entries \subseteq j.entries,
           turn.pc = "activate" => j = turn.copy,
           UNCHANGED <<slot, reply, past, phase>>
    PROVE  Rest'
<1> USE DEF slot, past
<1>1. /\ Sound(turn.copy) /\ (~crossed => turn.copy.entries = Recorded)
      /\ turn.pc = "run" => turn.copy.status \notin {"suspended", "done"}
  BY DEF Rest, CopyIsCurrent
<1>2. Asked' = Asked  BY DEF Asked
<1>3. CASE /\ disk' \in Journal /\ disk'.entries = j.entries /\ disk'.status = "done"
           /\ Finished(j.entries) /\ turn' = [pc |-> "publish", copy |-> disk']
  <2>1. disk' # None /\ turn' # None /\ Recorded' = j.entries /\ turn'.copy.entries = j.entries
    BY <1>3, SomeIsNotNone DEF Recorded, Turns
  <2>2. Sound(disk')  BY <1>3 DEF Sound
  <2>3. AskedInOrder'  BY <1>2, <2>1 DEF Rest, AskedInOrder
  <2> QED  BY <1>3, <2>1, <2>2, <2>3 DEF Rest, SoundOnDisk, CopyIsCurrent, ToBeShown
<1>4. CASE /\ disk' \in Journal /\ disk'.entries = j.entries /\ disk'.status = "suspended"
           /\ Question(j.entries) # {} /\ turn' = [pc |-> "post", copy |-> disk']
  <2>1. disk' # None /\ turn' # None /\ Recorded' = j.entries /\ turn'.copy.entries = j.entries
    BY <1>4, SomeIsNotNone DEF Recorded, Turns
  <2>2. Sound(disk')  BY <1>4 DEF Sound
  <2>3. AskedInOrder'  BY <1>2, <2>1 DEF Rest, AskedInOrder
  <2> QED  BY <1>4, <2>1, <2>2, <2>3 DEF Rest, SoundOnDisk, CopyIsCurrent, ToBeShown
<1>5. CASE /\ turn' = [pc |-> "run", copy |-> j] /\ ~Finished(j.entries) /\ Question(j.entries) = {}
           /\ disk' = IF turn.pc = "run" THEN j ELSE disk
  <2>1. j # None /\ turn' # None  BY <1>5, SomeIsNotNone DEF Turns
  <2>2. j.status \notin {"suspended", "done"}
    <3>1. CASE turn.pc = "run"  BY <1>1, <3>1
    <3>2. CASE turn.pc = "activate"  BY <1>1, <1>5, <3>2 DEF Sound
    <3> QED  BY <3>1, <3>2
  <2>3. Sound(j)  BY <2>2 DEF Sound
  <2>4. CASE turn.pc = "run"
    <3>1. disk' = j /\ Recorded' = j.entries  BY <1>5, <2>1, <2>4 DEF Recorded
    <3>2. AskedInOrder'  BY <1>2, <1>5, <3>1 DEF Rest, AskedInOrder
    <3> QED  BY <1>5, <2>1, <2>2, <2>3, <3>1, <3>2 DEF Rest, SoundOnDisk, CopyIsCurrent, ToBeShown
  <2>5. CASE turn.pc = "activate"
    <3>1. disk' = disk /\ Recorded' = Recorded /\ j = turn.copy /\ turn'.copy = j
      BY <1>5, <2>5 DEF Recorded
    <3>2. AskedInOrder'  BY <1>2, <3>1 DEF Rest, AskedInOrder
    <3> QED  BY <1>1, <1>5, <2>1, <2>2, <2>3, <2>5, <3>1, <3>2 DEF Rest, SoundOnDisk, CopyIsCurrent, ToBeShown
  <2> QED  BY <2>4, <2>5
<1> QED  BY <1>3, <1>4, <1>5, ProceedCases

LEMMA RestStep == TypeInv /\ RestInv /\ [Next]_vars => RestInv'
<1> SUFFICES ASSUME TypeInv, RestInv, [Next]_vars, ~late'  PROVE Rest'
  BY DEF RestInv
<1>0. ~late /\ Rest
  <2>1. late' = late \/ late' = TRUE
    BY DEF Next, Inside, Agent, Trigger, Drain, LoadJournal, Activate, ActivationFails, CallReturns,
       CallFails, Publish, PostQuestion, Answer, Deny, Respond, JournalAnswer, EnqueueResume, JournalDenial,
       CancelTurn, OrphanReturns, Crash, Restart, ScanWorkflows, ChatBegins, ChatRow, ChatEnds, AgentAsks,
       AnswerAgent, AskerWakes, StartDies, past, vars
  <2>2. ~late  BY <2>1
  <2> QED  BY <2>2 DEF RestInv
<1>a. /\ SoundOnDisk /\ CopyIsCurrent /\ AskedInOrder /\ ToBeShown
  BY <1>0 DEF Rest
<1>b. AgentRequest \notin Questions /\ None \notin Questions /\ AgentRequest # None
      /\ \A E : Question(E) \subseteq Questions
  BY SomeIsNotNone, QuestionType DEF Questions
<1> USE DEF slot, past
<1>1. CASE Trigger
  <2>1. /\ turn' = turn \/ ~Loaded'
        /\ disk' = disk /\ pending' = pending /\ tail' = None /\ reply' = reply /\ phase' = phase
        /\ phase = "up" /\ shown' = shown /\ lost' = lost /\ crossed' = crossed
        /\ turn # None => turn' = turn
    BY <1>1, BareType DEF Trigger, Enqueue, Loaded
  <2>2. Asked' \subseteq Asked /\ Recorded' = Recorded  BY <1>b, <2>1 DEF Asked, Recorded
  <2>3. AskedInOrder'  BY <1>a, <2>1, <2>2, AskedKept DEF Loaded
  <2>4. CopyIsCurrent'  BY <1>a, <2>1, <2>2 DEF CopyIsCurrent, Loaded
  <2>5. ToBeShown'  BY <1>a, <2>1 DEF ToBeShown
  <2> QED  BY <1>a, <2>1, <2>3, <2>4, <2>5 DEF Rest, SoundOnDisk
<1>2. CASE Drain \/ ChatBegins \/ StartDies \/ ChatRow \/ ChatEnds
  <2>1. /\ ~Loaded' /\ (turn = None \/ turn.pc \notin {"post", "publish"})
        /\ phase # "down" /\ tail' \in {tail, None}
        /\ UNCHANGED <<disk, pending, reply, shown, lost, crossed, phase>>
    <3>1. CASE Drain  BY <3>1, BareType DEF Drain, Live, Loaded
    <3>2. CASE ChatBegins  BY <3>2, BareType DEF ChatBegins, Live, Loaded
    <3>3. CASE StartDies  BY <3>3, BareType DEF StartDies, At, Live, Loaded
    <3>4. CASE ChatRow  BY <3>4, BareType DEF ChatRow, At, Live, Loaded
    <3>5. CASE ChatEnds  BY <3>5 DEF ChatEnds, At, Live, Loaded
    <3> QED  BY <1>2, <3>1, <3>2, <3>3, <3>4, <3>5
  <2>2. Asked' \subseteq Asked /\ Recorded' = Recorded  BY <1>b, <2>1 DEF Asked, Recorded
  <2>3. AskedInOrder'  BY <1>a, <2>1, <2>2, AskedKept
  <2>4. ToBeShown'  BY <1>a, <2>1 DEF ToBeShown
  <2> QED  BY <1>a, <2>1, <2>3, <2>4 DEF Rest, SoundOnDisk, CopyIsCurrent
<1>4. CASE LoadJournal
  <2>1. /\ turn' = [pc |-> "activate", copy |-> IF disk = None THEN Fresh ELSE disk]
        /\ UNCHANGED <<disk, pending, tail, reply, shown, phase, lost, crossed>>
        /\ turn # None /\ turn.pc = "start" /\ turn' # None
    BY <1>4, FreshType, SomeIsNotNone DEF LoadJournal, At, Turns, TypeInv, TypeOK
  <2>2. turn'.copy.entries = Recorded /\ Recorded' = Recorded  BY <2>1, FreshType DEF Recorded
  <2>3. Sound(turn'.copy)  BY <1>a, <2>1 DEF SoundOnDisk, Sound, Fresh
  <2>4. Asked' = Asked  BY <2>1 DEF Asked
  <2>5. AskedInOrder'  BY <1>a, <2>2, <2>4, AskedKept
  <2>6. CopyIsCurrent'  BY <2>1, <2>2, <2>3 DEF CopyIsCurrent
  <2>7. ToBeShown'  BY <1>a, <2>1 DEF ToBeShown
  <2> QED  BY <1>a, <2>1, <2>5, <2>6, <2>7 DEF Rest, SoundOnDisk
<1>5. CASE Activate
  <2>1. turn.copy \in Journal /\ Proceed(turn.copy) /\ Loaded /\ turn.pc = "activate"
    BY <1>5, CopyType DEF Activate, At, Loaded
  <2>2. UNCHANGED <<slot, reply, past, phase>>  BY <1>5 DEF Activate
  <2> QED  BY <1>0, <2>1, <2>2, ProceedRest
<1>6. CASE ActivationFails \/ CallFails
  <2>1. /\ Loaded /\ turn.copy \in Journal /\ disk' = [turn.copy EXCEPT !.status = "error"] /\ turn' = None
        /\ UNCHANGED <<pending, tail, reply, shown, phase, lost>>
    BY <1>6, CopyType DEF ActivationFails, CallFails, At, Loaded, TurnEnds
  <2>2. disk' \in Journal /\ disk'.status = "error" /\ disk'.entries = turn.copy.entries /\ disk' # None
    BY <2>1, JournalSaved, SomeIsNotNone DEF Statuses
  <2>3. Asked' = Asked /\ Recorded' = turn.copy.entries /\ ~Loaded'
    BY <2>1, <2>2 DEF Asked, Recorded, Loaded
  <2>4. AskedInOrder'  BY <1>a, <2>1, <2>3 DEF AskedInOrder
  <2> QED  BY <2>2, <2>3, <2>4 DEF Rest, SoundOnDisk, Sound, CopyIsCurrent, ToBeShown
<1>7. CASE CallReturns
  <2>1. turn.copy \in Journal /\ Loaded /\ turn.pc = "run"  BY <1>7, CopyType DEF CallReturns, At, Loaded
  <2>2. PICK p \in Back(turn.copy.entries) : Proceed([turn.copy EXCEPT !.entries = @ \cup {p}])
    BY <1>7 DEF CallReturns
  <2>3. p \in Positions  BY <2>2, ReadyType DEF Back, Calls
  <2> DEFINE j == [turn.copy EXCEPT !.entries = @ \cup {p}]
  <2>4. j \in Journal /\ j.status = turn.copy.status /\ Proceed(j) /\ turn.copy.entries \subseteq j.entries
    BY <2>1, <2>2, <2>3, JournalSaved
  <2>5. UNCHANGED <<slot, reply, past, phase>>  BY <1>7 DEF CallReturns
  <2> HIDE DEF j
  <2> QED  BY <1>0, <2>1, <2>4, <2>5, ProceedRest
<1>8. CASE Publish
  <2>1. /\ Loaded /\ turn.pc = "publish" /\ turn' = None /\ shown' = TRUE
        /\ UNCHANGED <<disk, pending, tail, reply, phase>>
    BY <1>8 DEF Publish, TurnEnds, At, Loaded
  <2>2. disk.status # "suspended"  BY <1>a, <2>1 DEF CopyIsCurrent
  <2>3. Asked' = Asked /\ Recorded' = Recorded /\ ~Loaded'  BY <2>1 DEF Asked, Recorded, Loaded
  <2>4. AskedInOrder'  BY <1>a, <2>3, AskedKept
  <2> QED  BY <1>a, <2>1, <2>2, <2>3, <2>4 DEF Rest, SoundOnDisk, CopyIsCurrent, ToBeShown
<1>9. CASE PostQuestion
  <2>1. /\ Loaded /\ turn.pc = "post" /\ turn' = None /\ UNCHANGED <<disk, reply, phase, shown>>
        /\ ~Loaded' /\ disk # None
        /\ disk.status # "done" /\ (disk.status = "suspended" => turn.copy.entries = disk.entries)
    BY <1>9, <1>a DEF PostQuestion, TurnEnds, At, Loaded, CopyIsCurrent, TypeInv
  <2>2. CASE pending = None
    <3>1. PICK q \in Question(turn.copy.entries) : pending' = q /\ tail' = q
      BY <1>9, <2>2 DEF PostQuestion
    <3>2. Before(q) \subseteq turn.copy.entries  BY OpenQuestion
    <3>3. Before(q) \subseteq Recorded  BY <1>a, <2>1, <3>2 DEF CopyIsCurrent
    <3>4. Asked' \subseteq Asked \cup {q} /\ Recorded' = Recorded
      BY <2>1, <2>2, <3>1, <1>b DEF Asked, Recorded
    <3>5. AskedInOrder'  BY <1>a, <2>1, <3>3, <3>4 DEF AskedInOrder
    <3>6. ToBeShown'  BY <2>1, <3>1 DEF ToBeShown
    <3> QED  BY <1>a, <2>1, <3>5, <3>6 DEF Rest, SoundOnDisk, CopyIsCurrent
  <2>3. CASE pending # None
    <3>1. pending' = pending /\ tail' = tail /\ (lost' = (lost \/ pending \notin Question(turn.copy.entries)))
      BY <1>9, <2>3 DEF PostQuestion
    <3>2. Asked' = Asked /\ Recorded' = Recorded  BY <2>1, <3>1 DEF Asked, Recorded
    <3>3. AskedInOrder'  BY <1>a, <2>1, <3>2, AskedKept
    <3> QED  BY <1>a, <2>1, <3>1, <3>3 DEF Rest, SoundOnDisk, CopyIsCurrent, ToBeShown
  <2> QED  BY <2>2, <2>3
<1>10. CASE Answer \/ Deny
  <2>1. PICK s \in {"append", "deny"} : Respond(s)  BY <1>10 DEF Answer, Deny
  <2>2. /\ pending \in Questions /\ pending \in Positions /\ reply' = [seq |-> pending, step |-> s]
        /\ reply = None /\ pending' = None /\ tail' = None /\ phase = "up"
        /\ UNCHANGED <<disk, turn, shown, phase, lost, crossed>>
    BY <2>1 DEF Respond, TypeInv, TypeOK, Questions
  <2>3. reply' # None /\ reply'.seq = pending /\ reply'.step \in {"append", "deny"}
    BY <2>1, <2>2, SomeIsNotNone DEF Replies
  <2>4. Asked' \subseteq Asked /\ Recorded' = Recorded  BY <1>b, <2>2, <2>3 DEF Asked, Recorded
  <2>5. AskedInOrder'  BY <1>a, <2>2, <2>4, AskedKept DEF Loaded
  <2>6. CopyIsCurrent'  BY <1>a, <2>2, <2>4 DEF CopyIsCurrent, Loaded
  <2>7. ToBeShown'  BY <1>a, <2>2, <2>3 DEF ToBeShown
  <2> QED  BY <1>a, <2>2, <2>5, <2>6, <2>7 DEF Rest, SoundOnDisk
<1>11. CASE JournalAnswer
  <2>1. /\ reply \in Replies /\ reply # None /\ reply.step = "append" /\ disk \in Journal /\ disk # None
        /\ reply.seq \in Questions /\ reply.seq \in Positions
        /\ UNCHANGED <<turn, tail, shown, phase, lost>> /\ phase # "down"
    BY <1>11 DEF JournalAnswer, Live, TypeInv, TypeOK, Questions
  <2>2. CASE reply.seq \notin disk.entries
    <3>1. /\ disk' = [disk EXCEPT !.entries = @ \cup {reply.seq}, !.status = "running"]
          /\ reply' = [reply EXCEPT !.step = "enqueue"] /\ pending' = pending
          /\ crossed' = (crossed \/ (turn # None /\ turn.copy # None))
      BY <1>11, <2>2 DEF JournalAnswer
    <3>2. disk' \in Journal /\ disk'.status = "running" /\ disk'.entries = disk.entries \cup {reply.seq}
      BY <2>1, <3>1 DEF Journal, Statuses
    <3>3. disk' # None  BY <3>2, SomeIsNotNone
    <3>4. reply' \in Replies /\ reply'.seq = reply.seq  BY <2>1, <3>1 DEF Replies
    <3>5. Asked' \subseteq Asked /\ Recorded \subseteq Recorded'
      BY <2>1, <3>1, <3>2, <3>3, <3>4 DEF Asked, Recorded
    <3>6. AskedInOrder'  BY <1>a, <2>1, <3>5, AskedKept DEF Loaded
    <3>7. CopyIsCurrent'
      <4>1. Loaded => crossed'  BY <3>1, CopyType DEF Loaded
      <4> QED  BY <1>a, <2>1, <3>2, <3>5, <4>1 DEF CopyIsCurrent, Loaded
    <3> QED  BY <3>2, <3>6, <3>7 DEF Rest, SoundOnDisk, Sound, ToBeShown
  <2>3. CASE reply.seq \in disk.entries
    <3>1. pending' \in {pending, reply.seq} /\ (pending # None => pending' = pending)
          /\ reply' = None /\ disk' = disk /\ crossed' = crossed
      BY <1>11, <2>3 DEF JournalAnswer
    <3>2. reply.seq \notin Question(disk.entries)  BY <2>3, QuestionType
    <3>3. Asked' \subseteq Asked /\ Recorded' = Recorded  BY <2>1, <3>1 DEF Asked, Recorded
    <3>4. AskedInOrder'  BY <1>a, <2>1, <3>3, AskedKept DEF Loaded
    <3>5. CopyIsCurrent'  BY <1>a, <2>1, <3>1, <3>3 DEF CopyIsCurrent, Loaded
    <3>6. ToBeShown'  BY <1>a, <1>b, <2>1, <3>1, <3>2 DEF ToBeShown
    <3> QED  BY <1>a, <3>1, <3>4, <3>5, <3>6 DEF Rest, SoundOnDisk
  <2> QED  BY <2>2, <2>3
<1>12. CASE EnqueueResume
  <2>1. /\ turn' = turn \/ ~Loaded'
        /\ turn # None => turn' = turn
        /\ pending' = pending \/ (pending = None /\ pending' = AgentRequest)
        /\ reply # None /\ reply.step = "enqueue" /\ reply' = None /\ phase # "down"
        /\ UNCHANGED <<disk, tail, shown, phase, lost, crossed>>
    BY <1>12, BareType DEF EnqueueResume, Enqueue, Promote, Live, Loaded
  <2>2. Asked' \subseteq Asked /\ Recorded' = Recorded  BY <1>b, <2>1 DEF Asked, Recorded
  <2>3. AskedInOrder'  BY <1>a, <2>1, <2>2, AskedKept DEF Loaded
  <2>4. CopyIsCurrent'  BY <1>a, <2>1, <2>2 DEF CopyIsCurrent, Loaded
  <2>5. ToBeShown'  BY <1>a, <1>b, <2>1 DEF ToBeShown
  <2> QED  BY <1>a, <2>1, <2>3, <2>4, <2>5 DEF Rest, SoundOnDisk
<1>13. CASE JournalDenial
  <2>1. /\ pending' = pending \/ (pending = None /\ pending' = AgentRequest)
        /\ reply # None /\ reply' = None /\ disk \in Journal /\ disk' = [disk EXCEPT !.status = "error"]
        /\ UNCHANGED <<turn, tail, crossed>>
    BY <1>13 DEF JournalDenial, Promote, TypeInv, TypeOK
  <2>2. disk' \in Journal /\ disk'.status = "error" /\ disk'.entries = disk.entries /\ disk' # None /\ disk # None
    BY <2>1, JournalSaved, SomeIsNotNone DEF Statuses
  <2>3. Asked' \subseteq Asked /\ Recorded' = Recorded  BY <1>b, <2>1, <2>2 DEF Asked, Recorded
  <2>4. AskedInOrder'  BY <1>a, <2>1, <2>3, AskedKept DEF Loaded
  <2>5. CopyIsCurrent'  BY <1>a, <2>1, <2>2, <2>3 DEF CopyIsCurrent, Loaded
  <2> QED  BY <2>2, <2>4, <2>5 DEF Rest, SoundOnDisk, Sound, ToBeShown
<1>14. CASE CancelTurn
  <2>1. /\ turn # None /\ turn' = None /\ UNCHANGED <<disk, pending, tail, reply, shown, phase>>
        /\ lost' = (lost \/ turn.pc \in {"publish", "post"})
    BY <1>14 DEF CancelTurn, TurnEnds
  <2>2. Asked' = Asked /\ Recorded' = Recorded /\ ~Loaded'  BY <2>1 DEF Asked, Recorded, Loaded
  <2>3. AskedInOrder'  BY <1>a, <2>2, AskedKept
  <2>4. ToBeShown'  BY <1>a, <2>1 DEF ToBeShown
  <2> QED  BY <1>a, <2>1, <2>2, <2>3, <2>4 DEF Rest, SoundOnDisk, CopyIsCurrent
<1>15. CASE OrphanReturns
  BY <1>15 DEF OrphanReturns
<1>16. CASE Crash
  <2>1. /\ phase' = "down" /\ turn' = None /\ pending' = None /\ reply' = None
        /\ UNCHANGED <<disk, tail, shown>>
        /\ lost' = \/ lost \/ (turn # None /\ turn.pc = "publish")
                    \/ (disk # None /\ disk.status = "suspended" /\ tail \notin Question(disk.entries))
    BY <1>16 DEF Crash, TurnEnds, At, Live
  <2>2. Asked' \subseteq Asked /\ Recorded' = Recorded /\ ~Loaded'
    BY <1>b, <2>1 DEF Asked, Recorded, Loaded
  <2>3. AskedInOrder'  BY <1>a, <2>2, AskedKept
  <2>4. ToBeShown'  BY <1>a, <2>1 DEF ToBeShown
  <2> QED  BY <1>a, <2>1, <2>2, <2>3, <2>4 DEF Rest, SoundOnDisk, CopyIsCurrent
<1>17. CASE Restart
  <2>1. /\ phase = "down" /\ phase' = "scan" /\ pending' \in {tail, None} /\ tail' = pending'
        /\ lost' = (lost \/ pending' # tail) /\ turn = None /\ reply = None
        /\ UNCHANGED <<turn, disk, reply, shown>>
    BY <1>17 DEF Restart, TypeInv
  <2>2. Asked' \subseteq Asked /\ Recorded' = Recorded /\ ~Loaded'
    BY <1>b, <2>1 DEF Asked, Recorded, Loaded
  <2>3. AskedInOrder'  BY <1>a, <2>2, AskedKept
  <2>4. ToBeShown'
    <3>1. ASSUME ~lost', disk # None, disk.status = "suspended"
          PROVE  pending' \in Question(disk.entries)
      <4>1. ~lost /\ pending' = tail  BY <2>1, <3>1
      <4>2. pending \in Question(disk.entries) \/ tail \in Question(disk.entries)
        <5>1. ~(turn # None /\ (turn.pc = "post" \/ turn.pc = "publish"))  BY <2>1
        <5>2. ~(reply # None /\ reply.seq \in Question(disk.entries))  BY <2>1
        <5> QED  BY <1>a, <2>1, <3>1, <4>1, <5>1, <5>2 DEF ToBeShown
      <4>3. pending \notin Question(disk.entries)  BY <1>b, <2>1 DEF TypeInv
      <4> QED  BY <4>1, <4>2, <4>3
    <3> QED  BY <1>a, <2>1, <3>1 DEF ToBeShown
  <2> QED  BY <1>a, <2>1, <2>2, <2>3, <2>4 DEF Rest, SoundOnDisk, CopyIsCurrent
<1>18. CASE ScanWorkflows
  <2>1. /\ turn' = turn \/ ~Loaded'
        /\ turn # None => turn' = turn
        /\ phase = "scan" /\ phase' = "up"
        /\ UNCHANGED <<pending, tail, reply, shown, lost, crossed>>
    BY <1>18, BareType DEF ScanWorkflows, Enqueue, Loaded
  <2>2. CASE disk' = disk
    <3>1. Asked' = Asked /\ Recorded' = Recorded  BY <2>1, <2>2 DEF Asked, Recorded
    <3>2. AskedInOrder'  BY <1>a, <2>1, <3>1, AskedKept DEF Loaded
    <3>3. CopyIsCurrent'  BY <1>a, <2>1, <2>2, <3>1 DEF CopyIsCurrent, Loaded
    <3>4. ToBeShown'  BY <1>a, <2>1, <2>2 DEF ToBeShown
    <3> QED  BY <1>a, <2>2, <3>2, <3>3, <3>4 DEF Rest, SoundOnDisk
  <2>3. CASE /\ disk # None /\ disk.status = "running"
             /\ \/ disk' = [disk EXCEPT !.status = "error"]
                \/ disk' = [disk EXCEPT !.attempts = @ + 1] /\ disk.attempts < Cap
    <3>1. disk'.status \in {"error", "running"} /\ disk'.entries = disk.entries /\ disk' # None
      <4>1. disk \in Journal  BY <2>3 DEF TypeInv, TypeOK
      <4>2. CASE disk' = [disk EXCEPT !.status = "error"]
        BY <4>1, <4>2, JournalSaved, SomeIsNotNone DEF Statuses
      <4>3. CASE disk' = [disk EXCEPT !.attempts = @ + 1]
        <5>1. disk' \in Journal  BY <2>3, <4>1, <4>3, BoundAssumption DEF Journal
        <5> QED  BY <2>3, <4>1, <4>3, <5>1, SomeIsNotNone DEF Journal
      <4> QED  BY <2>3, <4>2, <4>3
    <3>2. Asked' = Asked /\ Recorded' = Recorded  BY <2>1, <2>3, <3>1 DEF Asked, Recorded
    <3>3. AskedInOrder'  BY <1>a, <2>1, <3>2, AskedKept DEF Loaded
    <3>4. CopyIsCurrent'  BY <1>a, <2>1, <3>1, <3>2 DEF CopyIsCurrent, Loaded
    <3> QED  BY <3>1, <3>3, <3>4 DEF Rest, SoundOnDisk, Sound, ToBeShown
  <2> QED  BY <1>18, <2>2, <2>3 DEF ScanWorkflows
<1>19. CASE AgentAsks \/ AnswerAgent \/ AskerWakes
  <2>1. /\ pending' \in {pending, None, AgentRequest} /\ tail' \in {tail, None, AgentRequest}
        /\ pending' # pending => pending \notin Questions \/ lost'
        /\ lost => lost'
        /\ phase # "down" /\ UNCHANGED <<disk, turn, reply, shown, phase, crossed>>
    <3>1. CASE AgentAsks  BY <3>1, <1>b DEF AgentAsks, Live
    <3>2. CASE AnswerAgent  BY <3>2, <1>b DEF AnswerAgent, Promote
    <3>3. CASE AskerWakes  BY <3>3, <1>b DEF AskerWakes, Live
    <3> QED  BY <1>19, <3>1, <3>2, <3>3
  <2>2. Asked' \subseteq Asked /\ Recorded' = Recorded  BY <1>b, <2>1 DEF Asked, Recorded
  <2>3. AskedInOrder'  BY <1>a, <2>1, <2>2, AskedKept DEF Loaded
  <2>4. CopyIsCurrent'  BY <1>a, <2>1, <2>2 DEF CopyIsCurrent, Loaded
  <2>5. ToBeShown'  BY <1>a, <1>b, <2>1 DEF ToBeShown
  <2> QED  BY <1>a, <2>1, <2>3, <2>4, <2>5 DEF Rest, SoundOnDisk
<1>20. CASE UNCHANGED vars
  BY <1>a, <1>20 DEF vars, Rest, SoundOnDisk, CopyIsCurrent, AskedInOrder, ToBeShown, Asked, Recorded, Loaded
<1> QED
  BY <1>1, <1>2, <1>4, <1>5, <1>6, <1>7, <1>8, <1>9, <1>10, <1>11, <1>12, <1>13, <1>14, <1>15,
     <1>16, <1>17, <1>18, <1>19, <1>20 DEF Next, Inside, Agent

LEMMA RestShows == RestInv => OutcomeIsShown
BY DEF RestInv, Rest, ToBeShown, OutcomeIsShown, AtRest

LEMMA RestCorrect == Spec => [](TypeInv /\ RestInv)
<1>1. TypeInv /\ RestInv /\ [Next]_vars => RestInv'  BY RestStep
<1> QED  BY <1>1, TypeInit, TypeStep, RestInit, PTL DEF Spec

\* Whenever no WORKFLOW turn is under way the outcome is where the user sees it:
\* a suspended workflow has its open question in the slot, a finished one its
\* artifact in the archive, for any script, any number of commands, chat turns,
\* cancellations and crashes, but for what the exceptions of the property name.
THEOREM OutcomeShown == Spec => []OutcomeIsShown
BY RestCorrect, RestShows, PTL

-----------------------------------------------------------------------------
(* What is recorded is kept                                                *)

\* the step keeps every entry, and leaves no hole where there was none
Keeps ==
  disk # None /\ ~late' /\ ~crossed =>
    /\ disk' # None /\ disk.entries \subseteq disk'.entries
    /\ Replayable(disk.entries) => Replayable(disk'.entries)

\* An answer to a question whose prefix is recorded leaves no hole.
LEMMA AnsweringReplays ==
    ASSUME NEW E, Replayable(E), NEW q \in Questions, Before(q) \subseteq E
    PROVE  Replayable(E \cup {q})
<1>1. q[1] \in DOMAIN Script /\ q = <<q[1]>> /\ BranchCalls(q[1]) = {}
  <2>1. PICK i \in DOMAIN Script : q = <<i>> \/ q \in BranchCalls(i)  BY DEF Questions, Positions
  <2>2. q[1] = i  BY <2>1, BranchCall
  <2>3. Script[i].width = << >>  BY <2>2, ScriptAssumption DEF Questions
  <2>4. BranchCalls(i) = {}
    <3> SUFFICES ASSUME NEW y \in BranchCalls(i)  PROVE FALSE
      OBVIOUS
    <3>1. PICK b \in DOMAIN Script[i].width : TRUE  BY BranchCall
    <3> QED  BY <2>3, <3>1
  <2> QED  BY <2>1, <2>2, <2>4
<1>2. Len(q) = 1
  <2>1. Len(<<q[1]>>) = 1  OBVIOUS
  <2> QED  BY <1>1, <2>1
<1> SUFFICES ASSUME NEW p \in E \cup {q}
             PROVE  /\ \A h \in 1..(p[1] - 1) : <<h>> \in E \cup {q}
                    /\ Len(p) = 1 => BranchCalls(p[1]) \subseteq E \cup {q}
                    /\ Len(p) = 3 => \A k \in 1..(p[3] - 1) : <<p[1], p[2], k>> \in E \cup {q}
  BY DEF Replayable
<1>3. CASE p \in E  BY <1>3 DEF Replayable
<1>4. CASE p = q  BY <1>1, <1>2, <1>4 DEF Before
<1> QED  BY <1>3, <1>4

LEMMA KeepsStep == TypeInv /\ RestInv /\ [Next]_vars => Keeps
<1> SUFFICES ASSUME TypeInv, RestInv, [Next]_vars, disk # None, ~late', ~crossed
             PROVE  /\ disk' # None /\ disk.entries \subseteq disk'.entries
                    /\ Replayable(disk.entries) => Replayable(disk'.entries)
  BY DEF Keeps
<1>0. ~late /\ disk \in Journal /\ CopyIsCurrent /\ AskedInOrder
  <2>1. late' = late \/ late' = TRUE
    BY DEF Next, Inside, Agent, Trigger, Drain, LoadJournal, Activate, ActivationFails, CallReturns,
       CallFails, Publish, PostQuestion, Answer, Deny, Respond, JournalAnswer, EnqueueResume, JournalDenial,
       CancelTurn, OrphanReturns, Crash, Restart, ScanWorkflows, ChatBegins, ChatRow, ChatEnds, AgentAsks,
       AnswerAgent, AskerWakes, StartDies, past, vars
  <2>2. ~late  BY <2>1
  <2> QED  BY <2>2 DEF RestInv, Rest, TypeInv, TypeOK
<1>a. Recorded = disk.entries  BY DEF Recorded
<1>1. CASE \/ Trigger \/ Drain \/ LoadJournal \/ Publish \/ PostQuestion \/ Answer \/ Deny
           \/ EnqueueResume \/ CancelTurn \/ Crash \/ Restart \/ StartDies \/ Agent \/ UNCHANGED vars
  <2>1. disk' = disk
    BY <1>1 DEF Trigger, Drain, LoadJournal, Publish, PostQuestion, Answer, Deny, Respond,
       EnqueueResume, CancelTurn, Crash, Restart, StartDies, Agent, ChatBegins, ChatRow, ChatEnds, AgentAsks,
       AnswerAgent, AskerWakes, vars
  <2> QED  BY <2>1
<1>2. CASE Activate
  <2>1. Loaded /\ turn.copy \in Journal /\ Proceed(turn.copy)  BY <1>2, CopyType DEF Activate, At, Loaded
  <2>2. turn.copy.entries = disk.entries  BY <1>0, <1>a, <2>1 DEF CopyIsCurrent
  <2>3. disk' # None /\ disk'.entries = disk.entries
    BY <1>2, <2>1, <2>2, ProceedCases, SomeIsNotNone DEF Activate, At
  <2> QED  BY <2>3
<1>3. CASE ActivationFails \/ CallFails
  <2>1. /\ Loaded /\ turn.copy \in Journal /\ disk' = [turn.copy EXCEPT !.status = "error"]
    BY <1>3, CopyType DEF ActivationFails, CallFails, At, Loaded
  <2>2. turn.copy.entries = disk.entries  BY <1>0, <1>a, <2>1 DEF CopyIsCurrent
  <2>3. disk' \in Journal /\ disk'.entries = disk.entries
    BY <2>1, <2>2, JournalSaved DEF Statuses
  <2>4. disk' # None  BY <2>3, SomeIsNotNone
  <2> QED  BY <2>3, <2>4
<1>4. CASE CallReturns
  <2>1. turn.copy \in Journal /\ Loaded /\ turn.pc = "run"  BY <1>4, CopyType DEF CallReturns, At, Loaded
  <2>2. turn.copy.entries = disk.entries  BY <1>0, <1>a, <2>1 DEF CopyIsCurrent
  <2>3. PICK p \in Back(turn.copy.entries) : Proceed([turn.copy EXCEPT !.entries = @ \cup {p}])
    BY <1>4 DEF CallReturns
  <2>4. p \in Ready(disk.entries) /\ p \in Positions  BY <2>2, <2>3, ReadyType DEF Back, Calls
  <2> DEFINE j == [turn.copy EXCEPT !.entries = @ \cup {p}]
  <2>5. j \in Journal /\ j.entries = disk.entries \cup {p} /\ Proceed(j)
    BY <2>1, <2>2, <2>3, <2>4, JournalSaved
  <2>6. disk' # None /\ disk'.entries = j.entries
    <3> HIDE DEF j
    <3> QED  BY <2>1, <2>5, ProceedCases, SomeIsNotNone
  <2>7. Replayable(disk.entries) => Replayable(disk.entries \cup {p})  BY <2>4, RecordingReplays
  <2> QED  BY <2>5, <2>6, <2>7
<1>5. CASE JournalAnswer
  <2>1. /\ reply # None /\ reply \in Replies /\ reply.seq \in Questions /\ reply.seq \in Positions
    BY <1>5 DEF JournalAnswer, TypeInv, TypeOK, Questions
  <2>2. Before(reply.seq) \subseteq disk.entries  BY <1>0, <1>a, <2>1 DEF AskedInOrder, Asked
  <2>3. CASE disk' = disk  BY <2>3
  <2>4. CASE disk' = [disk EXCEPT !.entries = @ \cup {reply.seq}, !.status = "running"]
    <3>1. disk'.entries = disk.entries \cup {reply.seq} /\ disk' \in Journal
      BY <1>0, <2>1, <2>4 DEF Journal, Statuses
    <3>2. Replayable(disk.entries) => Replayable(disk.entries \cup {reply.seq})
      BY <2>1, <2>2, AnsweringReplays
    <3> QED  BY <3>1, <3>2, SomeIsNotNone
  <2> QED  BY <1>5, <2>3, <2>4 DEF JournalAnswer
<1>6. CASE JournalDenial
  <2>1. disk'.entries = disk.entries /\ disk' \in Journal
    BY <1>0, <1>6, JournalSaved DEF JournalDenial, Statuses
  <2> QED  BY <2>1, SomeIsNotNone
<1>7. CASE OrphanReturns
  BY <1>7 DEF OrphanReturns
<1>8. CASE ScanWorkflows
  <2>1. CASE disk' = disk  BY <2>1
  <2>2. CASE disk' = [disk EXCEPT !.status = "error"]
    <3>1. disk'.entries = disk.entries /\ disk' \in Journal
      BY <1>0, <2>2, JournalSaved DEF Statuses
    <3> QED  BY <3>1, SomeIsNotNone
  <2>3. CASE disk' = [disk EXCEPT !.attempts = @ + 1] /\ disk.attempts < Cap
    <3>1. disk'.entries = disk.entries /\ disk' \in Journal
      BY <1>0, <2>3, BoundAssumption DEF Journal
    <3> QED  BY <3>1, SomeIsNotNone
  <2> QED  BY <1>8, <2>1, <2>2, <2>3 DEF ScanWorkflows
<1> QED
  BY <1>1, <1>2, <1>3, <1>4, <1>5, <1>6, <1>7, <1>8 DEF Next, Inside

\* No save loses an entry of the journal, and none leaves a hole in it: a call
\* that is recorded is never made again, for any script and any number of
\* commands, chat turns, crashes, restarts and cancellations; but for a turn
\* beside which an answer was journaled, and until a thunk that outlived its
\* turn saves.
THEOREM RecordsKept == Spec => RecordedIsKept
<1>1. TypeInv /\ RestInv /\ [Next]_vars => [Keeps]_vars  BY KeepsStep
<1>2. [Keeps]_vars <=>
        [disk # None /\ ~late' /\ ~crossed =>
           /\ disk' # None /\ disk.entries \subseteq disk'.entries
           /\ Replayable(disk.entries) => Replayable(disk'.entries)]_vars
  BY DEF Keeps
<1> QED  BY <1>1, <1>2, RestCorrect, PTL DEF Spec, RecordedIsKept

-----------------------------------------------------------------------------
(* The pages of the web client: WebChat *)

\* bounds are numbers
ChatBounds == {MaxRounds, MaxPieces, MaxOpens} \subseteq Nat

ChatFunctions ==
    /\ shows = [p \in Pages |-> shows[p]] /\ DOMAIN shows = Pages
    /\ loading = [p \in Pages |-> loading[p]] /\ DOMAIN loading = Pages

\* a round has one row, and none while it is being streamed
ByRound ==
    /\ \A p \in streamed : p[1] = round
    /\ \A row \in rows : row.round <= round /\ (doing \in {"idle", "streaming"} => row.round < round)
    /\ \A row, other \in rows : row.round = other.round => row = other
    /\ doing = "idle" <=> round = 0
    /\ doing = "answered" => [round |-> round, text |-> streamed] \in rows

\* one round at a time waits to be forwarded, and nothing is streamed over it
OneForward ==
    /\ \A r \in forwards : \E row \in rows : row.round = r
    /\ \A r, s \in forwards : r = s
    /\ doing \in {"idle", "answered", "done"} => forwards = {}
    /\ doing = "streaming" /\ streamed # {} => forwards = {}

\* what a socket that is not about to clear it has collected is of one round:
\* the one in flight, or the one that waits to be forwarded
Buffered ==
    \A p \in Pages \ clearing :
        /\ doing \in {"idle", "completing", "done"} => buffer[p] = {}
        /\ doing \in {"streaming", "answered"} /\ forwards = {} => buffer[p] \subseteq streamed
        /\ doing = "tools" /\ forwards = {} => buffer[p] = {}
        /\ \A row \in rows : row.round \in forwards => buffer[p] \subseteq row.text

\* the page shows the row, or never will in full, or an event is on its way
Comes(p, row) ==
    \/ row \in shows[p] \/ <<p, row.round>> \in partial \/ row.round \in forwards
    \/ doing = "answered" /\ row.round = round

\* nothing falls between the history of a page and the events
Coming ==
    \A p \in Pages :
        /\ loading[p] # Web!NoHistory => p \in stream
        /\ \A row \in rows :
            /\ p \in loaded => Comes(p, row)
            /\ loading[p] # Web!NoHistory => row \in loading[p] \/ Comes(p, row)

\* what was streamed has its row, is in flight, or was cut off
Unkept == unsaid \cup IF doing = "streaming" THEN streamed ELSE {}
Texts == UNION {row.text : row \in rows}
Saved ==
    /\ doing \in {"idle", "streaming", "tools", "answered"} => unsaid = {}
    /\ turnText \ Unkept \subseteq Texts

ChatInv == Web!TypeOK /\ ChatFunctions /\ ByRound /\ OneForward /\ Buffered /\ Coming /\ Saved

\* the steps of a page's socket
OfSocket(p) ==
    Web!Cleared(p) \/ Web!Select(p) \/ Web!Load(p) \/ Web!HistorySent(p) \/ Web!Disconnect(p)

LEMMA ChatStarts == ASSUME ChatBounds PROVE Web!Init => ChatInv
<1> USE DEF ChatBounds, Web!Init
<1>1. ASSUME Web!Init  PROVE Web!TypeOK
  <2>1. buffer \in [Pages -> SUBSET turnText] /\ forwards \subseteq 1..round  BY <1>1
  <2>2. clearing \cup loaded \subseteq stream /\ stream \subseteq Pages /\ opens \in 0..MaxOpens
        /\ round \in 0..MaxRounds
    BY <1>1
  <2>3. /\ \A p \in Pages : /\ shows[p] \subseteq Web!Row
                            /\ loading[p] = Web!NoHistory \/ loading[p] \subseteq rows
                            /\ p \notin stream => buffer[p] = {}
    BY <1>1
  <2> QED  BY <1>1, <2>1, <2>2, <2>3 DEF Web!TypeOK
<1>2. Web!Init => ChatFunctions /\ ByRound /\ OneForward /\ Buffered
  BY DEF ChatFunctions, ByRound, OneForward, Buffered
<1>3. Web!Init => Coming /\ Saved  BY DEF Coming, Comes, Saved, Unkept, Texts
<1> QED  BY <1>1, <1>2, <1>3 DEF ChatInv

LEMMA ChatCardinality == \A S : Web!Cardinality(S) = Cardinality(S)
BY DEF Web!Cardinality, Cardinality

\* the next piece of a round is a piece
LEMMA NextPiece ==
    ASSUME ChatBounds, ChatInv, Web!Chunk
    PROVE  <<round, Web!Cardinality(streamed) + 1>> \in Web!Pieces
<1>1. IsFiniteSet(1..MaxRounds) /\ IsFiniteSet(1..MaxPieces)
  BY FS_Interval DEF ChatBounds
<1>2. IsFiniteSet(Web!Pieces)  BY <1>1, FS_Product DEF Web!Pieces
<1>3. streamed \subseteq Web!Pieces  BY DEF ChatInv, Web!TypeOK
<1>4. Cardinality(streamed) \in Nat
  BY <1>2, <1>3, FS_Subset, FS_CardinalityType
<1>5. round \in 1..MaxRounds
  BY DEF ChatBounds, ChatInv, Web!TypeOK, ByRound, Web!Chunk
<1> QED  BY <1>4, <1>5, ChatCardinality DEF Web!Chunk, Web!Pieces, ChatBounds

LEMMA ChatTypes == ASSUME ChatBounds, ChatInv, Web!Next PROVE Web!TypeOK' /\ ChatFunctions'
<1>0. Web!TypeOK /\ ChatFunctions /\ ByRound  BY DEF ChatInv
<1> USE DEF ChatBounds, Web!TypeOK, ChatFunctions, Web!Row, Web!turnVars, Web!socketVars
<1>1. CASE Web!StartRound  BY <1>0, <1>1 DEF Web!StartRound
<1>2. CASE Web!Chunk
  <2>1. <<round, Web!Cardinality(streamed) + 1>> \in Web!Pieces  BY <1>2, NextPiece
  <2>2. /\ streamed' \subseteq turnText' /\ turnText' \subseteq Web!Pieces
        /\ partial' \subseteq Pages \X (1..MaxRounds) /\ unsaid' \subseteq turnText'
    <3>1. round \in 1..MaxRounds  BY <1>0, <1>2 DEF Web!Chunk, ByRound
    <3> QED  BY <1>0, <1>2, <2>1, <3>1 DEF Web!Chunk
  <2>3. /\ buffer' \in [Pages -> SUBSET turnText']
        /\ \A p \in Pages : p \notin stream' => buffer'[p] = {}
    BY <1>0, <1>2 DEF Web!Chunk
  <2> QED  BY <1>0, <1>2, <2>2, <2>3 DEF Web!Chunk
<1>3. CASE Web!TextBeforeTools  BY <1>0, <1>3 DEF Web!TextBeforeTools, ByRound
<1>4. CASE Web!Answer  BY <1>0, <1>4 DEF Web!Answer, ByRound
<1>5. CASE Web!MessageComplete  BY <1>0, <1>5 DEF Web!MessageComplete, ByRound
<1>6. CASE Web!CancelTurn  BY <1>0, <1>6 DEF Web!CancelTurn, Web!CancelMarker, ByRound
<1>7. CASE Web!TurnComplete  BY <1>0, <1>7 DEF Web!TurnComplete
<1>8. ASSUME NEW r \in forwards, Web!Forward(r)  PROVE Web!TypeOK' /\ ChatFunctions'
  <2>1. PICK row \in rows : row.round = r  BY <1>0, <1>8 DEF ChatInv, OneForward
  <2> DEFINE full == CHOOSE some \in rows : some.round = r
  <2>2. full \in rows /\ full.round = r  BY <2>1
  <2>3. \A p \in Pages : Web!Sends(p, full) \in Web!Row
    <3>1. full \in Web!Row  BY <1>0, <2>2
    <3>2. \A p \in Pages : buffer[p] \subseteq Web!Pieces  BY <1>0
    <3> HIDE DEF full
    <3> QED  BY <3>1, <3>2 DEF Web!Sends
  <2>4. /\ forwards' = forwards \ {r}
        /\ shows' = [p \in Pages |-> IF p \in stream THEN shows[p] \cup {Web!Sends(p, full)} ELSE shows[p]]
        /\ partial' \subseteq partial \cup (Pages \X {r}) /\ clearing' \subseteq stream
        /\ UNCHANGED <<doing, round, streamed, turnText, kept, rows, stream, buffer, loading, loaded, opens, unsaid>>
    BY <1>0, <1>8 DEF Web!Forward
  <2>5. r \in 1..MaxRounds  BY <1>0, <1>8
  <2> HIDE DEF full
  <2> QED  BY <1>0, <2>3, <2>4, <2>5
<1>9. ASSUME NEW p \in Pages, OfSocket(p)
      PROVE  Web!TypeOK' /\ ChatFunctions'
  <2>1. CASE Web!Cleared(p)
    <3>1. /\ buffer' \in [Pages -> SUBSET turnText']
          /\ \A q \in Pages : buffer'[q] = {} \/ buffer'[q] = buffer[q]
      BY <1>0, <2>1 DEF Web!Cleared
    <3> QED  BY <1>0, <2>1, <3>1 DEF Web!Cleared
  <2>2. CASE Web!Select(p)
    <3>1. \A q \in Pages : shows'[q] \subseteq Web!Row  BY <1>0, <2>2 DEF Web!Select
    <3>2. shows' = [q \in Pages |-> shows'[q]] /\ DOMAIN shows' = Pages
      BY <1>0, <2>2 DEF Web!Select
    <3>3. clearing \cup loaded \subseteq stream' /\ stream' \subseteq Pages /\ opens' \in 0..MaxOpens
      BY <1>0, <2>2 DEF Web!Select
    <3>4. UNCHANGED <<doing, round, streamed, turnText, kept, rows, forwards, buffer, clearing, loading, loaded,
                      partial, unsaid>>
      BY <2>2 DEF Web!Select
    <3>6. (\A q \in Pages : /\ shows[q] \subseteq Web!Row
                            /\ loading[q] = Web!NoHistory \/ loading[q] \subseteq rows
                            /\ q \notin stream => buffer[q] = {})'
      BY <1>0, <2>2, <3>1, <3>4 DEF Web!Select
    <3>7. /\ streamed' \subseteq turnText' /\ turnText' \subseteq Web!Pieces /\ forwards' \subseteq 1..round'
          /\ rows' \subseteq Web!Row /\ partial' \subseteq Pages \X (1..MaxRounds) /\ unsaid' \subseteq turnText'
          /\ buffer' \in [Pages -> SUBSET turnText']
      BY <1>0, <3>4
    <3>8. clearing' \cup loaded' \subseteq stream'  BY <3>3, <3>4
    <3>9. ChatFunctions'  BY <1>0, <3>2, <3>4
    <3>10. /\ doing' \in {"idle", "streaming", "tools", "answered", "completing", "done"}
           /\ round' \in 0..MaxRounds /\ kept' \in BOOLEAN
      BY <1>0, <3>4
    <3> HIDE DEF Web!Row, ChatFunctions
    <3>11. Web!TypeOK'  BY <3>3, <3>6, <3>7, <3>8, <3>10
    <3> QED  BY <3>9, <3>11
  <2>3. CASE Web!Load(p)
    <3>1. /\ \A q \in Pages : /\ shows'[q] \subseteq Web!Row
                              /\ loading'[q] = Web!NoHistory \/ loading'[q] \subseteq rows
                              /\ q \notin stream' => buffer[q] = {}
          /\ stream' = stream \cup {p} /\ opens' \in 0..MaxOpens
          /\ partial' \subseteq Pages \X (1..MaxRounds)
      BY <1>0, <2>3 DEF Web!Load, Web!LoadHistory
    <3>2. UNCHANGED <<doing, round, streamed, turnText, kept, rows, forwards, buffer, clearing, loaded, unsaid>>
      BY <2>3 DEF Web!Load
    <3>3. ChatFunctions'  BY <1>0, <2>3 DEF Web!Load, Web!LoadHistory
    <3> HIDE DEF ChatFunctions
    <3>5. Web!TypeOK'  BY <1>0, <3>1, <3>2
    <3> QED  BY <3>3, <3>5
  <2>4. CASE Web!HistorySent(p)  BY <1>0, <2>4 DEF Web!HistorySent
  <2>5. CASE Web!Disconnect(p)  BY <1>0, <2>5 DEF Web!Disconnect
  <2> QED  BY <1>9, <2>1, <2>2, <2>3, <2>4, <2>5 DEF OfSocket
<1> QED  BY <1>1, <1>2, <1>3, <1>4, <1>5, <1>6, <1>7, <1>8, <1>9 DEF OfSocket, Web!Next

\* The steps of the turn keep the rounds apart.
LEMMA RoundsStep == ASSUME ChatBounds, ChatInv, Web!Next PROVE ByRound' /\ OneForward'
<1>0. Web!TypeOK /\ ByRound /\ OneForward  BY DEF ChatInv
<1>t. /\ round \in Int /\ \A row \in rows : row.round \in Int
      /\ doing \in {"idle", "streaming", "tools", "answered", "completing", "done"}
  BY <1>0 DEF Web!TypeOK, Web!Row, ChatBounds
<1>u. ASSUME doing = "streaming", NEW text, rows' = rows \cup {[round |-> round, text |-> text]}
      PROVE  /\ \A row, other \in rows' : row.round = other.round => row = other
             /\ \A row \in rows' : row.round <= round
  <2> DEFINE new == [round |-> round, text |-> text]
  <2>1. new.round = round /\ \A row \in rows : row.round < round  BY <1>0, <1>u DEF ByRound
  <2> HIDE DEF new
  <2>2. rows' = rows \cup {new}  BY <1>u DEF new
  <2> QED  BY <1>0, <1>t, <2>1, <2>2 DEF ByRound
<1> USE DEF ByRound, OneForward
<1>1. CASE Web!StartRound
  BY <1>0, <1>1 DEF Web!StartRound, ChatBounds, Web!TypeOK, Web!Row
<1>2. CASE Web!Chunk
  <2> DEFINE piece == <<round, Web!Cardinality(streamed) + 1>>
  <2>1. piece[1] = round /\ streamed' = streamed \cup {piece} /\ round' = round
    BY <1>2 DEF Web!Chunk
  <2> HIDE DEF piece
  <2>2. \A p \in streamed' : p[1] = round'  BY <1>0, <2>1
  <2>3. forwards = {} /\ UNCHANGED <<doing, round, rows, forwards>> /\ doing = "streaming"
    BY <1>2 DEF Web!Chunk
  <2> QED  BY <1>0, <1>t, <2>2, <2>3
<1>3. CASE Web!TextBeforeTools
  <2>1. forwards = {} /\ forwards' = {round} /\ doing' = "tools" /\ UNCHANGED <<round, streamed>> /\ round # 0
    BY <1>0, <1>3 DEF Web!TextBeforeTools
  <2>2. \E row \in rows' : row.round = round
    <3>1. [round |-> round, text |-> streamed] \in rows'  BY <1>3 DEF Web!TextBeforeTools
    <3> QED  BY <3>1
  <2>3. /\ \A row, other \in rows' : row.round = other.round => row = other
        /\ \A row \in rows' : row.round <= round
    BY <1>3, <1>u DEF Web!TextBeforeTools
  <2> QED  BY <1>0, <2>1, <2>2, <2>3
<1>4. CASE Web!Answer
  <2>1. forwards = {} /\ forwards' = {} /\ doing' = "answered" /\ UNCHANGED <<round, streamed>> /\ round # 0
        /\ [round |-> round, text |-> streamed] \in rows'
    BY <1>0, <1>4 DEF Web!Answer
  <2>2. /\ \A row, other \in rows' : row.round = other.round => row = other
        /\ \A row \in rows' : row.round <= round
    BY <1>4, <1>u DEF Web!Answer
  <2> QED  BY <1>0, <2>1, <2>2
<1>5. CASE Web!MessageComplete  BY <1>0, <1>5 DEF Web!MessageComplete
<1>6. CASE Web!CancelTurn
  <2>1. doing = "streaming" /\ doing' = "completing" /\ UNCHANGED <<round, streamed, forwards>> /\ rows \subseteq rows'
    BY <1>6 DEF Web!CancelTurn, Web!CancelMarker
  <2>2. CASE rows' = rows  BY <1>0, <2>1, <2>2
  <2>3. CASE rows' = rows \cup {[round |-> round, text |-> turnText]}
    <3>1. /\ \A row, other \in rows' : row.round = other.round => row = other
          /\ \A row \in rows' : row.round <= round
      BY <2>1, <2>3, <1>u
    <3> QED  BY <1>0, <2>1, <3>1
  <2> QED  BY <1>6, <2>2, <2>3 DEF Web!CancelTurn, Web!CancelMarker
<1>7. CASE Web!TurnComplete  BY <1>0, <1>7 DEF Web!TurnComplete
<1>8. ASSUME NEW r \in forwards, Web!Forward(r)  PROVE ByRound' /\ OneForward'
  BY <1>0, <1>8 DEF Web!Forward, Web!turnVars
<1>9. ASSUME NEW p \in Pages, OfSocket(p)
      PROVE  ByRound' /\ OneForward'
  BY <1>0, <1>9 DEF OfSocket, Web!Cleared, Web!Select, Web!Load, Web!LoadHistory, Web!HistorySent,
                    Web!Disconnect, Web!turnVars
<1> QED  BY <1>1, <1>2, <1>3, <1>4, <1>5, <1>6, <1>7, <1>8, <1>9 DEF OfSocket, Web!Next

LEMMA BuffersStep == ASSUME ChatBounds, ChatInv, Web!Next PROVE Buffered'
<1>0. Web!TypeOK /\ ByRound /\ OneForward /\ Buffered  BY DEF ChatInv
<1>t. /\ doing \in {"idle", "streaming", "tools", "answered", "completing", "done"}
      /\ buffer = [p \in Pages |-> buffer[p]] /\ \A p \in Pages : p \notin stream => buffer[p] = {}
      /\ round \in Int /\ \A row \in rows : row.round \in Int
  BY <1>0 DEF Web!TypeOK, Web!Row, ChatBounds
<1> USE DEF Buffered
<1>1. CASE Web!StartRound  BY <1>0, <1>t, <1>1 DEF Web!StartRound, ByRound, OneForward, Web!socketVars
<1>2. CASE Web!Chunk  BY <1>0, <1>t, <1>2 DEF Web!Chunk
<1>3. CASE Web!TextBeforeTools
  <2>1. forwards = {} /\ \A row \in rows : row.round # round
    BY <1>0, <1>t, <1>3 DEF Web!TextBeforeTools, ByRound, OneForward
  <2> QED  BY <1>0, <1>t, <1>3, <2>1 DEF Web!TextBeforeTools, Web!socketVars
<1>4. CASE Web!Answer
  <2>1. forwards = {}  BY <1>0, <1>4 DEF Web!Answer, OneForward
  <2> QED  BY <1>0, <1>4, <2>1 DEF Web!Answer, Web!socketVars
<1>5. CASE Web!MessageComplete  BY <1>5 DEF Web!MessageComplete
<1>6. CASE Web!CancelTurn  BY <1>6 DEF Web!CancelTurn
<1>7. CASE Web!TurnComplete  BY <1>7 DEF Web!TurnComplete
<1>8. ASSUME NEW r \in forwards, Web!Forward(r)  PROVE Buffered'
  <2>1. \A p \in Pages \ clearing' : buffer'[p] = {}
    BY <1>t, <1>8 DEF Web!Forward
  <2> QED  BY <2>1
<1>9. ASSUME NEW p \in Pages, OfSocket(p)
      PROVE  Buffered'
  <2>1. \A q \in Pages \ clearing' : buffer'[q] = {} \/ (q \in Pages \ clearing /\ buffer'[q] = buffer[q])
    BY <1>t, <1>9 DEF OfSocket, Web!Cleared, Web!Select, Web!Load, Web!HistorySent, Web!Disconnect
  <2>2. UNCHANGED <<doing, streamed, rows, forwards>>
    BY <1>9 DEF OfSocket, Web!Cleared, Web!Select, Web!Load, Web!HistorySent, Web!Disconnect, Web!turnVars
  <2> QED  BY <1>0, <2>1, <2>2
<1> QED  BY <1>1, <1>2, <1>3, <1>4, <1>5, <1>6, <1>7, <1>8, <1>9 DEF OfSocket, Web!Next

LEMMA ComingStep == ASSUME ChatBounds, ChatInv, Web!Next PROVE Coming'
<1>0. Web!TypeOK /\ ChatFunctions /\ ByRound /\ OneForward /\ Buffered /\ Coming  BY DEF ChatInv
<1>t. /\ rows \subseteq Web!Row /\ loaded \subseteq stream /\ round \in Int
      /\ \A p \in Pages : p \notin stream => buffer[p] = {}
  BY <1>0 DEF Web!TypeOK, ChatBounds
<1> USE DEF Coming, Comes
<1>1. CASE Web!StartRound
  BY <1>0, <1>1 DEF Web!StartRound, Web!socketVars
<1>2. CASE Web!Chunk  BY <1>0, <1>2 DEF Web!Chunk
<1>3. CASE Web!TextBeforeTools
  <2> DEFINE new == [round |-> round, text |-> streamed]
  <2>1. rows' = rows \cup {new} /\ new.round \in forwards' /\ forwards \subseteq forwards' /\ doing = "streaming"
    BY <1>3 DEF Web!TextBeforeTools
  <2>2. UNCHANGED <<stream, loading, loaded, shows, partial>>
    BY <1>3 DEF Web!TextBeforeTools, Web!socketVars
  <2> HIDE DEF new
  <2> QED  BY <1>0, <2>1, <2>2
<1>4. CASE Web!Answer
  <2> DEFINE new == [round |-> round, text |-> streamed]
  <2>1. rows' = rows \cup {new} /\ new.round = round' /\ doing' = "answered" /\ doing = "streaming"
    BY <1>4 DEF Web!Answer
  <2>2. UNCHANGED <<stream, loading, loaded, shows, partial, forwards, round>>
    BY <1>4 DEF Web!Answer, Web!socketVars
  <2> HIDE DEF new
  <2> QED  BY <1>0, <2>1, <2>2
<1>5. CASE Web!MessageComplete
  <2>1. \A row \in rows : row.round = round => row = [round |-> round, text |-> streamed]
    BY <1>0, <1>5 DEF Web!MessageComplete, ByRound
  <2>2. \A p \in Pages : /\ shows[p] \subseteq shows'[p]
                         /\ p \in stream => [round |-> round, text |-> streamed] \in shows'[p]
    BY <1>5 DEF Web!MessageComplete
  <2>3. UNCHANGED <<stream, loading, loaded, partial, forwards, round, rows>> /\ doing' = "completing"
    BY <1>5 DEF Web!MessageComplete
  <2> QED  BY <1>0, <1>t, <2>1, <2>2, <2>3
<1>6. CASE Web!CancelTurn
  <2>1. /\ \A row \in rows' : row \in rows \/ row.round = round
        /\ \A p \in Pages : <<p, round>> \in partial'
        /\ partial \subseteq partial' /\ doing = "streaming"
    BY <1>6 DEF Web!CancelTurn, Web!CancelMarker
  <2>2. UNCHANGED <<stream, loading, loaded, shows, forwards, round>>
    BY <1>6 DEF Web!CancelTurn
  <2> QED  BY <1>0, <2>1, <2>2
<1>7. CASE Web!TurnComplete  BY <1>0, <1>7 DEF Web!TurnComplete
<1>8. ASSUME NEW r \in forwards, Web!Forward(r)  PROVE Coming'
  <2>1. PICK row \in rows : row.round = r  BY <1>0 DEF OneForward
  <2> DEFINE full == CHOOSE some \in rows : some.round = r
  <2>2. full = row  BY <1>0, <2>1 DEF ByRound
  <2>3. row = [round |-> row.round, text |-> row.text]  BY <1>t, <2>1 DEF Web!Row
  <2>4. \A p \in stream : p \in Pages => (row.text \subseteq buffer[p] => buffer[p] = row.text)
    BY <1>0, <1>8, <2>1 DEF Buffered, Web!Forward
  <2>5. \A p \in stream : p \in Pages => row = Web!Sends(p, full) \/ ~(full.text \subseteq Web!Sends(p, full).text)
    BY <2>2, <2>3, <2>4 DEF Web!Sends
  <2>6. /\ shows' = [p \in Pages |-> IF p \in stream THEN shows[p] \cup {Web!Sends(p, full)} ELSE shows[p]]
        /\ partial' = partial \cup {<<p, r>> : p \in {q \in stream : ~(full.text \subseteq Web!Sends(q, full).text)}}
        /\ forwards' = forwards \ {r}
        /\ UNCHANGED <<doing, round, rows, stream, loading, loaded>>
    BY <1>8 DEF Web!Forward, Web!turnVars
  <2> HIDE DEF full
  <2>7. \A p \in stream : p \in Pages => row \in shows'[p] \/ <<p, row.round>> \in partial'
    BY <2>1, <2>5, <2>6
  <2>8. \A other \in rows : other.round = r => other = row  BY <1>0, <2>1 DEF ByRound
  <2>9. partial \subseteq partial' /\ \A p \in Pages : shows[p] \subseteq shows'[p]  BY <2>6
  <2> QED  BY <1>0, <1>t, <2>6, <2>7, <2>8, <2>9
<1>9. ASSUME NEW p \in Pages, OfSocket(p)
      PROVE  Coming'
  <2>0. UNCHANGED <<doing, round, rows, forwards>>
    BY <1>9 DEF OfSocket, Web!Cleared, Web!Select, Web!Load, Web!HistorySent, Web!Disconnect, Web!turnVars
  <2>1. \A q \in Pages \ {p} : /\ shows'[q] = shows[q] /\ loading'[q] = loading[q]
                               /\ q \in stream' <=> q \in stream
                               /\ q \in loaded' <=> q \in loaded
                               /\ \A n : <<q, n>> \in partial' <=> <<q, n>> \in partial
    BY <1>0, <1>9 DEF OfSocket, Web!Cleared, Web!Select, Web!Load, Web!LoadHistory, Web!HistorySent,
                      Web!Disconnect, ChatFunctions
  <2>2. /\ loading'[p] # Web!NoHistory => p \in stream'
        /\ \A row \in rows : /\ p \in loaded' => Comes(p, row)'
                             /\ loading'[p] # Web!NoHistory => row \in loading'[p] \/ Comes(p, row)'
    <3>1. CASE Web!Cleared(p)  BY <1>0, <2>0, <3>1 DEF Web!Cleared
    <3>2. CASE Web!Select(p)  BY <1>0, <1>t, <2>0, <3>2 DEF Web!Select
    <3>3. CASE Web!Load(p)
      <4>1. loading'[p] = rows /\ p \in stream' /\ loaded' = loaded
        BY <1>0, <3>3 DEF Web!Load, Web!LoadHistory, ChatFunctions
      <4>2. p \in stream => shows' = shows /\ partial' = partial  BY <3>3 DEF Web!Load
      <4> QED  BY <1>0, <1>t, <2>0, <4>1, <4>2
    <3>4. CASE Web!HistorySent(p)
      <4>1. /\ shows'[p] = shows[p] \cup loading[p] /\ loading'[p] = Web!NoHistory /\ partial' = partial
            /\ loading[p] # Web!NoHistory
        BY <1>0, <3>4 DEF Web!HistorySent, ChatFunctions
      <4> QED  BY <1>0, <2>0, <4>1
    <3>5. CASE Web!Disconnect(p)  BY <1>0, <2>0, <3>5 DEF Web!Disconnect, ChatFunctions
    <3> QED  BY <1>9, <3>1, <3>2, <3>3, <3>4, <3>5 DEF OfSocket
  <2> QED  BY <1>0, <2>0, <2>1, <2>2
<1> QED  BY <1>1, <1>2, <1>3, <1>4, <1>5, <1>6, <1>7, <1>8, <1>9 DEF OfSocket, Web!Next

LEMMA SavedStep == ASSUME ChatBounds, ChatInv, Web!Next PROVE Saved'
<1>0. Saved  BY DEF ChatInv
<1>t. Web!TypeOK  BY DEF ChatInv
<1> USE DEF Saved, Unkept
<1>1. CASE Web!StartRound  BY <1>0, <1>1 DEF Web!StartRound, Texts
<1>2. CASE Web!Chunk  BY <1>0, <1>2 DEF Web!Chunk, Texts
<1>a. ASSUME NEW text, rows' = rows \cup {[round |-> round, text |-> text]}
      PROVE  Texts' = Texts \cup text
  <2> DEFINE new == [round |-> round, text |-> text]
  <2>1. rows' = rows \cup {new} /\ new.text = text  BY <1>a
  <2> HIDE DEF new
  <2>2. \A x : x \in Texts' <=> \E row \in rows' : x \in row.text  BY DEF Texts
  <2>3. \A x : x \in Texts <=> \E row \in rows : x \in row.text  BY DEF Texts
  <2>4. \A x : x \in Texts' <=> x \in Texts \cup text  BY <2>1, <2>2, <2>3
  <2> QED  BY <2>4
<1>3. CASE Web!TextBeforeTools
  <2>1. Texts' = Texts \cup streamed  BY <1>3, <1>a DEF Web!TextBeforeTools
  <2> QED  BY <1>0, <1>3, <2>1 DEF Web!TextBeforeTools
<1>4. CASE Web!Answer
  <2>1. Texts' = Texts \cup streamed  BY <1>4, <1>a DEF Web!Answer
  <2> QED  BY <1>0, <1>4, <2>1 DEF Web!Answer
<1>5. CASE Web!MessageComplete  BY <1>0, <1>5 DEF Web!MessageComplete, Texts
<1>6. CASE Web!CancelTurn
  <2>1. doing = "streaming" /\ doing' = "completing" /\ UNCHANGED <<streamed, turnText>>
    BY <1>6 DEF Web!CancelTurn
  <2>2. CASE turnText = {}  BY <2>1, <2>2
  <2>3. CASE turnText # {} /\ kept = FALSE
    <3>1. rows' = rows \cup {[round |-> round, text |-> turnText]}
      BY <1>6, <2>3 DEF Web!CancelTurn, Web!CancelMarker
    <3> QED  BY <1>a, <2>1, <3>1
  <2>4. CASE kept = TRUE
    <3>1. rows' = rows /\ unsaid' = streamed  BY <1>6, <2>4 DEF Web!CancelTurn, Web!CancelMarker
    <3> QED  BY <1>0, <2>1, <3>1 DEF Texts
  <2> QED  BY <1>t, <2>2, <2>3, <2>4 DEF Web!TypeOK
<1>7. CASE Web!TurnComplete  BY <1>0, <1>7 DEF Web!TurnComplete, Texts
<1>8. ASSUME NEW r \in forwards, Web!Forward(r)  PROVE Saved'
  BY <1>0, <1>8 DEF Web!Forward, Web!turnVars, Texts
<1>9. ASSUME NEW p \in Pages, OfSocket(p)
      PROVE  Saved'
  BY <1>0, <1>9 DEF OfSocket, Web!Cleared, Web!Select, Web!Load, Web!HistorySent, Web!Disconnect, Web!turnVars, Texts
<1> QED  BY <1>1, <1>2, <1>3, <1>4, <1>5, <1>6, <1>7, <1>8, <1>9 DEF OfSocket, Web!Next

LEMMA ChatStep == ASSUME ChatBounds, ChatInv, [Web!Next]_Web!chatVars PROVE ChatInv'
<1>1. CASE Web!Next
  BY <1>1, ChatTypes, RoundsStep, BuffersStep, ComingStep, SavedStep DEF ChatInv
<1>2. CASE UNCHANGED Web!chatVars
  <2>1. UNCHANGED <<doing, round, streamed, turnText, kept, rows, forwards, stream, buffer, clearing, loading,
                    loaded, shows, opens, partial, unsaid>>
    BY <1>2 DEF Web!chatVars, Web!turnVars, Web!socketVars
  <2>2. Web!TypeOK' /\ ChatFunctions'  BY <2>1 DEF ChatInv, Web!TypeOK, ChatFunctions
  <2>3. ByRound' /\ OneForward' /\ Buffered'  BY <2>1 DEF ChatInv, ByRound, OneForward, Buffered
  <2>4. Coming' /\ Saved'  BY <2>1 DEF ChatInv, Coming, Comes, Saved, Unkept, Texts
  <2> QED  BY <2>2, <2>3, <2>4 DEF ChatInv
<1> QED  BY <1>1, <1>2

LEMMA ChatCorrect == ChatBounds /\ Web!Spec => []ChatInv
<1> SUFFICES ASSUME ChatBounds PROVE Web!Spec => []ChatInv  OBVIOUS
<1> QED  BY ChatStarts, ChatStep, PTL DEF Web!Spec

\* A page that has loaded the history of a conversation shows, when the turn is
\* over, every row of the archive: for any number of pages, rounds and pieces, and
\* wherever a page comes, goes or reconnects.
THEOREM ChatPages == ChatBounds /\ Web!Spec => []Web!PagesShowTheArchive
<1>1. ASSUME ChatInv  PROVE Web!PagesShowTheArchive
  BY <1>1 DEF ChatInv, Coming, Comes, OneForward, Web!TypeOK, Web!PagesShowTheArchive
<1> QED  BY <1>1, ChatCorrect, PTL

\* What was streamed has its row when the turn is over, or was cut off after
\* another row of the turn.
THEOREM ChatKept == ChatBounds /\ Web!Spec => []Web!StreamedIsKept
<1>1. ASSUME ChatInv  PROVE Web!StreamedIsKept
  BY <1>1 DEF ChatInv, Saved, Unkept, Texts, Web!StreamedIsKept
<1> QED  BY <1>1, ChatCorrect, PTL

=============================================================================
