------------------------------ MODULE Workflow ------------------------------
(***************************************************************************)
(* Durable workflows of one conversation (src/src/decafclaw/workflow/ and  *)
(* their hooks in conversation_manager.py): an orchestrator is run from    *)
(* the top in every turn, its journaled calls are answered from            *)
(* workflow.json, and the first question without an answer ends the turn   *)
(* and leaves a confirmation that nobody waits for.                        *)
(*                                                                         *)
(* An orchestrator is the sequence Script of its journaled calls: a live   *)
(* call (llm_call, tool_call, subagent), a question (user_input) or a      *)
(* fan-out (parallel, pipeline) whose branches make calls of their own.    *)
(*                                                                         *)
(* A workflow shares its conversation with chat: state.busy is held by     *)
(* USER and WAKE turns as well, and the confirmation slot also takes the   *)
(* requests of their calls. Of the queue only the WORKFLOW messages that   *)
(* wait are counted (module TurnQueue has its detail), and one request of  *)
(* a call is followed at a time (module Confirmations has the others).     *)
(***************************************************************************)
EXTENDS Naturals, Sequences, FiniteSets

CONSTANTS
  Script,        \* the steps: [kind, width], width the calls of each branch of a fan
  Cap,           \* config.workflow.max_resume_attempts
  MaxTriggers,   \* bound: how often the user types the command
  MaxChats,      \* bound: USER and WAKE turns
  MaxCancels,    \* bound: cancel_turn calls
  MaxCrashes,    \* bound: process deaths
  AgentRequest,  \* a tool's confirmation or a widget, in the slot or the archive
  None           \* no file, no turn, no question

ASSUME ScriptAssumption ==
  /\ Script \in Seq([kind : {"call", "ask", "fan"}, width : Seq(Nat \ {0})])
  /\ \A i \in DOMAIN Script : Script[i].kind = "fan" <=> Script[i].width # << >>
ASSUME BoundAssumption == {Cap, MaxTriggers, MaxChats, MaxCancels, MaxCrashes} \subseteq Nat

VARIABLES
  disk,          \* workflow.json, or None
  turn,          \* the turn that holds state.busy, with its copy of the journal, or None
  orphan,        \* journal of a fan whose thunks outlived their turn, or None
  waiting,       \* WORKFLOW messages in the inbox
  pending,       \* the confirmation slot: seq of a question, AgentRequest, or None
  asker,         \* the call that has made the AgentRequest and waits for it, or None
  tail,          \* what the last row that decides the scan asks, or None
  reply,         \* a claimed answer on its way through on_approve or on_deny, or None
  shown,         \* is the artifact in the archive
  phase,         \* of the process: down, scan (startup_scan done), up
  lost,          \* what should have been shown was taken, or kept from the slot
  stopped,       \* a turn of this process was cancelled, or died starting
  late,          \* a thunk has saved after its turn was gone
  crossed,       \* an answer was journaled since the turn took its copy
  left           \* what is left of the bounds

slot == <<pending, asker, tail>>
past == <<shown, lost, stopped, late, crossed>>
vars == <<disk, turn, orphan, waiting, slot, reply, past, phase, left>>

(***************************************************************************)
(* Positions: <<i>> is the entry of step i, <<i, b, k>> call k of branch b *)
(* of the fan at step i (handle.py, _next_seq and _make_subhandle_at).     *)
(***************************************************************************)
BranchCalls(i) == UNION { {<<i, b, k>> : k \in 1..Script[i].width[b]} : b \in DOMAIN Script[i].width }

Positions == {<<i>> : i \in DOMAIN Script} \cup UNION {BranchCalls(i) : i \in DOMAIN Script}

(* The step a replay of E stops at: the first without an entry of its own. *)
Reached(E, i) == /\ <<i>> \notin E
                 /\ \A h \in 1..(i - 1) : <<h>> \in E

(* What a run holding the entries E does next. Every branch of a fan is at *)
(* its first missing call; the fan's own entry waits for all of them.      *)
Ready(E) ==
  UNION { LET open == {p \in BranchCalls(i) \ E :
                         \A k \in 1..(p[3] - 1) : <<i, p[2], k>> \in E}
          IN  IF open = {} THEN {<<i>>} ELSE open : i \in {h \in DOMAIN Script : Reached(E, h)} }

Question(E) == {p \in Ready(E) : Script[p[1]].kind = "ask"}
Finished(E) == Ready(E) = {}

Statuses == {"running", "suspended", "done", "error"}
Journal  == [status : Statuses, attempts : 0..Cap, entries : SUBSET Positions]
Fresh    == [status |-> "running", attempts |-> 0, entries |-> {}]

\* A turn without a journal: a WORKFLOW turn that has not loaded it; a chat
\* turn before and after its message is archived; and a slot that is held
\* though no task is left to give it back.
Bare(pc) == [pc |-> pc, copy |-> None]
Turns == [pc : {"start", "chat", "agent", "held"}, copy : {None}] \cup
         [pc : {"activate", "run", "publish", "post"}, copy : Journal]

Replies == [seq : Positions, step : {"append", "deny", "enqueue"}]

\* A call that asks belongs to the turn, or it has outlived its turn.
Askers == [by : {"turn", "stray"}, pc : {"queued", "waiting", "claimed"}]

ASSUME NoneAssumption ==
  /\ None \notin Positions \cup Journal \cup Turns \cup Replies \cup Askers \cup {AgentRequest}
  /\ AgentRequest \notin Positions

Live     == phase # "down"
At(pc)   == Live /\ turn # None /\ turn.pc = pc
Asks(pc) == asker # None /\ asker.pc = pc
TurnAsks == asker # None /\ asker.by = "turn"

-----------------------------------------------------------------------------
Init ==
  /\ disk = None /\ turn = None /\ orphan = None /\ waiting = 0
  /\ pending = None /\ asker = None /\ tail = None /\ reply = None /\ shown = FALSE
  /\ phase = "up" /\ lost = FALSE /\ stopped = FALSE /\ late = FALSE /\ crossed = FALSE
  /\ left = [triggers |-> MaxTriggers, chats |-> MaxChats, cancels |-> MaxCancels,
             crashes |-> MaxCrashes]

(* enqueue_turn: at once when nothing holds the conversation, and then the *)
(* message is off the inbox before its turn begins; behind the turn that   *)
(* holds it, of whatever kind, otherwise.                                  *)
Enqueue ==
  IF turn = None THEN turn' = Bare("start") /\ waiting' = waiting
                 ELSE turn' = turn /\ waiting' = waiting + 1

(* The user types the command, at any time: the row of the message is      *)
(* archived, so the recovery scan would stop there, and a turn is enqueued.*)
Trigger ==
  /\ phase = "up" /\ left.triggers > 0
  /\ left' = [left EXCEPT !.triggers = @ - 1]
  /\ tail' = None
  /\ Enqueue
  /\ UNCHANGED <<disk, orphan, pending, asker, reply, past, phase>>

(* The end of a turn, and a start of the process, drain the inbox.         *)
Drain ==
  /\ Live /\ turn = None /\ waiting > 0
  /\ turn' = Bare("start") /\ waiting' = waiting - 1
  /\ UNCHANGED <<disk, orphan, slot, reply, past, phase, left>>

(* A USER or WAKE turn takes the conversation, sent to a free one or from  *)
(* the inbox, ahead of the WORKFLOW messages in it or between two of them. *)
ChatBegins ==
  /\ Live /\ turn = None /\ left.chats > 0
  /\ left' = [left EXCEPT !.chats = @ - 1]
  /\ turn' = Bare("chat")
  /\ UNCHANGED <<disk, orphan, waiting, slot, reply, past, phase>>

(* A start that raises leaves the conversation held for good, or free when *)
(* it was the publish that raised; so does a cancellation before the first *)
(* step of the task, or one before the journal is loaded. The turn is gone.*)
StartDies ==
  /\ At("start") \/ At("chat")
  /\ turn' \in {None, Bare("held")}
  /\ stopped' = TRUE
  /\ UNCHANGED <<disk, orphan, waiting, slot, reply, shown, lost, late, crossed, phase, left>>

(* Its message is archived: a user row, at which the recovery scan stops,  *)
(* or a wake_trigger row, which it passes over.                            *)
ChatRow ==
  /\ At("chat")
  /\ turn' = Bare("agent") /\ tail' \in {tail, None}
  /\ UNCHANGED <<disk, orphan, waiting, pending, asker, reply, past, phase, left>>

ChatEnds ==
  /\ At("agent") /\ ~TurnAsks
  /\ turn' = None
  /\ UNCHANGED <<disk, orphan, waiting, slot, reply, past, phase, left>>

\* Mutation: a turn that is not a resume starts a journal of its own.
LoadJournalAnew ==
  /\ At("start")
  /\ turn' = [pc |-> "activate",
              copy |-> IF disk = None \/ disk.status = "error" THEN Fresh ELSE disk]
  /\ UNCHANGED <<disk, orphan, waiting, slot, reply, past, phase, left>>

(* run_workflow_turn loads the journal before it activates skills.         *)
LoadJournal ==
  /\ At("start")
  /\ turn' = [pc |-> "activate", copy |-> IF disk = None THEN Fresh ELSE disk]
  /\ UNCHANGED <<disk, orphan, waiting, slot, reply, past, phase, left>>

(* The run after j became its copy: it is at a live call, or it suspends   *)
(* or is done and saves that status before anything else can run.          *)
Proceed(j) ==
  LET to(s, pc) == /\ disk' = [j EXCEPT !.status = s]
                   /\ turn' = [pc |-> pc, copy |-> disk']
  IN  \/ Finished(j.entries) /\ to("done", "publish")
      \/ Question(j.entries) # {} /\ to("suspended", "post")
      \/ /\ ~Finished(j.entries) /\ Question(j.entries) = {}
         /\ turn' = [pc |-> "run", copy |-> j]
         /\ disk' = IF turn.pc = "run" THEN j ELSE disk

Activate ==
  /\ At("activate")
  /\ Proceed(turn.copy)
  /\ UNCHANGED <<orphan, waiting, slot, reply, past, phase, left>>

(* The turn ends: its copy is gone, and whatever crossed it.               *)
TurnEnds == turn' = None /\ crossed' = FALSE

(* A skill the workflow requires fails to activate.                        *)
ActivationFails ==
  /\ At("activate")
  /\ disk' = [turn.copy EXCEPT !.status = "error"]
  /\ TurnEnds
  /\ UNCHANGED <<orphan, waiting, slot, reply, shown, lost, stopped, late, phase, left>>

(* The calls in flight. A fan with its branches complete only joins them.  *)
(* A call that waits for a confirmation is not the one that comes back.    *)
Calls(E)   == {p \in Ready(E) : Script[p[1]].kind # "ask"}
CanFail(p) == Script[p[1]].kind = "fan" => Len(p) > 1
Back(E)    == {p \in Calls(E) : TurnAsks => Calls(E) # {p}}

(* A live call returns: its result is appended to the copy of this turn,   *)
(* and the whole copy, with the status it was loaded with, is saved.       *)
CallReturns ==
  /\ At("run")
  /\ \E p \in Back(turn.copy.entries) : Proceed([turn.copy EXCEPT !.entries = @ \cup {p}])
  /\ UNCHANGED <<orphan, waiting, slot, reply, past, phase, left>>

(* A call raises: the other branches of a fan are cancelled and waited     *)
(* for, one that asks among them, and the run ends in error. What it asked *)
(* stays in the slot.                                                      *)
CallFails ==
  /\ At("run")
  /\ \E p \in Back(turn.copy.entries) : CanFail(p)
  /\ disk' = [turn.copy EXCEPT !.status = "error"]
  /\ asker' = IF TurnAsks THEN None ELSE asker
  /\ TurnEnds
  /\ UNCHANGED <<orphan, waiting, pending, tail, reply, shown, lost, stopped, late, phase, left>>

(* The artifact is archived after the publish that follows persist(done).  *)
Publish ==
  /\ At("publish")
  /\ shown' = TRUE /\ lost' = FALSE
  /\ TurnEnds
  /\ UNCHANGED <<disk, orphan, waiting, slot, reply, stopped, late, phase, left>>

(* post_confirmation: with the slot taken it raises and the turn aborts;   *)
(* the question then is nowhere, unless it is the one in the slot.         *)
PostQuestion ==
  /\ At("post")
  /\ \/ /\ pending = None
        /\ \E q \in Question(turn.copy.entries) : pending' = q /\ tail' = q
        /\ lost' = FALSE
     \/ /\ pending # None
        /\ lost' = (lost \/ pending \notin Question(turn.copy.entries))
        /\ UNCHANGED <<pending, tail>>
  /\ TurnEnds
  /\ UNCHANGED <<disk, orphan, waiting, asker, reply, shown, stopped, late, phase, left>>

(* A call of the turn, or of a thunk that outlived its turn, asks for a    *)
(* confirmation: into the slot when it is free, behind it otherwise.       *)
AgentAsks ==
  /\ Live /\ asker = None
  /\ \E by \in {"turn", "stray"} :
       /\ \/ by = "turn" /\ (At("agent") \/ (At("run") /\ Calls(turn.copy.entries) # {}))
          \/ by = "stray" /\ orphan # None
       /\ asker' = [by |-> by, pc |-> IF pending = None THEN "waiting" ELSE "queued"]
  /\ pending' = IF pending = None THEN AgentRequest ELSE pending
  /\ tail' = AgentRequest
  /\ UNCHANGED <<disk, turn, orphan, waiting, reply, past, phase, left>>

(* _promote_next_confirmation_unlocked, on a slot that would hold p.       *)
Promote(p) ==
  IF p = None /\ Asks("queued")
  THEN pending' = AgentRequest /\ asker' = [asker EXCEPT !.pc = "waiting"]
  ELSE pending' = p /\ asker' = asker

(* A tool's request is answered, or times out. The claim clears the slot   *)
(* and wakes the call that waits, which promotes when it has woken. With   *)
(* no call left to wake, a request found by the startup scan promotes when *)
(* its recovery is done, and one that left its Event behind never does.    *)
AnswerAgent ==
  /\ phase = "up" /\ pending = AgentRequest
  /\ \/ Asks("waiting") /\ pending' = None /\ asker' = [asker EXCEPT !.pc = "claimed"]
     \/ ~Asks("waiting") /\ Promote(None)
     \/ ~Asks("waiting") /\ pending' = None /\ asker' = asker
  /\ tail' = None
  /\ UNCHANGED <<disk, turn, orphan, waiting, reply, past, phase, left>>

(* The call that waited clears the slot, whatever it holds by then; which  *)
(* call it promotes is left to module Confirmations.                       *)
AskerWakes ==
  /\ Live /\ Asks("claimed")
  /\ asker' = None /\ pending' = None
  /\ lost' = (lost \/ pending # None)
  /\ UNCHANGED <<disk, turn, orphan, waiting, tail, reply, shown, stopped, late, crossed, phase, left>>

(* respond_to_confirmation claims the slot and archives the response.      *)
Respond(step) ==
  /\ phase = "up" /\ pending \notin {None, AgentRequest} /\ ~Asks("claimed") /\ reply = None
  /\ reply' = [seq |-> pending, step |-> step]
  /\ pending' = None /\ tail' = None
  /\ UNCHANGED <<disk, turn, orphan, waiting, asker, past, phase, left>>

Answer == Respond("append")
Deny   == Respond("deny")

(* on_approve loads, appends and saves without an await, beside a turn     *)
(* that may hold a copy. A second entry at the same seq raises, and the    *)
(* request goes back into a free slot.                                     *)
JournalAnswer ==
  /\ Live /\ reply # None /\ reply.step = "append"
  /\ \/ /\ reply.seq \notin disk.entries
        /\ disk' = [disk EXCEPT !.entries = @ \cup {reply.seq}, !.status = "running"]
        /\ reply' = [reply EXCEPT !.step = "enqueue"] /\ pending' = pending
        /\ crossed' = (crossed \/ (turn # None /\ turn.copy # None))
     \/ /\ reply.seq \in disk.entries
        /\ pending' = IF pending = None THEN reply.seq ELSE pending
        /\ reply' = None /\ UNCHANGED <<disk, crossed>>
  /\ UNCHANGED <<turn, orphan, waiting, asker, tail, shown, lost, stopped, late, phase, left>>

(* The handler is done: the request that queued behind the question moves  *)
(* into the slot.                                                          *)
EnqueueResume ==
  /\ Live /\ reply # None /\ reply.step = "enqueue"
  /\ Enqueue /\ Promote(pending)
  /\ reply' = None
  /\ UNCHANGED <<disk, orphan, tail, past, phase, left>>

JournalDenial ==
  /\ Live /\ reply # None /\ reply.step = "deny"
  /\ disk' = [disk EXCEPT !.status = "error"]
  /\ Promote(pending)
  /\ reply' = None
  /\ UNCHANGED <<turn, orphan, waiting, tail, past, phase, left>>

(* cancel_turn sets the event and cancels the task: CancelledError leaves  *)
(* asyncio.wait before the watcher is looked at, so the thunks of a fan    *)
(* are not cancelled and keep the journal, and the task in which a widget  *)
(* waits is not either. A tool's request is cancelled with its call, out   *)
(* of the queue but not out of the slot. run_workflow persists nothing.    *)
CancelTurn ==
  /\ phase = "up" /\ left.cancels > 0
  /\ turn # None /\ turn.pc \in {"activate", "run", "publish", "post", "agent"}
  /\ LET thunks == turn.pc = "run" /\ \E p \in Ready(turn.copy.entries) : Len(p) > 1
     IN  /\ thunks => orphan = None
         /\ orphan' = IF thunks THEN turn.copy ELSE orphan
         /\ IF ~TurnAsks THEN asker' = asker
            ELSE asker' \in (IF thunks THEN {} ELSE {None}) \cup
                             (IF thunks \/ turn.pc = "agent" THEN {[asker EXCEPT !.by = "stray"]} ELSE {})
  /\ stopped' = (stopped \/ turn.pc # "agent")
  /\ lost' = (lost \/ turn.pc \in {"publish", "post"})
  /\ TurnEnds
  /\ left' = [left EXCEPT !.cancels = @ - 1]
  /\ UNCHANGED <<disk, waiting, pending, tail, reply, shown, late, phase>>

(* A thunk that outlived its turn appends to the journal it was given and  *)
(* saves that; nobody is left to join the branches.                        *)
OrphanReturns ==
  /\ Live /\ orphan # None
  /\ \E p \in Ready(orphan.entries) :
       /\ Len(p) > 1
       /\ orphan' = [orphan EXCEPT !.entries = @ \cup {p}]
       /\ disk' = orphan'
  /\ late' = TRUE
  /\ UNCHANGED <<turn, waiting, slot, reply, shown, lost, stopped, crossed, phase, left>>

(* The process dies: the files stay, and the messages in the inbox. The    *)
(* question of a suspended journal is lost when its row is not the one the *)
(* scan will find.                                                         *)
Crash ==
  /\ Live /\ left.crashes > 0
  /\ left' = [left EXCEPT !.crashes = @ - 1]
  /\ phase' = "down" /\ stopped' = FALSE
  /\ TurnEnds
  /\ orphan' = None /\ pending' = None /\ asker' = None /\ reply' = None
  /\ lost' = \/ lost \/ At("publish")
             \/ disk # None /\ disk.status = "suspended" /\ tail \notin Question(disk.entries)
  /\ UNCHANGED <<disk, waiting, tail, shown, late>>

\* Mutation: the startup scan looks for answered requests only.
RestartForgets ==
  /\ phase = "down" /\ phase' = "scan"
  /\ pending' = None
  /\ UNCHANGED <<disk, turn, orphan, waiting, asker, tail, reply, past, left>>

(* startup_scan: what the tail of the archive asks is recovered, unless    *)
(* its row is too old. The inbox is drained next.                          *)
Restart ==
  /\ phase = "down" /\ phase' = "scan"
  /\ pending' \in {tail, None} /\ tail' = pending'
  /\ lost' = (lost \/ pending' # tail)
  /\ UNCHANGED <<disk, turn, orphan, waiting, asker, reply, shown, stopped, late, crossed, left>>

\* Mutation: the cap is compared after a reset: every startup resumes.
ScanUncapped ==
  /\ phase = "scan" /\ phase' = "up"
  /\ LET found == disk # None /\ disk.status = "running"
     IN  \/ ~found /\ UNCHANGED <<disk, turn, waiting>>
         \/ /\ found
            /\ disk' = [disk EXCEPT !.attempts = @ + 1]
            /\ Enqueue
  /\ UNCHANGED <<orphan, slot, reply, past, left>>

\* Mutation: the attempt is counted and no turn is enqueued.
ScanCountsOnly ==
  /\ phase = "scan" /\ phase' = "up"
  /\ LET found == disk # None /\ disk.status = "running"
     IN  disk' = IF found /\ disk.attempts < Cap
                 THEN [disk EXCEPT !.attempts = @ + 1] ELSE disk
  /\ UNCHANGED <<turn, waiting, orphan, slot, reply, past, left>>

(* startup_scan_workflows runs next, beside the turn the inbox gave, and   *)
(* counts an attempt before it enqueues one, whatever the inbox holds.     *)
ScanWorkflows ==
  /\ phase = "scan" /\ phase' = "up"
  /\ LET found == disk # None /\ disk.status = "running"
     IN  \/ ~found /\ UNCHANGED <<disk, turn, waiting>>
         \/ /\ found /\ disk.attempts >= Cap
            /\ disk' = [disk EXCEPT !.status = "error"]
            /\ UNCHANGED <<turn, waiting>>
         \/ /\ found /\ disk.attempts < Cap
            /\ disk' = [disk EXCEPT !.attempts = @ + 1]
            /\ Enqueue
  /\ UNCHANGED <<orphan, slot, reply, past, left>>

Inside == \/ Drain \/ LoadJournal \/ Activate \/ ActivationFails
          \/ CallReturns \/ CallFails \/ Publish \/ PostQuestion
          \/ JournalAnswer \/ EnqueueResume \/ JournalDenial
          \/ Restart \/ ScanWorkflows

Agent == ChatBegins \/ ChatRow \/ ChatEnds \/ AgentAsks \/ AnswerAgent \/ AskerWakes

Next == \/ Inside \/ Agent \/ Trigger \/ Answer \/ Deny
        \/ StartDies \/ CancelTurn \/ OrphanReturns \/ Crash

(* What the process does by itself goes on: a live call returns or raises  *)
(* (its provider, tool or child has a timeout), a chat turn ends (module   *)
(* AgentTurn) and a dead process is started again. Nothing is promised of  *)
(* the user or of orphaned thunks.                                         *)
Fairness == /\ WF_vars(Drain) /\ WF_vars(LoadJournal)
            /\ WF_vars(Activate \/ ActivationFails)
            /\ WF_vars(CallReturns \/ CallFails)
            /\ WF_vars(Publish) /\ WF_vars(PostQuestion)
            /\ WF_vars(JournalAnswer \/ JournalDenial) /\ WF_vars(EnqueueResume)
            /\ WF_vars(ChatRow) /\ WF_vars(ChatEnds) /\ WF_vars(AskerWakes)
            /\ WF_vars(Restart) /\ WF_vars(ScanWorkflows)

Spec == Init /\ [][Next]_vars /\ Fairness
-----------------------------------------------------------------------------
(* Types: every journal is one the script can produce, and the slot, the   *)
(* archive and a claimed answer name questions only.                       *)
Questions == {p \in Positions : Script[p[1]].kind = "ask"}

TypeOK ==
  /\ disk \in Journal \cup {None}
  /\ orphan \in Journal \cup {None}
  /\ turn \in Turns \cup {None}
  /\ waiting \in Nat
  /\ {pending, tail} \subseteq Questions \cup {AgentRequest, None}
  /\ asker \in Askers \cup {None}
  /\ reply \in {r \in Replies : r.seq \in Questions} \cup {None}
  /\ phase \in {"down", "scan", "up"}
  /\ {shown, lost, stopped, late, crossed} \subseteq BOOLEAN
  /\ left \in [triggers : 0..MaxTriggers, chats : 0..MaxChats, cancels : 0..MaxCancels,
               crashes : 0..MaxCrashes]

(* What a run holding exactly the entries E has been through.              *)
Replayable(E) ==
  \A p \in E : /\ \A h \in 1..(p[1] - 1) : <<h>> \in E
               /\ Len(p) = 1 => BranchCalls(p[1]) \subseteq E
               /\ Len(p) = 3 => \A k \in 1..(p[3] - 1) : <<p[1], p[2], k>> \in E

(* What is recorded stays recorded ("replayed from the journal on re-run,  *)
(* never re-executed"): every save writes a whole copy over the file, and  *)
(* none writes one that misses an entry. Nor does a step leave a hole: the *)
(* answer of a question is appended by the handler, not by a replay, to    *)
(* whatever is on disk at that moment. Excepted are the two ways in which  *)
(* an older copy meets a newer file: what follows the save of a thunk that *)
(* outlived its cancelled turn, and what a turn saves after an answer was  *)
(* journaled beside it.                                                    *)
RecordedIsKept ==
  [][disk # None /\ ~late' /\ ~crossed =>
       /\ disk' # None /\ disk.entries \subseteq disk'.entries
       /\ Replayable(disk.entries) => Replayable(disk'.entries)]_vars

(* Whenever no WORKFLOW turn is under way the outcome is where the user    *)
(* sees it: a suspended one has exactly its open question in the slot (or  *)
(* an answer on its way), a finished one has its artifact in the archive.  *)
(* Excepted is what a crash or a cancel took between the save and the      *)
(* post, and a question that a request of another call kept from the slot, *)
(* or cleared out of it when it woke.                                      *)
AtRest == /\ phase = "up" /\ waiting = 0 /\ reply = None
          /\ turn = None \/ turn.pc \in {"chat", "agent", "held"}

OutcomeIsShown ==
  AtRest /\ disk # None /\ ~late /\ ~lost =>
    /\ disk.status = "suspended" => pending \in Question(disk.entries)
    /\ disk.status = "done" => shown

(* post_confirmation: "the slot is always free when a workflow posts".     *)
SlotFreeAtPost == turn # None /\ turn.pc = "post" => pending = None

(* A workflow that is under way comes to rest: it suspends, ends or fails, *)
(* through crashes, restarts and the cap on resumes, unless its turn was   *)
(* cancelled or died starting, which leaves the file at "running" until    *)
(* the next start, or the turn that holds the conversation asks the user.  *)
UnderWay == disk # None /\ disk.status = "running"

RunningIsSettled ==
  UnderWay ~> (~UnderWay \/ stopped \/ TurnAsks)
=============================================================================
