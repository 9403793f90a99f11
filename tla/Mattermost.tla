------------------------------ MODULE Mattermost ------------------------------
(***************************************************************************)
(* One conversation of the Mattermost transport: the messages are gathered *)
(* for the debounce time, a task makes a placeholder post, a display and a *)
(* poll for the stop emoji, and hands the turn to the conversation         *)
(* manager; the events of the manager's turns are shown through whatever   *)
(* display the conversation's state holds at the time.  A generation's     *)
(* text arrives in one chunk and a round calls one tool.                   *)
(***************************************************************************)
EXTENDS Integers, Sequences, FiniteSets

CONSTANTS
    Posters,     \* gathered batches of messages, one _process_conversation each
    Wakes,       \* turns that the manager starts by itself
    NoTurn,      \* no such turn
    MaxRounds,   \* rounds of one turn
    MaxTurns,    \* bound on the turns that begin
    MaxMessages  \* messages the user writes

VARIABLES
    streams,   \* does the model stream?
    written,   \* messages so far
    pending,   \* pending_msgs
    timer,     \* is a debounce task waiting?
    step,      \* where the task of a batch is suspended
    posts,     \* the posts of the channel, in order
    initial,   \* the placeholder of a batch
    display,   \* its ConversationDisplay
    slot,      \* mm_state.conv_display
    poll,      \* mm_state.cancel_task
    polling,   \* tasks that poll for the stop emoji
    queue,     \* the manager's queue
    now,       \* the turn that runs
    stage,     \* the last event it emitted
    round,
    begun,     \* turns so far
    closing,   \* turn_complete waits for finalize()
    cancelled, \* turns stopped by a poll
    answered,  \* turns that ended with the text of their last generation
    crossed,   \* turns that a display of another batch showed, even in part
    displaced  \* batches whose display or poll was pushed out or used by another turn

shown == <<posts, display>>
taken == <<slot, poll, polling>>
managed == <<queue, now, stage, round, begun, answered, crossed>>
typed == <<written, pending, timer>>
mattermostVars == <<streams, typed, step, shown, initial, taken, managed, closing,
                    cancelled, displaced>>

Turns == Posters \cup Wakes
Post(by, says, thinking, stop) ==
    [by |-> by, says |-> says, thinking |-> thinking, stop |-> stop]
NoDisplay == [post |-> 0, type |-> "none", held |-> {}, tool |-> 0, final |-> FALSE,
              button |-> FALSE, stopOn |-> 0]

TypeOK ==
    /\ streams \in BOOLEAN /\ timer \in BOOLEAN /\ closing \in BOOLEAN
    /\ pending \in 0..written /\ written \in 0..MaxMessages
    /\ step \in [Posters -> {"none", "cooling", "posted", "attaching", "done"}]
    /\ posts \in Seq([by : Posters \cup {NoTurn}, says : SUBSET Turns,
                      thinking : BOOLEAN, stop : BOOLEAN])
    /\ initial \in [Posters -> 0..Len(posts)]
    /\ display \in [Posters -> [post : 0..Len(posts), type : {"none", "thinking", "text", "tool"},
                     held : SUBSET Turns, tool : 0..Len(posts), final : BOOLEAN,
                     button : BOOLEAN, stopOn : 0..Len(posts)]]
    /\ {slot, poll} \subseteq Posters \cup {NoTurn} /\ polling \subseteq Posters
    /\ queue \in Seq(Turns) /\ now \in Turns \cup {NoTurn}
    /\ stage \in {"none", "begun", "asking", "told", "calling", "working", "worked", "ended"}
    /\ round \in 0..MaxRounds /\ begun \in 0..MaxTurns
    /\ \A s \in {cancelled, answered, crossed} : s \subseteq Turns
    /\ displaced \subseteq Posters

Init ==
    /\ streams \in BOOLEAN /\ timer = FALSE /\ pending = 0 /\ written = 0
    /\ step = [p \in Posters |-> "none"] /\ posts = <<>>
    /\ initial = [p \in Posters |-> 0] /\ display = [p \in Posters |-> NoDisplay]
    /\ slot = NoTurn /\ poll = NoTurn /\ polling = {}
    /\ queue = <<>> /\ now = NoTurn /\ stage = "none" /\ round = 0 /\ begun = 0
    /\ closing = FALSE /\ cancelled = {} /\ answered = {}
    /\ crossed = {} /\ displaced = {}

-----------------------------------------------------------------------------
(* From a message to a turn. *)

\* on_message: add it to the batch and start the debounce time again
Message ==
    /\ written < MaxMessages
    /\ written' = written + 1 /\ pending' = pending + 1 /\ timer' = TRUE
    /\ UNCHANGED <<streams, step, shown, initial, taken, managed, closing, cancelled, displaced>>

\* debounce_and_process: take the batch, wait for the cooldown
Debounced(p) ==
    /\ timer /\ pending > 0 /\ step[p] = "none"
    /\ timer' = FALSE /\ pending' = 0
    /\ step' = [step EXCEPT ![p] = "cooling"]
    /\ UNCHANGED <<streams, written, shown, initial, taken, managed, closing, cancelled, displaced>>

\* send_placeholder
Placeholder(p) ==
    /\ step[p] = "cooling" /\ step' = [step EXCEPT ![p] = "posted"]
    /\ posts' = Append(posts, Post(p, {}, TRUE, FALSE))
    /\ initial' = [initial EXCEPT ![p] = Len(posts) + 1]
    /\ UNCHANGED <<streams, typed, display, taken, managed, closing, cancelled, displaced>>

\* the display goes into the conversation's state, over one of a turn that has
\* not ended; the edit that adds the stop button is under way
Install(p) ==
    /\ step[p] = "posted" /\ step' = [step EXCEPT ![p] = "attaching"]
    /\ display' = [display EXCEPT ![p] =
           [NoDisplay EXCEPT !.post = initial[p], !.type = "thinking",
                             !.button = TRUE, !.stopOn = initial[p]]]
    /\ slot' = p
    /\ displaced' = displaced \cup ({slot} \ {NoTurn})
    /\ crossed' = crossed \cup ({now} \ {NoTurn})
    /\ UNCHANGED <<streams, typed, posts, initial, poll, polling, queue, now, stage, round, begun,
                   answered, closing, cancelled>>

Begins(t) ==
    /\ begun < MaxTurns /\ begun' = begun + 1
    /\ now' = t /\ stage' = "begun" /\ round' = 0

\* the batch whose display turn_complete is just finalizing
Finished == IF now = NoTurn /\ closing THEN {slot} \ {NoTurn} ELSE {}

\* enqueue_turn: start at once if no turn is running, even while the events of
\* the last one are still being handled
Enqueue(t) ==
    IF now = NoTurn
    THEN /\ Begins(t)
         /\ crossed' = crossed \cup Finished
         /\ UNCHANGED queue
    ELSE queue' = Append(queue, t) /\ UNCHANGED <<now, stage, round, begun, crossed>>

\* the edit puts "Thinking..." and the button on the placeholder; the poll
\* starts, the subscription is made anew and the manager gets the turn
Submit(p) ==
    /\ step[p] = "attaching" /\ step' = [step EXCEPT ![p] = "done"]
    /\ posts' = [posts EXCEPT ![initial[p]].says = {}, ![initial[p]].thinking = TRUE,
                              ![initial[p]].stop = TRUE]
    /\ poll' = p /\ polling' = polling \cup {p}
    /\ Enqueue(p) /\ displaced' = displaced \cup Finished \cup (polling \cap {poll})
    /\ UNCHANGED <<streams, typed, display, initial, slot, answered, closing,
                   cancelled>>

Wake(w) ==
    /\ w # now /\ w \notin answered \cup cancelled /\ \A i \in DOMAIN queue : queue[i] # w
    /\ Enqueue(w) /\ displaced' = displaced \cup Finished
    /\ UNCHANGED <<streams, typed, step, shown, initial, taken, answered,
                   closing, cancelled>>

\* _drain_pending, after the handlers of turn_complete: the batches at the
\* head of the queue are one turn, known here by the last of them
Drain ==
    /\ now = NoTurn /\ ~closing /\ queue # <<>>
    /\ \E n \in DOMAIN queue :
        /\ \A i \in 1..n : n = 1 \/ queue[i] \in Posters
        /\ \A i \in DOMAIN queue : i = n + 1 => Wakes \cap {queue[n], queue[i]} # {}
        /\ Begins(queue[n])
        /\ queue' = SubSeq(queue, n + 1, Len(queue))
    /\ UNCHANGED <<streams, typed, step, shown, initial, taken, answered, crossed,
                   closing, cancelled, displaced>>

-----------------------------------------------------------------------------
(* The events of a turn, shown by the display that is in the slot: one     *)
(* operator for each of its handlers, d its fields and ps the posts.       *)

Says(ps, i, who) == [ps EXCEPT ![i].says = who, ![i].thinking = FALSE]
Stripped(ps, i) == IF i = 0 THEN ps ELSE [ps EXCEPT ![i].stop = FALSE]

\* _finalize_current_text
TextFinal(d, ps) ==
    IF d.type \in {"text", "thinking"} /\ d.post # 0
    THEN [d |-> [d EXCEPT !.type = "none", !.stopOn = IF @ = d.post THEN 0 ELSE @],
          ps |-> Stripped(IF d.held # {} THEN Says(ps, d.post, d.held) ELSE ps, d.post)]
    ELSE [d |-> d, ps |-> ps]

NewPost(d, ps, says, thinking) ==
    [d |-> [d EXCEPT !.post = Len(ps) + 1, !.stopOn = IF d.button THEN Len(ps) + 1 ELSE @],
     ps |-> Append(ps, Post(slot, says, thinking, d.button))]

OnLlmStart(d, ps) ==
    IF round' = 1
    THEN [d |-> [d EXCEPT !.post = initial[slot], !.type = "thinking"], ps |-> ps]
    ELSE LET f == TextFinal(d, ps)
         IN NewPost([f.d EXCEPT !.held = {}, !.type = "thinking"], f.ps, {}, TRUE)

\* on_text_chunk and on_text_done, or on_text_complete
OnText(d, ps) ==
    LET held == IF streams THEN d.held \cup {now} ELSE {now}
        said == [d EXCEPT !.held = held, !.type = "none"]
    IN IF d.post # 0 THEN [d |-> said, ps |-> Says(ps, d.post, held)]
       ELSE IF streams THEN [d |-> said, ps |-> ps]
       ELSE NewPost(said, ps, held, FALSE)

\* text before tools: a streamed one is finished, stop button and all, when the
\* first call arrives; one that comes whole keeps its button
OnTextBeforeTools(d, ps) ==
    IF streams
    THEN LET f == TextFinal([d EXCEPT !.held = @ \cup {now},
                                      !.type = IF @ = "thinking" THEN "text" ELSE @], ps)
         IN [f EXCEPT !.d.type = "none"]
    ELSE OnText(d, ps)

\* the first tool of a round takes the placeholder over if it says nothing yet
OnToolStart(d, ps) ==
    IF d.type = "thinking" /\ d.post # 0 /\ d.held = {}
    THEN [d |-> [d EXCEPT !.tool = d.post, !.post = 0, !.type = "tool"],
          ps |-> Says(ps, d.post, {})]
    ELSE LET n == NewPost(TextFinal(d, ps).d, TextFinal(d, ps).ps, {}, FALSE)
         IN [d |-> [n.d EXCEPT !.tool = Len(n.ps), !.type = "tool",
                               !.post = TextFinal(d, ps).d.post],
             ps |-> n.ps]

OnToolEnd(d, ps) ==
    [d |-> [d EXCEPT !.tool = 0, !.type = "none",
                     !.stopOn = IF @ = d.tool THEN 0 ELSE @],
     ps |-> Stripped(ps, d.tool)]

\* mutant: the stop button is left on the post that has it
FinalizeKeepsStop(d, ps) ==
    [d |-> [d EXCEPT !.final = TRUE],
     ps |-> IF d.post = 0 \/ d.type \notin {"text", "thinking"} THEN ps
            ELSE Says(ps, d.post, d.held)]

\* finalize: does nothing the second time
Finalize(d, ps) ==
    IF d.final THEN [d |-> d, ps |-> ps]
    ELSE [d |-> [d EXCEPT !.final = TRUE, !.stopOn = 0, !.button = FALSE],
          ps |-> Stripped(
              IF d.post = 0 \/ d.type \notin {"text", "thinking"} THEN ps
              ELSE Says(ps, d.post, d.held),
              d.stopOn)]

Showing(Handler(_, _)) ==
    IF slot = NoTurn THEN UNCHANGED shown
    ELSE LET after == Handler(display[slot], posts)
         IN /\ display' = [display EXCEPT ![slot] = after.d]
            /\ posts' = after.ps

Emits(from, to) ==
    /\ stage \in from /\ stage' = to
    /\ UNCHANGED <<streams, typed, step, initial, taken, queue, now, begun, answered,
                   crossed, closing, cancelled, displaced>>

LlmStart ==
    /\ round < MaxRounds /\ round' = round + 1
    /\ Emits({"begun", "worked"}, "asking") /\ Showing(OnLlmStart)
Text == Emits({"asking"}, "told") /\ Showing(OnText) /\ UNCHANGED round
TextBeforeTools ==
    /\ round < MaxRounds
    /\ Emits({"asking"}, "calling") /\ Showing(OnTextBeforeTools) /\ UNCHANGED round
ToolStart ==
    /\ round < MaxRounds
    /\ Emits({"asking", "calling"}, "working") /\ Showing(OnToolStart) /\ UNCHANGED round
ToolEnd == Emits({"working"}, "worked") /\ Showing(OnToolEnd) /\ UNCHANGED round

\* message_complete: the final text goes into the display's buffer, or is
\* posted when there is no display.  A cancelled turn ends at any point.
MessageComplete ==
    /\ stage = "told" \/ (now \in cancelled /\ stage \notin {"none", "ended"})
    /\ stage' = "ended"
    /\ answered' = IF now \in cancelled THEN answered ELSE answered \cup {now}
    /\ IF slot # NoTurn
       THEN display' = [display EXCEPT ![slot].held = {now}] /\ UNCHANGED posts
       ELSE posts' = Append(posts, Post(NoTurn, {now}, FALSE, FALSE)) /\ UNCHANGED display
    /\ UNCHANGED <<streams, typed, step, initial, taken, queue, now, round, begun, crossed,
                   closing, cancelled, displaced>>

\* turn_complete: the turn is no longer busy while its handler finalizes the
\* display that is in the slot
TurnComplete ==
    /\ stage = "ended" /\ ~closing
    /\ now' = NoTurn /\ stage' = "none" /\ closing' = TRUE
    /\ Showing(Finalize)
    /\ displaced' = displaced \cup ({slot} \ {now, NoTurn})
    /\ crossed' = crossed \cup {t \in {now} : slot \notin {now, NoTurn}}
    /\ UNCHANGED <<streams, typed, step, initial, taken, queue, round, begun, answered,
                   cancelled>>

\* mutant: the display is kept for the next turn
KeepsDisplay == UNCHANGED slot

EmptiesSlot == slot' = NoTurn

\* ... and then cancels the poll and empties the slot, whatever is there by now
Closed ==
    /\ closing /\ closing' = FALSE
    /\ poll' = IF poll \in polling THEN NoTurn ELSE poll
    /\ polling' = polling \ {poll}
    /\ EmptiesSlot
    /\ displaced' = displaced \cup {p \in Posters : p = slot /\ ~display[p].final}
    /\ crossed' = crossed \cup {t \in {now} : t # NoTurn /\ slot # NoTurn}
    /\ UNCHANGED <<streams, typed, step, shown, initial, queue, now, stage, round, begun,
                   answered, cancelled>>

\* the emoji on a placeholder cancels the turn that runs, whichever it is
StopEmoji(p) ==
    /\ p \in polling
    /\ polling' = polling \ {p}
    /\ cancelled' = cancelled \cup ({now} \ {NoTurn})
    /\ UNCHANGED <<streams, typed, step, shown, initial, slot, poll, managed, closing, displaced>>

Next ==
    \/ Message \/ Drain \/ LlmStart \/ Text \/ TextBeforeTools \/ ToolStart \/ ToolEnd
    \/ MessageComplete \/ TurnComplete \/ Closed
    \/ \E p \in Posters : Debounced(p) \/ Placeholder(p) \/ Install(p) \/ Submit(p) \/ StopEmoji(p)
    \/ \E w \in Wakes : Wake(w)

Spec == Init /\ [][Next]_mattermostVars

-----------------------------------------------------------------------------
(* Properties. *)

\* What a turn has answered stays to be read in some post of the channel,
\* unless a display was put in or taken out while the turn ran: later turns,
\* those the manager starts by itself included, do not write over it.
AnswersAreShown ==
    (now = NoTurn /\ ~closing) =>
        \A t \in answered \ crossed : \E i \in DOMAIN posts : t \in posts[i].says

\* When nothing runs and nothing waits, no post still says "Thinking...", none
\* still has a Stop button and nobody polls for the emoji, but for batches
\* whose display was displaced by another turn's, and for the button of a text
\* that came whole before a tool call.
QuietMeansSettled ==
    (now = NoTurn /\ ~closing /\ queue = <<>> /\ \A p \in Posters : step[p] \in {"none", "done"})
        => /\ polling \subseteq displaced
           /\ \A i \in DOMAIN posts :
                  \/ posts[i].by \in displaced
                  \/ ~posts[i].thinking /\ (posts[i].stop => ~streams /\ posts[i].says # {})
=============================================================================
