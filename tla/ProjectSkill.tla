----------------------------- MODULE ProjectSkill -----------------------------
(***************************************************************************)
(* The project skill (skills/project): spec, plan and execution of a       *)
(* project, each in a file, and the tools that the phase allows.           *)
(*                                                                         *)
(* Projects belong to the workspace, so that two conversations may work on *)
(* one; the calls of a batch run at a time.  Reading and writing a plan in *)
(* the executing phase happen in a thread, other calls end where they      *)
(* start.  A step of a plan is [deep, id, status]: the children of a step  *)
(* are the deep ones that follow it, and its number is its place.          *)
(* project_status, project_list and project_note change nothing here.      *)
(***************************************************************************)
EXTENDS Integers, Sequences, FiniteSets, SequencesExt

CONSTANTS
    Talks,           \* conversations
    Slugs, NoSlug,   \* names of projects; NoSlug is the empty one
    Plans,           \* plan texts the agent writes: lines, parsed by Parse
    Begun,           \* a project is being executed at the start
    MaxProjects, MaxToolUses, MaxBatch   \* bounds

VARIABLES
    projects,    \* the directories, oldest first: project.json, spec.md and plan.md
    current,     \* the slug in each conversation's skill data
    opened,      \* the directory each conversation created or switched to last
    uses,        \* the tool calls of each conversation's batch
    review,      \* the approval each conversation waits for
    pinned,      \* the progress in each conversation's sticky slot
    marked,      \* the status last reported of each step
    toolUses,
    slips        \* ways to go wrong the behaviour has met

skillState == <<projects, current, opened, uses, review, pinned, marked, toolUses, slips>>

Phases == {"brainstorming", "spec_review", "planning", "plan_review", "executing", "done"}
Marks == {"pending", "in_progress", "done", "skipped"}
Finished == {"done", "skipped"}
NoReview == [of |-> 0, what |-> "none", text |-> 0]
ProjectDirs == DOMAIN projects
Ids == 1..9

PhaseTools ==
    [brainstorming |-> {"update_spec", "task_done"},
     spec_review   |-> {"update_spec", "task_done"},
     planning      |-> {"update_plan", "task_done"},
     plan_review   |-> {"update_plan", "task_done"},
     executing     |-> {"next_task", "task_done", "update_step", "add_steps", "advance"},
     done          |-> {"switch"}]

\* mutant: the first project of the name
FirstNamed(slug) ==
    LET named == {d \in ProjectDirs : projects[d].slug = slug}
    IN  IF named = {} THEN 0 ELSE Min(named)
\* load_project: the latest project of the name
Resolve(slug) ==
    LET named == {d \in ProjectDirs : projects[d].slug = slug}
    IN  IF named = {} THEN 0 ELSE Max(named)

\* get_tools
Offered(c) ==
    IF current[c] = NoSlug THEN {"create", "switch"} ELSE PhaseTools[projects[Resolve(current[c])].status]

-----------------------------------------------------------------------------
(* Plans *)

Step(deep, id, status) == [deep |-> deep, id |-> id, status |-> status]

\* parse_plan: the first unbroken run of checkboxes; what follows is kept as text.
\* A line is a step or a blank.
Parse(lines) ==
    LET starts == {i \in DOMAIN lines : lines[i] # "blank"}
        first == Min(starts)
        last == Max({i \in starts : first..i \subseteq starts})
    IN  IF starts = {} THEN <<>>
        ELSE [i \in 1..(last - first + 1) |->
                 Step(lines[first + i - 1] = "substep" /\ i > 1, i, "pending")]

\* the top-level step that step i is under, or i itself
Top(p, i) == Max({j \in 1..i : ~p[j].deep})
Kids(p, i) == IF p[i].deep THEN {} ELSE {k \in (i + 1)..Len(p) : Top(p, k) = i}
Leaves(p) == {i \in DOMAIN p : Kids(p, i) = {}}

\* next_actionable, as whether there is one
Actionable(p, i) ==
    /\ p[i].status \notin Finished
    /\ p[i].deep => p[Top(p, i)].status \notin Finished
    /\ \/ Kids(p, i) = {} \/ p[i].status = "pending"
       \/ \A k \in Kids(p, i) : p[k].status \in Finished
\* mutant: a step that was begun is taken for done
NextPending(p) == \E i \in DOMAIN p : Actionable(p, i) /\ p[i].status = "pending"
NextActionable(p) == \E i \in DOMAIN p : Actionable(p, i)

\* update_step_status
WithMark(p, i, status) == [p EXCEPT ![i].status = status]

NewId(p) == 1 + Max({p[i].id : i \in DOMAIN p})

\* mutant: the steps that move down start anew
InsertAnew(p, i) ==
    [k \in 1..(Len(p) + 1) |->
        IF k <= i THEN p[k] ELSE IF k = i + 1 THEN Step(p[i].deep, NewId(p), "pending")
        ELSE [p[k - 1] EXCEPT !.status = "pending"]]
\* insert_steps: after the step and what is under it
InsertStep(p, i) ==
    LET after == i + Cardinality(Kids(p, i))
    IN  InsertAt(p, after + 1, Step(p[i].deep, NewId(p), "pending"))

-----------------------------------------------------------------------------
(* States *)

NewProject(slug) ==
    [slug |-> slug, status |-> "brainstorming", spec |-> 0, plan |-> <<>>, text |-> 0,
     approved |-> FALSE]

NoUse == [tool |-> "none", of |-> 0, loaded |-> "none", at |-> 0, id |-> 0, to |-> "none",
          read |-> <<>>, next |-> "over", confirm |-> NoReview]

TypeOK ==
    /\ \A d \in ProjectDirs : /\ projects[d].slug \in Slugs \cup {NoSlug} /\ projects[d].status \in Phases
                       /\ \A i \in DOMAIN projects[d].plan :
                            projects[d].plan[i].id \in Ids /\ projects[d].plan[i].status \in Marks
    /\ Len(projects) <= MaxProjects
    /\ current \in [Talks -> Slugs \cup {NoSlug}] /\ opened \in [Talks -> 0..MaxProjects]
    /\ \A c \in Talks : /\ Len(uses[c]) <= MaxBatch
                        /\ review[c].what \in {"none", "spec", "plan"}
                        /\ pinned[c].of \in 0..MaxProjects
    /\ DOMAIN marked \subseteq ProjectDirs \X Ids
    /\ toolUses \in 0..MaxToolUses

Unpinned == [of |-> 0, plan |-> <<>>]

Init ==
    /\ IF Begun
       THEN \E t \in Plans, s \in Slugs :
              /\ Parse(t) # <<>>
              /\ projects = <<[NewProject(s) EXCEPT !.status = "executing", !.spec = 1, !.text = 1,
                                !.plan = Parse(t), !.approved = TRUE]>>
              /\ current = [c \in Talks |-> s] /\ opened = [c \in Talks |-> 1]
       ELSE /\ projects = <<>>
            /\ current = [c \in Talks |-> NoSlug] /\ opened = [c \in Talks |-> 0]
    /\ uses = [c \in Talks |-> <<>>] /\ review = [c \in Talks |-> NoReview]
    /\ pinned = [c \in Talks |-> Unpinned]
    /\ marked = << >> /\ toolUses = 0 /\ slips = {}

-----------------------------------------------------------------------------
(* Tools.  A batch is made of tools that were offered when it was asked for. *)

\* what the agent may ask for, as it sees the project
Requests(c) ==
    LET d == Resolve(current[c])
    IN  {[NoUse EXCEPT !.tool = t, !.next = "start"] : t \in Offered(c) \ {"update_step", "add_steps"}}
        \cup UNION {{[NoUse EXCEPT !.tool = t, !.next = "start", !.at = i,
                                   !.id = projects[d].plan[i].id, !.to = m]
                       : m \in IF t = "add_steps" THEN {"none"} ELSE {"done", "in_progress"}}
                    : t \in Offered(c) \cap {"update_step", "add_steps"},
                      i \in IF d = 0 THEN {} ELSE DOMAIN projects[d].plan}

\* execute_tool_calls
Batch(c) ==
    /\ uses[c] = <<>> /\ review[c] = NoReview
    /\ \E n \in 1..MaxBatch :
         /\ toolUses + n <= MaxToolUses /\ toolUses' = toolUses + n
         /\ \E b \in [1..n -> Requests(c)] : uses' = [uses EXCEPT ![c] = b]
    /\ UNCHANGED <<projects, current, opened, review, pinned, marked, slips>>

\* the calls start in their order
Starts(c, i, tool) ==
    /\ i \in DOMAIN uses[c] /\ uses[c][i].next = "start" /\ uses[c][i].tool = tool
    /\ \A j \in 1..(i - 1) : uses[c][j].next # "start"

Goes(c, i, use) == uses' = [uses EXCEPT ![c][i] = use]
Ends(c, i) == Goes(c, i, [uses[c][i] EXCEPT !.next = "over", !.read = <<>>])

\* another conversation waits for the user's word on the project
Elsewhere(c, d) == \E e \in Talks \ {c} : review[e].of = d
                                          \/ \E j \in DOMAIN uses[e] : uses[e][j].confirm.of = d
Slip(bad, what) == slips' = IF bad THEN slips \cup {what} ELSE slips
\* save_project, with the status that was loaded: other saves are undone
SavesOver(d, status) == projects[d].status # status

Outgoing(c) == Resolve(current[c])
ClearsOutgoing(c) ==
    pinned' = IF Outgoing(c) # 0 /\ current[c] # NoSlug /\ projects[Outgoing(c)].status = "executing"
              THEN [pinned EXCEPT ![c] = Unpinned] ELSE pinned

\* tool_project_create
Create(c, i) ==
    /\ Starts(c, i, "create") /\ Len(projects) < MaxProjects
    /\ \E s \in Slugs \cup {NoSlug} :
         /\ projects' = Append(projects, NewProject(s))
         /\ current' = [current EXCEPT ![c] = s]
    /\ opened' = [opened EXCEPT ![c] = Len(projects')]
    /\ ClearsOutgoing(c) /\ Ends(c, i)
    /\ UNCHANGED <<review, marked, toolUses, slips>>

\* tool_project_switch, by name or by directory: what is kept is the name
Switch(c, i) ==
    /\ Starts(c, i, "switch")
    /\ \E d \in ProjectDirs :
         /\ current' = [current EXCEPT ![c] = projects[d].slug]
         /\ opened' = [opened EXCEPT ![c] = d]
         /\ IF current[c] # projects[d].slug THEN ClearsOutgoing(c) ELSE UNCHANGED pinned
    /\ Ends(c, i)
    /\ UNCHANGED <<projects, review, marked, toolUses, slips>>

Now(c) == IF current[c] = NoSlug THEN 0 ELSE Resolve(current[c])
At(c, statuses) == Now(c) # 0 /\ projects[Now(c)].status \in statuses

\* the tool asks for the user's approval
Submits(c, i, d, what, text) ==
    Goes(c, i, [uses[c][i] EXCEPT !.next = "over",
                                  !.confirm = [of |-> d, what |-> what, text |-> text]])

\* tool_project_update_spec
UpdateSpec(c, i) ==
    LET d == Now(c)
    IN  /\ Starts(c, i, "update_spec") /\ At(c, {"brainstorming", "spec_review"})
        /\ projects' = [projects EXCEPT ![d].status = "spec_review", ![d].spec = @ + 1]
        /\ Submits(c, i, d, "spec", projects[d].spec + 1)
        /\ Slip(Elsewhere(c, d), "elsewhere")
        /\ UNCHANGED <<current, opened, review, pinned, marked, toolUses>>

\* tool_project_update_plan: a text without steps is refused
UpdatePlan(c, i) ==
    LET d == Now(c)
    IN  /\ Starts(c, i, "update_plan") /\ At(c, {"planning", "plan_review"})
        /\ \E t \in Plans :
             IF Parse(t) = <<>> THEN Ends(c, i) /\ UNCHANGED <<projects, marked, slips>>
             ELSE /\ projects' = [projects EXCEPT ![d].status = "plan_review",
                                    ![d].plan = Parse(t), ![d].text = @ + 1]
                  /\ marked' = [k \in {k \in DOMAIN marked : k[1] # d} |-> marked[k]]
                  /\ Submits(c, i, d, "plan", projects[d].text + 1)
                  /\ Slip(Elsewhere(c, d), "elsewhere")
        /\ UNCHANGED <<current, opened, review, pinned, toolUses>>

\* tool_project_task_done before the execution: a review is asked for
Submit(c, i) ==
    LET d == Now(c)
        what == IF At(c, {"brainstorming", "spec_review"}) THEN "spec" ELSE "plan"
        text == IF what = "spec" THEN projects[d].spec ELSE projects[d].text
    IN  /\ Starts(c, i, "task_done") /\ At(c, Phases \ {"executing", "done"})
        /\ IF text = 0 THEN Ends(c, i) /\ UNCHANGED <<projects, slips>>
           ELSE /\ projects' = [projects EXCEPT ![d].status = what \o "_review"]
                /\ Submits(c, i, d, what, text)
                /\ Slip(Elsewhere(c, d), "elsewhere")
        /\ UNCHANGED <<current, opened, review, pinned, marked, toolUses>>

\* what a phase refuses
Refused(c, i) ==
    /\ \/ Starts(c, i, "update_spec") /\ ~At(c, {"brainstorming", "spec_review"})
       \/ Starts(c, i, "update_plan") /\ ~At(c, {"planning", "plan_review"})
       \/ Starts(c, i, "task_done") /\ At(c, {"done"})
       \/ Starts(c, i, "update_step") /\ ~At(c, {"executing"})
       \/ Starts(c, i, "add_steps") /\ ~At(c, {"planning", "plan_review", "executing"})
       \/ Starts(c, i, "advance") /\ ~At(c, Phases \ {"done"})
       \/ Starts(c, i, "next_task") /\ ~At(c, {"executing"})
       \/ Starts(c, i, "create") /\ Len(projects) = MaxProjects
       \/ Starts(c, i, "switch") /\ projects = <<>>
    /\ Ends(c, i)
    /\ UNCHANGED <<projects, current, opened, review, pinned, marked, toolUses, slips>>

\* what reads the plan in a thread: the project is loaded, and its status remembered
Begins(c, i) ==
    /\ \/ Starts(c, i, "task_done") /\ At(c, {"executing"})
       \/ Starts(c, i, "update_step") /\ At(c, {"executing"})
       \/ Starts(c, i, "add_steps") /\ At(c, {"planning", "plan_review", "executing"})
       \/ Starts(c, i, "next_task") /\ At(c, {"executing"})
    /\ Goes(c, i, [uses[c][i] EXCEPT !.of = Now(c), !.loaded = projects[Now(c)].status,
                                     !.next = IF @ = "start" /\ uses[c][i].tool = "next_task"
                                              THEN "look" ELSE "read"])
    /\ UNCHANGED <<projects, current, opened, review, pinned, marked, toolUses, slips>>

\* the thread reads the plan, and the loop changes what it read
Read(c, i) ==
    LET u == uses[c][i]
        p == projects[u.of].plan
        found == u.at \in DOMAIN p
    IN  /\ i \in DOMAIN uses[c] /\ u.next = "read"
        /\ \/ /\ u.tool = "update_step" /\ found
              /\ Goes(c, i, [u EXCEPT !.read = WithMark(p, u.at, u.to), !.next = "write"])
              /\ Slip(p[u.at].id # u.id, "moved")
           \/ /\ u.tool = "add_steps" /\ found
              /\ Goes(c, i, [u EXCEPT !.read = InsertStep(p, u.at), !.next = "write"])
              /\ Slip(p[u.at].id # u.id, "moved")
           \/ /\ u.tool \in {"update_step", "add_steps"} /\ ~found
              /\ Ends(c, i) /\ UNCHANGED slips
           \/ /\ u.tool = "task_done"
              /\ IF NextActionable(p) THEN Ends(c, i)
                 ELSE Goes(c, i, [u EXCEPT !.next = "finish"])
              /\ UNCHANGED slips
        /\ UNCHANGED <<projects, current, opened, review, pinned, marked, toolUses>>

\* the plan is written as it was read and changed
Write(c, i) ==
    LET u == uses[c][i]
        p == projects[u.of].plan
        before == IF u.tool = "update_step" /\ u.at \in DOMAIN p
                  THEN WithMark(p, u.at, u.to) ELSE IF u.at \in DOMAIN p THEN InsertStep(p, u.at)
                  ELSE p
    IN  /\ i \in DOMAIN uses[c] /\ u.next = "write"
        /\ projects' = [projects EXCEPT ![u.of].plan = u.read]
        /\ Goes(c, i, [u EXCEPT !.next = "save", !.read = <<>>])
        /\ slips' = slips \cup (IF before # u.read THEN {"overwritten"} ELSE {})
                          \cup (IF SavesOver(u.of, u.loaded) THEN {"late"} ELSE {})
                          \cup (IF Elsewhere(c, u.of) THEN {"elsewhere"} ELSE {})
        /\ marked' = IF u.tool = "update_step"
                     THEN [k \in DOMAIN marked \cup {<<u.of, u.id>>} |->
                              IF k = <<u.of, u.id>> THEN u.to ELSE marked[k]]
                     ELSE marked
        /\ UNCHANGED <<current, opened, review, pinned, toolUses>>

Save(c, i) ==
    LET u == uses[c][i]
    IN  /\ i \in DOMAIN uses[c] /\ u.next = "save"
        /\ projects' = [projects EXCEPT ![u.of].status = u.loaded]
        /\ Slip(SavesOver(u.of, u.loaded), "late")
        /\ IF u.loaded = "executing" THEN Goes(c, i, [u EXCEPT !.next = "look"]) ELSE Ends(c, i)
        /\ UNCHANGED <<current, opened, review, pinned, marked, toolUses>>

\* _emit_project_progress: the plan is read in a thread, and pinned
Look(c, i) ==
    LET u == uses[c][i]
    IN  /\ i \in DOMAIN uses[c] /\ u.next = "look"
        /\ Goes(c, i, [u EXCEPT !.next = "pin", !.read = projects[u.of].plan])
        /\ UNCHANGED <<projects, current, opened, review, pinned, marked, toolUses, slips>>

Pin(c, i) ==
    LET u == uses[c][i]
    IN  /\ i \in DOMAIN uses[c] /\ u.next = "pin"
        /\ pinned' = [pinned EXCEPT ![c] = [of |-> u.of, plan |-> u.read]]
        /\ Slip(projects[u.of].plan # u.read \/ projects[u.of].status # "executing", "late")
        /\ Ends(c, i)
        /\ UNCHANGED <<projects, current, opened, review, marked, toolUses>>

\* tool_project_task_done when nothing is left to do
Finish(c, i) ==
    LET u == uses[c][i]
    IN  /\ i \in DOMAIN uses[c] /\ u.next = "finish"
        /\ projects' = [projects EXCEPT ![u.of].status = "done"]
        /\ Slip(NextActionable(projects[u.of].plan) \/ projects[u.of].status # "executing", "late")
        /\ Goes(c, i, [u EXCEPT !.next = "clear"])
        /\ UNCHANGED <<current, opened, review, pinned, marked, toolUses>>

\* mutant: the slot keeps what it has
ClearNothing(c) == UNCHANGED pinned
\* _clear_project_progress
ClearSlot(c) == pinned' = [pinned EXCEPT ![c] = Unpinned]

Clear(c, i) ==
    /\ i \in DOMAIN uses[c] /\ uses[c][i].next = "clear"
    /\ ClearSlot(c) /\ Ends(c, i)
    /\ UNCHANGED <<projects, current, opened, review, marked, toolUses, slips>>

\* state.py: what may follow
Transitions ==
    [brainstorming |-> {"spec_review"}, spec_review |-> {"planning", "brainstorming"},
     planning |-> {"plan_review"}, plan_review |-> {"executing", "planning"},
     executing |-> {"done", "planning", "brainstorming"}, done |-> {}]

\* tool_project_advance, offered while executing
Advance(c, i) ==
    LET d == Now(c)
    IN  /\ Starts(c, i, "advance") /\ At(c, Phases \ {"done"})
        /\ \E target \in Transitions[projects[d].status] :
             /\ projects' = [projects EXCEPT ![d].status = target,
                               ![d].approved = target = "done" /\ @]
             /\ slips' = slips \cup (IF target = "done" THEN {"closed"} ELSE {})
                               \cup (IF projects[d].status # "executing" THEN {"skipped"} ELSE {})
                               \cup (IF Elsewhere(c, d) THEN {"elsewhere"} ELSE {})
        /\ IF projects[d].status = "executing" THEN Goes(c, i, [uses[c][i] EXCEPT !.next = "clear"])
           ELSE Ends(c, i)
        /\ UNCHANGED <<current, opened, review, pinned, marked, toolUses>>

\* mutant: the first tool that asked has its way
FirstAsking(asking) == Min(asking)
LastAsking(asking) == Max(asking)

\* the batch is over; the last tool that asked for a review has its way
Over(c) ==
    LET asking == {i \in DOMAIN uses[c] : uses[c][i].confirm # NoReview}
    IN  /\ uses[c] # <<>> /\ \A i \in DOMAIN uses[c] : uses[c][i].next = "over"
        /\ uses' = [uses EXCEPT ![c] = <<>>]
        /\ review' = [review EXCEPT ![c] =
                        IF asking = {} THEN NoReview
                        ELSE uses[c][LastAsking(asking)].confirm]
        /\ UNCHANGED <<projects, current, opened, pinned, marked, toolUses, slips>>

\* mutant: the words of the user are mixed up
Refined(what) == IF what = "spec" THEN "brainstorming" ELSE "executing"
\* on_deny
Reopened(what) == IF what = "spec" THEN "brainstorming" ELSE "planning"
\* on_approve
Accepted(what) == IF what = "spec" THEN "planning" ELSE "executing"

\* _handle_end_turn_confirm: the status is set, whatever it has become
Answer(c) ==
    LET r == review[c]
    IN  /\ r # NoReview
        /\ \/ projects' = [projects EXCEPT ![r.of].status = Accepted(r.what),
                             ![r.of].approved = r.what = "plan"]
           \/ projects' = [projects EXCEPT ![r.of].status = Reopened(r.what),
                             ![r.of].approved = FALSE]
        /\ review' = [review EXCEPT ![c] = NoReview]
        /\ Slip(Elsewhere(c, r.of), "elsewhere")
        /\ UNCHANGED <<current, opened, uses, pinned, marked, toolUses>>

Next ==
    \E c \in Talks :
        \/ Batch(c) \/ Over(c) \/ Answer(c)
        \/ \E i \in 1..MaxBatch :
             \/ Create(c, i) \/ Switch(c, i) \/ UpdateSpec(c, i) \/ UpdatePlan(c, i)
             \/ Submit(c, i) \/ Refused(c, i) \/ Begins(c, i) \/ Read(c, i) \/ Write(c, i)
             \/ Save(c, i) \/ Look(c, i) \/ Pin(c, i) \/ Finish(c, i) \/ Clear(c, i)
             \/ Advance(c, i)

Spec == Init /\ [][Next]_skillState

-----------------------------------------------------------------------------
(* Properties *)

\* While the user is asked, the text that was put to them is the one on disk and
\* the project waits for the answer, so that an approval is of what will run.
ReviewIsOfTheText ==
    \A c \in Talks : review[c] # NoReview /\ slips \cap {"elsewhere", "late", "skipped"} = {} =>
        LET p == projects[review[c].of]
        IN  /\ p.status = review[c].what \o "_review"
            /\ review[c].text = IF review[c].what = "spec" THEN p.spec ELSE p.text

\* A plan is carried out only after the user has approved it.
NoPlanRunsUnapproved ==
    \A d \in ProjectDirs : projects[d].status \in {"executing", "done"} =>
        projects[d].approved \/ slips \cap {"late", "elsewhere", "skipped"} # {}

\* A project that is done has every step done or skipped, by itself or with the
\* step it is under.
DoneIsDone ==
    \A d \in ProjectDirs : projects[d].status = "done" /\ slips \cap {"closed", "late"} = {} =>
        LET p == projects[d].plan
        IN  \A i \in Leaves(p) : p[i].status \in Finished \/ p[Top(p, i)].status \in Finished

\* What was reported of a step stays, and stays with that step, as long as the
\* plan is not written anew.
ReportsStay ==
    \A k \in DOMAIN marked :
        slips \cap {"overwritten", "moved"} = {} =>
            \E i \in DOMAIN projects[k[1]].plan :
                /\ projects[k[1]].plan[i].id = k[2]
                /\ projects[k[1]].plan[i].status = marked[k]

\* Between two batches the progress pinned to a conversation that has the project
\* to itself is that of a project that is being executed, step by step.
PinIsCurrent ==
    \A c \in Talks : uses[c] = <<>> /\ pinned[c].of # 0 /\ slips \cap {"late", "elsewhere"} = {} =>
        /\ projects[pinned[c].of].status = "executing"
        /\ pinned[c].plan = projects[pinned[c].of].plan

\* A conversation goes on with the project it opened, unless a later one has the
\* same name.
SameProject ==
    \A c \in Talks : opened[c] # 0 /\ current[c] # NoSlug =>
        Resolve(current[c]) = opened[c] \/ \E d \in ProjectDirs : d > opened[c] /\ projects[d].slug = current[c]
=============================================================================
