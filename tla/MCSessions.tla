----------------------------- MODULE MCSessions -------------------------------
(***************************************************************************)
(* What decafclaw keeps running, for TLC.  The modules share no state: a    *)
(* behaviour exercises one of them (focus) and leaves the others as they   *)
(* were at the start.                                                      *)
(***************************************************************************)
EXTENDS Integers, Sequences, FiniteSets, TLC

CONSTANTS
    Prints, Exempt, NoPrint, RepeatAt, ErrorsAt, ErrorWindow, Batches,  \* LoopBreaker
    MaxChecks,
    Ops, NoOp, MaxRetries, MaxOpCancels,                                \* McpClient
    Convs, Jobs, Tools, NoJob, MaxManagers, MaxAborts,                  \* BackgroundJobs
    Posters, Wakes, NoTurn, MaxPosts, MaxAnswers, MaxTyped,             \* Mattermost
    Coders, Dirs, NoDir, MaxSessions, Timeout, Budget, MaxTicks,        \* CodeSessions
    Children, MaxTurns, MaxParallel, MaxRounds, MaxMessages,            \* Delegate
    Pages, MaxReplies, MaxPieces, MaxOpens,                             \* WebChat
    Schedules, Runs, Heartbeat, MaxTime, MaxCrashes,                    \* Schedules
    Trusted, Own, ToolNames, NoSkill, MaxSkillEdits, MaxSkillTurns,     \* SkillTools
    MaxSkillRestarts,
    Presets,                                                            \* ShellApproval
    Chats, NoChat                                                       \* PageState

VARIABLES
    focus,
    count, watermark, failed, recent, errors, errorsAtTrip, trips, offense, rung, checks,
    op, at, agen, open, how, holds, status, generation, settled, stack, session, tools,
    retries, backoff, task, closed, disowned, abandoned, opCancels,
    manager, managers, jobs, proc, reader, jobStatus, finalized, lateJobs, jobTold, jobDoes,
    jobAt, with, on, sweep, stale, strays, jobCut, aborts,
    streams, written, pending, timer, posterStep, posts, initial, display, slot, poll,
    polling, queue, turnNow, stage, llmRound, begun, closing, cancelled, answered, crossed,
    displaced,
    product, sessions, created, cwd, cwdTo, idle, consented, spent, allowed, coderDoes,
    step, uses, agents, granted, outlived, ticks,
    turn, live, stopped, batch, permits, entry, does, event, starter, rounds, mail, awaited,
    overdue, late, unfenced,
    doing, round, streamed, turnText, kept, rows, forwards, stream, buffer, clearing,
    loading, loaded, shows, opens, partial, unsaid,
    mattermost, up, now, lastRun, running_tasks, beat, runDoes, of, byTimer, conv, told,
    cut, unwritten, raced, torn, ran, twice,
    code, catalog, skillGrants, inTurn, skillTurns, skillRestarts, activated, extra,
    declared, contributions, noted, activating, skillGen, agreed, editedMeanwhile, unsure,
    texts, pattern, keptPolicy, sidecar, inForce, shellCalls, shellTurns, asks, rules, puts,
    shellCrashes, fails, decided, owed, lastRan, list, served, mishaps,
    chat, asked, socket, toServer, toPage, view, badge, revision, sequence, listings,
    clicks, chatTurns, drops, odd,
    projects, current, opened, inBatch, review, pinned, marked, toolUses, slips,
    llmPhase, llmCall, said, got, shown, llmStopped, empties, outcome, llmRows, sent,
    requests, stops, llmSlips,
    turnAt, answers, kind, visibility, budget, emptied, rejections, last, first,
    turnRows, start, parts, judged, delivered, metrics, verdictsShown, verdictRows,
    verdicts, turnTools, calls, overflows, judgeSlips

breakerVars == <<count, watermark, failed, recent, errors, errorsAtTrip, trips, offense,
                 rung, checks>>
mcpVars == <<op, at, agen, open, how, holds, status, generation, settled, stack, session,
             tools, retries, backoff, task, closed, disowned, abandoned, opCancels>>
jobVars == <<manager, managers, jobs, proc, reader, jobStatus, finalized, lateJobs, jobTold,
             jobDoes, jobAt, with, on, sweep, stale, strays, jobCut, aborts>>
channelVars == <<streams, written, pending, timer, posterStep, posts, initial, display,
                 slot, poll, polling, queue, turnNow, stage, llmRound, begun, closing,
                 cancelled, answered, crossed, displaced>>
coderVars == <<product, sessions, created, cwd, cwdTo, idle, consented, spent, allowed,
               coderDoes, step, uses, agents, granted, outlived, ticks>>
delegateVars == <<turn, live, stopped, batch, permits, entry, does, event, starter, rounds,
                  mail, awaited, overdue, late, unfenced>>
chatVars == <<doing, round, streamed, turnText, kept, rows, forwards, stream, buffer,
              clearing, loading, loaded, shows, opens, partial, unsaid>>
timerVars == <<mattermost, up, now, lastRun, running_tasks, beat, runDoes, of, byTimer,
               conv, told, cut, unwritten, raced, torn, ran, twice>>
skillVars == <<code, catalog, skillGrants, inTurn, skillTurns, skillRestarts, activated,
               extra, declared, contributions, noted, activating, skillGen, agreed,
               editedMeanwhile, unsure>>
approvalVars == <<texts, pattern, keptPolicy, sidecar, inForce, shellCalls, shellTurns, asks,
                  rules, puts, shellCrashes, fails, decided, owed, lastRan, list, served,
                  mishaps>>
windowVars == <<chat, asked, socket, toServer, toPage, view, badge, revision, sequence,
                listings, clicks, chatTurns, drops, odd>>
projectVars == <<projects, current, opened, inBatch, review, pinned, marked, toolUses,
                 slips>>
llmVars == <<llmPhase, llmCall, said, got, shown, llmStopped, empties, outcome,
             llmRows, sent, requests, stops, llmSlips>>
answerVars == <<turnAt, answers, kind, visibility, budget, emptied, rejections, last,
                first, turnRows, start, parts, judged, delivered, metrics,
                verdictsShown, verdictRows, verdicts, turnTools, calls, overflows,
                judgeSlips>>

Some(S) == CHOOSE x \in S : TRUE

Breaker == INSTANCE LoopBreaker WITH
        MaxRounds <- MaxChecks, rounds <- checks
Servers == INSTANCE McpClient
Shells  == INSTANCE BackgroundJobs WITH
        status <- jobStatus, does <- jobDoes, at <- jobAt, overdue <- lateJobs,
        told <- jobTold, cut <- jobCut
Channel == INSTANCE Mattermost WITH
        MaxRounds <- MaxPosts, MaxTurns <- MaxAnswers, MaxMessages <- MaxTyped,
        step <- posterStep, round <- llmRound, now <- turnNow
Typed   == INSTANCE Mattermost WITH  \* two batches of messages and no wake-up
        Wakes <- {}, MaxRounds <- MaxPosts, MaxTurns <- MaxAnswers, MaxMessages <- MaxTyped,
        step <- posterStep, round <- llmRound, now <- turnNow
Woken   == INSTANCE Mattermost WITH  \* one batch and a wake-up
        MaxRounds <- MaxPosts, MaxTurns <- MaxAnswers, MaxMessages <- 1, step <- posterStep,
        round <- llmRound, now <- turnNow
Coding  == INSTANCE CodeSessions WITH
        does <- coderDoes
Family  == INSTANCE Delegate
Chat    == INSTANCE WebChat WITH
        MaxRounds <- MaxReplies
Timers  == INSTANCE Schedules WITH
        does <- runDoes
Skills  == INSTANCE SkillTools WITH
        granted <- skillGrants, doing <- activating, generation <- skillGen,
        raced <- editedMeanwhile
\* three times: with restarts, with a longer turn, and the page alone
Approval == INSTANCE ShellApproval WITH
        Calls <- Ops, DevPresets <- Presets, MaxTurns <- 2, MaxAsks <- 2, MaxRules <- 3,
        MaxPuts <- 1, MaxLoads <- 0, MaxCrashes <- 1, MaxFails <- 1,
        allowed <- pattern, kept <- keptPolicy, live <- inForce, calls <- shellCalls,
        turns <- shellTurns, crashes <- shellCrashes, ran <- lastRan
Cached   == INSTANCE ShellApproval WITH
        Calls <- Ops, DevPresets <- Presets, MaxTurns <- 1, MaxAsks <- 3, MaxRules <- 2,
        MaxPuts <- 1, MaxLoads <- 0, MaxCrashes <- 0, MaxFails <- 0,
        allowed <- pattern, kept <- keptPolicy, live <- inForce, calls <- shellCalls,
        turns <- shellTurns, crashes <- shellCrashes, ran <- lastRan
Presetting == INSTANCE ShellApproval WITH
        Calls <- Ops, DevPresets <- Presets, MaxTurns <- 0, MaxAsks <- 0, MaxRules <- 3,
        MaxPuts <- 2, MaxLoads <- 2, MaxCrashes <- 0, MaxFails <- 0,
        allowed <- pattern, kept <- keptPolicy, live <- inForce, calls <- shellCalls,
        turns <- shellTurns, crashes <- shellCrashes, ran <- lastRan
\* a plan with a child and a step that is taken for text, and one without a step
PlanTexts == {<<"step", "substep", "blank", "step">>, <<"blank">>}

\* the state of a page: two clicks, a lost connection, a queue of turns, and a prompt
Clicks == INSTANCE PageState WITH
        MaxClicks <- 2, MaxChatTurns <- 1, MaxDrops <- 0, MaxAsks <- 0
Drops == INSTANCE PageState WITH
        MaxClicks <- 1, MaxChatTurns <- 1, MaxDrops <- 1, MaxAsks <- 0
Prompts == INSTANCE PageState WITH
        MaxClicks <- 0, MaxChatTurns <- 2, MaxDrops <- 0, MaxAsks <- 1
Answers == INSTANCE PageState WITH
        MaxClicks <- 1, MaxChatTurns <- 1, MaxDrops <- 0, MaxAsks <- 1
\* the project skill: the calls of a batch, the reviews, and two conversations
Hands == INSTANCE ProjectSkill WITH
        Slugs <- {"p"}, NoSlug <- "", Plans <- PlanTexts, Talks <- {Some(Convs)},
        Begun <- TRUE, MaxProjects <- 1, MaxToolUses <- 3, MaxBatch <- 2,
        uses <- inBatch
Drafts == INSTANCE ProjectSkill WITH
        Slugs <- {"p"}, NoSlug <- "", Plans <- PlanTexts, Talks <- {Some(Convs)},
        Begun <- FALSE, MaxProjects <- 1, MaxToolUses <- 5, MaxBatch <- 2,
        uses <- inBatch
Projects == INSTANCE ProjectSkill WITH
        Slugs <- {"p"}, NoSlug <- "", Plans <- PlanTexts, Talks <- Convs,
        Begun <- FALSE, MaxProjects <- 2, MaxToolUses <- 5, MaxBatch <- 1,
        uses <- inBatch
\* the calls of a turn to its models: one stream with a stop, two streams, three
\* requests of three models
Streams == INSTANCE LlmCalls WITH
        Compat <- {"c"}, Responses <- {"r", "q"}, Vertex <- {"v"}, Streaming <- {TRUE},
        MaxRequests <- 1, MaxPieces <- 2, MaxParallel <- 2, MaxRetries <- 1,
        MaxStops <- 1, phase <- llmPhase, call <- llmCall, cancelled <- llmStopped,
        mishaps <- llmSlips, history <- llmRows
Again == INSTANCE LlmCalls WITH
        Compat <- {"c"}, Responses <- {"r", "q"}, Vertex <- {"v"}, Streaming <- {TRUE},
        MaxRequests <- 2, MaxPieces <- 1, MaxParallel <- 1, MaxRetries <- 0,
        MaxStops <- 0, phase <- llmPhase, call <- llmCall, cancelled <- llmStopped,
        mishaps <- llmSlips, history <- llmRows
Replays == INSTANCE LlmCalls WITH
        Compat <- {"c"}, Responses <- {"r", "q"}, Vertex <- {"v"},
        Streaming <- {FALSE}, MaxRequests <- 3, MaxPieces <- 1, MaxParallel <- 1,
        MaxRetries <- 0, MaxStops <- 0, phase <- llmPhase, call <- llmCall,
        cancelled <- llmStopped, mishaps <- llmSlips, history <- llmRows
\* how a turn comes to its answer: two that are judged, and one that is cut off
Judges == INSTANCE Reflection WITH
        Kinds <- {"watched"}, Visibilities <- {"visible", "debug"}, MaxIterations <- 2,
        MaxRetries <- 1, MaxTurns <- 2, MaxOverflows <- 1, at <- turnAt,
        turn <- answers, retries <- rejections, live <- verdictsShown,
        kept <- verdictRows, tools <- turnTools, mishaps <- judgeSlips,
        empties <- emptied, history <- turnRows
Cuts == INSTANCE Reflection WITH
        Kinds <- {"scheduled", "child"}, Visibilities <- {"hidden"},
        MaxIterations <- 4, MaxRetries <- 2, MaxTurns <- 1, MaxOverflows <- 1,
        at <- turnAt, turn <- answers, retries <- rejections, live <- verdictsShown,
        kept <- verdictRows, tools <- turnTools, mishaps <- judgeSlips,
        empties <- emptied, history <- turnRows

allVars == <<focus, breakerVars, mcpVars, jobVars, channelVars, coderVars, delegateVars,
             chatVars, timerVars, skillVars, approvalVars, windowVars, projectVars,
             llmVars, answerVars>>

Init ==
    /\ focus \in {"breaker", "mcp", "jobs", "typed", "woken", "coders", "delegates",
                  "chat", "timers", "skills", "approval", "cached", "presets",
                  "clicks", "drops", "prompts", "answers",
                  "hands", "drafts", "projects", "streaming", "again", "replays",
                  "judges", "cuts"}
    /\ Breaker!Init
    /\ Servers!Init
    /\ Shells!Init
    /\ Channel!Init /\ (focus \notin {"typed", "woken"} => streams)
    /\ Coding!Init /\ (focus # "coders" => product = "opencode")
    /\ Family!Init
    /\ Chat!Init
    /\ Timers!Init /\ (focus # "timers" => mattermost)
    /\ Skills!Init /\ \A s \in Own : code[s].tools = {Some(ToolNames)}   \* names are alike
    /\ Approval!Init /\ \A p \in Presets : texts[p] # {}
    /\ Clicks!Init /\ view.cur = Some(Chats)             \* the conversations are alike
    /\ IF focus = "hands" THEN Hands!Init ELSE IF focus = "drafts" THEN Drafts!Init
       ELSE Projects!Init
    /\ IF focus = "replays" THEN Replays!Init
       ELSE Streams!Init /\ (focus \notin {"streaming", "again"} => llmCall.model = "c")
    /\ IF focus = "cuts" THEN Cuts!Init
       ELSE Judges!Init /\ (focus # "judges" => visibility = "debug")

\* what is not exercised stays as it is
Elsewhere ==
    /\ UNCHANGED focus
    /\ IF focus = "breaker" THEN TRUE ELSE UNCHANGED breakerVars
    /\ IF focus = "mcp" THEN TRUE ELSE UNCHANGED mcpVars
    /\ IF focus = "jobs" THEN TRUE ELSE UNCHANGED jobVars
    /\ IF focus \in {"typed", "woken"} THEN TRUE ELSE UNCHANGED channelVars
    /\ IF focus = "coders" THEN TRUE ELSE UNCHANGED coderVars
    /\ IF focus = "delegates" THEN TRUE ELSE UNCHANGED delegateVars
    /\ IF focus = "chat" THEN TRUE ELSE UNCHANGED chatVars
    /\ IF focus = "timers" THEN TRUE ELSE UNCHANGED timerVars
    /\ IF focus = "skills" THEN TRUE ELSE UNCHANGED skillVars
    /\ IF focus \in {"approval", "cached", "presets"} THEN TRUE ELSE UNCHANGED approvalVars
    /\ IF focus \in {"clicks", "drops", "prompts", "answers"} THEN TRUE ELSE UNCHANGED windowVars
    /\ IF focus \in {"hands", "drafts", "projects"} THEN TRUE ELSE UNCHANGED projectVars
    /\ IF focus \in {"streaming", "again", "replays"} THEN TRUE ELSE UNCHANGED llmVars
    /\ IF focus \in {"judges", "cuts"} THEN TRUE ELSE UNCHANGED answerVars

BreakerStep == focus = "breaker" /\ Breaker!Next /\ Elsewhere
McpStep == focus = "mcp" /\ Servers!Next /\ Elsewhere
JobStep == focus = "jobs" /\ Shells!Next /\ Elsewhere
TypedStep == focus = "typed" /\ Typed!Next /\ Elsewhere
WokenStep == focus = "woken" /\ Woken!Next /\ Elsewhere
CoderStep == focus = "coders" /\ Coding!Next /\ Elsewhere
DelegateStep == focus = "delegates" /\ Family!Next /\ Elsewhere
ChatStep == focus = "chat" /\ Chat!Next /\ Elsewhere
TimerStep == focus = "timers" /\ Timers!Next /\ Elsewhere
SkillStep == focus = "skills" /\ Skills!Next /\ Elsewhere
ApprovalStep == focus = "approval" /\ Approval!Next /\ Elsewhere
CachedStep == focus = "cached" /\ Cached!Next /\ Elsewhere
PresetStep == focus = "presets" /\ Presetting!Next /\ Elsewhere
ClickStep == focus = "clicks" /\ Clicks!Next /\ Elsewhere
DropStep == focus = "drops" /\ Drops!Next /\ Elsewhere
PromptStep == focus = "prompts" /\ Prompts!Next /\ Elsewhere
AnswerStep == focus = "answers" /\ Answers!Next /\ Elsewhere
HandStep == focus = "hands" /\ Hands!Next /\ Elsewhere
DraftStep == focus = "drafts" /\ Drafts!Next /\ Elsewhere
ProjectStep == focus = "projects" /\ Projects!Next /\ Elsewhere
StreamStep == focus = "streaming" /\ Streams!Next /\ Elsewhere
AgainStep == focus = "again" /\ Again!Next /\ Elsewhere
ReplayStep == focus = "replays" /\ Replays!Next /\ Elsewhere
JudgeStep == focus = "judges" /\ Judges!Next /\ Elsewhere
CutStep == focus = "cuts" /\ Cuts!Next /\ Elsewhere

Next == BreakerStep \/ McpStep \/ JobStep \/ TypedStep \/ WokenStep \/ CoderStep \/
        DelegateStep \/ ChatStep \/ TimerStep \/ SkillStep \/ ApprovalStep \/
        CachedStep \/ PresetStep \/
        ClickStep \/ DropStep \/ PromptStep \/ AnswerStep \/
        HandStep \/ DraftStep \/ ProjectStep \/
        StreamStep \/ AgainStep \/ ReplayStep \/
        JudgeStep \/ CutStep

Spec == Init /\ [][Next]_allVars

-----------------------------------------------------------------------------
(* Values of the constants. *)

\* one or two calls of the ordinary tools, or a failing one of the exempt tools
MCBatches ==
    LET ordinary == [print : Prints \ Exempt, error : BOOLEAN]
    IN {<<c>> : c \in ordinary} \cup {<<c, d>> : c, d \in ordinary}
       \cup {<<[print |-> p, error |-> TRUE]>> : p \in Exempt}

\* operations of a server, tool calls, coding sessions and runs are alike
Symmetry == Permutations(Ops)

-----------------------------------------------------------------------------
(* Properties.  Each is about the component that the behaviour exercises. *)

\* The types of every component's variables.
TypeOK ==
    /\ focus = "breaker"   => Breaker!TypeOK
    /\ focus = "mcp"       => Servers!TypeOK
    /\ focus = "jobs"      => Shells!TypeOK
    /\ focus \in {"typed", "woken"} => Channel!TypeOK
    /\ focus = "coders"    => Coding!TypeOK
    /\ focus = "delegates" => Family!TypeOK
    /\ focus = "chat"      => Chat!TypeOK
    /\ focus = "timers"    => Timers!TypeOK
    /\ focus = "skills"    => Skills!TypeOK
    /\ focus \in {"approval", "cached", "presets"} => Approval!TypeOK
    /\ focus \in {"clicks", "drops", "prompts", "answers"} => Answers!TypeOK
    /\ focus \in {"hands", "drafts"} => Drafts!TypeOK
    /\ focus = "projects"  => Projects!TypeOK
    /\ focus = "streaming" => Streams!TypeOK
    /\ focus = "again"     => Again!TypeOK
    /\ focus = "replays"   => Replays!TypeOK
    /\ focus = "judges"    => Judges!TypeOK
    /\ focus = "cuts"      => Cuts!TypeOK

\* What runs can be found by those who would stop it, and what is over is marked
\* as over: the connection of an MCP server, the process of a background job,
\* the coding session of a directory, the child of a cancelled turn, a schedule;
\* the tools of an activated skill can be called, and what is pinned to a conversation
\* is the state of the project that is executed.
NothingIsOrphaned ==
    /\ focus = "mcp"       => Servers!ConnectionsAreOwned
    /\ focus = "jobs"      => Shells!JobsAreReachable
    /\ focus = "coders"    => Coding!DirectoriesHaveOneSession
    /\ focus = "delegates" => Family!CancelReachesChildren
    /\ focus = "timers"    => Timers!NoScheduleIsStranded
    /\ focus = "skills"    => Skills!ActiveIsCallable
    /\ focus \in {"hands", "drafts"} => Drafts!PinIsCurrent

\* Who waits is told: the callers that wait for a server to settle, the
\* conversation of a job that exited, the channel of a turn that answered, the
\* pages that are open on a conversation, and the archive of what they showed;
\* the model is told of the tools it would get; and what the user has decided of
\* the approval of shell commands is what the next turn goes by.  And a
\* page that has heard everything shows what is so: who is busy, and which prompt
\* waits.  What was reported of the steps of a plan stays with them, and
\* the user is asked about the text that is there.  What was shown of an answer of
\* the model is kept, and the next request says what was kept.  An answer that was
\* given up on says so, and what was judged is on record.
NobodyIsForgotten ==
    /\ focus = "mcp"    => Servers!WaitersAreReleased
    /\ focus = "jobs"   => Shells!ExitsAreTold
    /\ focus \in {"typed", "woken"} => Channel!AnswersAreShown /\ Channel!QuietMeansSettled
    /\ focus = "chat"   => Chat!PagesShowTheArchive /\ Chat!StreamedIsKept
    /\ focus = "skills" => Skills!SchemaMatchesCode
    /\ focus \in {"approval", "cached", "presets"} =>
         Approval!GuidanceIsTheUsers /\ Approval!RulesSurvive /\ Approval!ListShowsOwnChanges
    /\ focus \in {"clicks", "drops", "prompts", "answers"} =>
         Clicks!PromptsAreShown /\ Clicks!BadgesSettle /\ Clicks!PageSettles
    /\ focus \in {"hands", "drafts"} =>
         Drafts!SameProject /\ Drafts!ReportsStay /\ Drafts!ReviewIsOfTheText
    /\ focus = "projects" =>
         Projects!SameProject /\ Projects!ReportsStay /\ Projects!ReviewIsOfTheText
    /\ focus \in {"streaming", "again", "replays"} =>
         Streams!ShownIsKept /\ Streams!RequestsSayHistory
    /\ focus \in {"judges", "cuts"} =>
         /\ Judges!RecordIsRight /\ Judges!VerdictsAreKept
         /\ Judges!NoticeIsHonest /\ Cuts!CutTurnsAreTold

\* The brakes hold: a repeated call gets the next rung of the loop breaker, no
\* more children are awaited than the limit, no coding agent runs unasked, no
\* occurrence of a schedule runs again, no two heartbeat cycles run at a time,
\* a restart runs no code of a skill but what ran before it, a reload leaves none
\* of the code it replaces, and no shell command runs on an approval that was given
\* under other guidance.  No plan of a project is carried out unapproved, and
\* none is done before its steps are.  No tool call runs that the model has not
\* finished, and none of a turn that was stopped; the judge knows what was done, and
\* retries come to an end.
BrakesHold ==
    /\ focus = "breaker"   => Breaker!EscalatesOnOffence
    /\ focus = "delegates" => Family!ChildrenAreCapped
    /\ focus = "coders"    => Coding!NothingRunsUnasked
    /\ focus = "timers"    => Timers!OccurrencesRunOnce /\ Timers!CyclesTakeTurns
    /\ focus = "skills"    => Skills!RestoreRunsWhatRan /\ Skills!ReloadReplaces
    /\ focus \in {"approval", "cached", "presets"} =>
         Approval!CacheFollowsGuidance /\ Approval!RunsAreWarranted
    /\ focus \in {"hands", "drafts", "projects"} =>
         Drafts!NoPlanRunsUnapproved /\ Drafts!DoneIsDone
    /\ focus \in {"streaming", "again", "replays"} =>
         Streams!CallsRunWhole /\ Streams!StopsAreHeard
    /\ focus \in {"judges", "cuts"} =>
         /\ Judges!JudgeSeesTheTurn
         /\ IF focus = "judges" THEN Judges!CallsAreBounded ELSE Cuts!CallsAreBounded
=============================================================================
