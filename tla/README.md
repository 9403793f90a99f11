# DecafClaw: a TLA+ verification project

DecafClaw is an AI agent for chat: transports (Mattermost, a web UI, timers)
hand messages to a `ConversationManager`, which runs one agent turn at a time
per conversation; the agent loop calls a language model and tools, asks the
user for confirmations, and writes everything to an archive that the next
process starts from. It is one Python process with one asyncio event loop, a
pool of threads for blocking work, and pages in browsers that hold copies of
what it knows. What is hard about it is what happens *between* awaits:
cancellations that arrive anywhere, locks that are held over awaits, callbacks,
timers, answers that overtake each other, and restarts.

The modules here translate that from `src/src/decafclaw/` (and the coding-agent
skills of `src/contrib/skills/`); paths below are relative to it, `CM` is
`conversation_manager.py`.

**The core**: what happens to a message from its arrival to its answer.

| module | models | proofs |
|---|---|---|
| `TurnService` | what a conversation promises: a server with one slot and a durable queue | |
| `TurnQueue` | the turn lifecycle of a conversation; implements `TurnService` | `TurnQueue_proofs` |
| `Confirmations` | confirmation requests, their queue, timeout, answer, recovery | `Confirmations_proofs` |
| `AgentTurn` | what happens inside one turn: loop, tools, markers, outcome | `AgentTurn_proofs` |
| `ScheduledWakes` | timers and sidecar of scheduled wakes, and their way through the inbox | `ScheduledWakes_proofs` |
| `Workflow` | durable workflows: journal, replay, confirmations that suspend a run, recovery | `Workflow_proofs` |

**The stores**: what is kept in files or in copies of them. `MCStores` puts them
side by side, one behaviour exercises one of them.

| module | models | proofs |
|---|---|---|
| `FileLocks` | the locks of the file tools and the thread pool they share | `FileLocks_proofs` |
| `Canvas` | the tabs of a conversation and the shells behind them | `Services_proofs` |
| `Vault` | the pages of the vault, their writers and their search index | `Services_proofs` |
| `Compaction` | archive, summary and the history the agent works on | |
| `Composer` | what a turn puts before the user's message | |
| `FileEditor` | a workspace file open in the browser, the routes and tools that write it | |
| `WikiWriter` | the fields of a vault page edited in the browser | |
| `ConversationIndex` | the index of conversations, folders, titles, and the sidebar | |
| `Notifications` | inbox, read log, the channels' copies, the bell of a page | |
| `ModelCatalog` | discovered models, the live configuration, picker and panel | |

**The sessions**: what runs beside or around the turns. `MCSessions` puts them
side by side.

| module | models | proofs |
|---|---|---|
| `LoopBreaker` | the detector of repeated and failing tool calls | |
| `McpClient` | one MCP server: connect, retry, reconnect, shutdown | `Services_proofs` |
| `BackgroundJobs` | processes in the background and their end | `Services_proofs` |
| `Mattermost` | debounce, placeholder and display of a channel | |
| `CodeSessions` | sessions of the coding agents, one per directory | `Services_proofs` |
| `Delegate` | child agents, their permits, timeouts and messages | `Delegate_proofs` |
| `WebChat` | a conversation as its open pages see it | `Workflow_proofs` |
| `PageState` | what one page knows of all conversations | |
| `Schedules` | cron schedules and the heartbeat | `Services_proofs` |
| `SkillTools` | activation, reload and restore of skills | |
| `ProjectSkill` | the project skill: phases, plans, reviews | |
| `ShellApproval` | who lets a shell command run, and the guidance for it | |
| `LlmCalls` | the requests of a turn to its model | `Delegate_proofs` |
| `Reflection` | how a turn comes to its answer, and the record of it | `AgentTurn_proofs` |

`MC<module>` gives a module the model values and constants of its runs.

    tlc -config TurnQueue_safety.cfg MCTurnQueue.tla
    tlapm TurnQueue_proofs.tla


## 1. Inventory

### Components that are modelled

**Turn lifecycle** (CM, `inbox.py`). *State*, per conversation: `busy`,
`agent_task`, `cancel_event`, `state.lock` (an `asyncio.Lock`), the inbox sidecar
`inbox.jsonl`, `inmemory_turn_data` (futures and closures of queued messages), the
last USER turn's id and `context_setup`. *Operations*: `enqueue_turn` queues or
starts; `_start_turn` publishes the status, runs the context setup and creates the
task; `run()` executes the agent and settles in a `finally` block;
`_drain_pending` starts the next batch; `cancel_turn`; `startup_scan`.
*Interacts with* all transports and timers (callers), the agent loop (callee), the
archive. *Hard*: `busy` is reset before the drain, so a new message can overtake;
the lock is held over awaits of code that may raise or be cancelled; the task can be
cancelled in its own `finally`; the process can die between the sidecar and the
dispatch. *Correct when* turns never overlap, the cancel handles are those of the
running turn, what was accepted is on disk until dispatched, dispatched once and in
order, and every caller gets an answer.

**Confirmations** (CM, `confirmations.py`). *State*: the slot
(`pending_confirmation`, `confirmation_event`, `confirmation_response`),
`confirmation_queue` with an Event per waiting caller, request and response rows
of the archive. *Operations*: `request_confirmation`, `respond_to_confirmation`,
`cancel_pending_confirmation`, `post_confirmation`, the promotion of the next
request, the recovery scan. *Interacts with* the agent loop and tools (callers),
every transport (answers), recovery handlers (workflow, end-turn). *Hard*: an
answer, a timeout and a cancellation race for the claim; two lock sections with an
await in between; a handler that raises; a restart between the archive row and the
handler. *Correct when* no caller is lost, an answer reaches the caller it was
given for, nothing is acted on twice or without a record.

**Agent turn** (`agent.py`, `iteration_budget.py`, `tool_execution.py`,
`tools/__init__.py`, the turn's outcome in CM). *State*: the history in memory and
the archive on disk, the iteration budget, retry counters, a task per tool call,
the cancel event, the marker latch, `cancel_observed_by_agent`. *Operations*: the
loop of `TurnRunner`, batches through a semaphore, end-of-turn signals (widget,
confirm, text), reflection, context overflow, the grace call, cancellation,
`_write_cancel_marker_once`, `turn_complete`. *Hard*: two histories that must agree,
rows archived in completion order, four ways a cancellation can be seen and the
order in which they are, refunds of the budget. *Correct when* the model never gets
an unanswered tool call, a settled turn is closed on disk, the outcome agrees with
the markers, and every turn ends.

**Scheduled wakes** (`scheduled_wakes.py`). *State*: a JSON sidecar per
conversation with a status per wake, the timer tasks `self._tasks`, `self._lock`.
*Operations*: `schedule`, the timer, `cancel`, the deletion of a conversation,
`shutdown`, two startup scans. *Interacts with* `enqueue_turn`, the inbox and its
drain (`mark_drained`). *Hard*: two locks, one held while waiting for the other,
status that lags behind the inbox, the scan that reads without the lock. *Correct
when* a wake that was accepted is not forgotten, does not run twice, does not run
once it was cancelled.

**Workflow engine** (`workflow/`, its handler and scan in CM). *State*: the journal
`workflow.json` with a position per call and a status, the copy of it a turn works
on, the number of attempts, the question that suspends. *Operations*: trigger,
replay, a live call, a question, a fan-out, the answer's handler, the startup scan,
cancellation. *Interacts with* the slot of confirmations and the turn queue. *Hard*:
the same call is journaled by the handler of its answer and by the replay; thunks of
a fan-out outlive their turn; a crash at any write. *Correct when* what was recorded
is never changed, every end is told to the user, a crash loop ends.

| component | state | operations | hard | correct when |
|---|---|---|---|---|
| File locks (`tools/file_locks.py` and the tools that use it) | a refcounted lock per path, the jobs of the thread pool | acquire, release, read, write, ask in between | every blocking step takes one of few threads; a cancelled task leaves its thread running | one holder per file, no update lost, somebody can always go on |
| Canvas and terminals (`canvas.py`, `terminals.py`) | `canvas.json`, the shells, the id counter | open, close, clear, end of a shell, restart | a state read before an awaited kill and written after it | every shell has its tab or is on its way, an id is given once |
| Vault (`skills/vault/tools.py`, `embeddings.py`) | pages, modification times, index entries | write, patch, move, rename, delete, save of the editor, rebuild | check, change, embed with awaits and approvals between | nothing unseen is overwritten, the index follows |
| Compaction (`compaction.py`) | archive, sidecar of the last summary, history | append, compact fully or incrementally, reload | the boundary is counted in rows, protected rows are skipped | what is not in the prompt is in the summary |
| Context composer (`context_composer.py` and what it calls) | cursors, injected pages, notes, prompt | compose, overflow and compose again, publish | suspends between reading and marking | notes and references reach the prompt, once |
| Web editors (`file-page.js`, `wiki-page.js`, their routes) | text, modification time, dirty flags, requests | type, autosave, switch page, answer, conflict | answers in any order, other writers | no edit vanishes, no unseen text is overwritten |
| Archive and conversation files (`web/conversations.py`, folders, titles) | index, folder of a conversation, title, sidebar | create, rename, move, archive, delete, retitle, list | files changed one after the other; deletion awaits; answers cross | every conversation is listed somewhere, a title given by hand stays |
| Notifications and mail (`notifications.py`, channels, bell) | inbox, read log, count on a page | append, rotate, mark, list, deliver | two files rotated apart; answers and events cross | no record is lost or unread again, the bell tells the number |
| Configuration and model catalog (`config_watcher.py`, `model_catalog.py`) | config.json, sidecar, live configuration, views | edit, poll, discover, toggle, pick, restart | three sources merged in steps, files read twice | what is offered can be run, no switch is lost |
| Loop breaker (`loop_breaker.py`) | counts, watermarks, rung | record, verdict | several fingerprints trip at once | a repeated call gets the next rung |
| MCP client (`mcp_client.py`) | entry of a server, generation, session | connect, disconnect, restart, call, refresh, shutdown | attempts overlap and await between reading and writing | an open connection belongs to an entry, who waits is released |
| Background jobs (`skills/background/tools.py`) | managers, processes, readers | start, stop, sweep, finalise | four ways to end a job, each awaits | what runs can be found, an exit is told once |
| Mattermost transport | gathered messages, display, poll, placeholder | post, show, stop | one display slot, several turns | an answer is shown where it was asked for |
| Coding-agent sessions (`contrib/skills`) | session per directory, budget, consent | setup, send, exec, stop, expire | a session may end while a call uses it | one session per directory, nothing runs unasked |
| Child agents (`tools/delegate.py`, `session_messaging.py`) | permits, children, mailboxes | delegate, message, time out, cancel | the parent stops waiting, the child runs on | capped, and reached by a cancellation |
| Web transport (`web/websocket.py`, `conversation-store.js`) | subscriptions, buffers, what a page shows | open, load, stream, reconnect | history and events overlap | a page shows the archive; who is busy; the prompt that waits |
| Schedules, heartbeat (`schedules.py`, `heartbeat.py`) | last run on disk, running tasks | tick, run by hand, stop, restart | read, decide and write apart | an occurrence runs once, none is stranded |
| Skills (`tools/skill_tools.py`, `skills/project/`) | bound tools, noted hashes; project files | activate, reload, restore; plan, review, step | code changes between two looks; reads and writes in threads | what is bound is what was read; no plan runs unapproved |
| Approvals (`tools/shell_tools.py`, `approval_state.py`) | guidance, cache, presets | ask, allow, put on a preset, save | guidance changes while the reviewer thinks | no run on another guidance's approval |
| Language model providers (`llm/`) | a stream, the parts of calls, history | stream, retry, stop, keep | streams break off, stop, say nothing | what was shown is kept, only whole calls run |
| Reflection (`reflection.py`) | retries, verdicts, record | judge, retry, give up, cut off | overflows and empty answers in between | the judge sees the turn, the record is right |

### Components that are not modelled

| component | state and operations | why not |
|---|---|---|
| Event bus (`events.py`) | subscriber list | called in turn, failures logged; its awaits are suspension points of the modules |
| Notes, checklist, sticky stores | one JSON file each | read, changed and written in one step without an await; the notes' way into the prompt is in `Composer` |
| Workspace index, backlinks | SQLite indexes | rebuilt from files: pure data |
| Telemetry, metrics, audit | write-only records | nothing reads them back into a decision |
| Widgets, media, attachments | validation, rendering | the pause for a widget's answer is in `AgentTurn` and `Confirmations` |
| Evaluation, command-line client, scripted provider | test drivers | drive the program from outside |

The hazards of the code, each at its line, with the properties that would catch it,
are listed in `PROJECT.json`.


## 2. How the modules correspond to the code

**Atomicity.** One event loop runs one coroutine at a time, so an action is what
runs from one suspension point to the next. `asyncio.Lock.acquire` does not yield
when the lock is free, so a section that finds its lock free belongs to the action
before it. A task that is cancelled receives `CancelledError` at the await it is
suspended at: `cancel_turn` puts the turn into `kill`, and a step of its own lets
the exception in. A process death is possible at every await and leaves the files.
What runs in a thread of the pool interleaves with the loop. In a browser an event
handler is a step; a request is served at any time after it was sent, and its answer
arrives at any time after that, in any order with others, except on a socket.

**History variables.** Several modules remember what a behaviour has met, so that a
property can say what holds *unless* that happened (`stale`, `lost`, `mishaps`,
`slips`, `astray`, `odd`, `raced`, ...). Each value names one place of the code where
the promise is not kept; it is listed as a finding or commented where it is set.
No action of the code reads these variables.

### TurnQueue (CM:574-713, 1156-1174, 1817-2467)

One conversation. A *submission* is a call of `enqueue_turn`; a turn is named by
the submission whose future it carries, the last of its batch.

| code | TLA+ |
|---|---|
| `state.lock`, held over awaits | `lock`: free, or the call, task or startup scan that holds it |
| `state.busy`, `agent_task`, `cancel_event` | `busy`, `agentTask`, `current` |
| the awaits of `_start_turn` | `start`: "status", "setup", "announce" |
| the awaits of `run()` and its `finally` | `task[t]`: created, running, respond, unwind, gather, lock, then settle, drain, draining |
| a `CancelledError` under way | `kill` |
| the future of a caller | `fut[s]`; "dropped" for what a limiter refused |
| `inbox.jsonl`, `inmemory_turn_data` | `inbox`, `data` |
| one batch of consecutive USER messages, or one other | `UserRun`, `PopLength`, `PopAndStart` |

The steps of `run()` are `BeginRun`, `AgentReturns`, `Unwind`, `GatherForwards`,
`WaitForLock`, `Reset`, `ResolveFutures`, `Drain`/`DrainNothing`; `DieInFinally` is
the exception that reaches it there. What the agent does is one step here and the
whole of `AgentTurn`. The circuit breaker and the wake limiter are a nondeterministic
drop: their clocks are not modelled. `ask_side_question`, which runs beside the slot,
is left out.

`TurnService` says what this should amount to: an arrival takes the free slot or
waits, a freed slot takes a prefix of the queue, nothing is served twice. `Service`
maps the inbox to its queue, the batch of the current turn to its slot; the property
`ImplementsService` is its specification.

### Confirmations (CM:774-1016, 1467-1784, 2427-2452, 2596-2677)

| code | TLA+ |
|---|---|
| the awaits of `request_confirmation` | `pc[r]` |
| the slot and the queue | `pending`, `event`, `response`, `queue` |
| Events that are set | `signalled` |
| the awaits of `respond_to_confirmation` | `reply[r]`: wake the caller, or recover, dispatch, then promote or restore |
| `confirmation_response` rows | `decided` |
| what the backward recovery scan meets first | `tail` |
| a success of the recovery handler | `handled[r]` |

An answer (`Respond`) claims the slot and writes its row in one critical section;
where it goes next is decided by the Event captured there. A timeout is `Expire`,
then the same claim. What a recovery handler does is one step that may raise.
`recover_confirmation` has no caller in the repository and is left out.

### AgentTurn (`agent.py`, `tool_execution.py`, CM:1040-1174, 1844-2192)

`pc` is where the agent task is suspended: composing, in one of four kinds of LLM
call, in a batch, in the confirm, widget or judge wait, delivering. `archive` and
`memory` are sequences of rows that carry only what the properties tell apart: the
kind, the turn, the batch and the call. A batch has a task per call, a semaphore with
`Slots`, a watcher of the cancel event; `Gathered` is the end of `gather`, `Collect`
orders the rows. The four ways a cancellation is seen are `LlmCancelled`,
`SeeCancel` in `Iterate`, the batch's own check, and `Unwind`. `child = TRUE` is the
turn of a delegated child, which `CancelParent` cancels by the event alone. The
streamed text, the wording of nudges, what compaction rewrites and archive writes
that fail are left out.

### ScheduledWakes (`scheduled_wakes.py`, and its calls from CM)

| code | TLA+ |
|---|---|
| status of the sidecar entry | `sidecar[w]` |
| `self._tasks` | `tasks` |
| the awaits of a timer | `timer[w]`: asleep, in `enqueue_turn`, in `_start_turn`, waiting to record either |
| `self._lock` over an await | `wlock`, the only holder that suspends is `cancel` |
| `state.lock`, `busy` and the inbox of the conversation | `conv`, `busy`, `turn`, `inbox` |
| the scan's list, read before it waits | `found` |

Other turns are an environment that takes the lock, starts and ends. `stale`,
`lost` and `withdrawn` are history variables: wakes whose status lagged behind when
it was relied on, wakes popped for a turn that never got a task, wakes taken away.
Sidecar writes that fail, a death between two synchronous writes, and conversations
that share `self._lock` are left out.

### Workflow (`workflow/`, CM:840-900, 1740-1784, 2480-2560)

An orchestrator is the sequence `Script` of its journaled calls: a live call, a
question, or a fan-out whose branches make calls of their own. `disk` is the journal
in the file, `turn.copy` the one a turn works on; `Proceed` replays it up to the first
call without an entry, and the steps `CallReturns`, `CallFails`, `PostQuestion` go
on from there. `Answer` and `Deny` claim the slot, `JournalAnswer`,
`EnqueueResume` and `JournalDenial` are the handler behind them. `orphan` is a
fan-out whose thunks outlived their turn.

A workflow shares its conversation with chat. `turn` is whoever holds `state.busy`: a
WORKFLOW turn, or a USER or WAKE turn from `ChatBegins` to `ChatEnds`; a start that
fails may leave the slot held by nobody (`StartDies`, `held`). A resume that arrives
meanwhile waits (`waiting`, the WORKFLOW messages in the inbox), and what waited at a
crash is drained beside the turn that `ScanWorkflows` enqueues: two WORKFLOW turns may
follow each other and an answer may be journaled between load and save of one
(`crossed`). `pending` is the confirmation slot, which the calls of chat turns, of the
workflow itself and of thunks that outlived their turn use as well (`AgentAsks`,
`AnswerAgent`, `AskerWakes`, with one such call, `asker`, followed at a time; their queue
is the matter of `Confirmations`). Schema checks and what a step computes are left out.

### The stores

| module | state ↔ code | actions ↔ code | left out |
|---|---|---|---|
| `FileLocks` | `registry`, `refs`, `locked` are the entries of `_locks`; `fifo`, `running` the executor; `phase`, `mine`, `entry` the generator of `_lock_context` | one per job of a thread, one per coroutine step between awaits, `Cancel...` a `CancelledError` | path policy, previews, the other workspace tools |
| `Canvas` | `tabs`, `nextId` are `canvas.json`; `sessions` is `_sessions`; `saved` the counter `clear_canvas` read | a route or tool up to its await; the end of a shell; a restart | what a shell prints |
| `Vault` | `text`, `mtime`, `index`; `saw`, `todo`, `later` what a call keeps over its awaits | check, approve, write, embed, reindex, per kind of call | sections, links, search results |
| `Compaction` | `archive`, `sidecar`, `history` by row; `summing` what the summary is being made of | append, compact, finish, reload | chunking, the decisions list, texts |
| `Composer` | `cursor`, `saved` the cursors; `injected`, `baseline` per conversation | compose up to each await, overflow, end of turn, death | token budgets, scores |
| `FileEditor` | `pane`, `pad` the two components; `wire` the requests | type, autosave, open, serve, answer, a tool's write | view modes, rename, delete |
| `WikiWriter` | `view`, `mutex` the page and `WikiWriteMutex`; `pageFile` | edit a field, flush, answer, navigate, write of an agent | view mode, rename, delete |
| `ConversationIndex` | `index`, `folders`, `assigned` the JSON files; `page` the sidebar and its store | one per route, the titler's steps, the listings | paths deeper than two |
| `Notifications` | `inbox`, `shelved`, `readLog`; `bell`, `wire` the page and its socket | append with rotation, read marks, deliveries, the page's requests | malformed rows, paging, a second socket |
| `ModelCatalog` | `text` config.json, `sidecar`, `live`; `picker`, `panel` the views | edits, the watcher's poll in steps, discovery in steps, routes, a turn's choice | malformed sidecars, the parts of a reload that are not about models |

### The sessions

| module | state ↔ code | actions ↔ code | left out |
|---|---|---|---|
| `LoopBreaker` | the fields of `LoopBreaker` and `_Offender` | `record` and `verdict` after a batch | texts of nudges |
| `McpClient` | the fields of `MCPServerState`; `holds` what an attempt awaits | each operation up to each await | the SDK's session, which is external |
| `BackgroundJobs` | `_managers`, `jobs`, reader tasks | the tools, the reader and `_finalize_job` up to each await | ring buffers, stream parsers |
| `Mattermost` | `pending_msgs`, `conv_display`, `cancel_task`; `posts` | debounce, `_process_conversation` in steps, events of the manager | formatting, throttling, attachments |
| `CodeSessions` | `SessionManager.sessions`, `cwd_to_session`, budget, consent | lookup, ask, launch, end, stop, expire, for both products | what the agents print |
| `Delegate` | permits, futures, cancel events, mail | delegate, start, round, time out, cancel, message | schemas, lists and texts |
| `WebChat` | subscription, buffer, history of a page; rows of the turn | stream, archive, forward, load, replay, cancel | the other routes |
| `PageState` | the store's fields, both directions of the socket | clicks, handlers of `websocket.py`, events, listings | tools at work, drafts |
| `Schedules` | `last_run` on disk, `running_tasks`, `_heartbeat_lock` | ticks, "run now", cycle, task, shutdown, crash | cron matching is a choice of when |
| `SkillTools` | `ctx.tools`, `ctx.skills`, `skills.json`, permissions | activate in steps, reload, edit, end of turn, restart | ranking of tools |
| `ProjectSkill` | project, spec and plan files; skill data of a conversation | one per tool, reads and writes of a plan apart where a thread does them | cancel and restart within a review |
| `ShellApproval` | guidance, cache, presets, sidecar; the page's store | a command through monitor, cache, reviewer, user; end of turn; restart; page | blanket approvals, presets of config.json |
| `LlmCalls` | what a stream said, what was collected, rows | pieces, ends and failures of three providers; retry, stop, keep | images, thought signatures, usage |
| `Reflection` | counters of a turn, rows, verdicts | iterate, answer, judge, overflow, cut off, record | the judge's model, texts |


## 3. What the runs show

`CHECK_DEADLOCK FALSE` everywhere: the submissions, requests, turns, cancellations
and crashes of an instance are bounded, and when they are used up and the work is
done the instance is at rest, as the program is.

| run | instance | distinct states | shows |
|---|---|---|---|
| `TurnQueue_safety` | two USER turns (one may be dropped), a WAKE, a CHILD whose parent may give up; faulty start, cancel-on-new-message, a cancel at any await of the task, a crash | 2 978 482 | turns do not overlap; handles are those of the turn; queued is durable and dispatched in order; futures after `turn_complete`; implements `TurnService` |
| `TurnQueue_live` | two USER turns, a WAKE; starts that fail at any of their awaits, a cancel at any await of the task, also in its `finally`, a crash; fair | 63 231 | every accepted turn is answered, every queued one dispatched, unless a cancellation or a failed start wedges the conversation, a rolled back one leaves the inbox undrained, or (the answer) the turn itself died starting |
| `Confirmations_safety` | a timed request of the agent task, a widget that may be withdrawn, a workflow's post; faults, a crash | 593 285 | queue and callers agree; an answer takes the path of its caller; acted on once; an approval is on record first; who waits has a promoter; promotion in order |
| `AgentTurn_all` | two turns with budgets 1 and 2, or a child's; batches of two under one slot, one judge retry, two cancels, a crash; fair | 1 274 720 | every call answered once before a prompt; a settled turn is closed, has at most one marker, and it is last; the outcome agrees with the archive; the turn ends |
| `ScheduledWakes_all` | two wakes, faults, a crash, deletion, shutdown, both scans; fair | 67 569 | no timer escapes, nothing is forgotten, run twice or run after a cancel, except through a stale status; pending wakes are handed over |
| `Workflow_all` | a question, a fan-out of two branches, a question, a call; two triggers, two chat turns whose calls ask in the same slot, a cancel, two crashes, one resume; fair | 1 302 140 | what was recorded stays; every end is shown; a workflow under way comes to rest |
| `Stores_all` | each of the ten stores in turn, see below | 1 816 131 | nothing is lost, copies agree, nobody is stuck |
| `Sessions_all` | each of the fourteen sessions in turn, see below | 2 021 531 | nothing is orphaned, nobody is forgotten, brakes hold |
| `TurnQueue_wake`, `Confirmations_gap`, `AgentTurn_marker`, `Workflow_slot` | small | | end in a counterexample: see *Disagreements found* |

`Stores_all` and `Sessions_all` have one behaviour per component: `focus` says which
module moves, the variables of the others stay as they were. Nothing is composed by
that, the modules share no state; it is one run for many small models. Their
properties are conjunctions of one statement per component, each with a comment of
its own in the component's module:

| property | what it says of which module |
|---|---|
| `NothingIsLost` | `FileLocks!NoLostUpdate`; `Compaction!NothingForgotten`; `Vault!NoUnseenLoss`; `Composer!NotesReachThePrompt`, `!ReferencesAreThere`; `FileEditor!NoBlindSave`, `!EditsAreKept`; `WikiWriter!NoEditVanishes`, `!NoBlindFields`; `ConversationIndex!EveryThreadIsListed`, `!TitlesStand`; `Notifications!RecordsAreKept`, `!ReadMeansRead`; `ModelCatalog!FlagsStay`, `!EditsAreApplied` |
| `CopiesAgree` | `Vault!IndexFollows`; `Canvas!ShellsAreReachable`, `!TabIdsNeverRebind`; `Composer!OncePerPage`, `!LayoutHolds`; `FileEditor!MtimeNamesText`; `ConversationIndex!SidebarIsRight`, `!DeletedIsGone`; `Notifications!ChannelsGetTheirs`, `!BellIsRight`; `ModelCatalog!ConfigsAreRight`, `!OfferedModelsRun`, `!PointersHold`, `!ViewsAreRight` |
| `NobodyIsStuck` | `FileLocks!NobodyIsStuck`; `WikiWriter!OneWriteAtATime` |
| `NothingIsOrphaned` | `McpClient!ConnectionsAreOwned`; `BackgroundJobs!JobsAreReachable`; `CodeSessions!DirectoriesHaveOneSession`; `Delegate!CancelReachesChildren`; `Schedules!NoScheduleIsStranded`; `SkillTools!ActiveIsCallable`; `ProjectSkill!PinIsCurrent` |
| `NobodyIsForgotten` | `McpClient!WaitersAreReleased`; `BackgroundJobs!ExitsAreTold`; `Mattermost!AnswersAreShown`, `!QuietMeansSettled`; `WebChat!PagesShowTheArchive`, `!StreamedIsKept`; `SkillTools!SchemaMatchesCode`; `ShellApproval!GuidanceIsTheUsers`, `!RulesSurvive`, `!ListShowsOwnChanges`; `PageState!PromptsAreShown`, `!BadgesSettle`, `!PageSettles`; `ProjectSkill!SameProject`, `!ReportsStay`, `!ReviewIsOfTheText`; `LlmCalls!ShownIsKept`, `!RequestsSayHistory`; `Reflection!RecordIsRight`, `!VerdictsAreKept`, `!NoticeIsHonest`, `!CutTurnsAreTold` |
| `BrakesHold` | `LoopBreaker!EscalatesOnOffence`; `Delegate!ChildrenAreCapped`; `CodeSessions!NothingRunsUnasked`; `Schedules!OccurrencesRunOnce`, `!CyclesTakeTurns`; `SkillTools!RestoreRunsWhatRan`, `!ReloadReplaces`; `ShellApproval!CacheFollowsGuidance`, `!RunsAreWarranted`; `ProjectSkill!NoPlanRunsUnapproved`, `!DoneIsDone`; `LlmCalls!CallsRunWhole`, `!StopsAreHeard`; `Reflection!JudgeSeesTheTurn`, `!CallsAreBounded` |

### Why the bounds are enough

Two USER submissions are the fewest that batch; a third kind is needed for a batch
to end, and for a drain that finds something left; a fourth submission lets one
arrive while one runs and two wait. One cancellation reaches every await of the task;
one crash reaches every await of everything. What it leaves is the files alone, and
a second crash would find files of the shapes the first one finds. In `Confirmations`
three requests are one in the slot, one in the queue and one that takes the gap. In
`AgentTurn` two turns are what a latch, a flag or a history needs to leak from one to
the next; two calls are what can end out of order, and with one slot one of them
waits for the semaphore; a budget of 1 then 2 has the grace call right away and
after a refund; two cancellations put the second one into the unwinding of the first.
Two wakes are what it takes for one to hold `self._lock` or `state.lock` in the
other's way. The workflow's script has each kind of call, a fan-out with branches of
different length, and questions before and after it; two crashes exceed the cap of
one resume; two triggers are a command and one typed again, two chat turns one that
leaves its request in the slot and one that a resume has to wait behind.

The stores and sessions are small on their own, and each instance is bounded by what
its hazards take: two operations that overlap and a third that overtakes them; one
mishap of each kind (a lost answer, a failed write, a restart); values enough to tell
old from new from other. Three file tools on one file and two movers on two are the
fewest that fill two workers while a release is queued. Four calls of the canvas are
a tab, its close, a clear and a new tab. Three texts of a vault page are what was
seen, what came in between and what is written. Six rows of an archive hold three
turns, the fewest for an old, a protected and a recent one. Where one instance of a
module would be too large, it is instantiated several times, each aimed at some of its
properties: `ConversationIndex` for the sidebar, the titles and the tree of folders;
`Notifications` for the files, the badge and the panel; `ModelCatalog` for edits,
discovery, picker and panel; `Mattermost` for two batches of messages and for one with
a wake-up; `ShellApproval` with restarts, with a longer turn, and for the page;
`PageState` for clicks, lost connections and prompts; `ProjectSkill` for the calls of
a batch, the reviews and two conversations; `LlmCalls` for one stream, two and three
requests; `Reflection` for judged turns and those that are cut off. Names that are
alike are symmetric (`Symmetry`, over the calls), or the first is chosen in `Init`.

### Fairness

* `TurnQueue_live`: the event loop runs what is ready; what needs `state.lock` is
  strongly fair because `asyncio.Lock` serves its waiters first come first served;
  a dead process is restarted. The agent loop returns: `Terminates` of `AgentTurn_all`
  is that claim. Nothing is assumed of callers, cancellations or crashes.
* `AgentTurn_all`: a single weak fairness, that the loop does not idle while some
  step of the turn or its tools is ready. It includes that an LLM call ends (clients
  have timeouts), that a tool ends and that the user answers a widget. It does not
  say which step is taken, nor that any verdict is ever favourable.
* `ScheduledWakes_all`: weak fairness of lock holders and due timers, strong
  fairness of what waits for `state.lock` (`Enqueue`, `CancelQueued`, `Scan`), and of
  `Enqueue` also because the rate window moves on. Neither turns nor drains are fair.
* `Workflow_all`: weak fairness of the turn's own steps, of a live call's return, of
  the end of a chat turn (`Terminates` of `AgentTurn_all`) and of a restart. Nothing of
  the user, so a turn whose call asks may wait for ever, and nothing of orphaned thunks.

The stores and sessions have safety properties only; "nobody is forgotten" is stated of
the states where nothing is under way any more.

### Disagreements found

Four runs end in a counterexample to what a comment or a document says:

| run | property | what happens |
|---|---|---|
| `TurnQueue_wake` | `WakeInheritsLastUser` | `_drain_pending` looks a message's turn data up after it popped it (CM:2328, CM:2359): a drained USER turn runs without its `context_setup`, and a later WAKE inherits nothing |
| `Confirmations_gap` | `EachGetsItsOwn` | the claim of an answer frees the slot before the caller is awake (CM:841); a parallel request that installs itself there swaps answers with it |
| `AgentTurn_marker` | `MarkerIsSeen` | the cancel marker is appended to the archive only, and a history in memory is never read again (CM:1455): the next prompt does not have it |
| `Workflow_slot` | `SlotFreeAtPost` | a chat turn that is cancelled while its call asks leaves the request in the slot (CM:1666); a workflow's question then finds the slot taken (CM:1759), which is "unreachable by design" |

The others are exceptions that a property that holds has to make; without the
exception TLC finds the counterexample. They are listed as findings in
`PROJECT.json`, each with the line of the code and the sentence it disagrees with.
The ones that weigh most:

* a cancellation that reaches `run()` in its `finally` block (CM:2152, CM:2178) skips
  the reset, `turn_complete` and the drain; the conversation stays busy (`Wedged`);
  so it does when a start dies after its status was published, a `context_setup` that
  raises (CM:1891) for one, and that turn is never answered (`StillBorn`); a publish of
  the status that raises is rolled back, and nothing drains the inbox (`RolledBack`);
* a caller cancelled while its request is active leaves request and Event in the slot
  (CM:1666), whose answer promotes nobody;
* a cancelled workflow's thunks run on and append to the journal of the ended turn
  (`late`); a turn saves its whole copy over an answer journaled beside it (`crossed`):
  a resume that waited behind a chat turn and the one of the startup scan both run
  after a crash, the first one's question is answered while the second holds the copy
  it loaded, which it saves (resume.py:45-57), and the user is asked again;
  a crash between the claim of an answer and its entry loses it, and a request of
  another call keeps a question from the slot (`lost`);
* a wake whose timer waits for `self._lock` to say that it was accepted can be
  cancelled and still run, or run again in the next process (`stale`); a wake whose
  drain dies before its turn has a task is lost (`lost`);
* the locks of the file tools can take all workers of the pool while the job that
  would release one waits behind them (`Exhausted`); a cancelled write lands after
  its lock is gone (`strays`);
* `clear_canvas` writes back a counter it read before it waited, and ids are given
  twice (`rewound`);
* the boundary of an incremental compaction is too high by the protected rows
  (`OldTurnsAreSummarised`);
* a background job that is started while its manager has no other job can vanish
  from every table (`strays`), and a stop cuts the telling of an exit (`cut`); one whose
  reader failed may live on without a table while the reader tells of it;
* a child whose parent stopped waiting gives its permit back and runs on (`overdue`);
* the display of a Mattermost turn is replaced by that of the next batch (`crossed`);
* two calls of one batch that change a plan overwrite each other, and
  `project_advance` skips reviews (`slips`);
* an approval of a shell command joins the cache after the guidance it was given
  under was taken back (`mishaps` of `ShellApproval`).


## 4. What is proved

Every theorem is for all values of the constants that satisfy the assumptions named
here: any number of submissions, requests, turns, calls, wakes, children, sessions,
runs, cancellations and crashes. A proof has the same shape everywhere: an inductive
invariant, checked by TLC on the small instance first; a lemma that `Init`
establishes it; a lemma with one case per action that `Next` preserves it; the
property from it.

* `TurnQueue_proofs` (`Parameters`). `OneTurnAtATime` and `HandlesMatchTurn` are not
  inductive: neither says what holds while a turn is being started and has no task
  yet, nor what a dead process has. `SlotInv` adds both; `IInv == TypeOK /\ SlotInv`.
  The queue needs more. `QInv` adds that inbox and batches partition what was
  accepted, that a batch belongs to its turn, who may be in a start, and when a
  future may be resolved. From it come `Durable`, `FutureIsLast`, the action property
  `Fifo`, and `Implements`: every step of `TurnQueue` is a step of `TurnService` or
  changes nothing of it, under the mapping of inbox and batch to queue and slot. The
  lemmas are about the user run that a drain takes off the inbox.
* `Confirmations_proofs` (`Parameters`). `IInv` has the queue (`QueueHoldsWaiters`),
  that a waiting caller's Event is in the slot, that a request restored or recovered
  into the slot has no caller that waits (`NoWaiterBehind`), and that a response is in
  the slot only after its row is in the archive (`ResponseOnRecord`). `ActedInv`
  follows a request from its claim to the handler or the caller: `AtMostOnce`.
  `HasPromoter` names for every state with a queue who will promote, or which
  exception has happened: `Served`. `Fifo` is an action property.
* `AgentTurn_proofs` (`Parameters`). `ArchiveInv` follows a turn through its phases: in
  the loop it has neither marker nor latch nor result (`Fresh`); a `CancelledError` is
  under way only after the event of the turn's own (`KillInv`); a batch that ended left a
  row of a tool last (`BatchInv`); where the loop is left, the turn is closed or the
  marker is due (`EndInv`); after it the markers agree with the event, the observed
  flag and the result (`ReasonInv`). The steps of the loop all have one shape, an
  extension of the archive by rows of this turn that are no markers (`LoopStep`), and
  one lemma carries the invariant over all of them. `AnswerInv` counts the rows of
  each call in memory through the tasks of a batch and their collection:
  `CallsAreAnswered`, that no prompt has a call unanswered or answered twice.
  The same module proves about `Reflection`, as an instance under names of its own
  (`Judge!Bounds`: bounds are numbers). A turn's calls of the model are those of the
  iterations that are gone and the empty response that was free; the grace turn makes
  one more (`CallsCounted`). While a turn goes on, every verdict on it was a rejection
  and cost a retry (`Rejections`), and nothing is delivered or recorded (`NothingYet`):
  with these an answer that leaves the loop is announced, recorded and shown as it was
  judged (`AnswerRight`). Where no overflow moved the start of the turn, the results
  after it are those of its own tools (`RowsOfTurns`, `ToolsAfterStart`), which is what
  the judge is shown. Theorems `JudgeCalls`, `JudgeNotice`, `JudgeRecord`,
  `JudgeVerdicts`, `JudgeCuts`, `JudgeIsTold`, `JudgeTypes`.
* `ScheduledWakes_proofs` (`Parameters`). `TimerInv`: live timers are keys of
  `self._tasks`, a conversation's lock is held by the timer that is in `_start_turn`
  and by no other, and after `shutdown` there is none. `WakeInv` says of every wake
  where it is: with a timer, in the inbox, in a drain, in a turn, or withdrawn, and that
  its status in the sidecar agrees or is known to be stale: `NoWakeForgotten`.
  `SingleInv` adds that a wake that began has left all of these: `WakesRunOnce`, and
  the action property `CancelledIsOver`.
* `Workflow_proofs` (the assumptions of `Workflow`). `TypeInv` is about journals: what
  the replay of a script can have recorded. `RestInv` says that a turn works on the
  journal on disk or an answer has crossed it (`CopyIsCurrent`), that before a question
  in the slot, in the archive or on its way everything is recorded, on disk and in
  the copy a turn holds (`AskedInOrder`), and that an outcome that has not been shown
  has somebody who will (`ToBeShown`); all until an orphaned thunk has saved (`late`).
  Nothing in it counts turns: a command typed again, a resume that waits behind chat and
  the twin a scan adds are covered, and so are requests of other calls in the slot. From
  it `OutcomeShown` and the action property `RecordsKept`. That the slot is free when a
  workflow posts is false (`Workflow_slot`), and so is that an answer stands whatever
  crosses a turn: `lost` and `crossed` are what the theorems except for it.
  The same module proves about `WebChat`, as an instance, for any pages (`ChatBounds`:
  bounds are numbers). `ChatInv`: a round has one row (`ByRound`), one round at a time
  waits to be forwarded and nothing is streamed over it (`OneForward`), so what a socket
  has collected is of that round alone (`Buffered`); every row is on a page that has
  loaded, in the history it awaits, on its way as an event, or was sent in part
  (`Coming`); every piece streamed has a row, is in flight or was cut off (`Saved`).
  Theorems `ChatPages` and `ChatKept`.
* `Delegate_proofs` (`Bounds`: the limits are numbers). Permits and awaited children
  add up to the limit (`PermitsCount`), a child runs on the event of the turn that
  started it: `Capped`, `CancelReaches`. The cap excepts the children that were given up
  on and those a message woke without their setup.
  The same module proves about `LlmCalls`, as an instance (`LlmBounds`: bounds are
  numbers, a model has one provider). Calls are collected in the order they were said
  and of each what was said of it, unless a gateway without numbers merged them or the
  turn was cancelled (`Gathered`, with `LastOnly`: only the last call lacks arguments);
  how a response ended is known from what was collected (`Stops`); before a response
  nothing is said or collected (`Quiet`); what was shown is what was collected
  (`Seen`); a request in flight is the history worded for its model (`Sent`); the rows
  of a stopped turn (`RowsHeard`, `Heard`). Theorems `LlmCallsWhole`, `LlmShown`,
  `LlmStops`, `LlmRequests`, `LlmTypes`; the last one needs `Small`, that a call
  collects at most two pieces for each one the model began.
* `FileLocks_proofs` (`Bounds`: files of movers and admins are told apart, bounds are
  numbers). The invariant has three layers: jobs in the queue or in a worker are those
  that somebody waits for or abandoned (`JobsInv`); the reference count of an entry is
  the number of calls that refer to it, and the owner of a lock is one (`LockInv`); what
  an admin tool saw is what the file contains while it holds the lock (`FileInv`).
  Theorems `Exclusion`, `NoUpdateLost`. The removal of a job from the queue is written
  with `Without`, a function on sequences, and not with `SelectSeq`, which is recursive
  and of which the provers know nothing.
* `Services_proofs`: sessions of coding agents (`CodingBounds`), timers
  (`TimersBounds`), the connection to an MCP server (`ServersBounds`), background jobs
  (`ShellsBounds`), the canvas (`TabsBounds`) and the vault (`WikiBounds`), each an
  instance under names of its own. They share a module because they share nothing else.
  `CodingInv`: index and sessions lead to each other, a call under way uses a session
  that existed, consent was granted, costs are bounded by budget and calls. Theorems
  `CodingOneEach`, `CodingConsented`.
  `TimersInv`: a run knows what it runs, what is in flight is in `running_tasks`, the
  time on disk is not behind a run that the timer began, one run holds the heartbeat's
  lock. Theorems `TimersNotStranded`, `TimersRunOnce`, `TimersTakeTurns`.
  The connection: a generation is that of one attempt and none is reused (`Numbers`); a
  stack that is open is the state's, is about to be closed, or belongs to an operation that
  was disowned, and a stack that displaced the current one will never open
  (`OwnedStacks`); who waits for a settling has an operation that will settle. Theorems
  `ServersOwned`, `ServersReleased`, `ServersTypes`. The last one failed at first for a good
  reason: the bound of `retries` in the type invariant was `MaxRetries`, which two
  calls that reconnect at a time pass, each by its own increment (`mcp_client.py`:879); a
  model with three operations does not show it, and the bound is gone.
  The jobs: what is marked as over or removed has exited, or its reader failed and will
  kill it when it has told (`JobsOver`); who tells of an
  exit is alone in doing so, tells row, inbox and wake in this order, and only of a job
  that is finalized (`JobsTellers`); a manager with jobs keeps its conversation. Theorems
  `ShellsReachable`, `ShellsTold`, `ShellsTypes`.
  The canvas: until a clear sets the counter back, a number that was given is below it
  and has one maker (`NumbersGrow`); the counter never passes one more than the calls
  that began (`NumbersLast`), so that every number is in range; a session is that of a
  shell which was not forgotten, under the number of its tab, and who closes a tab is
  after that very shell (`SessionsMatch`); a live shell has its tab or a killer
  (`ShellsFound`). Theorems `CanvasNumbers`, `CanvasShells`. The type of `queue`, which
  `SelectSeq` computes, is not proved, and neither theorem needs it.
  The vault: the text of a page is in the index, or a call is about to put it there
  (`Indexed`); where no two calls on a page overlapped, what is being embedded for it is
  its text and nothing else is in the index, unless the page is about to be indexed anew
  (`Current`). Theorems `WikiTypes`, `WikiIndexed`, `WikiSeen`; the last of them needs
  only that the two sets it compares grow together, step by step.

Only model-checked:

* all liveness: `AcceptedIsAnswered`, `QueuedIsDispatched`, `Terminates`,
  `PendingIsHandedOver`, `RunningIsSettled` (fairness and ENABLED are beyond the prover),
  and `FileLocks!NobodyIsStuck`, whose "can go on" is a disjunction over every step;
* the properties of `MCStores` and `MCSessions` as wholes: they are conjunctions over
  24 modules. The conjuncts of `FileLocks`, `Delegate`, `CodeSessions`, `Schedules`,
  `McpClient`, `BackgroundJobs`, `Vault`, `LlmCalls`, `Reflection` and `WebChat`, and the
  two of `Canvas`, are proved in the modules above, for all values of the constants;
* the other stores and sessions. Several of them remove an element with `SelectSeq` or
  fold over a sequence, which the provers cannot follow.


## 5. Plan

Done: the core (`TurnQueue`, `Confirmations`, `AgentTurn`, `ScheduledWakes`,
`Workflow`), the stores, the sessions; the proofs of section 4.

Proof still to do: `Compaction!NothingForgotten`.

Not modelled, and why:

* the widget prompt of a turn together with the slot of `Confirmations`: a turn
  cancelled while a widget waits never withdraws its prompt (`agent.py`:367). `AgentTurn`
  has the wait and `Confirmations` the slot; a composition of the two is beyond what
  TLC can explore with both intact;
* `ScheduledWakes` with the drain of `TurnQueue`: the drain is an environment there;
* what is listed as left out in section 2.
