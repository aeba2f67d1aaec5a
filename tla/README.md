# SICA-rust: TLA+ models, checks and proofs

SICA is a desktop coding agent in two processes: a `backend` daemon that runs
chat sessions against an LLM, and an egui `frontend` that supervises the daemon
and talks to it over a named pipe. This directory holds TLA+ models of the
backend, of its tools and of the parts of the frontend that keep state, the TLC
runs that check them and the TLAPS proofs about them. Paths are under
`crates/<name>/src/`; line numbers refer to the commit beside which the
directory is kept.

## 1. The system

| Part | State it keeps | Operations | Modelled in |
|---|---|---|---|
| Turn lifecycle (`backend/chat.rs`, `dispatcher.rs`) | `active_turns` (one slot per session: marker and token), spawned starts | send, edit, steer, promote, Stop, `/goal continue`, delete, start, decide what follows | `TurnSlot` |
| Inbox (`backend/inbox.rs`) | one queue per session | push, drain_mid_turn, take_followup, edit, remove | `TurnSlot` |
| Turn loop (`chat.rs`, the spawned task) | hop, retry, overflow and nudge counters, the reply and batch in hand, finish reason | request, retry, compaction on overflow, tool calls, TurnEnd | `TurnLoop` |
| Completion check (`backend/verdict.rs`) | `Spent` per session; the log by turn id | needs_check, judge, open, refund, objective, made_progress | `TurnLoop`, `Verdict` |
| Derived history (`sica-core/event.rs`, `agents/compact.rs`) | the fold of the log the model sees | append, Replace, Rewind, snapshot, prune, compact, edit | `Surface` |
| Session log (`backend/sessions_store.rs`) | rows in memory, lines on disk | append, flush, rewrite, load, migrate, delete | `SessionStore` |
| Goal control (`agents/goal.rs`) | goal with revision, phase, rounds, in log, memory and frontend; armed flag | commands, control tools, put_goal, round driver | `Goal` |
| Settings, modes, titles (`chat.rs`, `title_gen.rs`) | one map entry and one row each; the title | set, approved exit-plan-mode, rename, titler, fork | `Settings` |
| Schedules (`agents/schedule.rs`, `sica-core/project.rs`) | Schedule rows and their fold | create, delete, scan, claim, dispatch, start | `Schedule` |
| Model connection (`chat.rs`) | client, options, window, anchors, shown state | connect, disconnect, take, learn | `Connection` |
| Streaming (`llm/client.rs`, `streaming.rs`, `agents/turn.rs`) | held text, call fragments, the reply so far | event, chunk, finish, fail, Stop | `Stream` |
| Memory keeper (`backend/memory_keeper.rs`) | timers, one queue, one worker, memory rows | arm, take, publish, look, ask, land | `Keeper` |
| Long-term store (`agents/long_term.rs`) | one JSON document | add, update, delete, promote, evict, show | `LongTerm` |
| Incidents, tickets, ledger, investigator (`backend/incident.rs`, `investigate.rs`, `idealist/`) | ledger and ticket files, bus, queue, worker | record, file, close, pick, examine, mark | `Investigator` |
| Tool pipeline and broker (`agents/subagent.rs`, `pipeline.rs`, `broker.rs`) | calls in flight, pending approvals and questions, observed versions | dispatch, policies, ask, answer, time out, run, report | `Calls` |
| Jobs (`agents/jobs.rs`, `backend/jobs_bridge.rs`) | registry, output window, children, notices | start, append, read, kill, settle, clear | `Jobs` |
| Delegated runs (`agents/runner.rs`, `delegate.rs`, `ralph.rs`, `team.rs`, `workflow.rs`) | child conversations, evidence, reports, run rows | open, reply, nudge, report, round, fail | `Delegation` |
| Scripts (`agents/script.rs`, `ptc.rs`) | a blocking thread with caps | operate, call the host, print, abort, give up | `Program` |
| Hooks (`backend/hooks.rs`) | hooks.json, a process per hook, audit rows | load, match, run, merge, audit | `Hooks` |
| Skills registry (`agents/registry.rs`, `md_skill.rs`, `preset.rs`) | files, registry, session preset | start, announce, dispatch, create, select | `Catalogue` |
| Call parser (`agents/parse_tool_call.rs`) | none | extract_for, extract_known, rejected_attempt | `CallSyntax` |
| Tool output (`agents/builtins.rs`, `spill.rs`, `web.rs`, `sica-core/retain.rs`) | a child, its output, spill files, pages | spawn, cap, spill, summarise, page | `ToolOutput` |
| Model evaluation (`agents/model_eval.rs`) | tally, reports, baselines | run, score, judge, report | `Evaluation` |
| MCP client (`agents/mcp.rs`) | servers, tools | load, connect, list, call | `Mcp` |
| Workspaces (`backend/workspaces.rs`, `frontend/ui/sidebar.rs`) | registry document, session map, projection | register, move, archive, search, prune, restart | `Workspaces` |
| Projections of a log (`sica-core/project.rs`, `WorkflowBridge` in `chat.rs`) | the log's rows, one task per edge of a run, trees on screen | turn rows, run edges (append, fold, push), rate, reload, restart | `Projections` |
| Trajectory view (`backend/trajectory.rs`, `frontend/app.rs`) | pages on screen | ask, page, land, move | `Ledger` |
| Replay (`llm/replay.rs`, `sica-core/snapshot.rs`, `frontend/bin/replay.rs`) | script, recording, settle loop | record, bless, serve, mask, compare | `Replay` |
| Supervisor and IPC (`frontend/supervisor.rs`, `ipc_client.rs`, `backend/ipc.rs`) | the child, client tasks, the pipe | start, stop, rebuild, watch, connect, write, die | `Supervisor` |
| Mirror (`frontend/app.rs`) | transcript, dock, goal bar, busy marks | switch, send, remove, handle an event | `Mirror` |
| Input area (`frontend/ui/chat/`) | draft, rail, pickers, fields, takeovers | key, click, route, answer | `Composer` |
| Drawing, protocol types, path and text helpers | | | see section 6 |

**How the parts interact.** The dispatcher handles the frontend's requests one
at a time and awaits each to its end. Everything else runs beside it as tokio
tasks: turn tasks (one per turn, and one session may have several that overlap
briefly), spawned calls of `start_turn`, the schedule timer, the memory keeper,
the investigator, job watchers, the titler and the connect task. They share the
hub's maps, each under its own async mutex, and the session log, under another.
The one lock with a protocol is `active_turns`: a send checks it and queues
under it, and an ending turn looks at the queue and releases the slot under it;
keeper and investigator publish a token and look at it again. Frontend and
backend exchange requests and events, each way a FIFO.

**What is hard.** The window between finding a slot free and registering a
turn; a slot handed to a spawned start that may be refused; Stop in any of
these windows; state written to a map first and to the log after an await; a
log whose rows are flushed best-effort except at two barriers; a batch of tool
calls that may stop in the middle; a human's answer racing a timeout; workers
that must give way to a turn that is only announcing itself; a summariser at
work while the log moves; torn writes; ids that restart with the process while
the log does not; children, threads and servers that do not end; screens put
together from answers to questions asked before the user moved on.
`PROJECT.json` lists each hazard at its line.

**What makes each part correct.** A live turn is reachable through the slot; no
accepted message is lost, doubled or overtaken; a turn ends; no effect before
its row is durable; every visible call has one result; an error leaves a
ticket; the visible history has one copy of each context and keeps calls with
their results; a summary only shadows what it has read; flushed rows survive; a
turn is judged by its own request; what a person set is found again after a
restart; a reminder is told once; a reply does not depend on how it was cut; a
memory pass gives way and still catches up; nothing unapproved runs; a job's
end is told once and its output accounted for; a broken hook, file or server
takes nothing from the others; the screen settles on what the backend holds; no
typed word is lost or sent twice.

## 2. Modules

| Module | Role |
|---|---|
| `TurnSlot` | one session's turns, slot, queue (the session's inbox), goal and timer |
| `Delivery` | abstract: a text is unsent, waiting, then ran or dropped for good |
| `TurnLoop` | one turn's loop and the chain of continuations |
| `TurnPhases` | abstract: the hop machine `TurnSlot` uses, with its fairness |
| `Surface`, `SessionStore`, `Verdict`, `Projections`, `ToolOutput`, `CallSyntax` | what is read back: the log, the views folded from it, tool output and the model's calls; checked by `MCRecords` |
| `Goal`, `Settings`, `Schedule`, `Connection`, `Stream`, `Investigator`, `LongTerm` | what the hub keeps beside the turns; checked by `MCHub` |
| `Calls`, `Jobs`, `Delegation`, `Hooks`, `Catalogue`, `Mcp` | tools; checked by `MCTools` |
| `Mirror`, `Ledger`, `Workspaces`, `Composer`, `Replay`, `Evaluation` | window, replay driver and model evaluation; checked by `MCDesktop` |
| `Keeper`, `Supervisor`, `Program` | parts whose promise is that something ends; checked by `MCLifetimes` |
| `TurnSlotProofs`, `TurnLoopProofs`, `HubProofs`, `ToolsProofs`, `RecordsProofs`, `DesktopProofs`, `LifetimesProofs` | the theorems, section 4: of the two core modules, and of the parts of `MCHub`, `MCTools`, `MCRecords`, `MCDesktop` and `MCLifetimes` |
| `SequenceFacts` | lemmas those proofs share: sequences at chosen positions, concatenation, numbers that count up, streams of events of which the latest counts |
| `Picked` | a sequence at chosen positions: `SelectSeq` without the recursion the prover cannot unfold; used where the code filters a list (`SessionStore`, `Surface`, `Hooks`, `Mcp`, `Ledger`, `Mirror`, `Workspaces`) |

`TurnSlot` and `TurnLoop` meet in `TurnPhases`: `TurnSlot` moves a turn through
"top", "calling" and "ending" and assumes that a turn leaves the loop;
`TurnLoop` has the counters that make it so and is shown to implement
`TurnPhases`, the fairness included.

The five collecting modules `MCRecords`, `MCHub`, `MCTools`, `MCDesktop` and
`MCLifetimes` put independent components into one run: the variable `part`
chooses one at the start, only that one moves, and each property speaks of its
own component's variables. The components of such a run share no state, so this
checks each of them as a run of its own would. Components that do share state
are in one module: the turn task, dispatcher and driver of a goal in `Goal`, the
frontend and backend halves of the connection in `Supervisor`, `Mirror`,
`Ledger` and `Workspaces`.

### The core

*TurnSlot.* An *id* stands for one call of `start_turn`, the turn it becomes, and
that turn's marker and token; a claim of the schedule timer has an id too, as in
the code. `pc` of an id goes "opening" (inside `start_turn`, nothing written),
"logged" (the log block is done), then "top"/"calling" (the loop), "ending"
(TurnEnd written, next step not decided), "over"; "gone" is a task that
returned because its session was deleted, and "claim" the timer's reservation.
The steps of a request that lets go of a lock are separate actions: `SteerTurn`
then `SteerPush`; `SteerQueued`, `PromoteTake`, `SteerPush`; `DispStart`, then
`StartLog` and `StartRegister` of the awaited call. `interrupt_session` is one
action: it takes three locks in turn, but the token is cancelled first and a
decision that comes in between finds it cancelled. `steer_turn` with a free slot
is the same step as `SendStart`. A goal is the number of rounds it may still
open; the completion check is the choice between `DecideContinue` and what
follows it. The history variables `sent`, `ran`, `evicted`, `stranded`,
`stopped` are read by properties only.

*TurnLoop.* Each action is one stretch of the task between two points where Stop
can be seen or the disk can fail. A reply is the kind of thing the loop takes it
for. `dirty` says that a row the turn wrote is not on disk; appends made by other
tasks are not in it. `Appends` leaves it open whether the best-effort flush
worked, the barriers (`Request`, `TextCall`, `BatchRun`) make it FALSE or fail.
`owed` counts visible native calls without a result, over the whole session.
The tool body is one step with an outcome.

*Surface.* `derive_surface` is a left fold, so the variable `surface` is the fold
so far and each append applies one step. Only a row's seq, role, the call it
belongs to and whether it is big enough to prune are kept. The token budget only
decides where the split starts, so every start is tried (`Splits`).
`compact_session` is two actions because it lets go of the session while the
summariser works. Long-term and session memory contexts are refreshed the way
instructions are, and that one kind stands for the three.

*SessionStore.* A row is a number; a file is a sequence of lines, each a row or
`Bad`, and `open` says that the last one has no newline. An unfinished write
leaves a prefix of what it was given: whole lines, a broken one, or a whole one
without its newline. The states at start are an empty directory, a legacy TOML
file, and a log of an older or a newer format. `flush_in` does not fsync; the
model takes what was written to be on disk, so a power failure is outside it.

*Verdict.* The rows the two lookups read, written by processes that each number
turns from 1. `OtherId` is a request of the turn, or a turn of another session,
taking an id from the same counter.

*Projections.* The folds of `project.rs` over the rows they read: counters, one
row per turn, the trees of orchestrated runs, ratings. An edge of a run is a task
in three steps, append, fold and push, which no lock joins; `made` remembers what
the run itself did, and `orderly` that no edge was logged ahead of the one it
follows. The properties compare what is folded with what happened.

### The hub

*Goal.* `put_goal` is three steps (`PutLog`, `PutEmit`, `PutMem`; the armed flag
goes with the first), and two actors can be inside it: the dispatcher and the
turn task, whose last act is the round driver. `overlap` remembers that they
met, which the properties exclude and `CopiesNeverDrift` does not. A turn ends
in one of five ways, as its last decision has it: a queued message or a
continuation keeps the slot's entry, token and all, until its start puts a new
one in (`StartNext`); a stopped turn disarms and gives the slot back; an idle end
gives it back; a round is recorded first. `wanted` is what the person last asked
for. A `/goal continue` that finds a stopped turn still in its slot arms the goal
and says so, and the end of that turn disarms it again; `overruled` remembers
that step, and it is the only excuse `ContinueKept` has besides `overlap`.

*Settings.* A setting is 0 or 1; a change writes the map at once and its row in a
later step (`LogSetting`). Two actors change settings: the dispatcher, one request
at a time, and the turn (an approved exit-plan-mode, or the agent a typed `/name`
selects inside `start_turn`, which for a queued message runs beside the
dispatcher). `doubtful` names the settings on which two writers met, or whose map
and rows the code lets differ. The restart folds the rows. A title is who wrote it.

*Schedule.* Time is counted in units of the shortest period. `logged` is the fold
of the rows, `active` the hub's copy; `DeliverScan`, `DeliverClaim`,
`DeliverPick`, one `DeliverDispatch` per row, `DeliverRefold` and `DeliverStart`
are the awaits of the timer's pass, and a restart may fall between any two.

*Connection.* Five cells, each holding the provider its content came from; the
connect task writes them one per step while the dispatcher may disconnect or
start another connect.

*Stream.* The tags are shortened to three and four characters, which keeps which
prefixes they share. The server sends pieces of one to three characters; what
the splitter holds back, `run_turn`'s select between chunk and Stop, and the two
ways a stream can end are separate steps.

*Investigator.* Per kind of failure: its ledger entry, ticket, bus message and
lesson. The worker publishes its token, looks for turns, examines one pick after
the other and marks the whole ledger, as the code does.

*LongTerm.* The document is a sequence of memories with author and scope;
similarity is a relation on the facts. `document` is what is on disk: every
writer reads, changes and writes under one lock.

### Tools

*Calls.* A call goes "pre" (depth, mode, policies), "asking", "body", "done" or
"dropped". Approvals and questions are entries with a one-shot channel; the
timeout and the removal of the entry are two steps. The file both the model and
the person edit is a version number.

*Jobs.* A byte of output is its position. The watcher's kill, the child's end,
settling, the log row and the inbox notice are separate steps; `ClearJobs` is
what `delete_session` does after it let go of the map.

*Delegation.* A conversation counts its calls and nudges; a round's evidence joins
a mate's trail only when the round reports. The model is the environment.

*Program* (checked in `MCLifetimes`). The script's next step is a choice of
operation, print, host call or end; the thread looks at token and deadline where
the engine does. A line of any size goes into the output whole while the buffer
is below twice the cap, the script's value follows it without a cap, and what the
model reads of it is cut by `Windowed`: head, notice, tail.

*Hooks.* A hook is a process that may not start, may close its input, prints
something of one of the classes the parser tells apart, or never ends. Events
run their hooks in file order.

*ToolOutput.* A line is its number and width, or a marker naming a file. The
model's side is a reader that opens every file it was pointed to and follows the
pages to the end; `why` records a cap that cuts for good.

*Catalogue.* A file is what its front matter makes of it. The registry is rebuilt
at each start, and a turn keeps the view it resolved.

*CallSyntax.* A text is a sequence of symbols; a reply is a call in one of seven
shapes that the model meant, behind text that is none. The parser's readers are
folds over that sequence.

*Evaluation.* File names are sequences of numbers, so that the prefix match of
baselines is the code's. *Mcp.* Names are sequences of characters, so that
sanitising can make two the same.

### Window and processes

*Mirror*, *Ledger*, *Workspaces*. Requests and events are queues; the backend half
is reduced to what it emits, in the order it emits it. *Composer.* One step is one
frame that saw one key, click or event. *Replay.* Three runs in a row: live,
`--bless`, check; time passes in settle windows. *Supervisor.* A generation is a
backend process and the client task started with it; all generations share one
pipe name. *Keeper.* A turn announces itself before it is in `active_turns`, and
the worker's token and second look are separate steps.

## 3. Runs

All runs with TLC, `tlc -workers 2 -config <run>.cfg <module>`.

| Run (module) | States | What it shows |
|---|---|---|
| `TurnSlotSafe` (`TurnSlot`) | 1.1 M | a live turn owns the slot; a queued message has a turn; texts are in one place, claimed in order, and delivered or dropped once (`Delivery` implemented) |
| `TurnSlotLive` (`TurnSlot`) | 106 K | the slot comes back; a queued message is served |
| `TurnLoop` | 0.7 M | effects after durability, tickets, answered calls, bounded continuations, `TurnPhases` implemented with its fairness, the session comes to rest |
| `Records` (`MCRecords`) | 0.88 M | one copy of a context, a split parts no call from the result behind it, a summary lands only on what it read, Replace is the splice while the surface is in log order; a clean restart reads back what was flushed, each torn write costs at most two rows, an old log is rewritten whole or left alone; progress is the turn's own across id collisions, and within one process the objective is the last human request; every turn keeps its own outline row, calls and end although ids are used again, the tree of a run is the run while no edge overtakes the one it follows, and the live tree says nothing that has not happened; every byte a tool printed stays reachable unless a cap says so, and a call is read as it was meant |
| `Hub` (`MCHub`) | 2.1 M | goal copies agree when nobody writes and no two writers met, rounds within budget, what was armed stays armed but for an overruled continue, settings and titles after restarts; no reminder told twice; ready means installed, chunking is invisible; unexamined failures stay pending; deliberate memories are kept |
| `Tools` (`MCTools`) | 1.1 M | nothing unapproved runs and rows close; jobs told once and output accounted for; delegated runs nest, are bounded and cite real calls; built-ins, hooks and servers keep out of each other's way |
| `Desktop` (`MCDesktop`) | 0.77 M | the screen settles on the backend's state; nothing typed is lost; a replay fails exactly when the harness changed; scores are whole and compared with what came before |
| `Lifetimes` (`MCLifetimes`) | 0.23 M | one of pass and turn stops the other, a client that was not killed talks to its own backend, scripts keep their caps (twice the output cap and one line in memory, the cap and a notice for the model); news is never overwritten unseen, memory catches up, a lost connection is shown, a script's thread ends |

Four more runs check a sentence of the sources that the code does not keep; each
is a finding in `PROJECT.json`:

| Run (module) | The sentence | What happens |
|---|---|---|
| `StopStopsGoal` (`TurnSlot`) | chat.rs:1891, "Stop also stops the goal loop" | a round already handed to a spawned start survives Stop |
| `PairsStayTogether` (`Surface`) | invariants.rs:18, "a `Replace` span never splits a tool call from its result" | two results pruned in one pass: the second lands before its call |
| `NoDanglingCalls` (`TurnLoop`) | chat.rs:3468, dangling calls "would poison the next request's template" | a cut-off reply, or Stop in a batch, leaves calls unanswered |
| `FlushedSurvives` (`SessionStore`) | chat.rs:4874, "every appended row is on disk, or the caller learns why not" | a flush after a torn one continues the torn line |

### Sentences that do not hold

The modules state further sentences of the sources that the models refute. To see
one, add `INVARIANT <name>` (or `PROPERTY`, where marked P) to the run's
configuration; constants to change are given where the run's are too small.

| Run | Property | The sentence | What happens |
|---|---|---|---|
| `TurnSlotSafe` | `RefusalIsNoOp` | chat.rs:2631, the removal is "a no-op on the ordinary path" | a refused start removes another turn's live entry |
| | `DeliveryNeverInterrupts` P | docs/harness-implementation-guide.md:1855, a delivery never interrupts a turn | a send that found the slot free registers inside the claim, and the delivery's turn cancels it |
| | `QueuedRunsUnaided` | chat.rs:2483, a queued message runs "with no second send needed" | the followup's start is refused and the slot released with others waiting |
| | `SteerHasTurn` | inbox.rs:169, a steer is spent at the running turn's next hop | the turn's last hop passes between the slot check and the push |
| | `SlotHasOwner` | chat.rs:2628, a session must not look busy behind a turn that does not exist | a deleted session's turn returns at 3477-3480 with its slot |
| `TurnLoop` | `RequestIsDurable` | chat.rs:3002, no request the log would not remember | rows written after the checkpoint, before the request, are best-effort |
| `Records` | `SnapshotKeepsPlace` P | chat.rs:4344, a snapshot shadows its predecessor in place | placed by seq, it moves past entries written since |
| | `FoldIsSplice` P | chat.rs:6193, Replace yields exactly the old splice | not once the surface is out of log order |
| | `RewindDropsTail` P | event.rs:955, the rewind drops the message and everything after it | it also drops a summary of what came before, whose seq is higher |
| | `SplitPartsNoPair` (`MinFold = 4`, `MaxSeq = 26`, `-simulate`) | compact.rs:198, the tail must not open on a result whose call is folded | a shortened result and then two context snapshots placed between it and its call: the split between the snapshots parts the pair, as it looks at neighbours only |
| | `NoRowTwice` | sessions_store.rs:5, a flush writes only lines not yet flushed | a write that failed half way is repeated from its start |
| | `MigratedWhole` | sessions_store.rs:15, the .jsonl is written in full, then the .toml renamed | a crash inside the migration leaves a partial .jsonl that the next start takes as done |
| | `FutureUntouched` | `read_log`, a newer log is "skipped, not touched" | its id is free again, and a new session appends to the file |
| | `ObjectiveIsLatest` | verdict.rs:173, "the thing the person actually asked for" | after a restart the id finds an old turn first |
| | `LineIsOpening` | project.rs:112, the outline's line is that of "the user message that opened the turn" | the prompt is logged ahead of TurnStart (chat.rs:2807-2812), so it names the turn before |
| | `LiveIsReload` | chat.rs:4260, the live tree and a reload's "cannot disagree" | a tree folded earlier is pushed later |
| | `EndFindsStart` | workflow.rs:180, an end finds its own start | not when it is logged ahead of it |
| | `InterruptedIsOver` | tool_row.rs:181, interrupted once nothing is running any more | a run is headed so between two of its members |
| | `RunsApart` (`Rooms` with 8 rows, 1 run, 1 restart) | subagent.rs:116, two runs must not mint the same id | ids restart with the process and the log does not |
| | `PathSurvives` | subagent.rs:583, the path survives the summary | only the path of the pipeline's own spill |
| | `PageOnDisk` | web.rs:12, the full page is on disk | what lies past MAX_FETCH is cut before the spill |
| | `SpillReadable` | spill.rs:9, read-file inspects the spill | not a file over MAX_FILE |
| | `GrepFileWhole` | builtins.rs:1107, all matches are in the file named | only those past the cap |
| | `MarkShowsMore` | builtins.rs, the cap mark names the next call to make | a page that fits without its header names a call past its end |
| | `ProseNotSwallowed` (`Leads` with prose holding an open quote) | parse_tool_call.rs:31, a guard keeps prose from being swallowed | a quote that closes lines later does |
| `Hub` | `CopiesNeverDrift` | chat.rs:373, the three copies of a goal "cannot drift" | a command and the round driver can be inside put_goal at once |
| | `ContinueHeard` | chat.rs:3983, the end of a stopped turn disarms "until they say continue" | a continue said after Stop and before that end is told the goal is active, and is disarmed by it |
| | `RenamePinsTitle` P | chat.rs:1635, the titler "only writes over the title it wrote itself" | a name given before the first message is taken for the provisional title |
| | `ApprovalSurvives` | chat.rs:4886, the latest /approval command decides after a restart | asking for the policy without changing it writes a row, which the restart reads as a change |
| | `DueGoesOut` | schedule.rs:66 and skills/schedule.md, an overdue reminder goes out at the next chance | its rows are written before its turn starts, so a refused start uses it up |
| | `AnchorOfClient` | chat.rs:1793, "a new provider invalidates every usage anchor" | a turn still running against the old one stores its count afterwards |
| | `FailedIsRetried` | investigate.rs:27, a failed investigation is retried at the next session end | the run that failed marks the ledger entry all the same |
| | `ClosingStands` P | ticket.rs, a person's closing of a ticket "stands" | an interrupted run opens it again |
| | `ChosenKept` | long_term.rs:277, what a person or the model chose is never evicted | a promoted fact keeps its `auto` mark when a person edits it or is told it is known |
| | `NeverOverwritten` | long_term.rs:20, a document that will not parse is moved aside | not one that is no text |
| `Tools` | `PlanOnlyReads` | pipeline.rs:184, in plan mode "only non-mutating tools run" | a destructive command is asked about before plan mode is looked at |
| | `LateAnswerSaysSo` | broker.rs:108, a late answer reports `false` | not between the timeout and the removal, nor for a dropped question |
| | `WritesWhatItSaw` (`EditBound = 3`) | pipeline.rs:220, a file may only be written at the version last seen | the version recorded is the one after the read, and the write comes after the check |
| | `RestStaysForNextRead` (`OutputCap = 3`, `ByteBound = 4`) | jobs.rs:49, the rest "stays for the next read" | the mark moves past the middle that was left out |
| | `JobsGoWithSession` | chat.rs:1623, a deleted session's jobs go with it | the turn that was running starts one afterwards |
| | `CallIdsUnique` | runner.rs:130, `call-1` is never shown twice for two calls | a failed round leaves its calls in the transcript and off the trail |
| | `HookInTime` | hooks.rs:59, a hook's wall clock | the payload is written before the clock starts |
| | `PromptRowsLand` | chat.rs:2649, the prompt hook's rows "land once it does, below" | the rows were dropped |
| | `ContextReachesModel` | hooks.rs:343, every hook's context regardless of rank | not for a call a human let through |
| | `OnlyOffered` | registry.rs:199, "a skill the model was never offered cannot be called by it" | a native call is looked up by name without the check (chat.rs:741) |
| | `OneAgent` | chat.rs:1972, no change of agent once there are replies | the first turn has none while it runs |
| | `CreatorKeeps` | skill_creator.rs:41, an existing skill file is never overwritten | a native call may say `overwrite: true` |
| | `OneTimeout` | mcp.rs:46, a server gets CONNECT_TIMEOUT to start and list | it gets it twice |
| | `AllListedCallable` | mcp.rs:26, the agent has the tools it does have | two names made equal by sanitising: the second replaces the first |
| `Desktop` | `HandleIsOwn` | app.rs:2288, the oldest prompt without a handle is the one stored | a prompt that was dropped or removed keeps its bubble |
| | `TranscriptIsOwn` | app.rs:2397, only the active session's transcript is on screen | hops and deltas of another session land in it |
| | `GoalOnScreen` | chat.rs:1373, a switch pushes goal, jobs and queue | they are sent ahead of the answer that blanks them |
| | `LedgerHasNoGap` | no page is missing from the middle of the view | a late answer clears the mark of a newer request, and pages cross a reload |
| | `WorkspaceIdsStable` | workspaces.rs:132, ids are stable once written | after a restart the counter starts past the sessions, not past the workspaces |
| | `OrderOutlivesUnmount` P | workspaces.rs:23, an unmounted drive is "a status and not a deletion" | prune drops the manual order while the folder is away |
| | `HeldUntilAnswer` | app.rs:779, the folder being added is held until its answer | any projection that arrives takes it |
| | `HitsOfQuery` | sidebar.rs:465, a row shows the line it matched on | the answer to an earlier query is shown under the present one |
| | `SessionPickResolves` | at_menu.rs:119, a session reference is resolved on send | the backend reads another form (chat.rs:1028) |
| | `HarnessCommandRuns` | composer.rs:715, harness commands run instead of a model turn | not when Enter steers: the command is sent into the running turn as text |
| | `PlusOpensMenu` | composer.rs:198, "+ opens the / menu" | not in front of a draft that holds whitespace |
| | `EscapeOnlyAbandons` | dock.rs:492, Escape abandons | it also stops the turn |
| | `StopMirrorsButton` P | slash_menu.rs:41, app commands mirror controls | /stop does nothing while a turn runs whose last row is not open, where the button stops it |
| | `QuietIsOver` | bin/replay.rs:283, quiet for a settle window means the turn is over | a slow tool or a backoff is quiet longer |
| | `RecordingIsScript` | llm/replay.rs:4, a recorded log is the script | the titler takes a reply recorded for a turn |
| | `BaselineOfSuite` | model_eval.rs:20, compared with the previous baseline of the same suite | names are matched by prefix |
| | `InterruptNotScored` | model_eval.rs:1360, the score covers only the cases before the interrupt | the run the interrupt cut short is counted as a failure |
| | `SummaryHasPath` | model_eval.rs:67, the summary points at the report file | the path is the last line, and the cap can cut it off |
| `Lifetimes` | `NeverCompetes` | memory_keeper.rs:17, any turn starting cancels the pass | not one that announced itself before the token was published and registered after the look |
| | `IdleIsRead` P | memory_keeper.rs:20, the turn's end re-arms the timer | a refused turn has no end |
| | `KilledClientIsSilent` | ipc_client.rs:1, a client runs until `kill_rx` fires | the next backend can get the Shutdown meant for the last |
| | `StopsAtTwice` | script.rs:45, the sandbox "stops appending at twice this" | the length is looked at before a line of up to 4 MB goes in whole |
| | `AbortsItself` | script.rs:33, the script aborts itself before the pipeline gives it up | the clock is looked at every 4096 operations, which long host calls do not reach |
| | `AbandonedIsQuiet` | ... | and goes on calling tools |

Seen while modelling, without a property: text held back as the possible start of
a tag is dropped when the stream ends there (`Stream`); the dock keeps its local
echo when a send meets the end of the turn, `running_sessions` is not cleared on
a disconnect, and the one approval slot of the window is overwritten by a second
approval (`Mirror`); a JSON denial longer than 16 KB is read as no answer
(`Hooks`); a judged case passes unjudged once the call budget is used up
(`Evaluation`); `ReplayScript::remaining` has no caller outside tests.

### Bounds

- `TurnSlot`: two texts, four ids, one goal round, one continuation and one
  delivery are enough for three starts to be open at once beside a running
  turn. Injects are left to `TurnSlotLive`; they only matter to a drain.
  Texts are interchangeable and the run has no liveness property, so the
  symmetry is sound. For liveness the ids must not run out before the starts
  do (an exhausted id would look like a lost handoff), so `TurnSlotLive` keeps
  two texts, one delivery (a claim and a start) and four ids, and no
  continuation. Larger instances (five ids with a continuation and a delivery;
  a goal round with a continuation) were run by hand and hold too.
- `TurnLoop`: every budget is the smallest at which it can be both used and
  used up; `MaxStalled` and `MaxAuto` are 2 so that a refund matters.
- `Records`: ten rows of history (`MIN_FOLD` is 4 in the code and 2 here, so
  that second folds and edits after a fold fit; the violation run uses 4 and
  fourteen rows); five rows on disk, two of them there at the start, and two
  torn writes, so that a tear can follow a tear and a rewrite; seven rows, ids up
  to 3 and two restarts for the lookups, so that an id is used three times; seven
  rows with a restart for the outline, one run of two members with one label and
  phase and two tasks at a time for the trees; caps of a few bytes in the order
  of the code's; every argument of three of the symbols quoting depends on,
  behind three leads, in seven shapes.
- `Hub`: one goal with two rounds and four revisions (create, round, command,
  block); two sends, so that a queued message starts beside the dispatcher, with
  two settings away from their default at a time, and one restart or fork; two
  reminders, a period of two and five units of time; two providers, three connects and a turn; every text of
  three splitter characters and three longer ones in pieces of up to three; two
  kinds of failure, two turns; two facts that look alike and a store of one.
- `Tools`: two calls, one inside the other or in parallel; two jobs, one at a
  time, two bytes for a window of one; two mates, two rounds; nine hooks over
  all events, two events; four server files.
- `Desktop`: two sessions, two prompts, two switches; two logs of two rows, three
  pages; two folders, two sessions, two clicks, a restart and an unmount; six
  input steps; two prompts with a tool, a retry and a compaction, five override
  files; three suites, two of one name prefix.
- `Lifetimes`: two sessions, two turns, one row by remember or the person, one
  refresh; two generations, one request, one death; seven operations with the
  clock looked at every third; an output cap of 4, lines of 1 and 5 and a result
  of 0, 2 or 6, so that one line passes the cap at once, the second passes twice
  the cap, and the result alone passes it.

`Stream`, `Projections`, `Hooks`, `Catalogue`, `Mcp` and the parts of `MCDesktop` were
also run with larger constants, as random walks of sixty steps, some millions of states
each, and their properties hold there. `Replay` needs the delays of one turn
to add up to no more than `TurnTimeout`, as its configuration has it: a turn with several
long backoffs is cut by the timeout and fails an unchanged harness. `SplitPartsNoPair`
was a property of `Records` until the attempt to prove it led to the longer logs in
which it fails.

One more property of the modules holds and was run by hand only: `CallsEnd` of
`Calls` (every call ends, under `CallsFairness`). `AgentFixed` of `Catalogue` is no run's
property and is proved.

A definition under a comment that begins with "Mutant" is a mistaken form of the
one after it, never part of a specification. `PROJECT.json` names one for every
property; the others each break another part of a property made of parts, and
were run by hand.

`CHECK_DEADLOCK FALSE` stands where only the bounds stop the model (rows, turns,
tears, clicks used up). `TurnSlot` is checked for deadlock: Stop is always
possible when the dispatcher is idle, so a deadlock there would be a request that
never ends.

### Fairness

*Turns.* Weak fairness of every step of a start, a turn task, a decision and a
claim: each is a spawned tokio task whose waits are bounded (idle timeout of the
stream, hook and check timeouts, tool limits) and whose locks are held only over
short sections. Strong fairness of `HopLast` in `TurnSlot` says that a turn that
keeps making requests ends; this is not assumed of the code but shown, by
`LoopImplementsPhases` in the run `TurnLoop`, from the budgets and weak fairness
of the task alone. Nothing is assumed of the user, the model or the disk.

*Lifetimes.* The keeper: a started turn registers or is refused and goes idle, an
armed timer fires, the worker takes its next step (its request has a timeout).
The supervisor: a process told to end ends (`KillChild`, `Reap` follow the
three-second grace), a build ends, the client's tasks are polled. The script: its
thread is scheduled and host functions return, each having a timeout of its own.
Commands, deaths, clicks and the passing of time owe nothing.

## 4. Proofs

TLAPS proves, for all values of the constants (in particular the code's own
budgets, and any number of texts, ids, calls, jobs, rows, sessions and backends).
Theorems of a collecting module are about the specification its run checks:

| Theorem | Says |
|---|---|
| `TurnSlotProofs!TypeCorrect` | `TypeOK`: types, and no goal round past the goal's |
| `TurnSlotProofs!SlotOwnership` | `LiveTurnOwnsSlot` |
| `TurnSlotProofs!FollowupNotStranded` | `FollowupHasTurn` |
| `TurnSlotProofs!TextHeldOnce` | `HeldOnce` |
| `TurnSlotProofs!TextsDelivered` | `DeliveredOnce`: `TurnSlot` implements `Delivery` |
| `TurnSlotProofs!FollowupsInOrder` | the action property `ClaimsInOrder` |
| `TurnLoopProofs!TypeCorrect` | `TypeOK`: every counter within its budget |
| `TurnLoopProofs!EffectsDurable` | `EffectIsDurable` |
| `TurnLoopProofs!ErrorsTicketed` | `ErrorIsTicketed` |
| `TurnLoopProofs!CallsAccounted` | `CallsAnswered` |
| `TurnLoopProofs!ContinuesBounded` | the action property `ContinuesInBudget` |
| `TurnLoopProofs!PhasesFollowed` | every step is one of `TurnPhases` or leaves its phase: `LoopImplementsPhases` but for the fairness |
| `HubProofs!SessionStateIsKept` | `SessionStateKept` (`Goal`, `Settings`) |
| `HubProofs!RemindersAreSound` | `RemindersSound` (`Schedule`) |
| `HubProofs!ReadyIsKept` | `ReadyIsInstalled`, the part of `ProviderSound` about `Connection` |
| `HubProofs!InvestigatorIsSound` | `InvestigatorSound` |
| `HubProofs!DeliberateStays` | `DeliberateKept` (`LongTerm`) |
| `ToolsProofs!CallsAreSound` | `CallsSound` |
| `ToolsProofs!JobsAreSound` | `JobsSound` |
| `ToolsProofs!DelegationIsSound` | `DelegationSound` |
| `ToolsProofs!ExtensionsAreSound` | `ExtensionsSound` (`Hooks`, `Catalogue`, `Mcp`) |
| `ToolsProofs!AgentIsFixed` | the action property `AgentFixed` of `Catalogue` |
| `RecordsProofs!StoresAreSound` | `StoreSound` |
| `RecordsProofs!SummariesAreOfVisible` | the action property `SummaryOfVisible` |
| `RecordsProofs!FoldsAreSplices` | the action property `SpliceInLogOrder` |
| `RecordsProofs!HistoriesAreSound` | `SurfaceSound` |
| `RecordsProofs!VerdictsAreSound` | `VerdictSound` |
| `RecordsProofs!ViewsOfLogAreSound` | `ProjectionsSound` |
| `DesktopProofs!EvaluationIsSound` | `EvaluationSound` |
| `DesktopProofs!ComposerIsSound` | `ComposerSound` |
| `DesktopProofs!ViewsAreSound` | `ViewsSound` (`Mirror`, `Ledger`, `Workspaces`) |
| `DesktopProofs!LedgerKept`, `WorkspacesKept` | its parts `LedgerFaithful` and `SidebarIsTrue` |
| `LifetimesProofs!NothingOutlives`, `MemoryKept` | `LifetimesKept` and `NewsKept` |
| `LifetimesProofs!PassGivesWay`, `BackendIsOwn`, `CapsKept` | the parts of `LifetimesKept`: `TurnStopsPass`, `OwnBackend`, `CapsHold` |

**Assumptions.** Only those the modules name, which TLC evaluates on every run.
Most say that a bound is a natural number (`TurnSlot`, `TurnLoop`, `Goal`,
`Program`, `Verdict`, `SessionStore`, `Surface`). Beyond that: a reply may hold a
call and `NoMsg` is no text; a period is at least one tick (`Schedule`), the
minimal fold and tail of a summary at least one row (`Surface`), and a process
generation at least 1 (`Supervisor`); a session's mode is one of the three
(`Calls`); the team is finite and not empty (`Delegation`), the kinds of failure
are finitely many (`Investigator`); a printed line has at least its newline and
at most the longest length a string may have (`Program`); a torn line is no row, and a log another build left
has a row (`SessionStore`); a page holds a row (`Ledger`), and `NoTab` is no session
(`Mirror`); no folder is named "none" and the sessions at the start are finitely many
(`Workspaces`); what can be typed is not what can be picked, and the options of a question
are finitely many (`Composer`); a directory holds a server's file once, and there is one
(`Mcp`); the budget of an evaluation is a number (`Evaluation`); the members of a run are
numbers above 0 (`Projections`).

**Collections.** Each step of a collected specification is a step or a stutter of
every part (`PartsStep` in each module), so what is proved of a part by itself
holds of the collection.

*TurnSlot.* The invariants are inductive one after the other. `TypeOK` is
proved per group of actions. `LiveTurnOwnsSlot` needs types only: the one step
that takes the slot from a turn, `StartRegister`, cancels the turn it finds, and
the other steps that clear the slot either belong to its owner, which stops
being live, or go through `Release`, which records whom it evicted.
`FollowupHasTurn` holds because a followup is pushed only under a taken slot, a
decision that clears the slot has looked at the queue, and `Release` records
what it strands. `TextInv` says of one text at a time where it can be
(`TextFits`: a row of the queue, one start, the dispatcher's hand or the log,
each excluding the others) and of the rows that positions are minted once; each
step is then a move of one text (`LifeMoves`), which is what `Delivery` allows.
Without the position part an edit could turn one row into two.

*TurnLoop.* The properties are not inductive. `IInv` adds: where calls may be
left or run at all (`InHand`); that a batch in hand is owed at least what it
holds (`BatchOwed`, without which `owed` could go below zero and `TypeOK` fail
at `BatchAnswer`); that a stopped turn is marked (`StopSpoils`); that the finish
reason is still "done" inside the loop and an error one has a ticket (`Filed`);
and that a decided continuation has been charged (`Charged`). `TypeStep`,
`CallsStep` and `EndStep` prove it by one case per action.

*Goal.* `GoalInv` names, while a write is under way, the goal as it will stand
(`GoalToBe`), which copies have it already (`GoalCopiesInStep`), and counts a
round that is decided and not yet spawned (`GoalRoundsCounted`). All of it is
under `~overlap`: once two actors were inside `put_goal` together the code
promises nothing, and `overlap` stays set. Likewise the armed flag follows what
the person wanted until a stopped turn's end overrules it (`overruled`). *Settings.* A key that is not in
doubt is the one on record or owed to it (`SettingsFollow`); `TitleFits` ties
the titler to the name it would write over. *Schedule.* A recurring reminder
stays on the grid of its anchor, shown with lemmas about `%`, and what was told
lies before the next target (`ToldBefore`), so that no due time comes again.
Between the rows of one dispatch the hub's copy of a record whose row is written
is out of date, so the invariant speaks of `Known`, which leaves it out, and
`RowsFit` says that the rows still to come are of due records not yet claimed.
*Connection.* `StoredSoFar` says which cells the one attempt has written by the
step it stands at; once attempts overlap (`mixed`) nothing is claimed.
*Investigator.* `PickedOnFile`: what the worker holds has its ticket and its
ledger entry. *LongTerm.* `AutoIsKeepers`: the entries that eviction may take
hold nothing a person or the model wrote, with ids that are never used again.

*Calls.* `CallFits`, per call: its row (open exactly between its start and its
end), its entry with the broker (a yes is a click on this very call), and a licence
for everything from "start" on. *Jobs.* `JobFits`, per job: how far the watcher
has come and what it has told by then, and that what left the window was
spilled or refused. *Delegation.* `RowsOut` describes the rows of a run under
way, with the members still out; a step appends the rows of a set of members in
any order (`RowsListed`), and `RowsIn` is what the last one leaves. `AskedAtMost`
bounds the requests by the hops plus one each for the correction, the reminder
and the call past the budget.

*Hooks.* `AnswersFit` ties the answers in hand to what each hook wrote, `DecidedFits`
the call to them, and `AuditFits` says which rows the log lacks: those of prompts
submitted before it was there. *Catalogue.* `WorkFits`: the running turn's view is of the
registry that is up and holds the controls. *Mcp.* `FilesFit` splits the files into those
the loader is through with and the rest, `ClockFits` bounds each wait of the server in hand.

*SessionStore.* `WholeUntilTorn` is exact before the first torn write. After it
`TearsPay` is a potential: rows lost, plus two when the file ends in an open line (the
line and the row that will be written on to it), are at most twice the tears; a
rewrite that would lose a row is excluded by `FlushedAcked` (what is on disk is in
memory when a rewrite is due). `OldWaits`: an older log is rewritten before it
is appended to.
*Surface.* `CompKnows`: while the log has not moved since a summary was begun, the
surface is the one it was begun on; the row number is the whole comparison the
code makes, and `split_index` left it neighbours that do not belong together,
which is enough to cut between pairs (`CutKeepsPairs`) as long as results stand
right behind their calls; they do not always, see `SplitPartsNoPair` above, which
has no counterexample within the bounds of `Records` and a first one at about 20
rows. `OneCopy` says which context rows there are. The pass of a prune over
several rows is a recursive function over the rows already rewritten; what it
leaves is shown by induction over a set of numbers (`UpTo`, `PruneFacts`).
*Verdict.* `OpenedAt`: the start of the turn under way is the newest in the log, so that
all work after it is its own; in a first run no other start has its id.
`asked = AskedOf(log)` says what the objective was before the turn began.
*Projections.* A fold is a recursive function over the rows read so far; that one row more
is one step more (`ViewGrows`) makes every view a variable of its own, on which an action
that logs a row acts by `OutlineApply`, `StatsApply` or `RunsApply`. `Books` ties the outline
to the turns and the counters to the outline; it counts the call that has no result yet, the
one the run held by the turn came from. `Forest` has the tree of every run that is `Followed`
(its id is its own, and no edge of it overtook the one before); the members of a phase are those
logged of it, once each, though they share a label (`MembersFit`). `Due`: what has happened is
logged or waits in a task. `Told`: a tree that was folded, pushed or shown at some time says
nothing that has not happened since, because what has ended stays as it ended (`Later`).

*Evaluation.* `ScoredFits`: what is scored is the head of the plan, each case with all its
runs. *Composer.* `Balance` counts, for each item, the places it is in: made once, then
in the draft or on the rail, erased, or delivered. It needs `Unique`: an item stands in one place.
*Ledger.* `PagesTrue`: a page on its way holds rows of its own log, each under the turn and
the envelope that log puts it under; these stay as the log grows (`OldRowsStay`).
*Mirror* and *Workspaces.* What is on screen is right, or an event on its way makes it right,
or a request on its way will: `DockFollows`, `BusyFollows`, `ViewFollows`, `ListFollows`, each
over the latest event of its kind (`LatestIs`, `Unsaid` of `SequenceFacts`). A session without
a row has been taken away by a request that is still on its way, or is about to be announced. For
the sidebar, `ProjectTrue` says what a projection draws of any registry.

*Keeper.* `TurnStopsPass` is not inductive, because a turn that has only announced
itself may register later: `NoTurnUnseen` counts the turns still opening too, and
then every order of announcement, token, look and registration is one case.
`NewsKept` needs `PlanFits`: a pass knows the newest row or an older one, and if
the newest, it has read at least as far. Row numbers only grow, so the
compare-and-set of `Land` cannot take an old row for the new one.
*Supervisor.* `OneBackend` names the one generation that may live or be unsealed
(the one on the books, or the one being stopped); every other born process is
dead and its channel sealed, so the listener an unsealed client finds is its own.
`OneClient`: a backend accepts one client, once. `InLine` then puts the three
queues of such a pair in one line: what was handled comes before what was
received, and that before what the client still holds, all of it sent for that
client. A frame that moves from one queue to the next keeps the line.
*Program.* `CapsInv` adds that a stopped script's token has fired and that no call
was begun behind the back of a pipeline that still waits. `OutputInv`: until what
was said passes the cap the buffer holds all of it, and no line takes it further
than one line past twice the cap; `WindowFits` is the fact about `Windowed` that
the answer needs.

**Only model-checked.**

- Liveness (`SlotComesBack`, `FollowupServed`, `ComesToRest`, `MemoryCatchesUp`,
  `ConnectionLossShown`, `ScriptsEnd`) and the fairness
  part of `LoopImplementsPhases`: the prover handles neither fairness nor ENABLED.
- `ChunkingInvisible` and `CompleteIsWhole` of `Stream` and all of `CallSyntax` and
  `ToolOutput` (hence `ProviderSound` and `ToolTextSound`): what a splitter or a parser
  computes for every input is induction over data.
- `ReplaySound`: it compares two runs of the harness, and what each of them sends is sorted
  and folded with operators the prover cannot unfold.

## 5. Plan

Done: the core, the hub, the tools, what is read back, the window and the processes,
with their proofs as listed.
Left, in this order:

1. Proofs. What is left is out of the prover's reach (section 4): liveness, the
   splitter and the parsers, and `ReplaySound`. The last would need `Replay` to say
   what a harness sends without sorting and folding a set of turns, and an
   invariant over two runs at once.
2. Compositions that are now two modules joined by hand: the goal of `Goal` with
   the slot of `TurnSlot` (the round between decision and registration), the
   delivery of `Schedule` with the claim of `TurnSlot`, `Calls` inside a batch of
   `TurnLoop`.
3. Several sessions in `Keeper` and `Investigator` together: both wait for the
   same quiet and use one model.

## 6. Not modelled

The frontend's drawing code, settings pages and provider forms; prompt wording;
the idealist's prompts and classification; listing and search of sessions,
instructions files (reads that change nothing); theme, path, credential and
attachment helpers; protocol types and framing; the demo component of the
backend; the smoke binary. Of the built-in tools, those that are a single file
operation (write, edit, list, todo): the guard in front of them is in `Calls`.
Times are left out except as the order of events and, in `Schedule`, `Program`,
`Hooks`, `Mcp`, `ToolOutput` and `Replay`, as a few ticks. Power failure (no
fsync) is outside `SessionStore`. Several sessions: every map is keyed by session
and the modelled steps read one key; the places where sessions do meet are
`OtherId` in `Verdict`, the two sessions of `Keeper`, and the ids that `Workspaces`
shares with sessions.
