# Petsona, modelled and proved

Petsona is a desktop pet that talks, remembers and works. This directory holds
TLA+ models of its core logic, the TLC runs that check them on small instances,
and TLAPS proofs of the properties that matter most for every size. The models
are written from the code under `src/`; where a document or a comment promises
something else than the code does, the run that shows it is listed under
[What the runs found](#what-the-runs-found).

## The system

Three processes:

- the **shell** (`apps/shell`): a Tauri application with a Rust bridge
  (`src-tauri/src/bridge.rs`) that starts, watches and restarts the harness, and
  web views for the pet, the float chat and the panel (`ui/`);
- the **harness** (`packages/harness`): one Node process, one thread, that owns
  the user's data. It talks to the shell over lines of JSON (`ipc/`) and to the
  gateway over HTTP (`gateway/client.ts`);
- the **gateway** (`apps/gateway`): a Fastify server with accounts, budgets and
  the LLM providers.

The harness is single-threaded, so a handler runs undisturbed up to its next
`await`. Everything hard comes from there: several handlers, executors, timers
and requests are suspended at the same time and what one read before its await
another may have changed; a batch of synchronous writes to several files is not
a transaction when the process dies; and the user may press a button twice, late
or not at all.

### Inventory

| Part | State it keeps | Operations | What is hard about it | Model |
| --- | --- | --- | --- | --- |
| Task board `tasks/board.ts` | a record per task (disk); a FIFO and a slot per agent type, abort controllers (memory) | dispatch, cancel, run and finish, markApplying, completeAfterApproval, rejectApproval, a new process | outcomes that arrive after a cancellation; the slot of a cancelled task; no recovery after a restart | `TaskBoard` |
| Staging store `staging/store.ts` | staged operations (memory); plans, journals, kept originals (disk) | stageWrite/Move/Trash, createPlan, reject, apply, undo | operations that overlap, throw half-way, or are cut off by a death; undoing twice | `Staging` |
| Sub-agent loop `tasks/subagent.ts` | rounds, tool calls, tokens of a run | one LLM reply, one tool, the final result | an abort that is looked at between rounds only; the plan is on disk before the record names it | `TaskPipeline` |
| Task and approval handlers `main.ts` | none of their own | TASK_CANCEL, APPROVAL_DECISION, UNDO_REQUEST | two files written one after the other; late and repeated decisions | `TaskPipeline` |
| Memory layers `memory/*.ts` | hot turns and warm segments (SQLite), cold items (a file each) and their trash | compactIfNeeded, runDream, remember, extraction, edit, delete, clear | compactions that overlap across the await of a summary; two statements without a transaction | `Memory` |
| Companion loop `loop/companion.ts` | the busy flag | one turn | the compaction it starts is not awaited | parts of `Memory` and `Reminders` |
| Session `gateway/client.ts`, `keychain.ts`, `main.ts` | a pair of tokens in memory and in the keychain, the login state | a request with its refresh and retry, login, logout, start-up | refreshes that run together, answers that get lost, keychain writes that fail | `Session` |
| Gateway authentication `routes/auth.ts`, `auth/*.ts` | refresh tokens that are honoured | login, refresh (rotation), logout (revocation) | rotation while the client repeats a request | `Session` |
| Scheduler `scheduler/cron.ts`, `jobs_store.ts` | the list of jobs (memory), `scheduled.json` | start, tick, setReminder, stopReminder | what rang is on disk when the process dies; the dream it slept through; a file another writer changed | `Reminders` |
| Injection queue and consumers `loop/injection_queue.ts`, `reminder_consumer.ts`, `companion.ts`, `main.ts` | items with dedupe key, priority, expiry; the busy flag | push, drain, drainWhere | three that take from one queue; reminders pushed back while muted | `Reminders` |
| Tool `schedule_reminder` `tools/light/index.ts` | none of its own | adds a job to `scheduled.json` | writes behind the scheduler's back, in place | `Reminders` |
| Heartbeat `scheduler/heartbeat.ts`, `guards.ts`, `persona/proactive.ts` | when the last bubble was (memory, `proactive.json`), the decision in flight | onIdle, the two calls of a decision, save | guards that change during an await; a flag that every way out must reset | `Guards`, `Heartbeat` |
| Directory migration `paths.ts`, login in `main.ts` | the data directories, a note of a login | writePending, applyPending, resolvePaths | renaming and the removal of the note are two steps, and a death or a failure may come between | `Migration` |
| Gateway governance and route `governance.ts`, `routes/llm.ts` | sliding windows, day counters, ledgers of days and tasks | check, call, charge | checked before a call, charged after it; clients that no longer wait | `Gateway` |
| LLM providers `providers/*.ts` | none between calls | one call, streamed or not | usage in any frame or in none; streams that end early | `Providers` |
| Chat view `ui/lib/useChat.ts`, `ipc.ts`, `chatSeed.ts` | a list of bubbles for each window, requests that wait | mount, send, answers, events, timeout | answers, events and history in an order of their own | `Bubbles`, `Chat` |
| Shell bridge `bridge.rs`, router `ipc/router.ts` | the child process; lines under way | relay, watch, launch again | what a dying harness was sent is lost | `Chat` |
| Hooks and permissions `hooks/`, `permission/rules.ts`, heavy tools | none of their own | PreToolUse: permission, scope, audit | two places resolve the same path | `ToolGate` |
| Memory sync, emotion machine, telemetry, prompt compaction, persona and skills, windows | little or none | merges, pictures, buffers, text, rendering | see [Not modelled](#not-modelled) | - |

`PROJECT.json` lists every component with the reason for its status, and every
hazard with its line and the properties that would catch it.

## The modules

    TaskLifecycle  <--implements--  TaskPipeline  --INSTANCE-->  TaskBoard
                                                  --INSTANCE-->  Staging
                                                  --INSTANCE-->  ToolGate
    Gateway  --INSTANCE-->  Providers
    Chat  --EXTENDS-->  Bubbles
    Heartbeat  --EXTENDS-->  Guards
    Memory    Session    Reminders    Migration

A component has a module, an `...MC` module with the model values of its
runs and `.cfg` files. Its theorems are in a `...Proofs` module of its own, except that
`SchedulerProofs` has those of Reminders and of Heartbeat, and `DeviceProofs` those
of Migration and of Chat.
`ToolGate` and `Providers` are functions without state that the modules above
them use.

### TaskBoard

`status` and `agent` are the record files; `waiting`, `running`, `aborters` and
`aborted` are the maps of the class. Task ids are stamped with the time, so a
task is named by its place in the order of dispatch and a FIFO is the set of the
ids that wait: `push` adds the largest, `shift` takes the smallest. `Pump` is
`pump()` with the synchronous beginning of `run()`; `Settle` is everything from
the settling of an executor's promise to the pump in the `finally`, which is one
turn of the microtask queue; `Dispatch`, `Cancel`, `MarkApplying`,
`CompleteAfterApproval` and `RejectApproval` are the methods of the same names.
`Restart` keeps the records and forgets the maps, as the constructor does; the
tasks it leaves behind are noted in `lost`.

### Staging

`pending` is memory, `ops`, `planStatus`, `journal` and `kept` (the files under
`undo/<plan>/`) are disk, `files` the user's files, `call` the apply or undo that
is under way and how far it got. One file operation is one step, so that the
process may die between any two, and between the operations, the plan's outcome
and the journal. `trail` is history: the files before and after each operation of
a plan. Contents are atoms. An operation copies the old file and then writes the
new one in a single step; the copy comes first, so dying between the two loses
nothing. A copy that fails half-way, on a full disk say, is a step of its own: of the
old file (`BackupBreaks`), of the new body over it (`WriteBreaks`, which leaves the
target damaged in any way, or removed, and no entry for it), or of an undo
(`UndoEntryThrows`); `broken` is history, the operation it happened to. An append is
staged as the whole new body. `mkdir` is left out. A plan or a journal that cannot be
written leaves on disk what a death before that write does. A move is a rename.

### TaskPipeline and TaskLifecycle

`TaskPipeline` instantiates both and drives them as the program does: rounds of
replies and tools (`ReplyWithTools`, `Tool`, `FinalResult...`), the budgets and
the abort check, and the IPC handlers, whose `handler` variable says which write
they have made and which is to follow, so that deaths fall between them. A plan
is named by its task. `LateDecisions` says whether the user may decide when
nothing is due: a second time, or after a cancellation.

A tool call passes `ToolGate` before it does anything: `EvaluateLevel` is the
registry's level and the built-in rules, `ScopeViolated` the second hook, and
`NormalizePath` the path the hook judges and `ResolveTaskPath` the one the handlers
name. Both walk the raw path as `path.resolve()` does (`Walk`), with `..` anywhere;
the hook then replaces backslashes by slashes (`Slashed`) and the handlers do not. A
path is a sequence of names, each of which says whether a backslash joins the next
one to it: to `path.resolve()` on POSIX that is one segment, to the hook two. `StagedOp`
is what a handler stages. That a rule matches the text of a command, and that a
command needs the network, are attributes of a call. A handler may fail for any
reason. Symbolic links are left out since the code does not look at them either.

`TaskLifecycle` is the abstract specification: the transitions of a record, one
running task of each type, final statuses, and that tasks settle. `LifecycleSpec`
instantiates it in `TaskPipeline` with the board's own variables.

### Memory

`hot`, `warm`, `cold` and `trash` are the layers; a segment or an item is the set
of turns it was summarised from, so that the properties can ask where a turn
went. `job` holds the compactions and dreams in flight with the batch each read
before its await. `HotSummary` and `WarmSummary` are what such a run does when
its summary arrives, up to its next await; `CrashInHot` and `CrashInWarm` are a
death between the insertion and the deletion. Texts are abstracted to bodies that
are equal or not (the extraction's similarity is equality of bodies), `lastT`
stamps are distinct, items written by hand are dated when written, the dream's
consolidation is one step (it is synchronous), and MEMORY_CLEAR clears all.

### Session

Pairs of tokens are numbered in the order of their issue. `access`, `refresh` are
the fields of the client, `keyAccess`, `keyRefresh` the keychain, `fresh` and
`live` the pairs whose access token is still good and whose refresh token is
honoured. A thread of `th` is a request, the login, the logout or the start-up
between two of its awaits; keychain writes run in a process of their own, so each
takes effect first and its thread resumes later. `root` names the login each
pair goes back to; `left`, `signedOut` and `adrift` note the logins the user
left, those whose logout was accepted, and those of which a pair was lost on its
way (a lost answer, a keychain that refused, a death). There is one account. The
30 days of a refresh token, restarts of the gateway and its optional JSON file
are left out. The user logs in or out at any await of the requests, but only after
the keychain was read. `overlapped` and `displaced` are history as well: the logins
whose refresh was answered while their logout was under way, or not yet in memory
when it began, and those whose pair the late refresh of an older login replaced.

### Reminders

Time is counted in minutes and `now` is part of the state. `list` and `disk` are
the scheduler's list and `scheduled.json`, `queue` the injection queue, `turn`
says at which await the companion loop stands and `carried` what it drained.
`SchedulerTick` is a tick that finds something due (any other changes nothing),
with all it pushes and the write at its end; `SetReminder` and `StopReminder` are
the IPC handlers; `ConsumerTick` is a tick of the consumer that finds the loop
free; a turn is `ChatSend`, or `ChatSendLong` and `Extracted` when it first
extracts for a compaction, then any number of `ToolReminder`, then `TurnEnds`. A
turn that a hook rejects or that finds another under way touches none of this.
`Start` is `loadJobs`, `ensureDream` and the first tick, which throws on a job
whose payload it cannot read. `Die` and `DieInTool` are the ends of the process;
the second falls into the tool's write, which is not atomic, and leaves a file
that reads as empty. Every write may also fail: `persist()` logs it and the list in
memory goes on alone (`ok`; `caught` and `ticked` for the two writes of a start),
while `ToolWriteBreaks` is a write of the tool that breaks in place. `rang`, `early`,
`unwritten` (the kinds of jobs whose last change a failed write left out) and `lost`
(of those, what the next start read as it was before) are history.

Abstractions: an item has a place in line instead of a position in an array, so
that what is pushed back while muted simply stays (only the order of reminders
among themselves would differ, and no property is about it); a dedupe key is the
name of the reminder, or of the job or task and the minute; intervals are
constants, as if the configuration did not change, and a pomodoro takes its own
from them; a cron expression is the minute of the day it matches; standing up,
which works like water, is left out, and so are the kinds `dream`, `stand` and
`anniversary` for the tool, whose description does not offer the first and the
last; `fullscreenMute` is on. The heartbeat puts nothing into the queue.

### Bubbles and Chat

From the window to the loop and back. `Bubbles` is the list of `useChat.ts`: `view` is
the list in each window, `waiting` the requests of `ipc.ts`, what becomes of the list
with each answer and event, and what is promised of it. `Chat` is what drives it:
`shown` are the windows that are open, `pipe` and `out` the
harness's standard input and output, `turn` the loop and `stored` its database.
`Mount`, `Unmount`, `Send` and `MountWithSeed` (a message the home page left) are
the window's; `Timeout` is the timer of a request; `ReadAnswer` and `ReadEvent`
are one line relayed to all windows; `HandleHistory`, `HandleSend`, `PreTurn`,
`Rejected`, `Stream`, `TurnDone` and `StreamFails` are the router and the companion
loop up to their next awaits; `Die` and `Relaunch` are the watchdog's. `told` is
history: the replies a window heard the end of.

Abstractions: one line is broadcast and handled by all windows in one step; what
a process wrote before it died is still read before what its successor writes;
`moving` stands for the three flags streaming, reasoning and tooling, each of
which makes a bubble move; text is the user's, a part, the whole reply or an
error; launches that fail, and the back-off between them, only take time; the
limit of 50 turns in the history is not reached; the mock bus for development
is left out.

### Gateway and Providers

`minuteHits`, `dayCounts`, `dayUsage` and `taskTokens` are the maps of
`governance.ts`; two hits of the same time are told apart by a number. `RefusedByRate`, `RefusedByBudget` and `Accepted` are the three ends
of the checks of `routes/llm.ts`, which run without an await; `Finish` and `Fail`
are the end of the provider, with the charge; `GiveUp` is a client that stops
waiting (12 s for the first byte, or a lost connection) and `Restart` a gateway that
starts again, whose maps are in memory and empty, so that every property is about one
life. `spent` and `over` are the sub-agent's own budget. `asked` and `crossing` are
history. Tokens and money are one unit. The clock does not step back. The hourly
limit of login codes is the same window with other numbers and is left out.

`Providers` computes what may become of a call: which provider the factory builds
from the environment and the user's key, and then, for every sequence of frames of
up to `MaxFrames` in any order, and a body that closes or breaks, whether the call
is done or thrown, what it cost, and whether text went out to the end of a call whose
provider counts for itself or only relays a report (`said`). The provider for services
like OpenAI's estimates what is not reported, the mock always counts; the one for
Anthropic's takes what is not reported for nothing. `Gateway` lets a call
end in any of these results. Reasoning, tools and the wording of errors are left
out: nothing is charged for them. The services are external.

### Guards and Heartbeat

`OnIdle` is a report of the shell up to the first await, with the early returns in
`MayDecide` and the gate of `guards.ts`, which is `P02Gate` of `Guards`; `DecidesNot` and `Decides` end the first call
to the model, `KeepsSilent` and `Speak` the second, with the gate asked again; `Save`
writes the time of the bubble, which may fail. `SetConfig` replaces the
configuration, `Tick` is the clock, and `Restart` a death with the start after it, in
the middle of the write perhaps, which leaves a file that loads as nothing. Between
the bubble and its save nothing else runs, as the code does not await there.
`bubbleAt` and `forgotten` are history. The clock's zero lies far back, as `Date.now()`
does. What is said, and whether it resembles the last, is the model's answer.

### Migration

`there`, `items`, `trash` and `pending` are the disk, `account` the keychain, `open`
the directory in use. A start is `StartWithoutNote`, or `Migrate` (the renaming, or
the move to `.trash` when the account has a directory) and then `Unlink` (the removal
of the note); `MigrationThrows` and `UnlinkThrows` are their catch block. `Stop` may
come between the two. `Login` leaves the note, `Logout` does not remove it, `Write` is
anything the harness keeps, `Block` is a file where a directory should be. A write is
an item of its own, so that the properties can ask where it is.

## The runs

| Run | Question | Instance, and why it is enough |
| --- | --- | --- |
| `board` | one executor per type, nothing stranded, FIFO, late outcomes dropped, queued tasks start | 3 tasks, 2 types, restarts: one runs, one waits and one is cancelled in the queue; 35,653 states |
| `staging` | apply is reversible at every point, an undo in time restores every file | 1 plan of up to 2 of 4 operations on 2 files: every overlap of two operations (write after write, move onto a written file, deletion after a move), exclusions, throws, copies that break half-way, deaths, foreign edits; 262,492 states |
| `pipeline` | record and plan agree after any death, nothing is staged beside a plan, decisions are final, an abort ends the rounds | 2 tasks, so that one waits for the other's slot; 2 rounds, 2 tool calls, so that both limits are met in the middle of a round; 6 calls: in scope by a plain path and by one with `..`, a move out of scope, a shell command, a banned one, and a read out of scope; 1 file with 1 content, since no property here looks at files; 1,873,570 states |
| `lifecycle` | the pipeline implements `TaskLifecycle`, with its liveness, and what is staged is in scope unless a backslash is left in its path | as above, one tool a round, without deaths and late decisions (see below); 2 files, one of which has a backslash in its name; a write whose backslash `..` takes back, a move to the file beside, calls out of scope; 193,132 states |
| `memory` | no turn is forgotten, the latest stay hot, batches do not tear, settings survive, a dream leaves the bounds | 2 jobs in flight, thresholds and batches of 2, 7 turns: three hot batches, a warm batch and a dream that overlaps with a compaction; 2 writes, 1 death; 999,745 states |
| `session` | one live refresh token per login, the client keeps it, and what an accepted logout ends | 2 requests, 3 pairs: two refreshes of one login, or a refresh and another login, with a login or a logout at any of their awaits and losses and restarts anywhere; 4,342,851 states |
| `reminders` | one queued item per key, one way out of the queue, nothing waits for ever; durable jobs are on disk, nothing rings too soon after a restart, the dream is caught up | 3 minutes around midnight of a day of 5, in which everything comes due, is muted and goes stale; 2 presses, 1 task, 1 job of the tool, 1 death, writes that fail; 1,489,968 states |
| `chat` | no placeholder spins for nothing, a reply is shown once, what moves comes to rest | 2 windows, 2 messages, 2 mounts, 1 line before the last, 1 death: two turns, one of them refused while the other streams, a history that overtakes or is overtaken, and a window that joins in the middle; 1,026,275 states |
| `gateway` | rates hold in any window, budgets are overdrawn by the calls in flight only, ledgers add up, no streamed text of a provider that counts is free | 1 user and 1 task, 3 calls over 4 steps of the clock with a window of 2 and days of 3, so that a call may begin on one day and end on the next; 2 a minute and 2 a day, so that a third meets the limit of the minute or of the day; 3 frames: text, usage and an end in any order. A second user would share only the ledger of the day; 892,305 states |
| `heartbeat` | the bubble is welcome when it goes out, and a decision always ends | 2 frequencies with gaps of 2 and 3, quiet hours off, within the day and over midnight, 7 steps of a day of 4; 266,688 states |
| `migration` | nothing is lost, doubled or given to the wrong account, the note goes last | 2 accounts, 3 logins, 3 items, any number of starts, failures and deaths; 44,496 states |
| `double_undo` | the second undo of a plan; see [What the runs found](#what-the-runs-found) | the smallest instance that shows it |

The bounds in the modules (`MaxTasks`, `MaxOps`, `MaxTurns`, `MaxWrites`,
`MaxDeaths`, `MaxPairs`, `Worker`, `Caller`, `RoundTools`, `UserEdits`, `Crashes`,
`LateDecisions`, `Horizon`, `MaxPresses`, `MaxJobs`, `MaxSends`, `MaxMounts`,
`MaxLines`, `MaxFrames`, `MaxCalls`, `MaxNow`, `MaxItems`, `MaxLogins`) are declared with a comment; the theorems hold for all of their
values. Deadlock is checked except
where every task has ended, the bounded turns and writes are used up, or a plan
has been undone and nothing is left to do.

Every property of a passing run has a mutant in `PROJECT.json`: a plausible slip
in one definition (a queue that is not pumped, a journal played forwards, a batch
read again after its await) under which TLC finds the property violated.

### Fairness

`TaskBoard.FairSpec` assumes that an executor's promise settles, and
`TaskPipeline.FairSpec` that each await of a sub-agent returns and that a handler
that has begun goes on. The code justifies it: between awaits everything is
synchronous; the LLM call is a `fetch`, which Node gives up after its header and
body timeouts (300 s); the shell tool is killed after at most 120 s and the other
tools have limits of 15 to 60 s; rounds and tool calls are bounded. For handlers
weak fairness is enough. For sub-agents it is strong: a handler runs its synchronous
stretch alone, so a user who asks for a failing undo over and over disables their
steps again and again, but in Node what waits is served in its turn. Nothing is assumed of the user:
a task may await its approval for ever. The lifecycle run has no deaths because
the code takes no queued, running or applying record up again after a restart,
and no late decisions because they overwrite final statuses; both are recorded as
such. `Reminders.FairSpec` assumes that the consumer's timer fires, that a turn's
awaits return (the stream ends in a frame, an error or a timeout, and a turn has
at most six rounds of tools) and that time passes; not that the user ever stops
talking, and not that the process dies or starts. That is enough for
`ReminderLeaves`, since each of the two drains drops what is stale. It is about the
reminders together, which is more than each leaving: whenever some wait whose time
ends before the horizon, there comes a moment when none does.
`Chat.FairSpec` assumes that the shell's thread relays, that timers fire, that the
harness takes line after line, that a turn's awaits end and that the watchdog
launches again; `BubblesSettle` allows for a death, after which a bubble that was
moving stays as it is. `Heartbeat.Spec` assumes that the calls of a decision return:
`chatOnce()` has no limit of its own, so this rests on the header and body timeouts
of Node's `fetch`, or a broken connection. The other specifications have no
fairness and only safety properties.

### What the runs found

| Run | What the code does |
| --- | --- |
| `double_undo` | A second undo of a plan plays its journal again, on the restored files, and removes what the first one put back (`store.ts:139`). |

Nine more configurations hold a property the code does not have and are kept to
show how it fails; `tlc -config X.cfg M` gives the shortest such behaviour:

| Configuration | Property | What the code does |
| --- | --- | --- |
| `StagingCrash.cfg` (`StagingMC`) | `AppliedPlanHasJournal` | The journal is written last: when the process dies before, the plan changed files and cannot be undone (`store.ts:135`). |
| `StagingTorn.cfg` (`StagingMC`) | `UndoBringsBackAll` | A write whose copy fails half-way throws before its journal entry is made: the file stays damaged, and undo leaves it so although its backup is there (`store.ts:171`). |
| `TaskPipelineScope.cfg` (`TaskPipelineMC`) | `ScopeIsKept` | The hook replaces backslashes by slashes after resolving, the handler does not: a path `<authorised>\x` is judged within the directory and staged beside it (`tooluse.ts:123`). |
| `GatewayFree.cfg` (`GatewayMC`) | `NoStreamIsFree` | The provider for Anthropic has no estimate: a compatible service that reports no usage streams its text for nothing (`anthropic.ts:137`). |
| `MemoryOverlap.cfg` (`MemoryMC`) | `SummarisedOnce` | The comment at `memory/store.ts:101` takes mutual exclusion for granted; two compactions overlap across their await and summarise the same turns twice. |
| `SessionRace.cfg` (`SessionMC`) | `LogoutForgets` | A refresh in flight when the user logs out puts a pair of tokens back into memory and keychain after they were cleared (`client.ts:53`, `145`). |
| `SessionLogout.cfg` (`SessionMC`) | `LogoutEnds` | While a refresh is saved its access token is in memory and its refresh token not yet: a logout then is accepted, revokes the rotated token and leaves the new one live (`client.ts:53`). |
| `RemindersStart.cfg` (`RemindersMC`) | `StartNeverFails` | A pomodoro the model asks its tool for, without a note, is written without a payload; the next start throws on it (`cron.ts:98`), and so does every later one. |
| `MigrationOwn.cfg` (`MigrationMC`) | `LoggedInOpensOwn` | Once the note has been applied, the next start finds none and opens the device's directory again, although the user is logged in (`paths.ts:124`). |

`TaskPipelineSpelling.cfg` holds and belongs to the row of `TaskPipelineScope.cfg`: one
task, with every spelling of the path, by plain names, around by `..`, and with a
backslash within, through, beside and upward, and `ScopeHolds` (363,987 states).

The other divergences were met while modelling and have no run of their own.
`PROJECT.json` quotes what each contradicts:

- a decision that comes after its task was cancelled or completed replaces the
  terminal status (`board.ts:116`); that is why `LifecycleSpec` is checked without
  late decisions;
- approvalResult() lists operations that were never reached as changes
  (`main.ts:432`), explore agents are offered every tool (`subagent.ts:70`), and the
  documented state machine has no way from applying to failed (`main.ts:256`);
- of two requests that meet a 401 together the second fails although the session
  is live (`client.ts:274`), and a logout with an expired access token revokes
  nothing (`routes/auth.ts:105`);
- what `schedule_reminder` adds is not heard of before a restart and may be
  overwritten before (`tools/light/index.ts:92`), and its write is not atomic (`:94`);
- a reminder is not held until the end of the quiet hours but for ten minutes
  (`reminder_consumer.ts:50`), a muted session that was set again is told of by
  a start and an abort (`cron.ts:136`), and items drained for a turn that fails
  are never told (`main.ts:136`);
- a death during the save of a bubble, which is in place, forgets all bubbles
  (`heartbeat.ts:79`);
- no request reports a task budget, so the gateway's cap holds for all
  (`subagent.ts:73`), the client turns TASK_BUDGET_EXCEEDED into UPSTREAM
  (`routes/llm.ts:97`), and with the user's own key and no model the provider's
  constructor throws out of the route (`factory.ts:23`);
- a denied tool call leaves no line in the audit (`tooluse.ts:83`);
- the history replaces a message the home page has just sent (`useChat.ts:52`), a
  chunk does not reset the reasoning flag (`:57`), and no window listens for the
  harness being down (`bridge.rs:53`).

## The proofs

TLAPS proves, for every value of the constants:

| Module | Theorems |
| --- | --- |
| `TaskBoardProofs` | `Invariant`, `TypeCorrect`, `OneExecutor`, `Stranded`, `Fifo`, `LateOutcomes` |
| `StagingProofs` | `Invariant`, `TypeCorrect`, `ApplyReversible`, `UndoRestores` |
| `MemoryProofs` | `Invariant`, `TypeCorrect`, `Remembered`, `WholeBatches`, `RecentHot`, `Survive`, `DreamBounds` |
| `TaskPipelineProofs` | `Invariant`, `TypeCorrect`, `Agree`, `StagedInPlan`, `Scope`, `Decisions`, `Aborts`, `UsesBoard`, `UsesStore`, `ImplementsLifecycle` |
| `SessionProofs` | `GatewayInvariant`, `TypeCorrect`, `OneHeir`, `Invariant`, `LiveHeld`, `Revokes` |
| `GatewayProofs` | `Invariant`, `TypeCorrect`, `Rates`, `Overdrawn`, `Agree`, `NoneFree` |
| `SchedulerProofs` | of Reminders: `KeysAreUnique`, `OneWayOut`, `JobsSurvive`, `RingingInTime`, `DreamIsCaughtUp`, `StartsWithoutToolPomodoro`; of Heartbeat: `HeartbeatInvariant`, `Welcome` |
| `DeviceProofs` | of Migration: `Invariant`, `TypeCorrect`, `Lossless`, `LandsRight`, `MovesFirst`; of Chat: `ChatInvariant`, `Placeholders`, `Replies` |

So every invariant and every action property that a passing run checks is a theorem
as well, and the refinement of `TaskLifecycle` up to its liveness.

The only assumptions are those the modules state on their constants
(`MaxTasksAssumption`, `CallsAssumption` and so on), and these:

- `StartsWithoutToolPomodoro`: the tool is never asked for a pomodoro
  (`RemindersStart.cfg` shows what happens when it is);
- `UsesStore`: `MaxToolCalls <= MaxOps + 1`, since `Staging` stages no more than one
  operation beyond the limit of a plan. A call stages at most one operation, and the
  code allows 40 calls and 500 operations; the run of the pipeline has 2 and 1;
- `ImplementsLifecycle`: no deaths and no late decisions, which do break it
  (see [Fairness](#fairness));
- Heartbeat and Chat are instances in their proof modules, and an instance does not
  bring its ASSUMEs along: `H!GapsFit` and `C!BoundsFit` are exactly those, as
  hypotheses. The runs of the two modules evaluate them. What the theorems promise is
  stated in `Guards` and `Bubbles`, which the proof modules extend.

Most rest on an inductive invariant `IInv` that TLC confirmed first, with three facts:
`Init => IInv`, `IInv /\ [Next]_vars => IInv'`, and `IInv` implies the property.

- **TaskBoard.** That no task is stranded is not inductive alone: one must know
  that every id in a FIFO belongs to that type and is queued or finished
  (`Placed`), that the slot's task is older than those that wait (`Ordered`), and
  that tasks in flight have records (`Known`). `Pump` has one lemma, which
  `Dispatch` and `Settle` share.
- **Staging.** The invariant follows an apply through its trail: after k entries
  the files are those after k operations and each step back is possible from what
  is kept (`ApplyInv`). `JournalInv` carries that over to the journal, `FreshInv`
  to the plan applied last as long as nothing else touched the files, and `UndoInv`
  to an undo that is half done. The key lemma is that the reversal of an operation
  undoes its effect, for each kind and also when its two paths coincide. When a copy
  broke, the same is said of the files with that one damage put right from what was
  kept (`Mended`), and an undo promises nothing (`broken`).
- **Memory.** The hot layer is always an interval that ends at the latest turn
  (`Tailed`), and every batch in flight lies before it or is its oldest part. From
  that, a batch that another job deleted meanwhile deletes nothing in its stead,
  batches are equal or disjoint, and a summary covers what its job deletes. What the
  settings keep and what a dream leaves are counts, for which the layers must be finite
  (`Counted`).
- **Task pipeline.** The invariant relates three things that no single write changes
  together. `StoreInv` and `BoardInv` are what it needs to know of the two components,
  `ExecInv` says where an executor stands, `HandlerInv` which of its writes a handler
  has made and which it still owes. `Linked` says for each task what its record, its
  plan and its handler may be at the same time: this is where `TaskAndPlanAgree` is
  read off, deaths included. `Staged` counts: a task has staged no more operations
  than it made calls. `UsesBoard` and `UsesStore` say that the pipeline calls the
  two components only as their own modules allow, so what is proved of those
  modules holds in it. `Scope` follows a call's paths through both resolutions: if no
  backslash is left in it the judged path is the file itself (`HookJudgesTheFile`), so
  a call that is not blocked stages in scope or a path that still has one
  (`GateHolds`). For the lifecycle one must also know that a task is `applying` only
  while a handler holds it (`ApplyingInv`); then each action is a transition of one
  abstract record or of none.
- **Session.** The gateway's part (`GatewayInv`: rotation removes the token a
  refresh was asked with, and a new login has a new root) holds whatever the
  client does. The client's part says what is in whose hands: a pair a thread carries
  is live, not in memory, and no other thread asks with it, carries it or logs out
  with it (`InHand`); the live pair of the login in memory is in memory, carried
  there, or adrift (`Heir`). When a logout sets out, the pair it takes along is
  therefore the live one of its login, unless a thread carries that or a refresh of it
  is answered before the gateway revokes (`Leaves`, `overlapped`): the case
  `SessionLogout.cfg` shows, and the only one besides a lost pair. When a refresh of a
  login the user left comes back after the next login, it takes the memory from it
  (`displaced`). `Places` and `Exclusive` say where threads may be, and that none but
  requests without tokens run while the keychain is read.
- **Gateway.** `UserInv` ties the window's array to the history of requests: whatever
  was accepted within a window of now is still in it (`Kept`), so a full one refuses, and
  of requests that were accepted each lies a window or more behind the one `PerMin`
  places before (`Spaced`); by the pigeonhole principle no window has more. For the ledgers,
  what was charged is the sum of what the finished calls cost (`LedgersAgree`), and
  once a ledger is at its limit every call that is open was open when it got there
  (`DaysInv`, `TasksInv`, with `crossing`): nothing new is accepted, so the overdraft
  is what those cost. A task has one call open at a time, and one it gave up was its
  last (`OneCallOpen`), hence its overdraft is one call. That no streamed text is free,
  with the provider for services like OpenAI's and with the mock, is a property of the
  providers' results, over every sequence of frames. With the one for Anthropic it is
  not so (`GatewayFree.cfg`).
- **Reminders.** Keys stay unique because whatever pushes looks first and what
  one tick pushes differs in its keys (`OutputKeys`, `PushKeys`); this needs no
  other invariant. The jobs need `Sound`, for memory and disk: the panel's water
  and the dream exist once each and carry a time no older than when they last
  rang. `TickSound` shows that a tick keeps it for both and leaves the file in
  step, for the ticks of a start as well, where a dream that is caught up has
  already rung. A write that fails is excepted by kind (`unwritten`, `lost`): until a
  write succeeds again the file may lack what memory has, and a start may read it.
- **Heartbeat.** The gate looks at what memory knows of the last bubble, the
  property at when it went out. `Remembered` says the two agree, on disk as well,
  unless the bubble counts as forgotten, and that it does so from the moment it
  goes out until its save has succeeded; so a start in the middle of a save breaks
  nothing.
- **Migration.** The note names the device's directory and the last login
  (`NoteInv`), and between the renaming and its removal nothing is open and the
  directory has gone (`MovedInv`). On that rests `Accounted`, which is
  `NothingLost` item by item: a renaming hands over all the items of one
  directory at once, to one that had none or to an archive of a new name.
- **Chat.** A turn is stored in the same step in which the line with its last chunk is
  written, so the unread lines know what the history knows. `OutOK` makes that
  precise: an answer to a request for the history stands behind the last lines of
  the turns it has and before those of the turns it has not. So a window that takes
  the history has heard the end of what it shows (`Past`), and a chunk that follows
  starts a bubble of its own. `Window` is about the list: a turn has one bubble, what the
  window was told of is shown, and a placeholder is the only one of its request, which
  waits as long as the placeholder moves. Both properties follow from these.

Only model-checked is liveness, which is out of the prover's reach:
`QueuedTaskLeavesQueue`, `ReminderLeaves`, `BubblesSettle`, `DecisionEnds` and the
liveness half of `LifecycleSpec`. The types of board, memory, session, gateway and
pipeline are theorems and no longer checked by their runs.

Where the prover shaped the models:

- Induction over the numbers works without the library's induction theorem, whose
  parameter is an operator: a set of counterexamples has a least element (`Least`,
  from the well-founded order of the naturals). The sums and the limits of loops
  are proved this way, each for its own set.
- `SelectSeq` and what a `LOCAL INSTANCE` defines are closed to the prover, so the
  modules have neither where a proof looks: a list is changed by a function on its
  domain or by an operator of `SequencesExt`, and the window of the gateway is a set.
- The theorems of one module cannot be cited through an INSTANCE of it. So
  `TaskPipelineProofs` proves what it needs of the board and the store anew.

## Not modelled

- **Memory sync** (`routes/memory.ts`): a merge of one item at a time into a map.
  The harness never calls it, so there is no second side to interleave with.
- **Emotion machine**: one object in one window that chooses a picture, with no
  await; its unit tests reach its cases.
- **Telemetry**: a buffer that nothing depends on.
- **Prompt compaction, prompt assembly, persona, skills**: functions of one call on
  text, without state.
- **Windows, idle detection, tray, rendering**: they show what the models have as
  state, or send the messages that the models take as inputs.
- **Bodies of tools, the cron parser, message conversion**: outcomes of a call.
- **The gateway's web proxy and server set-up**: one request at a time, without state.

Of what is modelled, these parts are left out, and each is a limit of what the
checks show: the auth store's optional JSON file, which is rewritten in place
(`auth/store.ts:127`), user records, codes and passwords; the partial scopes of
MEMORY_CLEAR and the selection of memories for a prompt; intervals of reminders
that change while they run; an append that was staged on a file others have changed
since (`store.ts:48`: the approved plan shows the body it will write);
a login while the keychain is still being read at the start (`main.ts:398`: the
panel offers it only afterwards).

## What is left

The types of `Reminders` (its queue must be shown finite); and that a
pipeline with deaths and late decisions still implements a weaker lifecycle, in which
exactly those two transitions are added.
