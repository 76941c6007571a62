# Quartet: TLA+ models and proofs

Quartet is a Go server that drives coding agents. A *job* is a conversation with
an agent; web, iOS and IM clients submit messages to it, the server runs the agent
on one message at a time and streams the agent's events back over SSE. A job may
also be driven by a workflow *graph* and be started by a *schedule*. Everything is
persisted as JSON files; there is one server process.

This directory models the parts of the server whose correctness depends on the
order of steps: goroutines that share a lock, callbacks, saves that fail, and a
process that may die between any two of them.

Paths below are relative to the repository's root.

## Inventory

| component | state | operations | interacts with | correct when |
|---|---|---|---|---|
| Job record (`types/model/job.go`) | status, queue of client messages, receipts, pause reason, active message, tombstone | the mutations of `services/job`, each under `s.mu` | persisted as `job.json` | queue and receipts agree, receipts only move forward |
| Message queue (`services/job/message_queue.go`, `cmd/web/handler/job_message_queue.go`) | `messageQueueDispatching[id]` | submit, delete, continue, pause for stop, dispatch, block, complete, recover at startup | run lifecycle, repository, web handlers | an accepted message runs once, in order, or was deleted |
| Run lifecycle (`executor_run.go`, `executor_state.go`, `executor_run_resources.go`, `executor_stop.go`, `executor_persist.go`, `executor_store.go`) | `cancels`, `dones`, persist shards, the run goroutine | `SendMessage`, `runInteractive`, `finishJob`/`failJob`/`stopJob`, `Stop`, `StopAndWait`, `load` | queue, event buffer, agent | a job is running exactly while somebody will end it |
| Job deletion (`executor_crud.go`, `executor_mutators.go`) | `Deleted` flag, the job's directory | `MarkDeleted`, `StopAndWait`, `Delete`, sweep at startup | run lifecycle | a deleted job stays deleted |
| Event buffer (`event_buffer*.go`, `executor_pubsub.go`) | a window of numbered events, rounds, readers with cursors, GC timers | publish, collect, snapshot, subscribe, read, ack, evict, close | run goroutine publishes, SSE handler reads | a connected reader misses nothing |
| SSE handler (`cmd/web/handler/job_lifecycle.go`) | one connection per client | `JobEvents`, `JobStop`, `JobDelete` | event buffer, queue | the stream has no hole |
| Round builder and history (`services/agent/round`, `services/agent/chatctx`, `repository/chat_context.go`) | the current round, rounds built and not saved, `messages.jsonl` | assembles agent output, stitches late tool results, flushes, cuts orphans | ACP agent, job run | every call has its result, once, after it |
| ACP agents, session cache, subprocesses (`services/agent/acp`, `services/agent/internal/sessioncache`, `pkg/acp`) | leases, boxed and detached agents, in-flight constructions, live subprocesses | lease, build, rebuild, evict, delete, run, reap, maintain, shut down | job runs, graph nodes, settings | nothing leased is closed, nothing unleased is kept |
| Agent execution gate, custom agents (`agent_execution_gate.go`, `agent_custom.go`, `agent_run.go`) | executions and settings writers per agent, reservation, lifecycle in the catalog | begin, write, reserve, edit, delete with scans and cleanup, restore | jobs, graph runs, sessions | a cleanup runs alone |
| Graph run lifecycle (`services/graph/run_control.go`, `service.go`) | lifecycle locks, run handles, generations | start, stop, resume, continue, delete, orphan repair | graph scheduler, jobs | one scheduler per run, deletion ends and is final |
| Graph scheduler (`scheduler.go`, `control.go`, `runtime.go`, `loop.go`, `resume.go`) | instances, edges, ready queue, loops, stop requests | resolve, dispatch, finish, park, stop gracefully, resume | jobs, graph event buffer | joins wait, rounds in order, nothing twice or left behind |
| Graph validation (`validate.go`) | none | accepts or refuses a workflow | graph scheduler | what it accepts runs |
| Schedules (`services/schedule`, `repository/schedule.go`) | schedules, running counts, cron entries | trigger, record, mark done, toggle, update, delete, restart | jobs, graph runs | the count matches the runs |
| WeChat outbox (`services/wechatoutbox`) | persisted task list | send chunks, retry | IM | chunks arrive in order |
| Job fields and listing (`executor_mutators.go`, `executor_crud.go`, `handler/job.go`) | live jobs, list version, page cursors | rename, pin, share, withdraw, attach, report, tombstone; list by version, list by page | job repository, clients | concurrent changes are all kept, a given link opens, a page skips nobody |
| Node runs (`services/graph/runtime.go`, `retry.go`) | a node's instance, its session, its attempts | prepare, bind, prompt, retry, record, note, continue | scheduler, agents, usage | the prompt is heard, each turn is counted, the binding is kept |
| Graph event stream (`services/graph/event_buffer.go`, `handler/graph.go`) | a window of numbered events per run, `events.jsonl` | publish, subscribe, replay, evict, drop when idle, resume | graph runs, the web client | a reader misses nothing and does not wait in vain |
| Graph workflow library (`services/graph/service.go`, `repository/graph_workflow.go`) | workflow files and their versions, launch requests | create, update by version, delete, migrate, launch once | graph runs | an update builds on what its author saw; a repeated launch starts one run |
| IM gateway (`handler/im_gateway.go`, `services/im`) | per chat a dispatcher, its owner, the mapping to a job; per job a queue | deliver, dispatch, bind, `/new`, reply | jobs, chat services | a chat's messages are executed in order, none is left without an answer or answered twice |
| Usage statistics (`services/usagestats`) | cached months, dirty marks, a pending flush | record, flush, evict, query, migrate | every run | no turn is lost or counted twice |
| Agent probe cache (`services/agent/probe`) | models and levels of a probed session, its validation | probe, mirror, select, edit, wipe | agents, settings | an agent is offered for its own environment |
| ACP session (`services/agent/acp/agent.go`) | the session of a subprocess, cached options, usage totals | open, restore, switch, prompt, stop, count | job runs, settings | prompted with the options on record, usage counted once |
| Eino CLI (`einocli`) | history file, summary, the prompt at work | prompt, answer, compact, cancel, reload | ACP client | history paired, summary exact, a prompt can be cancelled |
| Accounts, roles and login sessions (`services/auth`) | users, roles, sessions in memory and in files | set up, log in and out, change users, roles and passwords | every handler | an administrator remains, who is revoked is out |
| Codex accounts (`services/codexaccounts`) | saved logins, the files Codex reads, a login under way | import, capture, sign in, activate, update, restore, delete, recover | the Codex CLI, which rotates credentials | the newest credentials are kept, what is applied is what Codex reads |
| WeChat listener and replier (`pkg/messaging/wechat`) | sync buffer, batches, tokens by user, the primary bot | poll, hand on, reply, scan, log out, restart | the IM gateway | a listener hands each message on once, a reply has its bot's token |
| Workspaces and presets (`services/workspace`, `services/messagepreset`) | workspaces with versions, preset files | create, patch, reorder, color, delete, clear an agent, save, rebind | jobs, custom agents | a version stands for a content, a deletion takes the jobs and not the presets |
| Job observation journal (`services/job/observation.go`) | a bounded journal, fingerprints, an epoch | record, poll, reset | every change of a job, clients | who follows it knows each job's state and is told of each change once |
| Agent catalog, configuration, skills, prompts, restart, clients | | | | see *Not modelled* |

What is hard here:

* **Lock gaps.** `s.mu` guards memory, a persist shard serialises the saves of a
  job, and neither is held from a check to the act on it. A dispatcher copies the
  head of the queue, prepares a session for seconds and then sends the copy. The
  graph service reads run files outside of the lifecycle lock; a round is persisted
  and shown after the builder's lock was released.
* **Failing saves.** An operation changes memory, saves, and on failure either
  rolls back or, for terminal states, keeps the change. Others see the change in
  between.
* **Crashes** between any two saves, and a repair at startup that must tell what
  ran from what did not.
* **Wake-ups.** A dispatch flag, a running status and a `dones` channel each
  suppress a wake-up; whoever clears one must look again.
* **Two ways in.** The IM gateway calls `SendMessage` directly, past the queue; a graph
  run is stopped through the run, through its job and through the deletion of either.
* **Resumption.** A resume rebuilds the scheduler's edges, counters, frontier and loops
  from the statuses of instances alone.
* **Bounded buffers.** The event buffer drops events, rounds and readers at its hard
  cap; sequence numbers are used in one critical section after being read in another.
* **Reference counts.** An agent is closed by whoever sees it detached without a lease; that
  look and the decrement before it are two atomic operations.

`PROJECT.json` lists these hazards at their lines with the properties that cover them.

## Modules

```
MessageService <~ JobPromise --> JobQueue --> JobRecord        EventBuffer <-- MCEventBuffer
                     ^
                 MCJobQueue
                 JobQueueProofs                                EventBuffer <-- EventBufferProofs

GraphRun <-- MCGraphRun        GraphValidate <-- GraphScheduler <-- MCGraphScheduler <-- MCGraphValidate
GraphRun <-- GraphRunProofs

WechatOutbox <-- ServiceProofs --> Schedule, Accounts (INSTANCE)
NodeRun <-- GraphPartsProofs --> GraphEvents, GraphLibrary (INSTANCE)
RoundBuilder <-- RoundBuilderProofs
AgentCache <-- AgentProofs --> AgentProbe, AgentGate (INSTANCE)
RoundBuilderProofs, AgentProofs, ServiceProofs, GraphPartsProofs, UsageStats, ImGateway,
EinoRun, AcpSession, JobFields, JobPaging, CodexAccounts, WechatListener, Workspaces, JobFeed
                                                <-- MCServices (INSTANCE) <-- MCServicesProofs
```

An arrow points to the module that is extended; `<~` is a refinement.

### JobRecord

The fields of `model.Job` that the queue and the run lifecycle own, and one operator
per critical section that changes them: `Submitted`, `Started`, `Terminated`, `Deleted`,
`Blocked`, `Resumed`, `Stopped`, `Reconciled`, `WithoutItem`, `WithoutInterrupted`. Guards
(`MaySubmit`, `MayStart`, `MayDelete`, `Dispatchable`) are the conditions under which the
code does not return early. Payloads, titles, hashes, timestamps, error texts and the
queue version are left out. `Waits` and `Coherent` are specification vocabulary: what it means
that a message is in the queue, and that queue and receipts agree.

### JobQueue

One job, its goroutines and its file. State and code:

| variable | code |
|---|---|
| `mem`, `disk` | the `*model.Job` in `s.jobs`, and `job.json` |
| `lock` | the holder of the job's persist shard |
| `saved` | what a holder would roll back to |
| `prior` | the status `SendMessage` remembers to restore when its save fails |
| `run`, `cancels`, `dones` | run goroutines (slots), the registered cancel function, the registered done channel |
| `dispatching`, `disp`, `kicks` | `messageQueueDispatching`, dispatcher goroutines (slots), pending `go requestMessageQueueDispatch` calls |
| `stopper`, `deleter` | the progress of `JobStop` and of the deletion handler |
| `boot` | up, or which step of the startup is next |
| `acked`, `dropped`, `execs`, `barrier` | history: submissions and deletions answered with success, agent starts per message, "stopped by the user and not continued" |

An operation that saves is two actions: the first takes the shard and changes memory
(`Submit`, `DispSend`, `RunTerm`, ...), the second (`...Saved`) is the save, which succeeds
(`Commit`), fails and rolls back (`Rollback`) or fails and keeps (`KeepUnsaved`). Between the two,
actions that only need `s.mu` (`DispCheck`, `DispRecheck`, `MarkDeleted`, `Ready`) see the unsaved
state, as in the code. The deferred calls of the run goroutine are steps in the order in which Go runs them:
`RunBody`, `RunExit`, `RunTerm`, `RunClear`, `RunComplete`, `RunClearPause`, `RunFinish`, `RunRecheck`.
A dispatcher is `DispCheck`, `DispDones`, `DispPrepare`, `DispSend` or `DispRefused`/`DispBlock`, `DispFinish`, `DispRecheck`.
Two pairs of steps are one action each. `RunClear` clears the cancel function (`executor_state.go:57`) and then the done channel
(`executor_run_resources.go:78`): a stop in between finds nothing to cancel and waits for a channel that is about to be closed.
`DispBlockSaved` saves the block and then releases the dispatch flag (`message_queue.go:538`): a request to dispatch in between is
dropped, and `DispRecheck`, which always follows, makes up for it.
`Crash` drops everything but `disk`; `Load` reconciles; `SetMessageQueueDispatcher` repairs the queue
and dispatches.

The constants `Faults` and `UserOps` say which saves may fail and which user operations occur in a run,
so that each run can spend its states on one question. The proofs hold for every choice of them.

### EventBuffer

One `jobEventBuffer`, the run that publishes into it and the SSE connections that read from it.
`buf` is the struct; an event is its sequence number, its class (A: content of a round, B: state),
its round and its `released` mark. `Collect(b)` is `gcLocked`: `Marked` is the first pass,
`Relieved` the relief at the hard cap (forced eviction of events everybody has crossed, or of a stuck reader: a set,
because the slowest reader is picked in map order), `Cut` the removal of the released prefix with the rounds it ends.
`phase` is where the run is between its start and its terminal event. A connection goes
`off` → (`retry` → `resub`) → `live` → `write` → `ack` → `live` ... → `closing` → `off`; `last` is what the client
remembers, `fresh` a sequence taken by `SnapshotSeq`, `at` the publication count then, `batch` what `Read` returned and is
not yet acknowledged. `Stitched` publishes a tool result after its round (`Late`); `passed`, history, has the clients
that were connected while the hard cap forced a late event out (`Forced`).

The two timers (GC suspension and the grace period after the last reader) may expire at any time they are set.

### MessageService, JobPromise

`MessageService` is what a client may rely on: one line, served from its head, each message once. `JobPromise` maps
`JobQueue` to it: the line is the queue in `job.json` behind the items that are claimed, acceptance is the answer to
the client, service is the start of the agent. `ImplementsMessageService` says that every step of `JobQueue` is one abstract step or none. The one
thing the abstract service grants beyond that is `ServeRefused`: a submission that was answered with an error may have been served
(`message_queue.go:487` picks an item whose save is still running).

### GraphRun

One run of a workflow and the job it is bound to. The `runLifecycle` record is `lc` (`handle` names the scheduler generation that owns the run, 0 is nil),
`run.json` and `instances.json` are `run` and `insts`, `located` is the repository's map of locations. A request is a program counter in `call`; what the code does
under `lifecycle.mu` is one action, a read without the lock is one of its own, so a request may act on a status that is no longer true, where the code may. A generation goes
`prepared → launched → live → settled → done`; its inside is reduced to what the lifecycle shows. Operations: `start`, `stop`, step and session stop, `cancel`, `resume`, `continue`, `delete`
of the run, `jobDelete` (the handler that marks the job, joins whatever generation there is, and deletes), the job timeout, a crash at any step and the repair at startup.
The control signal that edits the version of a live run is left out here: it is an action of `GraphScheduler`. A restoration after a failed resume may itself fail on the
instances or on the status; that takes two failing writes, one more than the run `graph_run` allows, and is covered by the proofs, which hold for any number.

### GraphValidate, GraphScheduler

`GraphValidate!Valid(w)` is the save-time check as an operator on a workflow record: structure, reachability, loops, session reuse, output conflicts and the routing of conditions.
`GraphScheduler` extends it and runs a valid graph. The scheduler is one goroutine whose calls are deeply recursive (`resolveEdge` decides a node, which starts a loop, which resolves edges);
`todo` is the stack of what the calls in progress still have to do, one action is one call, and a failure empties the stack as the error returns through all frames.
State: `inst`, `edge`, `rem` (`inRemaining`), `ready`, `busy`, `loop` (scopes), `stop` and `batch` (the frozen batch of a step stop), `flags`, and what survives for a resume (`snap`, `carried`, `hookFired`).
Values of variables do not decide what runs except through conditions, and a condition has any outcome.

A run's graph may be edited into another version, from the pairs in `Editions`. `EditRunning` is the edit of a live run, which the goroutine itself applies between two calls; the edit of a run at rest is read and prepared (`PrepareEdit`, into `draft`) and then committed
(`CommitEdit`), if the run is still at rest and has the same version. `MayEdit` is `validateVersionEdit` (what has begun stays as it was), `NewVersion` carries the states of nodes, edges and loops over. With `EditAlone` no resume comes between the two (see *Disagreements* for what happens otherwise).

### Schedule

Two files per schedule (definition and state), the running count `slots`, and per run three goroutines: the trigger, `RecordTrigger` and `MarkDone`. `mark`'s and the record's read-change-save runs under the task lock, the
users' requests do not take it; each save merges with the file under the repository's lock as `repository/schedule.go` does.

### AgentGate

One custom agent: its lifecycle in the catalog (`agLife`), what settings, workspace defaults and probe cache hold for it (`agOwned`), the gate (`agClosed`), the reservation, its users (chat turns, graph runs,
edits of a run's version, settings writers) and managers (delete, restore, update), each with a program counter. A deletion closes the gate, scans the jobs, stops them, drains the gate, scans again and cleans up kind by kind.

### RoundBuilder

`bld` is the builder, `disk` is `messages.jsonl` as a sequence of rows, `live` what the handlers of each run were told. The dispatcher of session updates, the run with its deferred close-out, `StopAndFlush` and the process (which dies in an append) interleave
at the builder's mutex, the file operations and the batches of calls on the UI handler. An append may be torn; `BeginRun` cuts the orphan round that a crash left.

What the environment is taken to do: `end_turn` comes after the updates of its turn; a stopped job starts no run before its stop has returned; `StopAndFlush` gives up on a run only while the run waits for the prompt or is closing; consecutive message and thought chunks are one update; after a crash the pages reload the history from disk.
Updates are also taken between the collection of a run's last round and the removal of the handler (`agent.go:959`), which only a run that failed or was cancelled meets, since no update follows an `end_turn`. Text that comes there and late results do no harm. A *stray* call does: one declared there, or declared again once its
round was flushed and no late result is awaited. `rbSeen.stray` records the first of them, and what the properties say of the disk ends there (see *Disagreements*).

### AgentCache

The map with its boxed agents, the flight of each session (a shared construction), the callers that lease and run, deletions, the reaper, maintenance of a runtime and the shutdown. `agents[a].cached` is the map, `refs` the leases, `closed` the outcome of `Close`;
`conns[n]` is a subprocess (alive, marked for maintenance, on the reaper's list). Which agent a full cache evicts is left open (any without a lease; the code takes the least recently used). The reaper takes only subprocesses that nobody is opening (they are half an hour idle). The probes of `pkg/acp` and the branch "someone won the race" of the construction, which the
flight excludes, are left out.

### WechatOutbox

`tasks` is the saved list in the order of creation; `worker` takes the oldest that is not sent, marks it, sends the next chunk and saves; `resting` is the in-memory pause between chunks. A send that failed may have been delivered. A save that fails makes the worker loop at once.


### UsageStats

`months` and `order` are the cache, `dirty` the marks with `flushPending` and the goroutines that sleep out the second, `flush` what the holder of `flushMu` still has to write, `rec` the holder of `recordMu` (a `Record`, or the migration of model ids), `reader` a query between its two
critical sections. A month's file is the set of its turns, their number, and the turns under the old model id. Any read or write may fail, and the process may crash.

### ImGateway

One chat. `disp` holds its dispatchers, one after the other, with `pending`, `running`, `retired` and the place of their loop; `owner` is `chatDispatches[key]`; `entering` is the goroutine that brings a delivery, between its lookup under `chatMu` and its `enqueue` under the dispatcher's
own lock. `mapping` is the chat's file, read by `Resolve` and written by `Bind` (and by `/new`, which runs beside them); `queues` and `procs` are `jobQueues` and the goroutines of `processJobQueue`. A job's run is its answer, its status and its last event, in this order, as in `JobQueue`.
A delivery may repeat a message; a dispatcher or a processor may panic; the save of a mapping and the preparation of a message may fail.


### NodeRun

One node of a graph run, one execution after the other. `work` is the worker: it opens the node's session (carried over, inherited or new, bound to the agent of the version the execution began with), records the prompt, and makes its attempts;
a transient error or a rate limit is retried in that order and never back. `sess` holds the transcripts: `CutOff` is what `BeginRun` cuts from one that ends in a call without a result. `usage` is the recorded turns, `past` what a reset instance leaves to its next execution.

### GraphEvents

The event stream of one run: `evb` and `log` are the buffer in memory (its window, its readers' cursors, its two timers), `lines` is `events.jsonl`, `hook` a hook that publishes beside the scheduler. A client is served from the buffer, or, when that is gone, from the file, and
remembers the number of its last event and (history) which life of the buffer gave it.

### GraphLibrary

One workflow and one client message id. An update, a deletion and the migration of agent references each compare `UpdatedAt` with the copy they read; `StartGraphRun` holds the launch lock of its message id from its look at the job to the bound run, and takes the job back when it fails.

### JobFields, JobPaging

`JobFields` is one job under its targeted mutators. Each holds the persist shard from its snapshot (`op[w].cp`) to its mirror in memory; a share, its withdrawal and a failure show in memory before they are saved, and a failed save takes a share back. Lists read
the version first and the summaries after it. `JobPaging` is the paged list: `Order` is the sorted list of the moment, `StartOf` where a cursor resumes in it.

### EinoRun

One session of the Eino CLI: `disk` is `messages.jsonl` as a sequence of rows, `summary` stands for a prefix of it, a prompt goes through `runtimeFor`, the runtime's semaphore, the load of its history, answers, tool calls and compactions, and the flush of each round. `SessionCancel` reaches the prompt through `promptCancel`.

### AcpSession

The session of one subprocess with the options `model`, `mode` and `thought`: `proc` is what the subprocess has, `agent` what `ACPAgent` caches of it, `store` the session's record, `sw` a live switch beside the run, `stops` the cancel notifications on their way. A cold start keeps or loses the
subprocess's total (`Colds`), from which the usage of a turn is a difference.

### AgentProbe

The probe cache of one agent: `sess` its session's models, mode and thought levels, `valid` its validation with the version of the environment it is for, `flight` the probes under way (callers that prefer the same model share one), `who` each caller between its lock sections, `file` the snapshot on disk. `LevelOf` and `Over` are the map of thought levels by model.

### Accounts

`mem` is the service under its mutex, `disk` its five files: an operation that saves writes its files in the code's order, and each may fail. A client has the cookie of a session; a request is authenticated in one step and acts in another.

### CodexAccounts

The store of saved logins and the two files Codex reads (`auth.json`, `config.toml`), which Codex itself rewrites: a rotation makes a new generation of a session's credentials. `svc` is the lock of the service, a client's operation looks, writes the live files and then the store, `attempt` is a login
on a device with its deadline. Any of the writes may fail, an operation that was under way at a crash is recovered from its record.

### WechatListener

Two bots, of which the first file is the one that is listened to. `server` is what the bot's server holds and sends in batches, `lis` the listeners with their sync buffer, the rest of a batch and a goroutine per sender, `rep` the replier with its token cache, `web` a login that scans a code and a logout. Two behaviours show up as exceptions in its properties. A batch whose sync buffer
was saved is left at a restart of the listener when `Run` selects `ctx.Done` over its semaphore: its other senders' messages are not handled (`lost`). And a message of the former account can switch the token cache back to it, between `ensureUserTokenBot`
and `storeUserToken`, although the comment at `replier.go:219` says it is ignored.

### Workspaces

Workspaces, each with its file, its entry in memory and its lock (`holds`), the jobs that are created in them, an agent that may be their default, and the preset files that outlive them. A deletion marks, deletes the jobs, removes the directory, and takes the mark back when that fails. Two outcomes are left out of
its properties: a workspace that was marked while a deleted agent's defaults were cleared and then came back keeps that agent (`back`), and a job that had resolved the workspace before the mark is created after its jobs were deleted (`late`). A deletion that fails among the jobs leaves the workspace marked and out of reach
until the next start.

### JobFeed

The journal of what happens to all jobs. Each change joins it under the job's persistence lock (`op`), after memory and disk in the order of that operation; a poll takes the active jobs and the cursor in one critical section. `odd` holds the jobs whose start or end could not be saved:
a start that was taken back may have been seen, and the end of a graph run joins the journal although memory goes on saying running.
## Runs

`CHECK_DEADLOCK FALSE` everywhere: the systems rest when all messages, events or requests are used up and no user acts, and they may.
States are distinct states.

| run | bounds | states | properties |
|---|---|---|---|
| `queue_faults` | 2 queued messages, 2 dispatcher and 2 run slots; every save but those of continue, pause and clear-pause may fail; delete, continue; crashes | 448,556 | `TypeOK`, `AtMostOnce`, `DeletedNeverRuns`, `NoLostMessage`, `QueueMatchesReceipts`, `ImplementsMessageService` |
| `queue_direct` | 1 queued and 1 direct message; failing saves of delete, continue, pause, terminal, complete, clear-pause, load and recover; crashes; delete, continue, stop, deletion of the job | 639,000 | `RunningHasRun`, `TombstoneFinal`, `ReceiptsMoveForward`, `StopBarrier` |
| `queue_liveness` | 2 queued messages, 1 dispatcher, failing submissions, starts, terminal saves and preparations, no failing deletion or completion, no crash | 11,696 | `AcceptedEventuallyRuns` |
| `buffer_gc` | 2 clients, hard cap 3, replay limit 2, 5 events | 4,484,649 | `LiveReaderNotOvertaken`, `StreamComplete` |
| `buffer_delivery` | 1 client, hard cap 4, replay limit 3, slack 1, 6 events | 273,148 | `SlackSuffices`, `EventDelivered` |
| `graph_run` | 2 requests of any kind, 1 instance, 2 generations, 1 crash, 1 failing write, control channel of 1 | 631,507 | `OneOwner`, `CleanupFenced`, `SucceededKept`, `JobDeletionEnds` |
| `graph_scheduler` | 11 workflows (a join, conditions, discussions at the end and in the middle, a loop, a nested loop, sessions continued across rounds and by a discussion, ...), edits of a loop's count and of a node that has not begun, 2 workers, 2 failures, 2 stops, 2 resumes (1 of the widest workflow), 1 early end; and 1,533 accepted graphs of 4 business nodes in which an agent continues a session, without faults | 184,803 | `JoinWaits`, `OneExecution`, `RoundsInOrder`, `NothingLeftBehind`, `DecidedIsFinal`, `ResumeKeepsRound`, `Settles`; `NoSharedTurn`, `InheritHasSession`, `NoParallelWriters` |
| `services` | one component at a time, see below | 2,806,660 | 11 properties, see below |

`services` holds components that share no state, one per behaviour (`focus`):

| component | bounds | states | property of the run: its parts |
|---|---|---|---|
| `Schedule` | 2 runs, limit 1 or 2 | 276,808 | `SchedulesKept`: `SlotsMatchRuns`, `ResultsAndTogglesMerge` |
| `AgentGate` | 1 user, 2 managers, 1 restart (2 users alone: 431,029) | 59,314 | `CleanupExclusive`: `CleanupExclusive`, `GateFollowsLifecycle` |
| `RoundBuilder` | 2 runs, 2 tools, 3 updates if the third is in the first run, 1 fault, 1 stop (3 updates in any run alone: 1,652,329) | 644,554 | `HistoryKept`: `HistoryPaired`, `PromptsKept`, `SuccessIsSettled` |
| `AgentCache` | 2 callers, 2 sessions, 2 runtimes, capacity 1, 2 agents, 2 subprocesses, 2 leases, 1 fault, 1 event | 258,000 | `ClosedUnleased`; `AgentsKept`: `NothingLeaks`, `UseUndisturbed` |
| `WechatOutbox` | 2 recipients, 2 chunks, 3 requests, 2 faults | 7,401 | `DeliveredInOrder` |
| `UsageStats` | 2 months, 1 cached, 3 turns, 2 records, 1 query, 1 fault (3 records alone: 224,235) | 49,553 | `RecordsKept`: `CountsKept`, `DirtyIsTended`, `MigrationSticks` |
| `JobFields` | 2 writers, 3 changes, 1 fault | 81,724 | `RecordsKept`: `JobFieldsKept` |
| `JobPaging` | 3 jobs, any of them pinned, pages of 1 or 2, 2 changes (4 jobs alone: 41,682) | 9,127 | `RecordsKept`: `NobodySkipped` |
| `ImGateway` | 5 chats of 2 or 3 messages, 2 workers, queue of 1 | 99,572 | `ChatKept` |
| `NodeRun` | 4 kinds of node, 2 runs, 2 attempts, 1 fault (3 attempts alone: 256,108) | 67,624 | `GraphKept`: `NodeKept` |
| `GraphEvents` | 1 client, hard cap 2, gap limit 2, batch 2, 3 events, 1 resume, 1 fault | 120,591 | `GraphKept`: `GraphEventsKept` |
| `GraphLibrary` | 2 clients, 2 payloads, 3 versions, 2 launches, 1 fault | 43,152 | `GraphKept`: `GraphLibraryKept` |
| `EinoRun` | 2 prompts, 2 answers, 2 compactions, 1 event | 333,369 | `SessionsKept`: `EinoKept` |
| `AcpSession` | 2 runs, 1 switch, 1 fault, a total that is kept or starts at zero | 108,804 | `SessionsKept`: `AcpSessionKept` |
| `Accounts` | 2 clients, 2 users, 1 custom role, 2 changes, 2 sessions, 1 fault (3 sessions alone: 87,030) | 26,735 | `AccountsKept` |
| `CodexAccounts` | 3 logins of 2 identities, 2 generations, 4 starts, 1 fault | 104,282 | `RecordsKept`: `CodexKept` |
| `WechatListener` | 2 bots, 2 listeners, 2 users, 3 messages, 4 cases | 78,986 | `ChatKept`: `ListenerKept` |
| `Workspaces` | 2 clients, 2 workspaces, 8 cases of up to 4 requests and 2 faults | 171,435 | `RecordsKept`: `WorkspacesKept` |
| `JobFeed` | 2 jobs, one of them a graph's, 1 client, a journal of 2, pages of 1, 3 changes, 1 fault | 20,546 | `RecordsKept`: `JobFeedKept` |
| `AgentProbe` | 2 callers, 2 models, 2 probes, 2 events | 244,595 | `AgentsKept`: `ProbeKept` |

States are those of the component checked alone; "alone" in a row of the table is a larger instance, checked by itself with no violation. `DeliveredInOrder`, and `ChatKept` and `AccountsKept` of `ImGateway` and `Accounts`, are the component's own invariants.

`ChatKept` says that a message which was handled is answered, in hand or dropped by a panic, that none is answered twice, and that none gets another run's answer as long as the web interface does not use the job. It does not say that the answer tells of the message's own run: `ReplyIsOwn`, which does, fails (*Disagreements*).
`ListenerKept` says that a bot's positions skip no message but those lost with a listener or a process that had them in hand, and that one listener hands a message on once; the listener after it may hand a replayed one on again, which the receipts of the job then absorb.


Why the bounds are enough to be interesting. Two messages give a head and a successor, two dispatcher slots the
double dispatch, two run slots an ending run and its successor; one queued and one direct message give both ways in. Five events over a hard
cap of three overflow the buffer twice; in `buffer_delivery` a round grows past the replay limit, so that `SnapshotSeq` clamps, and two publications may come between it and `Subscribe`.
Slots are reused, so the number of runs and dispatches is not bounded by them; they bound how many are alive at once, and `MaxKicks` bounds
the handlers that are at once about to request a dispatch. `Limit` (`messageQueueLimit`, 100 in the code) is 2: the queue fills, but with two messages no
submission is refused for it. The proofs hold for every limit. Two requests and two generations give every race of `GraphRun` (a stop against a resume, a deletion against a start, a repair against a late scheduler);
a crash and a failing write fall at every step. The eleven workflows of `graph_scheduler` with faults each have one thing that a resume must rebuild: a half-resolved join, a pruned branch, a loop in its second round, a loop in a loop, a parked discussion. The accepted small graphs run without a fault: what they show is about paths.
Two resumes make a resume of a resumed run. In `services` two of everything is what a race needs, and three updates in the history (a call, the text that supersedes its round, the call again); `AgentCache` was also run alone with two events (2,089,850 states).

Three runs pass because of what they exclude.

* `queue_direct` has no fault that blocks an item. With a block, `StopBarrier` fails (`queue_stop_lifted`).
* `queue_liveness` has no failing completion and no failing deletion. If the save fails that removes a completed item, the item stays `processing` and nothing behind it is dispatched until a restart
  (`message_queue.go:583`; `docs/feature/feature-2026-08-23-server-message-queue.md` promises otherwise). With `"delete"` in `Faults` the property
  fails too: a dispatcher that looks while a deletion is being saved finds nothing and leaves, the save fails, the item comes back, and nobody dispatches it
  before the next submission, run or restart.

* `graph_scheduler` has no workflow whose round leads, before another branch, to a loop of no rounds. On that one (`NoRoundFirst`) `RoundsInOrder` fails without any fault (run `graph_round_lost`), and so do `OneExecution`, `NothingLeftBehind` and, with a
  resume, `DecidedIsFinal`: the four properties are claims about the other workflows. The scheduler's memory and its files are one in this model, so no crash happens in it: the reset of a whole loop, which only a crash brings about, is modelled and not reached.
* The same run edits a run at rest only while nobody resumes it (`EditAlone`), and has no edit that adds or removes an edge behind a decided node; both are in *Disagreements*.

### Fairness

`JobQueue!Fairness`. A goroutine that can take a step takes it (weak fairness on the saves of handlers, on pending kicks, on the stop handler
and on the startup). Runs and dispatchers have strong fairness: they wait for the persist shard, which `sync.Mutex` grants to a waiter that
keeps waiting (its starvation mode), and they loop over a failing save, which is assumed to succeed sometime. Users, crashes and faults have none, and neither does
the deletion handler.

`EventBuffer!FairSpec`: weak fairness on a connection's own steps, which are those of one handler goroutine. Publications, reconnections, disconnections
and timers have none.

`GraphRun`: weak fairness on each request's steps and on the steps a scheduler generation takes by itself (to settle once it is stopped, to complete). Nodes, users, crashes and the timeout have none: a deletion ends although no node does, because it stops them.

`GraphScheduler`: weak fairness on the goroutine's steps, and on some result of a node at work: a node ends sometime, in success, failure or cancellation. Nothing says which, and controls have none.

`MCServices` checks safety only.

### Disagreements with the documentation

Each of these runs checks one statement of a document or comment and TLC finds what the code does instead.
`PROJECT.json` quotes the statement and the line.

| run | what happens |
|---|---|
| `queue_stop_lifted` | stop; a late block overwrites the pause reason; deleting the blocked item lifts the pause; the next message starts without a continue |
| `graph_orphan` | the repair of a run whose scheduler a crash took builds the interrupted instances in a variable of an inner scope and saves the empty outer one: the work done is lost (`run_control.go:226`) |
| `graph_session_collision` | session reuse is compared within a scope only: an agent in a loop and one beside the loop, both continuing the same session, are accepted and work in it at the same time (`validate.go:853`) |
| `graph_round_lost` | a round fans out into a loop of no rounds and a node: the loop is over inside `startIteration`, before the second edge is resolved, the round is taken for finished and the next one starts; the node of the first round is never decided (`loop.go:134`) |

The models state further properties that the code does not have. They are defined beside the others and are not in a run; adding the name to the cfg (with the
instance given) shows the behaviour.

| property | instance | what happens |
|---|---|---|
| `EventBuffer!NoSilentGap` | `MCEventBuffer_gc.cfg` | a rejected `Last-Event-ID` is replaced by a fresh one and the stream continues with a gap (`job_lifecycle.go:390`) |
| `GraphRun!StartupRepairs` | `MCGraphRun.cfg` | after a restart a run stays in flight without a scheduler (`handler.go:471`, whose comment says the repair covers it) |
| `GraphRun!RestAgrees` | `MCGraphRun.cfg` | run and job come to rest in statuses that disagree after two stops race |
| `GraphScheduler!AlwaysReachesEnd`, `SurvivorsClosed` | workflow `ConditionFirst` | a resume re-evaluates a condition above a node that survived; the branch is lost and no end is reached (`resume.go:17`) |
| `GraphScheduler!EndHookFired` | workflow `DiscussionLast` | the hook of an end that was reached before a discussion is taken as fired by the resumed scheduler |
| `GraphScheduler!StopLoopHolds` | workflows with a loop | STOP_LOOP is not persisted: a resume starts the round that was called off (`scheduler.go:918`) |
| `GraphScheduler!SettledResumable` | workflow `NoRoundFirst` | the round of `graph_round_lost`: the outer loop is left running without a recorded round (`loop.go:99`) |
| `GraphScheduler!AlwaysReachesEnd` | workflows `Chain` with edition `BranchIn`, `LongWay` with `BranchOut` | an edit adds or removes a branch at a node that is decided: the edge that is new is never resolved, or the join keeps its old count, and the run stops short of an end (`scheduler.go:1051`; `docs/feature/feature-2026-06-17-workflow-graph-runloop.md:184` promises a recount) |
| `GraphScheduler!EditSeesTheRun`, `ResumeKeepsRound` | editions `Counts`, `EditAlone = FALSE` | the edit of a run at rest commits a `run.json` it read before a resume came and went, and takes back what that resume did (`version.go:96`, whose comment says that a resume in between is rejected) |
| `Schedule!StatusSettles` | `MCServices.cfg` | a run that ends before its trigger is recorded leaves the status "running" for ever (`scheduler.go:302`) |
| `Schedule!MaxConcurrentHolds` | `MCServices.cfg` | a resumed run holds no slot |
| `AgentGate!SnapshotHoldsLease` | `MCServices.cfg` | an edit gives a graph run a version that refers to an agent which is being deleted (`version.go:298`) |
| `AgentCache!LeasedStaysOpen` | `MCServices.cfg` | the last release looks at the detached flag after its decrement: a lease and a deletion in between, and it closes a leased agent (`cache.go:114`, "Leases" at 127-131) |
| `UsageStats!CacheForgets` | `MCServices.cfg` | a month that is being written is no longer dirty and may leave the cache: it comes back without what was added meanwhile, and after a failed write its file is replaced by an empty one (`usagestats/store.go:293`) |
| `ImGateway!ReplyIsOwn` | `MCServices.cfg` | a message is told that there is no answer, by the terminal event of the run before, or is given the answer of a web run (`im_gateway.go:899`, whose comment says that nothing is publishing there) |
| `ImGateway!NewTakesEffect` | `MCServices.cfg` | `/new` runs beside the dispatcher, whose `Bind` puts the old job back (`im_gateway.go:1108`) |
| `NodeRun!ContinueKnowsPrompt` | `MCServices.cfg` | a turn stopped before its prompt was written goes on with "继续" alone (`runtime.go:637`) |
| `EinoRun!SummaryExact`, `PromptAlwaysHeard` | `MCServices.cfg` | a summary made in the same run carries no mark and is counted as a message; a counted row whose append failed leaves the index too high (`einocli/middlewares/summarization.go:66`) |
| `EinoRun!OneRun` | `Race = TRUE` | the model changes between `runtimeFor` and the start of the run: two runs work on one session (`einocli/app/prompt.go:326`) |
| `AcpSession!CachesTrue` | `MCServices.cfg` | two pushes answer out of order: the cache says one option, the subprocess has the other (`acp/agent.go:1541`) |
| `AcpSession!StopIsOwn` | `MCServices.cfg` | a cancellation that was on its way reaches the next prompt (`acp/agent.go:699`) |
| `AcpSession!TailForgotten` | `MCServices.cfg` | a subprocess goes on with a tail that the history has lost (`acp/agent.go:826`) |
| `AcpSession!UsageNeverTwice` | 4 runs, `Colds = {"back"}` | a total that went back and recovers is counted twice (`acp/agent.go:1168`) |
| `Accounts!AlwaysRestartable` | `MCServices.cfg` | an initialization that failed half way leaves files that a start reads as in need of recovery (`auth/service.go:298`) |
| `Accounts!DeletedIsBare`, `DeletedIsFinal` | `MCServices.cfg` | a deleted user can be given roles and a password (`auth/service.go:681`, 736) |
| `AgentProbe!OfferedOnOwnProbe`, `NewerStays` | `MCServices.cfg` | a validation joins a probe that began before the edit, and an older one overwrites a newer (`probe.go:1030`, 325) |
| `AgentProbe!SelectionStays`, `MirrorAgrees`, `WipedStaysOut` | `MCServices.cfg` | a result on its way overwrites a selection, its mirror, or what was wiped (`probe.go:406`, 577) |
| `AgentProbe!RefusalsEarned` | `MCServices.cfg` | a caller is refused while a validation is under way (`agent_run.go:318`) |
| `GraphEvents!OneNumbering` | `MaxFaults = 2` | an id of the file is taken for a place in the buffer, and back (`handler/graph.go:452`, 606) |
| `GraphEvents!EvictedIsBehind` | `MCServices.cfg` | a reader that has read everything is evicted (`graph/event_buffer.go:290`, whose comment says the slowest) |
| `GraphEvents!IdleIsRight` | `MCServices.cfg` | a connection served from the file waits while a resumed run publishes (`handler/graph.go:597`) |
| `GraphLibrary!MigrationSticks` | `MCServices.cfg` | an update built on a copy from before the migration writes the old agent references back (`graph/service.go:537`) |
| `JobFields!EarlyTokenOpens` | `MCServices.cfg` | a second share answers with a token that is in memory only, and whose save then fails (`executor_mutators.go:458`) |
| `JobFields!ListOutlivesRestart` | `MCServices.cfg` | list versions start at zero with the process: an old ETag may match (`executor_store.go:195`) |
| `JobFields!ListedTokenIsReal` | `MCServices.cfg` | a list read while a share is saved shows its token; when the save fails the version does not move (`executor_mutators.go:516`) |
| `RoundBuilder!HistoryPaired` | without `rbSeen.stray` | a call that is declared between the collection of the last round and the removal of the handler (`agent.go:959`), or declared again after a `StopAndFlush` has closed it with a placeholder, is on disk twice: the round is flushed through `onFlush` and written again by the stop, or opens a second one. The second copy can hide a torn round from the cut of `BeginRun` |
| `RoundBuilder!ResultsStay` | 3 runs, 4 updates, 1 fault, no stop | one append of a run that is over fails half way after the next run's `BeginRun`: that run succeeds behind the orphan round, and the following `BeginRun` cuts its rows too (`chatctx/manager.go:310`, "a layout that normal flows never produce") |

Read from the code while modelling, and within reach of the models:

* Jobs. A direct message that starts between a failed run's `failJob` and its deferred status check (`executor_run.go:287`) is ended by it. A dispatcher picks an item whose submission is being saved; the save fails; the message
  runs although its sender was told it was not accepted (`message_queue.go:487`). `blockMessageQueueHead` deletes the dispatch flag (line 549) and the same goroutine's `finishMessageQueueDispatch` deletes it again (441), perhaps from under a
  dispatcher that claimed it in between: harmless, since the receipt check in `SendMessage` decides (`AtMostOnce`). A publisher that outlives its job's deletion recreates the job's buffer (`executor_pubsub.go:39`).
* A late tool result (`builder.go:1434`) is published after the end event of its round: an A-class event of no round, which the first pass of `gcLocked` never releases. What is released behind it stays in the buffer, released, and a
  client may subscribe below it; when the hard cap then forces the late event out, all of it is dropped at once, that client's next events included, and `Read` goes on behind the gap without a word. `passed` names the connections to which this
  can have happened; `LiveReaderNotOvertaken`, `StreamComplete` and `EventDelivered` hold for all others and fail without the exception.
* Graphs. `start → loop{inherit}` is accepted and fails when it runs (`runtime.go:651`). STOP_WORKFLOW's early success is lost by a stop in the same instant. A completed run may keep instances that are "running". `ResumeRun` of a run that is not awaiting input finalizes a parked discussion.
* Schedules. An update may race a deletion and write the definition back. A failing save of an end leaks its slot. `RecordTrigger` overwrites `NextRunAt`.
* Agents. A failing deletion leaves the agent "deleting" and after a restart its gate is open; a restore whose registration fails leaves the gate closed.
* Rounds. A run may report success while a superseded tool still awaits its terminal (`agent.go:1125`). `StopAndFlush` writes rounds a second time that `onFlush` has persisted when it meets a run that is closing (`agent.go:1353` says "this is a no-op"). Rounds of a cancelled run may be persisted after it returned. A late
  `cancel` may hit the next run's prompt (`agent.go:700`), and `StopAndFlush` does not cancel a run that waits for the semaphore (`agent.go:1337`).
* Cache. `DeleteWhere` does not reach an agent under construction, which is then cached with stale settings. `Release`-then-`Delete` may delete another caller's fresh agent (`acp/manager.go:121`). An agent closed for want of room leaves its subprocess to the idle reaper (`agent.go:1443`). Maintenance, which "never interrupts a constructor" (`maintenance.go:28`), may close a subprocess between the opening and the session's creation.
* IM. A panic of a job's processor drops the queued messages of other chats without an answer (`im_gateway.go:727`); a delivery repeated after the chat's binding came loose is executed again.
* ACP sessions. A live switch whose save fails is only logged (`acp_config.go:69`): the next cold start goes back to the recorded option.
* Outbox. A failing save of the mark "sending" makes the worker loop without a delay.

## Proofs

Eight modules hold theorems, which TLAPS checks for every value of the constants: every set of messages, dispatchers, runs, clients, requests, users, nodes, faults and
operations, every queue limit, buffer capacity and number of generations. Assumptions on constants are named beside them (`IdAssumption`, `LimitAssumption`, `FaultAssumption`,
`SlotAssumption`, `GraphRunAssumption`, ...) and beside the theorems, and say that numbers are numbers, that names differ, and of which kind inputs are: the fields of a node, the records in a file at the first start, the model an Agent prefers, a slack within the replay limit. None of them rules out a step of the code: where the code does
not keep a property in every behaviour, the property itself names the behaviours it excepts, by a history variable (`passed` of the event buffer, `rbSeen.stray` of the history). Finiteness is assumed once, of the callers of the cache, whose leases are counted.
`AgentProofs` holds the proofs about three components, the cache of Agents and, by `INSTANCE`, the cache of what their probes found and the gate that the executions of a custom Agent pass;
`ServiceProofs` those about the WeChat outbox and, by `INSTANCE`, the schedules and the accounts; `GraphPartsProofs` those about the execution of a node and, by `INSTANCE`, the event stream of a run and the library of workflows.

| theorem | statement |
|---|---|
| `TypeCorrect` | `Spec => []TypeOK` |
| `ExecutedAtMostOnce` | `Spec => []AtMostOnce` |
| `DeletedStaysDeleted` | `Spec => []DeletedNeverRuns` |
| `AcceptedIsDurable` | `Spec => []NoLostMessage` |
| `QueueAndReceiptsAgree` | `Spec => []QueueMatchesReceipts` |
| `DeletionIsFinal` | `Spec => TombstoneFinal` |
| `ReceiptsOnlyMoveForward` | `Spec => ReceiptsMoveForward` |
| `RunningIsTended` | `Spec => []RunningHasRun` |
| `MessageServiceImplemented` | `Spec => ImplementsMessageService` |
| `SlackIsEnough` (`EventBufferProofs`) | `Spec => []SlackSuffices` |
| `LiveReadersKeepUp` (`EventBufferProofs`) | `Spec => []LiveReaderNotOvertaken` |
| `StreamsAreComplete` (`EventBufferProofs`) | `Spec => []StreamComplete` |
| `OneScheduler` (`GraphRunProofs`) | `Spec => []OneOwner` |
| `CleanupIsFenced` (`GraphRunProofs`) | `Spec => []CleanupFenced` |
| `SuccessIsKept` (`GraphRunProofs`) | `Spec => SucceededKept` |
| `CleanupIsExclusive` (`AgentProofs`) | `"none"` is no manager's name implies `Spec => [](CleanupExclusive /\ GateFollowsLifecycle)` |
| `AccountsHold` (`ServiceProofs`) | 0 is no user's identifier and the files hold records at first imply `Spec => []AccountsKept` |
| `AccountsAreKept` (`MCServicesProofs`) | the same of `MCServices`, whose run checks it |
| `AgentsClosedUnleased` (`MCServicesProofs`) | finitely many callers, none of them the name of a session, implies `Spec => ClosedUnleased` |
| `AgentsAreKept` (`MCServicesProofs`) | under the same hypothesis `Spec => []AgentsKept`: `NothingLeaks` and `UseUndisturbed` of `AgentCache`, `ProbeKept` of `AgentProbe` |
| `AgentCleanupIsExclusive` (`MCServicesProofs`) | the same of `MCServices`, whose run checks it |
| `Delivered` (`ServiceProofs`) | a message has at least one chunk implies `Spec => []DeliveredInOrder` |
| `OutboxDeliversInOrder` (`MCServicesProofs`) | the same of `MCServices`, whose run checks it |
| `SlotsAndRecords` (`ServiceProofs`) | no run is called `"none"` implies `Spec => [](SlotsMatchRuns /\ ResultsAndTogglesMerge)` |
| `SchedulesAreKept` (`MCServicesProofs`) | the same of `MCServices`, whose run checks it |
| `HistoryHolds` (`RoundBuilderProofs`) | `MaxRuns` is a number implies `Spec => [](HistoryPaired /\ PromptsKept /\ SuccessIsSettled)` |
| `HistoryIsKept` (`MCServicesProofs`) | the same of `MCServices`, whose run checks it |
| `NodeHolds` (`GraphPartsProofs`) | `MaxRuns` is a number implies `Spec => []NodeKept`: `PromptHeard`, `TurnsCounted`, `SessionsListed`, `BindingKept` of `NodeRun` |
| `StreamHolds` (`GraphPartsProofs`) | a batch is a number implies `Spec => []GraphEventsKept` of `GraphEvents` |
| `LibraryHolds` (`GraphPartsProofs`) | no client is called `"none"` implies `Spec => []GraphLibraryKept` of `GraphLibrary` |
| `GraphIsKept` (`MCServicesProofs`) | `"none"` is none of the names implies `Spec => []GraphKept`: the three of them of `MCServices`, whose run checks it |

### The queue

The first five follow from `Inductive`: `Spec => []IInv`, with `IInv == TypeOK /\ ControlInv /\ DataInv`.

*Why the invariants are not inductive as they stand.* `AtMostOnce` rests on the receipt: a start requires that the message has no receipt
beyond queued. But the start writes the receipt into `mem` only, and a crash goes back to `disk`, a failed save back to `saved`. So the claim must be made of all
three copies of the record, and strengthened by who may differ from whom:

* `Good(j)`: a copy is coherent, a message that ran has a receipt that forbids another run (`Claimed`), a message that was dropped is marked deleted;
* `Kept(j)`, of `disk` and `saved`: an accepted message waits in the copy's queue, ran, or was dropped;
* `MemKept`: the same of `mem`, except for the message whose claim or deletion is being saved right now;
* `LockData`: what the unsaved change of the lock's holder is, so that committing it keeps `Kept(disk)` and rolling it back restores `mem`;
* `LockInv`, `BootInv`, `CarryInv`, `KickInv` (together `ControlInv`): the persist shard has one holder whose program counter says so, nothing runs
  during a startup, a dispatcher past its check and a starting run carry a message.

The execution counter is incremented when the start has been *saved* (`StartCommitted`), which is where the code launches the goroutine. That is
why a crash before the save may run the message later and a crash after it may not.

The proof goes by lemmas: `TypeStep`, `ControlStep` and `DataStep`, each with one case per action; what each mutation of the record preserves is a lemma of
`JobRecord`, stated once.

The other three add an invariant each, on top of `IInv`. Their step lemmas first name the few forms a step can take as far as the invariant is concerned
(nothing, a mutation, a save, a rollback, a kept change), prove that each form keeps it, and then show which form each action has.

* `LifeInv`: memory and the rollback copy never look more alive than disk. The fence in `saveJobWithRetryUnderPersistLock` looks at memory only, so this is what
  makes a tombstone final; the delicate case is the startup, where the tombstone is swept before anything may save.
* `ReceiptInv`: from `disk` to `saved` a receipt has not moved or has ended, from `saved` to `mem` it has moved at most one step. Memory may be ahead of disk twice over,
  because a terminal state whose save failed is kept and another operation then changes memory again; since a receipt that has ended does not move, the two never add up
  on one message.
* `RunningInv`: a running job has a run before its terminal transition; a rollback copy says running when memory does not only while a terminal transition is being
  saved, which keeps its change and never rolls back.

### The refinement

`MessageServiceImplemented` says that `JobQueue` implements `MessageService` under the mapping of `JobPromise`: the abstract line is what waits in
`job.json` behind the claimed items. Its invariant is `LineInv`, on top of `IInv` and `LifeInv`:

* in each of the three copies the claimed items come first (`ClaimedFirst`), so that the line is a suffix of the queue;
* the rollback copy has the line of the disk, so that a failed save withdraws nothing and adds nothing;
* `Unsaved`: what the holder of the persist shard has changed of the line and not saved. A submission has appended its message, a deletion has taken
  its own out, a start has taken the head (or a message that was never on the line), and every other holder has left the line as it was.

A save is then the abstract step that `Unsaved` names, and `UnseenStep` disposes of all the others: they are a stutter, or the deletion of the Job. What each
mutation does to a line is a lemma about sequences (`LineAppended`, `LineWithdrawn`, `LineCompleted`, `LineClaimed`, `LineBlocked`, `LineRecovered`). The
delicate step is the start of a message that is not on the line: it may come only from a submission that is still unanswered or was refused
(`FreshMessage`), which is what `ServeRefused` grants and no more.

### The event buffer

`StreamInv == BaseInv /\ Sound(buf) /\ PhaseInv /\ StreamComplete`. An event may be released long before it is dropped, and a reader that subscribes in between, below it, would lose it. `Sound` says when that can be: between two collections a held
event is released only if a late event that is not stands before it (`Blocked`), and what is released is closed downwards but for late events (`Down`). The latter holds because a closed round is an interval of the numbers (`RoundsOK`) and is released as a
whole (`ReleasableDown`). Within a collection (`Ripe`) what is released is behind a late event, or has been crossed by every reader, or the hard cap has just forced a late event out, and then every connected reader is in `passed`; so the prefix that
`Cut` drops has been crossed by all the others (`Ahead`). `StreamComplete` then is about the connection alone: what it has acknowledged and the batch it writes are consecutive. No assumption is made on when tool results come.

### The graph run

`Inv == Types /\ OneOwner /\ Owned /\ Down /\ Joining /\ Fenced /\ Work`. `OneOwner` alone is not inductive, since a request that has looked at the handle acts on what it saw.

* `Owned`: the handle names its owner from before the run can be seen until after its last write, and one request at a time prepares a generation;
* `Down`: a process that is down remembers nothing, so that no request survives a crash with a stale look;
* `Joining`: who deletes a job has marked it before it waits for the scheduler, so that no start gets past the mark;
* `Fenced`: what is cleaned up has no generation left;
* `Work`: whoever writes the instances next, a generation, a repair, a resume, has every success in what it will write.

### The gate of an agent

The third part of `AgentProofs`; its invariant is `GateSafe`. Two managing requests may follow each other at any step, and each reads the catalog long before it acts. The reservation keeps them apart, so that `MgrInv` can follow each by itself; what a deletion has drained stays drained because it closes the gate before it looks. The
invariant ties the token a manager holds and the flags it keeps to the lifecycle on disk, over failures and a restart. The hypothesis, that no manager is called `"none"`, excludes the name the model gives to a free reservation.
`MCServicesProofs` carries the theorem over to the composition: in its focus every step is a step of `AgentGate`, in any other the property says nothing.

### The outbox

`Inv == Types /\ Progress /\ Working /\ Ordered /\ Repeated /\ Paced`. The worker takes the oldest task that is not through and touches no other, so what has arrived can be read off the
saved tasks but for one chunk, the next one of that task (`Progress`), which may have arrived without a record: its send failed after delivery, the save after it failed, or the process crashed between them. Each of these is a fault, and
`Repeated` counts it in advance: repetitions so far, and one more if a chunk has arrived unrecorded (`Unrecorded`), are at most the faults. `Paced` says where the pause of ten seconds is kept: in memory, or with the task that was saved, unless a crash lost the first before the
second was written.

### The schedules

The second part of `ServiceProofs`. `ScheduleInv == ScheduleTypes /\ RunInv /\ SlotInv /\ LockInv /\ WantInv`. A run holds its slot from the trigger to the record of its end, and passes it between three goroutines: the trigger, the graph run, and the notification that marks it over. `RunInv` says that the three follow
one another, so that no run holds a slot twice and each step that decrements the count ends the last hold of its run; `SlotInv` is then about the cardinality of a set from which one element is taken, or to which one is added. `LockInv` is what the schedule's lock is for: of all
the records that read the state file and write it later, one is between the two, and the number of results in the file is the one it has read. A toggle may get in between, without the lock: it keeps the count that is in the file, and the record that follows keeps what the file then says of being enabled (`WantInv`). The hypothesis excludes the name the model gives to a lock that is free.

### The cache of Agents

The first part of `AgentProofs` has no theorem of its own; its lemmas `InitInv`, `NextInv`, `InvHolds` and `ClosesHold` are what the two theorems of `MCServicesProofs` use.
`Inv == TypeInv /\ ActorInv /\ WaitInv /\ AgentInv /\ LeaseInv /\ AgentsTended /\ ConnsTended /\ ConnInv`.

* `LeaseInv`: the count of an Agent's leases is the number of the callers that hold one. It is what makes a count of zero mean something: that the `Close` of an eviction, a deletion or a flight
  takes an Agent from nobody (`ClosesHold`), and that whoever gives back the last lease knows it.
* `ActorInv` follows each caller and each flight by its program counter: the Agent and the subprocess it has in hand exist and are, where it relies on it, of the runtime that was asked for; the victim of an eviction has no lease and, being out of
  the map, gets none (`Grows` says that of every step).
* `WaitInv`: who is on the list of a flight waits for it, so that a landing moves nobody who has gone elsewhere.
* `AgentsTended` and `ConnsTended` are the two halves of `NothingLeaks`: for every Agent and every subprocess somebody is named who will close it. The delicate steps are those in which the duty passes on: the last release becomes the one
  that looks at the flag, a deletion leaves the Agent to `dropping`, a starter hands its subprocess to the list of the reaper, or closes it when the shutdown came first.
* `ConnInv`: what is marked for closing is not in use, and what lives in a runtime under maintenance is marked. `Acquire` looks at the mark and `BeginMaintenance` at the uses, each in one critical section.

A step moves one actor (`OneWalks`) and edits one Agent, or one subprocess (`AgentSteps`, `ConnSteps`, `RunSteps`), or nobody moves (`AgentsStep`, `ConnsStep`); only a landing moves many (`Lands`). `LeasedStaysOpen`, the documented contract, is false (see *Disagreements*).

### The probes of Agents

The second part of `AgentProofs` is about `AgentProbe`; `MCServicesProofs` uses its lemmas `ProbeInitInv`, `ProbeNextInv` and `ProbeInvHolds`. It assumes (`ProbeAssumption`) that the Agent's own default model is a model and that what
a user may pick is a model, a mode or a level of one.
`ProbeInv == ProbeTypeInv /\ VersionInv /\ SelectInv /\ FileInv /\ RefreshingIsTended /\ SelectionKept`.

* `VersionInv`: the version of the environment only grows, and a probe sees the one there is when it takes off. So what a caller stores after a probe of its own was found in the version it is stored for or a later one, and an entry that is offered for the current version was found in it.
  Who joins another's probe may be offered what was found before the edit: that is the exception in the property, and one of the *Disagreements*.
* `FlightOK`: whoever a flight belongs to is at its landing, with the model it prefers; a landing that is shared therefore takes no result to a caller that asked for another.
* `SelectInv`: a result on its way to the two caches holds the user's last selection, unless the selection crossed it between its check and its write. `mergeACPSessionInfoCache` keeps what was selected; a selection itself crosses everything that is on its way.
* `FileInv`: a snapshot never says that a refresh is under way, so that a load after a crash leaves no entry that waits for a caller that is gone (`RefreshingIsTended`).

### The accounts

The third part of `ServiceProofs`. `Inv == TypeInv /\ FilesAgree /\ RequestInv /\ AdminRemains /\ Restartable /\ RevokeInv`. `AccountsAssumption` says that 0, which stands for nobody, is no user's identifier, and that what the files hold at first are records; they need not be valid ones.

* `Restartable`, that memory is what a start would load, is the claim and also what carries the rest: the checks of an edit (an administrator remains, the name is free, the roles exist) look at memory, and what they must be true of is the files. `Editable` says what a record must be like to
  be saved, `EditKeeps` that such a record leaves the files valid, whether memory takes it over or the process dies first.
* An initialization that stopped half way is where memory and files differ (`acSeen.half`), and where `Restartable` says nothing: memory there is what was loaded before it, or what it had built when only the last step, the session, failed. `FilesAgree` is what remains: memory knows no user whom the files do not
  have, so that a new identifier is new to both and an administrator is not overwritten.
* `RequestInv`: between the authentication of a request and its execution others may change everything about its user, but users are marked as deleted and never removed, so that his record is there to be edited. (That a deleted user's own request still edits it is one of the *Disagreements*.)
* `RevokeInv`: a session carries the number of revocations begun for its user when it was made. A revocation that is reported as done has removed those with a smaller number; one whose removal of a file failed is not reported, and the next one removes it.

### The history of an ACP Agent

`RoundInv == TypeInv /\ PhaseInv /\ NewInv /\ ViewInv /\ (rbSeen.stray \/ HistoryInv)` with
`HistoryInv == DrainInv /\ DiskInv /\ QueueInv /\ HolderInv /\ SafeInv /\ LastInv /\ GotInv /\ LateInv`. The first part needs no exception; the second, which follows the calls to the disk, holds until a stray call is taken. Rows are appended by three writers (the dispatcher, the Run's close-out, `StopAndFlush`), each of which took its rounds from the builder earlier and holds no lock of the other two.

* `PhaseInv` says who may be at work beside whom. The dispatcher and the close-outs carry the Run they work for; a Run that has succeeded has nobody left but a stop that came too late, and that one has only an empty round.
* `QueueInv` and `HolderInv`: what is on its way is a whole round, and a call is in one place only: the open round, a round on its way, or the disk. This is what makes the order of the writers irrelevant (lemma `Apart`), and what a second declaration of a known call would break.
* `DiskInv`: every result stands behind the round that declares it, at its place (`Ordered`); an incomplete round is left by a torn append only, and no prompt stands behind one. Hence the cut of `BeginRun` (`WithoutOrphans`, a least position, by `WellFoundedInduction`) leaves a paired history and takes no prompt away.
* `DrainInv`: before a Run prompts and once its last round is collected, the builder holds no round, at most a text that came late, and that is what a stop without a hook then writes.
* `GotInv`, `LateInv`, `SafeInv`: a result that a Run was given is on disk or handed to somebody, and where it comes late its placeholder is on disk or on its way, as long as the Run may still succeed. Once it has succeeded its results are `Safe`, before every incomplete round, so that no later cut reaches them.
* `ViewInv` compares what the handlers were told with the builder. They differ by the notice that the dispatcher has in its hands (`Shown`), and at the end by the ends that a close-out has taken and not told.

The proof showed that `SuccessIsSettled` was too strong as it was first stated. A round torn by a failing append *after* the next Run's `BeginRun` has looked stays incomplete while that Run writes behind it; the cut of the Run after that takes both (`ResultsStay`, see *Disagreements*). The run of two Runs is too
short to show it; three show it. The property now excepts a Run that was prompted behind a torn append, and says the rest for all others.

### The node of a graph run

The first part of `GraphPartsProofs`. `NodeInv == NodeTypes /\ WorkInv /\ OpenInv /\ ListInv /\ VersionInv /\ HeardInv /\ UsageInv /\ PromptHeard /\ TurnsCounted`. The hypothesis says that `MaxRuns`, a bound of the model, is a number, and of which kind the fields of a node are.

* `OpenInv`: sessions are opened one after the other, at most one by an execution, so that the one a worker opens is new; a session that is not open is empty and nobody's.
* `ListInv`, `WorkInv`: the only session that the job does not list is the worker's own, and a run does not end before its worker has. That the note of a session may be dropped, or read by nobody, is why listing is not the note's business.
* `VersionInv`: `BindingKept` compares sessions with each other; what they all go back to is the version of the first execution, which the instance has, or, when it has been reset, what the run keeps of it (`past`).
* `HeardInv`: of a node that inherits no session, every session that a later execution might continue (the one displayed, the one of the past, the one on a note, the worker's) begins with the prompt, unless a recording failed (`Unrecorded`).
  It must be true of all of them at once, because which of them the resumption takes is decided by what is left. An interruption cuts off the end of a history (`CutOff`), never its first message; that the cut is well defined is a least position again.
* `UsageInv`: what the worker carries is what its execution has spent and nobody has recorded, so that a record, whether of a result or of a drain, charges each attempt once.

### The event stream of a graph run

The second part. `StreamInv == StreamTypes /\ BufferInv /\ WriterInv /\ ClientInv /\ NoHole /\ TerminalAtRest /\ DeletedIsGone`.

* `BufferInv`: nothing is released that a reader has not crossed. `Slowest` is a minimum over a set of clients of any size, `Cut` and `Collections` are shown to leave every reader that stays at its place (`CutKeeps`, `CollectionsKeep`), also where the cap evicts one.
* `ClientInv` ties the three places of a client together: what it remembers, the cursor the buffer keeps for it, and the event it is being sent. While it is connected the cursor is the last event it has; when it returns, it asks from there (`Follows`), and `Subscribe` accepts a place that is still held or refuses.
* `WriterInv`: a run that rests has nothing between its line and its publication and no hook under way, so that what a deletion removes does not come back.

### The library of workflows

The third part. `LibInv == LibTypes /\ CopyInv /\ LaunchInv /\ GraphLibraryKept`: an update holds a copy of the version its author saw (`CopyInv`), so that the repository's comparison is with that version; and whoever launches has the lock of the message and a Job that has no run yet (`LaunchInv`), so that neither a second launch nor the
roll-back of a failed one meets a run. The hypothesis excludes the name the model gives to a free lock.

### Only model-checked

The liveness properties (`AcceptedEventuallyRuns`, `EventDelivered`, `JobDeletionEnds`, `Settles`), because fairness and `ENABLED`
are out of this prover's reach; the action property `StopBarrier`, which holds on instances whose faults block no item
and fails on others (run `queue_stop_lifted`), so that a theorem would be about those faults only; the invariants of `GraphScheduler` (they are not true of every workflow that the validator accepts, a loop of no rounds inside a fan-out for one (run `graph_round_lost`), so that a theorem needs hypotheses about the paths of the given one, and facts about paths are proved by induction) and of `GraphValidate` (the same);
and the other components of `MCServices`: those with many kinds of records and requests (`ImGateway`, `Workspaces`, `EinoRun`, `CodexAccounts`) would need proofs longer than their code. No definition of the project is recursive.

## Not modelled

In the modelled components: `StopAll` and its `stopping` flag at shutdown, end hooks of jobs, token usage, transient events, the registry that
creates and removes event buffers (one buffer is followed from creation to close), an event that fails to marshal, SSE keep-alives. The terminal idle timeout of a connection is a `Disconnect`. Prompts, variables' values, titles and output parsing of graph nodes; which minute a cron expression fires in; the fields of a custom agent.


Of the WeChat listener: a token file that cannot be read (the next save then writes it without the other bots' part), media and voice. Of the observation journal: the registry of viewers, whose report of visibility is lost when it comes before the stream it is about, and the discussion turns of a graph's job. Of workspaces: the default workspace, git branches and the checks of directories.

Components: slash commands, the agent catalog, configuration, skills, prompts, the restart handover, the login throttle, the quota readers of `services/agent/usage`, and the web and iOS clients beyond what a client
remembers of a stream. They are request-response services over files, or user interface; `PROJECT.json` lists each with its sources.
## Plan

What would come next, most valuable first:

1. Proofs: `JobFieldsKept` for any number of writers.
2. An abstract run of a graph (started, worked on, settled, deleted) that `GraphRun` implements, and `GraphScheduler` as its inside.
