# A TLA+ development of the SynCode orchestration engine

SynCode runs coding agents: a client talks over a WebSocket to a Rust server that
records everything that happens to projects, threads and turns as domain events in
SQLite, keeps a read model of them in memory, and drives provider processes (Claude,
Codex, ACP agents, ...) whose output it feeds back as further events; a TypeScript client
follows the events and shows the threads. This directory models the path of a turn, from
the command to the provider and back to the screen: the event pipeline, the dispatch of
turns to a provider, the client's transport, and the client's copy of a thread. TLC checks
each on small instances, and TLAPS proves the main safety properties for every instance.

## 1. The system

Paths are relative to `src/crates/`, those of the client to `src/`.

| Component | State | Operations | Talks to |
|---|---|---|---|
| **Event pipeline** `syncode-orchestration/src/pipeline.rs` | the read model behind an `RwLock`; per command: state, decided events, version, attempt count; per stream: token buffer | `handle_command`, `consume_provider_stream`, `replay_read_model` | Decider, event store, Projector, push publisher, reactors |
| **Event store, snapshots** `syncode-persistence/src/{event_store,adapters,snapshot}.rs` | tables `domain_events`, `snapshots` (SQLite, WAL) | append with expected version, current version, replay all, upsert and load snapshots | pipeline |
| **Decider** `syncode-orchestration/src/decider.rs` | none | command + JSON state to events or error | pipeline |
| **Projector, read model** `.../projector.rs`, `.../read_model.rs` | keyed maps of views | one event to a change of the maps | pipeline |
| **Provider ingestion** `.../reactors/ingestion.rs` | none | provider event to domain events; queued-turn dispatch | pipeline, turn queue |
| **Command reactor, turn queue** `.../reactors/command.rs` | which thread has a running turn, parked turns, capture windows | dispatch of stored events to a session | session manager, adapters |
| **Session manager** `syncode-provider/src/session.rs` | sessions and their state, generation and last activity, resume cursors | start, transition, stop, idle sweep, persist, rehydrate | adapters |
| **Provider adapters** `syncode-provider/src/adapters`, `acp.rs`, ... | child processes, a broadcast channel of events | send a turn, interrupt, event stream | session manager, pipeline |
| **repairState** and RPC router `syncode-ws/src/rpc.rs` | none of its own | clears and replays the read model; all other methods route | pipeline |
| **Boot** `syncode-ws/src/orchestrator_setup.rs` | none | build the orchestrator, replay | pipeline |
| **WebSocket connection, push bus** `syncode-ws/src/{server,push,lib}.rs` | subscriptions of each connection, a bounded broadcast for all channels | serve requests one at a time, deliver pushes from a task of its own | pipeline, clients |
| **Client transport** `frontend/src/wsTransport.ts` | socket, shared promise of a connection, requests by id, reconnect timers | `request`, socket callbacks, `scheduleReconnect`, `dispose` | connection, event router |
| **Client push adapter, event router** `frontend/src/contracts/adaptPushEvent.ts`, `routes/__root.tsx` | turns seen, pending events, subscriptions, reconcile chain | adapt, queue, coalesce, flush, subscribe, poll | transport, store |
| **Client thread store** `frontend/src/store.ts` | threads with messages, session, latest turn | apply live events, merge snapshots | views |
| **Workflow engine** `.../dag.rs`, `workflow.rs`, `critic.rs` | nodes and their states | ready set, retry, cancel | pipeline |
| **Automation** `syncode-automation/src` | schedules, runs, leases | tick, claim, run, retry | pipeline |
| **Terminal** `syncode-terminal/src` | pty sessions, output awaiting acknowledgement | write, ack, resize | clients |
| Auth, memory, git, HTTP, desktop shell, contracts, drafts, views | see `PROJECT.json` | | |

How a command travels: the RPC router calls `handle_command`; the orchestrator reads
the aggregate's state from the **in-memory** read model under a read lock, asks the
Decider, releases the lock, asks the **database** for the stream's version, appends at
that version in a transaction, projects the events under the write lock, perhaps stores
a snapshot, pushes the events to subscribers, and hands them to the command reactor. A
version conflict starts it again, at most five times. A provider's output takes a
shorter way: it is batched, ingested, appended at the current version, projected and
pushed, without a decision and without a retry.

How a turn travels: `StartTurn` is recorded as any command; the reactor then looks for an
active session of the thread, starts one if there is none (or replaces one of another
identity), subscribes to the adapter's events, sends the request, drains what comes back
at once and ends the turn itself if the adapter seems to have finished or has refused.
Otherwise the pipeline spawns a stream consumer with a subscription of its own. One
adapter, with one broadcast and one *current session*, serves all threads.

How an event reaches the screen: a bounded broadcast, whose sender never waits, the
delivery task of the connection, which ends when the broadcast overtakes it, the socket, the push adapter (which needs the turn's start to place its events), a buffer that
is flushed at once for the first piece of an answer and throttled after, the store. Beside
it snapshots of the shell and the thread come as answers to subscriptions, and are merged
with what has streamed.

### What is hard here

The lock is held for the decision and for the projection but not from one to the other,
and several tasks serve one thread: clients' commands, the stream consumer of each turn,
automations, `repairState`. Each `.await` between them is a place where another task
moves. The database orders appends, but nothing orders the projections, the snapshots
and the pushes that follow them. A crash may fall between any two of those steps. The
`hazards` of `PROJECT.json` list what this exposes, line by line.

### What makes each component correct

- *Event store*: every stream is numbered 1, 2, 3, ... whoever appends and whenever the
  process dies.
- *Pipeline*: what clients are told is what is stored; an answer "ok" means stored and
  pushed; every command is answered; decisions are taken on the state the log describes;
  at rest the read model is what the log projects to.
- *Snapshots and boot*: a snapshot never claims more than the log holds; booting from
  snapshots and tails rebuilds what a full replay would.
- *Stream consumer*: tokens and tool calls are stored once and in order; a failed flush
  drops only its own batch; the buffer is emptied.
- *repairState*: a repair ends with the log's read model, a dry run changes nothing.
- *Session manager, adapter*: what may be reused is open, what is closed runs nothing.
- *Command reactor, turn queue*: a turn ends or is followed by a consumer; the provider's
  events reach the turn they answer, once; a parked turn is dispatched eventually.
- *Client transport*: each request is settled once and with its own answer; the transport
  comes back after a loss.
- *Client*: once nothing is in flight, the screen shows what the server stores: the
  whole answer, no spinner on a turn that has ended, a subscription for what is open.
- *Workflow engine*: a node runs only after its dependencies, and a run ends.
- *Automation*: a due schedule runs once, whichever runner claims it.
- *Terminal*: output is neither lost nor repeated across acknowledgements.

## 2. The modules

| Module | Models | Notes |
|---|---|---|
| `Domain` | `syncode-core` ids, events, `Command`, the views | A payload nobody looks at is left out. Streamed text is the number of its tokens. `Event.id` is what `DomainEvent::aggregate_id` returns. |
| `Decider` | `Decider::decide` with its guards | `Accepts` is "returns events", `Decide` the events. `FreshId` is `EntityId::new`. |
| `Projector` | `Projector::project` | `Project` is one event, `ProjectMany` a list. |
| `ColdStart` | snapshots, `replay_read_model` | `Covered` is the skip counter, kept per id of the *event* as the code does, not per stream. `FullReplay` is the reference: project every row. |
| `Ingestion` | `ingest_provider_event` | All activities are one kind. |
| `EventPipeline` | the orchestrator, the store, repairState, crash and boot | EXTENDS the above; the state machine. |
| `MCEventPipeline` | instances for TLC | ids, client scripts, provider scripts, initial database. |
| `EventLog` | what the pipeline promises of the store | Abstract: one atomic append per command or batch, announced once, no trace of a refusal. |
| `TurnDispatch` | `command.rs` (StartTurn, CancelTurn, FailTurn, PauseThread, CancelThread, StopThreadSession), `session.rs`, `adapters/claude.rs`, the spawn of the consumer in `pipeline.rs` | A session, a process and a supervisor are named by the turn that started them. |
| `MCTurnDispatch` | its symmetry for TLC | |
| `WsTransport` | `wsTransport.ts` | A state machine of its own: it is the client's end of any connection. |
| `ThreadStore` | the thread part of `store.ts`, `coalesceOrchestrationUiEvents` | Operators: apply an event, merge a snapshot. |
| `ClientSync` | `server.rs`, `push.rs`, the subscriptions of `rpc.rs`, `wsNativeApi.ts`, `adaptPushEvent.ts`, the `EventRouter` | EXTENDS `ThreadStore`; composes server, connection and client. |
| `DataInduction` | lemmas on induction over sequences | See section 4. |
| `EventPipelineProofs`, `ReadModelProofs`, `ProviderStreamProofs` | theorems about `EventPipeline` | Each EXTENDS the one before. The store and the feed; the read model; a provider's stream. |
| `EventLogProofs`, `TurnDispatchProofs`, `WsTransportProofs`, `ClientSyncProofs` | theorems | Each EXTENDS the module it is about and `TLAPS`, or `DataInduction`. |

`EventPipeline` ends where `TurnDispatch` begins: the call of the reactor. `TurnDispatch`
ends where the consumer takes an event, which `EventPipeline` goes on with. `ClientSync`
begins where `EventPipeline` pushes, and stands on what `WsTransport` does: frames in
order, connections lost and replaced.

### State and actions of EventPipeline

`log` and `snapshots` are the database, `store` the read model, `feed` what has been
pushed. Every task (worker = one `handle_command` at a time, consumer = one
`consume_provider_stream`) has a program counter `pc` and its locals `cmd`, `evs`, `ver`,
`tx`, `attempts`, `captured`; a consumer has `inbox`, `buf` and `dropped`. One action is
the code between two awaits at which another task can run:

| Action | Code |
|---|---|
| `ReceiveCommand` | entry of `handle_command` |
| `DecideCommand` | `load_aggregate_state` and `Decider::decide` under one read lock |
| `ReadVersion` | `current_version(..).await.unwrap_or(0)`, the failure included |
| `BeginAppend`, `CommitAppend` | the version check, then the INSERTs and COMMIT, of `append_domain_events` |
| `AppendConflict` | the retry loop of `handle_command` |
| `AppendBusy` | the overtaken transaction's error, which is not retried |
| `ProjectEvents` | `project_many` under the write lock, and the capture of a snapshot |
| `SaveSnapshot` | the upsert after the lock is gone, which may fail unnoticed |
| `Publish` | `publish_events`, the reactor's outcome, the answer |
| `TakeToken`, `FlushTokens`, `TakeEvent`, `StreamEnds`, `ConsumerAppendFails` | the consumer's `select!` loop |
| `Repair...` | `handle_orchestration_repair_state`, with its lock released between steps |
| `Restart` | the process dies anywhere; `replay_read_model` at boot, which may fail |

SQLite is external. A transaction that has read (`tx = "fresh"`) and is overtaken by
another commit becomes `"stale"`, and WAL mode refuses its write (SQLITE_BUSY_SNAPSHOT).
This is what makes check-then-insert safe, and the mutant that lets a stale transaction
write breaks `StreamsContiguous`.

### State and actions of TurnDispatch

`thread`, `status`, `worker`, `session`, `refused` are the turns and their StartTurn tasks;
`tracked`, `active`, `stamped`, `stopping`, `interrupt` the session manager; `opened`,
`current`, `child`, `alive`, `run` the adapter with its processes; `capture`, `told`,
`listening`, `heard` the subscriptions and what was ingested under each turn.

| Action | Code |
|---|---|
| `StartTurn` | the recorded turn and the choice in `ensure_session_for_thread` |
| `StartSession`, `StartSessionFails` | `start_session_with_cursor`, the adapter's write lock held |
| `StampAndSubscribe` | the end of `start_and_stamp`, and the early subscription |
| `SendRequest`, `RequestRefused` | `send_request`, which uses the adapter's current session |
| `Drain` | `drain_captured_provider_events` and the safety net behind it |
| `SpawnConsumer` | `spawn_provider_stream_consumer` |
| `EmitToken`, `RunEnds`, `Reap`, `Report` | `run_turn` and the supervisor of a process |
| `CancelTurn`, `StopActiveSession`, `StopSession` | the manager's `stop_session` in its two halves, for CancelTurn, and for CancelThread and StopThreadSession |
| `FailTurn`, `PauseSession`, `InterruptSession` | `interrupt_session` in its two halves, for FailTurn and for `interrupt_all` |

### State and actions of the client modules

`WsTransport` keeps for each socket its `status`, its frames in flight (`up`, `down`), and
the requests that await its promise (`waiters`); for the transport `current`, `connect`,
`timers`, `byTimer`, `pending`, `nextId`, `state`, `disposed`. Its actions are the socket's
callbacks, the timer, `request`, `dispose`, and the server's answers. A step takes in the
promise continuations that the callback causes, since JavaScript runs them before the next
callback.

`ClientSync` keeps the server's turns (`status`, `output`, and the events not yet pushed in
`worker` and `stream`), the connection (`delivery`, `bus`, `up`, `down`, `subscribed`,
`serving`) and the client (`thread`, `seeded`, `pending`, `flushed`, `router`). `delivery` is
the connection's delivery task: spawned with the connection ("starting"), it subscribes to
the push bus when it is first polled (`DeliveryStarts`: "prompt", or "late" if a request has
subscribed the connection before), forwards (`DeliverPush`), and ends on an open connection
when the bus, of `PushCapacity` broadcasts, overtakes it (`DeliveryEnds`: "ended"). That
happens in `Broadcast`, with the thread's own events, or in `OtherPushesOvertake`, with those
of terminals, providers, settings and automations, which share the bus. `Broadcast` never
waits, and what is published while the task is not on the bus is lost to the connection.
`ServeRequest` and `SendResponse` read a snapshot and send it, with pushes delivered
between them. On the client, `ReceiveEvent`, `ReceiveShellSnapshot`, `ReceiveThreadSnapshot`,
`ReceiveWelcome`, `ReceiveResponse` are the handlers of a frame, `Flush` the throttler,
`Poll` the catch-up interval, `Move` the user opening or leaving the thread; `RunChain` is
the chain of reconciles, one after another. `Drop` and `Reload` lose the connection and
the page.

### Abstractions

- Commands that edit only display data (titles, modes, labels, imported messages, plans,
  checkpoints) are left out: each reads the same views and adds one event that no
  decision looks at. So are the handoff, fork and conversation-rollback commands.
- In `EventPipeline` the reactor at the end of `handle_command` is its outcome: "ok" or
  "internal". What it does is `TurnDispatch`.
- In `TurnDispatch` a step is what happens between two awaits that another task can use;
  steps that commute with everything between them are one (StartTurn's record and its
  choice of a session; the stamp and the subscription). Of the adapters it models
  Claude's, whose sessions outlive a request; a resumed session is a session.
- In `ClientSync` an answer is a sequence of numbered pieces, so that a piece lost, doubled
  or out of order can be told. `MessageAdded`, activities, plans, diffs and the sidebar are
  left out. One client follows one thread; other threads and the other channels share the
  connection's FIFO and the push bus, and appear as what fills the latter.
- For a thread without any streamed message the server makes messages up from the turns
  (`rpc.rs:4818-4852`), with ids of its own (`<turn>-assistant`, where the client's own has the
  turn's id): they are other messages than the `answers` followed here, finished and whole,
  and are left out.
- The second way to the shell's snapshot (`loadShellSnapshotOnce` after a welcome, and the
  `shellBootstrapFallbackTimer`, `__root.tsx:1256`, 1370) is left out: what it brings is applied only
  while there is no thread, and is asked for after the subscription that brings the same.
  The `catch` of `subscribeShell` runs only for a request that the server rejects. The
  catch-up of a thread that has a snapshot, `replayEvents`, is answered with an empty list
  (`rpc.rs:2543-2561`) and repairs nothing.
- In `WsTransport` the constructor of `WebSocket`, and the URL before it, do not throw
  (`wsTransport.ts:761-779`): that would leave the transport without a socket and a timer.
- In `TurnDispatch` a process counts as gone when its `run_turn` returns, and the lock of
  `active_children`, which the code keeps while it waits for a process to exit
  (`claude.rs:1111`, 1259), is not kept: the model has more interleavings than the code. A
  deleted project, which changes a session's working directory and so its identity
  (`command.rs:786-813`), is left out. Its consumers never end; `EventPipeline` ends them.
- In `EventPipeline` a provider's stream yields no error item (`pipeline.rs:1294-1297`, which
  returns without a last flush): no adapter of the repository produces one.
- The append fails by conflict or because it was overtaken; other I/O errors have the
  effect of the latter. Reads of the version, snapshot saves and both reads of a replay
  can fail in the model. `BootMayFail` says whether the boot's replay can.
- The table also carries UNIQUE(aggregate_id, sequence). The model does not use it:
  the version check and WAL suffice.
- The order of the messages and turns within a thread is left out.

## 3. The runs

| Run | Asks | Instance |
|---|---|---|
| `concurrent` | Is the store sound, the feed honest, every command answered, and the abstract log implemented, with two workers on one thread? | pause/resume against complete, 3 commands, snapshot every 2nd event, 1 crash (boot may fail), 1 repair |
| `streaming` | Is a provider's output kept whole and in order beside a client that cancels the turn? | 5 tokens and a tool call, buffer of 2, 1 crash |
| `single_writer` | With one worker per thread, are decisions current, and does the read model survive? | two threads, 3 commands, snapshots, 1 crash |
| `every_command` | Does every kind of command leave a read model the log agrees with, and the caps respected? | one worker, 19 commands to choose from, 3 issued, 1 crash, caps of 1 |
| `turn_dispatch` | Do sessions, processes and subscriptions stay consistent when turns start, stream, end and are stopped at once? | two turns, on one thread or two, one of them a slash command, one token each, one stop or interrupt |
| `transport` | Are requests matched and settled, and does the transport recover? | 2 requests, 3 losses, 9 sockets, dispose at any time |
| `client_sync` | Does the screen end with what the server stores? | one turn of 3 pieces that may stream or not, a bus of 1, and one loss, reload or move of the user |
| `stale_decision` | violation, see below | two workers, one thread |
| `projection_order` | violation | two workers, one thread |
| `snapshot_tail` | violation | one worker, snapshots |
| `dry_run_repair` | violation | one worker, one repair |
| `heard_answer` | violation | one turn, a slash command |

What the passing runs establish:

- `StreamsContiguous`, `FeedMatchesLog`, `AnsweredIsDurable`: the append protocol is
  sound under any interleaving, failed version reads, a crash, a concurrent repair.
- `SnapshotNeverAhead`: crossing saves cannot make a replay skip events that do not exist.
  `ThreadStatusSurvivesRestart`: at every moment a crash would leave a boot with the
  right thread statuses. It needs one worker per thread.
- `CommandAnswered`, `StreamDrained`: no command starves in its retry loop and no token
  stays in a buffer.
- `TokensAccounted`, `ProviderOrder`, `QuietFeedComplete`: batching, failed flushes,
  lagging receivers and cancellation neither repeat nor reorder the output, and lose
  only the batch of a failed flush and the rest of a stream cut short.
- `DecisionsFollowLog`, `QuietThreadsMatchLog`, `QuietReadModelMatchesLog`,
  `AnnotationsWithinCaps`: what holds as long as one task at a time commands a thread.
  The violation runs show that the first and the third fail otherwise.
- `ImplementsEventLog`: retries, failed reads, lost races, failed snapshots and crashes are
  invisible: the pipeline's behaviours are those of an atomic log.
- `HeardOnce`, `HeardOnOwnThread`: capture, drain and consumer overlap in no order that
  gives a turn an event twice, nor one of another thread's session. The second says less
  than one would want: a request goes to the adapter's current session, so a turn may be
  given, on its own session, the answer to another thread's request.
- `ActiveIsOpen`, `ClosedSessionHasNoProcess`: starting, reusing, replacing, stopping and
  interrupting sessions may overlap; none that may be reused is gone, none that is gone
  has a process, though a supervisor may reap a process that is not its own.
- `PendingIsFollowed`: no turn whose StartTurn came through is forgotten by the safety net.
  (One whose session could not be started is: see below.)
- `OwnAnswer`, `SettledOnce`, `PendingIsAwaited`: ids never mix two connections up.
  `NeverStranded`, `Reconnects`, `AnsweredOnGoodConnection`: the transport recovers by
  itself, and where no connection is lost every request is settled.
- `QuietSpinnerOff`, `QuietAnswerComplete`, `QuietThreadHydrated`: what the client shows
  once nothing is in flight. Each names in its comment what it must except, because the
  code does not do it (below). The first two except a connection whose delivery task the
  push bus has overtaken, and the second also one whose task came to the bus late.
- `AnswerNeverShrinks`, `CoalescingTransparent`: neither an old snapshot nor the coalescing
  of buffered events changes what was streamed.

**Bounds.** `MaxCommands` (3), `MaxRestarts` (1), `MaxRepairs` (1) keep the behaviours
finite, and they are why deadlock is not checked: the instance ends. The code's
`MAX_CONCURRENCY_ATTEMPTS` = 5, `SNAPSHOT_INTERVAL` = 50, `TOKEN_BATCH_MAX_COUNT` = 64 and
caps of 100 are constants here, set to 1 or 2 so that the last attempt, a snapshot with a
tail, a full buffer and a reached cap all occur. Two workers are enough for every race
found, since each is between two steps of one task and one step of another. Three
commands let one worker command twice around a rival. `REPLAY_LIMIT` (10 000 rows in the
code) is 100 and never reached: what lies beyond it is a hazard not covered yet. The
initial database is what earlier commands leave: `OneThread`, `TwoThreads`, `OneTurn`.

In `TurnDispatch`, `MaxTokens` = 1 and `MaxStops` = 1 bound what a process says and the commands
that stop or interrupt; sessions replaced by a StartTurn and processes killed by a later
request are not bounded, so that a stop can meet either. Two turns suffice for one to
reuse, replace or outlive the other's session; what needs more turns or stops is covered
by the theorems, which hold for any number. In `WsTransport`, `MaxDrops` = 3 losses may double
the reconnect loops, each of which opens sockets; with `MaxSockets` = 9 the bound on
sockets is never what stops a reconnect (`Reconnects` would fail if it were). In `ClientSync`,
`PushCapacity` (1024 in the code) is 1: the bus overtakes the task with the thread's own
events or, as in the code, with other pushes at any moment; one broadcast that waits is
enough for a snapshot to overtake it. Of three pieces the first is flushed at once and the
others may wait, so that they coalesce. The client starts on the thread (`Views`), and
`MaxDisturbances` = 1 lets it lose its connection, or be reloaded, or leave the thread. An
outage and a move together make 16.8 million states, without an error, and more than five
minutes; such combinations, and more turns, pieces, disturbances and a larger bus, are
covered by the theorems.

**Fairness.** `FairSpec` has weak fairness on each worker's and each consumer's steps:
tokio polls a task that is ready, the lock is fair, and database calls return. Nothing is
assumed of clients, of crashes, of repairs or of a stream's next event. Among a task's
steps none is favoured: a version read may fail every time, and the retry loop must end
all the same.

The transport's `Fairness` is weak fairness on its timer and on each socket's callbacks: the
event loop runs them. A connection attempt ends, a close that has begun ends, and the server
answers what it receives; sockets are never closed by fairness, and nobody has to call or
to dispose. The other modules state safety only, and what they say of an end they say of
*quiet* states.

### Disagreements with the repository's own words

1. **`stale_decision`.** A comment (`pipeline.rs:430-433`) says a racing append makes the
   command re-load and re-decide. The state is loaded *before* the version is read, and
   from the read model, which lags the database: a rival's committed event is missing
   from the decision, and the append, at the version read afterwards, meets no conflict.
   Example: `PauseThread` decided on "active" is stored after `CompleteThread`.
2. **`projection_order`.** `events.rs:381-382` calls the read model a projection,
   "replayed from the full event log". Two workers' projections may happen in the
   opposite order of their commits, and the read model stays wrong until a restart.
3. **`snapshot_tail`.** `pipeline.rs:789-791` claims "seed + tail == full replay". An event
   covered by its thread's snapshot is skipped entirely, so what it did to *other* views
   (the project's `thread_count`) is lost.
4. **`dry_run_repair`.** `rpc.rs:2588-2590` promises a dry run "without mutation". The handler
   puts back a clone taken before commands that ran meanwhile.
5. **`heard_answer`.** A comment in `handle_start_turn` (`command.rs:1029-1034`) says that an
   adapter which returns no events is still in flight and keeps its consumer. Claude's
   adapter publishes a SkillDispatched before it starts the process of a slash command:
   the safety net takes the turn for finished, and its answer is never ingested.

### What the models show besides

Behaviours met while modelling, of which no document says otherwise or for which the
properties make an exception:

- *Turns and sessions.* A stream consumer does not end with its turn: on a reused session
  every event of the next turn is ingested under the old one too (`pipeline.rs:1238-1345`). A
  turn that reuses a session is not registered with it, so CancelTurn and FailTurn find
  nothing to stop (`command.rs:1132`). A request in a session kills the process of the one
  before, and its supervisor then takes the new process out of `active_children`. A session
  that cannot be started leaves its turn pending. CancelThread stops, and PauseThread
  interrupts, the sessions of all threads (`command.rs:401-421`). An interrupted session is
  never "processing" again, so it can be interrupted once.
- *Transport.* A timer opens a socket even beside one that is open, and two losses can
  leave two reconnect loops (`wsTransport.ts:817-832`), though the class speaks of one
  WebSocket (570). A request that is pending when its socket closes is never settled, and
  so is one that is sent without a socket (856).
- *Push bus.* The delivery task of a connection ends at the first `RecvError::Lagged`
  (`while let Ok(..) = rx.recv().await`, `server.rs:120`). The connection stays open, and nothing
  makes the client reconnect or subscribe again: a turn that ends afterwards goes on showing
  as working, and its answer lacks the rest, until the connection is lost (opening the
  thread anew brings the text so far). The comments speak of no such end: "any event
  projected after the snapshot read is guaranteed to be delivered live" (`rpc.rs:5032-5033`),
  "the connection receives `push/orchestration` frames for every domain event"
  (`rpc.rs:5038-5040`), "Runs until the push bus closes or `tx` is dropped" (`server.rs:110`). `QuietSpinnerOff` without its condition on
  `delivery` fails in the model for this reason.
- *Client.* The push adapter drops a cancellation, so the thread goes on showing as working.
  A page loaded in the middle of a turn adapts none of the turn's events. A delta that is
  delivered after a snapshot which has it already doubles its text. A reconcile that waits
  when the connection is lost waits for good. An answer that did not stream has no message
  of its id on the server, and vanishes with the next snapshot, which may bring one made up
  from the turn in its place. A delivery task that is first polled after the connection
  was subscribed may miss pieces that the subscription's snapshot does not have.

## 4. The proofs

For every value of the constants (sets of ids, turns, threads, requests; numbers of workers,
consumers, tokens, sockets; scripts, initial database, limits):

| Module | Theorem | States |
|---|---|---|
| `EventPipelineProofs` | `TasksAreTyped` | `[]TasksTypeOK`: rows, events, program counters, buffers below the limit, attempts bounded |
| | `StreamsStayContiguous` | `[]StreamsContiguous` |
| | `FeedIsFaithful` | `[]FeedMatchesLog` |
| | `AnswersAreDurable` | `AnsweredIsDurable` |
| | `SnapshotsStayBehind` | `[]SnapshotNeverAhead` |
| | `FeedIsComplete` | `[]QuietFeedComplete` |
| `ReadModelProofs` | `PipelineIsTyped` | `[]TypeOK`, the read model and the snapshots included |
| | `ReadModelStaysInStep` | `[]QuietReadModelMatchesLog`, under conditions |
| | `DecisionsAreCurrent` | `[]DecisionsFollowLog`, under conditions |
| | `CapsHold` | `[]AnnotationsWithinCaps`, under conditions |
| | `StatusesSurviveRestarts`, `OneWriterKeepsStatuses` | `[]ThreadStatusSurvivesRestart`, under conditions |
| | `QuietThreadsAreTheLogs` | `[]QuietThreadsMatchLog`, under conditions |
| `ProviderStreamProofs` | `TokensStayAccounted` | `[]TokensAccounted` |
| | `ProviderOrderKept` | `[]ProviderOrder` |
| `EventLogProofs` | `PipelineImplementsEventLog` | `ImplementsEventLog`: the refinement |
| `TurnDispatchProofs` | `TypesHold`, `HeardOnceTheorem`, `HeardOnOwnThreadTheorem`, `PendingIsFollowedTheorem`, `ActiveIsOpenTheorem`, `ClosedSessionHasNoProcessTheorem` | the six invariants of `turn_dispatch` |
| `WsTransportProofs` | `TypeCorrect`, `NeverStrandedTheorem`, `OwnAnswerTheorem`, `PendingIsAwaitedTheorem`, `SettledOnceTheorem` | the safety properties of `transport` |
| `ClientSyncProofs` | `StreamingMergeExtends`, `SnapshotMergeNeverShortens` | what merging does to a message, for any text |
| | `ClientTyped` | `[]TypeOK` |
| | `TextsOnlyGrow` | `AnswerNeverShrinks` |
| | `QuietThreadsAreHydrated` | `[]QuietThreadHydrated` |
| | `FlushesAreTransparent` | `[]CoalescingTransparent` |
| | `SpinnersStop` | `[]QuietSpinnerOff`, unless the delivery task was overtaken |
| | `AnswersAreComplete` | `[]QuietAnswerComplete`, for a delivery task in time and not overtaken |

**Assumptions**: the named ASSUMEs of the modules: ids of different kinds are distinct, the
absent view is no view,
the limits are positive naturals, the initial database is contiguous and clients send
commands of the type; turns are positive numbers and finitely many; bounds are naturals.
TLC evaluates them in each run.

**Argument.** `StreamsContiguous` is not inductive: a commit keeps the log contiguous only
if the version it appends at is still the stream's last. The invariant `StoreInv` says so,
and what the feed needs:

- `FreshIsCurrent`: before its commit, a task with a *fresh* transaction holds the last
  version of its stream. `BeginAppend` establishes it; a commit keeps it for the others
  because `Overtake` makes their transactions stale.
- `PersistedIsStored`: a task past its commit finds its rows in the log.
- `UnpublishedUntilPushed`: until it publishes, none of them is in the feed.
- `RowsHaveOneOwner`: two tasks past their commits share no row.
- the log is contiguous, and the feed is part of it without repetition.

`FeedIsFaithful` and `AnswersAreDurable` read off the invariant. `SnapshotInv` adds that a
captured snapshot's version is at most its stream's, which only grows (`VersionsGrow`).
The invariant is proved action by action; lemmas on `VersionIn` and appended sequences
carry the data.

*The refinement.* `Due` maps a task to the rows it has stored and not yet announced, which
are there exactly between its commit and its push; `busy` and `reply` are the worker's
program counter and answer. The commit is the abstract `Store`: `FreshIsCurrent` and
`StreamsContiguous` show that its batch is the next of its stream. The push is `Announce`,
a rejection, a fifth conflict and a lost race are `Refuse`, `Restart` is `Crash`; all other
steps, the repair's and the failures' among them, leave the abstract state alone.

*The feed.* `QuietFeedComplete` counts rows; `AnnouncedInv` compares sets: until the process
dies, the rows of the log are those of the initial database, those pushed, and those of
the tasks between commit and push. Rows occur once in each (contiguity), so that the sets
have the lengths of the sequences.

*The read model.* Nothing in the code makes one task wait for another's projection, so the
properties of the read model hold under conditions on the behaviour, and the theorems
have the form `Spec /\ []Condition => []Property`:

- `ProjectInTurn`: at most one task is between its commit and its projection.
  `DecideInTurn`: at most one is between its decision and its projection. One writer at a
  time, which is what most installations are: one user, one turn that runs.
- `Undisturbed`: no snapshot was taken (no stream has reached its 50th event), no
  repair is running, and the log is within the limit of a replay.
- the boot's replay does not fail (`~BootMayFail`). `CapsHold` starts from a database within
  its caps, and `DecisionsAreCurrent` leaves `CreateThread` out, which `handle_command`
  guards itself and not by the state of the thread.

The instance `every_command` meets them all, with crashes, refusals and conflicts, and the
violation runs show that they cannot be dropped: `projection_order` and `stale_decision`
the first, `snapshot_tail` and `dry_run_repair` the second. The invariant `InStep` says that
the store is the log's projection, or becomes it by the projection under way.
`DecidedOnLog` says that what a worker is about to append was decided on the log as it
stands; `DecideInTurn` keeps others from appending meanwhile. That an append projects to
the projection of what was there and of what is new (`ProjectMany` over a concatenation) is
an induction over the log.

*Threads across restarts.* With snapshots a boot is no full replay (`snapshot_tail`), and yet
what it makes of a *thread's* status is right. The condition is weaker than one writer in
all: `ThreadsInTurn` lets any number of tasks project at once as long as no two project to
the same thread, and `OneWriterKeepsStatuses` derives it from the clients alone: each
thread is commanded by one of them (`OneWriterPerThread`; the instance `single_writer` has
two such clients, with snapshots and a crash). `Unrepaired` is what is left of `Undisturbed`:
snapshots are allowed. The argument:

- `Becomes`: project and status of a thread (`ThreadIn`) are a fold over the events with
  that thread's id alone (`ProjectThread`, `ProjectsElsewhere`).
- `Native`: such events are the rows of the thread's own stream, and only they are. It
  is assumed of the initial database; `NativeInv` shows that every decision and every
  provider report keeps it, and that an append to a thread is a single event.
- `AsOf`: a snapshot shows its thread as a full replay of *some* prefix of the log does,
  and its version tells the thread's rows in that prefix from those after it (`Cut`).
- `BootThread`: given that, skipping as many events of the thread as the version says and
  projecting the others gives what a full replay gives. The induction over the log has
  three phases: before the prefix's end the skip counter tracks the thread's rows, at its
  end both agree, after it both project.
- `ThreadsInv`: a thread nobody is projecting to is as the log has it, otherwise the
  event under way makes it so (`ThreadInStep`); that event is the last of its thread
  (`ShownLast`), so that the version a snapshot is captured with is the version of what
  it shows; and every snapshot, stored or captured and about to be saved, is `AsOf`
  (`SnapsHold`), which later appends keep true.

`QuietThreadsAreTheLogs` needs one condition more, `TurnsNotStarted`: a thread's turn count
changes with events of *other* streams, those of its turns, and a boot from a snapshot
counts them twice.

*A provider's stream.* Two hypotheses on the constants, both of which the code justifies:
`OneConsumerPerTurn` (a turn is started once, and its consumer is spawned by its StartTurn)
and `NothingReportedYet` (what a provider reports of a turn is appended by the turn's
consumer, so that the database has none of it before). `AccountInv` says where every
token is: stored, held by an append under way, buffered, still in the inbox, or dropped
with a failed flush. `ProviderOrder` speaks of what is stored; its invariant has to speak
of what is not yet. `Follows` says that a consumer stands at a position of its script (`At`):
the tokens up to there are those stored, held and buffered, give or take those dropped; the
tool calls up to there are those stored and the one held; the inbox has the rest. A held
tool call is the event at that position and finds the buffer empty, which is why it
is stored behind the tokens that came before it.

*Induction over data.* The library's induction theorems take a predicate as a parameter,
which none of the installed provers can instantiate. `DataInduction` states induction over
*sets* of naturals instead, proved from the pigeonhole principle, and what the proofs
need: that a fold has a value at every index (`FoldExists`), that two functions which start
alike and take the same steps agree (`SameSteps`), and that a function whose steps stay in
a set stays in it (`StepsStayIn`). The recursive functions of the models (`ProjectMany`,
`TokensStored`) are unfolded by them.

*Turn dispatch.* The invariant has six parts beside the types. `PlaceInv` ties the manager's
indices to where each StartTurn stands: a turn not yet past `StartSession` has no session.
`OpenInv` adds that a session being stopped is no longer active, without which the
adapter's half of `stop_session` could take a session away that is being reused.
`SentInv` says that a turn whose request was not sent has no supervisor. `ProcessInv` is
what orphans nothing: a process that runs is in `active_children` under its session, or
a supervisor holds it. `FollowInv` carries a refusal to the drain. `HeardInv` carries
`HeardOnce`: what a turn was given is *accounted* for (the process has emitted it, on a
session of the turn's thread), so that what a process emits next is new to everyone, and
until its drain a turn has been given nothing but its capture.

*Transport.* `OwnAnswer` needs to know where every request is: ids are distinct and below
`nextId`; a frame in flight, up or down, on any socket, carries the id under which its
request was sent; a request waits for one socket's promise only. `NeverStranded` needs that
a transport without a socket has a timer, and that a replaced socket's close, which
forgets the current socket, starts one.

*The client.* `AnswerNeverShrinks` follows from the two merges, event by event, and from the
fold over a batch. `QuietThreadHydrated` says where the client ends; `HydrationInv` says what
is under way until then. `OneJob`: a job of the reconcile chain has asked once, and its one
request or answer is still somewhere between client and server, unless the connection that
carried it was lost (`stuck`). `OnTarget`: the last link of the chain, or the subscription if
the chain is empty, is what the user wanted last, unless the shell's answer is still to
come, which puts it right. `Hydrates`: a subscription without a snapshot is being opened,
and the snapshot is ahead of the answer in the same FIFO. `RunChain` skips the links that
change nothing; that it keeps the target is `ChainRuns`.

`CoalescingTransparent` is false of arbitrary batches: a finished message replaces the parts
it merges with, so that a part in front of it or behind it must not meet it. `WordInv` says
that none does: in the queue a finished message stands behind the session that its
completion sets, and the completion of a turn, wherever on its way to the store it is
(consumer, broadcast, frame, queue), is the turn's last word. `CoalesceIsTransparent` then
is an induction over the batch.

`QuietSpinnerOff` looks at the end of all traffic; `SpinnerInv` follows a turn's end to it.
`EndFollows`: whatever shows a turn as running (its start, a delta), wherever on its way it
is, has the turn's end behind it, or the turn still runs. `QueueEnds` says so of the
client's queue, for turns whose start it has seen (of the others it adapts nothing), and
`ShownEnds` of the screen: a turn shown as running has an end in the queue or on the
way. A session shown as running is covered by *some* turn's end, since every end sets
the session. A lost connection breaks the chain; until the shell's snapshot has reset the
thread (`Resetting`), `ShownEnds` claims nothing, and a connection on which nothing is
subscribed yet (`Unsubscribed`), whose pushes the server drops, always has that snapshot
to come. The same holds of a connection whose delivery task is not on the bus yet, which
has been told nothing (`Unheard`): it loses a turn's start with the turn's end. A task that
was overtaken cuts the end off behind the start; from there on `EndFollows` claims nothing
(the first disjunct of `EndsUp`), until a new connection has reset the thread. That a flush of the queue keeps `ShownEnds` (`BatchEnds`) is an induction over the
batch, and rests on `FlushesAreTransparent` for the coalesced one.

`QuietAnswerComplete` follows a text to the screen. The attempt to prove it showed that it
has to speak of a *subscribed* thread: a snapshot read before a turn's end and received
after the user has left the thread may stay on the screen's copy until the thread is
opened again. Three invariants carry it:

- `TruthInv`: what is pushed is what the server has, a snapshot's answers are parts of
  streamed messages, and *whatever the client holds as finished is complete*: a finished
  message brings the whole answer, and the merges never cut it.
- `LinkInv`: a client without the thread has the shell's snapshot to come, ahead of every
  snapshot of the thread (events and snapshots for an unknown thread would be lost or
  taken as they are); a tracked thread is subscribed or its opening is on the way.
- `AnswerInv`, for each turn that has completed. `Stale`: a snapshot with less than the
  whole answer, behind another snapshot, has the turn's completion behind it, so that
  none is left once the completion has arrived. `AnswerKept`: once a client has `Heard` the
  end of a turn it saw start (nothing of it is on the way, and after a lost connection the
  new subscription's snapshot has arrived) it has been `Told`: its text has every piece,
  or is longer than the whole answer and so has a piece twice (`LongerIsDoubled`), and no
  partial snapshot is coming unless the text is finished, which a merge leaves alone.
  Both claim something only while the delivery task is in time (`CUp` is true of any turn
  otherwise): overtaken, or late on the bus, the task may never bring the completion.

**Model-checked only**: liveness (`CommandAnswered`, `StreamDrained`, `Reconnects`,
`AnsweredOnGoodConnection`) and anything with ENABLED, which the installed provers do not
do. Every safety and action property that a passing run checks is stated by a theorem.

## 5. Plan

Done: the pipeline and the abstract log it implements; the dispatch of a turn and the way
back; the transport; the client's copy of a thread. To come, most important first:

1. The replay limit of a boot, and the lifecycle of a turn across `EventPipeline` and
   `TurnDispatch` (a late completion of a cancelled turn).
2. **`Workflow`** (DAG readiness, retry, cancel) and **`AutomationScheduler`** (claim, lease,
   misfire), each a small module of its own with a termination property.
3. **`TerminalOutput`** (acknowledged buffer).
4. The Codex adapter beside Claude's; the remaining commands of the Decider that touch
   more than one view (handoff, fork, rollback); pairing in auth, the two-backend memory
   write.

## 6. Not modelled

- *The views of the client* (`components/`, most of `routes/`, hooks, styles): most of the
  repository's TypeScript. They render the store and forward what the user does; there is
  no protocol in them whose interleavings a model could tell apart, and a model of their
  markup would only restate it. The TypeScript that does keep a protocol, the transport,
  the push adapter, the event router and the thread part of the store, is modelled. This
  is why only a small share of the TypeScript lines appears in the map.
- *Composer drafts, settings, navigation*: one user editing local storage, nothing
  concurrent.
- *Provider wire protocols, git, HTTP handlers, the desktop shell*: I/O.
- *InterruptTurn*: rejected by the decider in every status a turn can have. *The queue of
  parked turns, the idle sweep, the persistence of resume cursors, the conditional
  dispatch of approvals by session status*: no production path runs them, or none that
  reaches the state they act on.
- *Workflow engine, automation, terminal, auth, memory*: components beside the path of a
  turn, see the plan.
