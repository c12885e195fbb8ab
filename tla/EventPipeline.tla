---------------------------- MODULE EventPipeline ----------------------------
(***************************************************************************)
(* The Orchestrator: tasks that append domain events to the SQLite event   *)
(* store and project them to the shared in-memory read model.              *)
(*                                                                         *)
(*   - a worker runs handle_command: load the state from the read model,   *)
(*     decide, read the stream's version, append, project, perhaps save a  *)
(*     snapshot, publish; a version conflict starts it again;              *)
(*   - a consumer runs consume_provider_stream for one turn: it batches    *)
(*     tokens and appends what the provider reports, without deciding and  *)
(*     without retrying;                                                   *)
(*   - an operator may run orchestration.repairState beside them;          *)
(*   - the process may crash, which loses everything but the database.     *)
(*                                                                         *)
(* Every `.await` at which another task can run ends a step.               *)
(***************************************************************************)
EXTENDS Decider, ColdStart, Ingestion

CONSTANTS
    Workers,                    \* tasks that run handle_command
    Consumers,                  \* tasks that run consume_provider_stream
    TurnOf,                     \* the turn of each consumer
    Script,                     \* what each consumer's provider emits, in order
    Commands,                   \* the commands clients send through each worker
    Existing,                   \* rows in the database when the process boots
    MAX_CONCURRENCY_ATTEMPTS,   \* decide+append attempts of one command
    TOKEN_BATCH_MAX_COUNT,      \* tokens that force a flush
    BootMayFail,                \* whether the database may fail the replay of a boot
    MaxCommands,                \* bound: commands sent in one behaviour
    MaxRestarts,                \* bound: crashes
    MaxRepairs                  \* bound: runs of repairState

Tasks == Workers \cup Consumers

(* The sequence numbers of one stream in a log, and the last of them: the  *)
(* SELECT COALESCE(MAX(sequence), 0) of the event store.                   *)
Sequences(rows, id) == {rows[i].sequence : i \in {j \in DOMAIN rows : rows[j].stream = id}}
VersionIn(rows, id) ==
    IF Sequences(rows, id) = {} THEN 0
    ELSE CHOOSE v \in Sequences(rows, id) : \A s \in Sequences(rows, id) : s <= v

(* Each stream of a log is numbered 1, 2, 3, ... in insertion order. *)
Contiguous(rows) ==
    \A id \in Ids :
      /\ \E n \in 0..Len(rows) : Sequences(rows, id) = 1..n
      /\ \A i, j \in DOMAIN rows :
           i < j /\ rows[i].stream = id /\ rows[j].stream = id
             => rows[i].sequence < rows[j].sequence

ASSUME PipelineAssumption ==
    /\ Workers \cap Consumers = {}
    /\ TurnOf \in [Consumers -> Turns]
    /\ Script \in [Consumers -> Seq(ProviderEventTypes)]
    /\ Commands \in [Workers -> SUBSET Command]
    /\ Existing \in Seq(Row)
    /\ Contiguous(Existing)
    /\ MAX_CONCURRENCY_ATTEMPTS \in Nat \ {0}
    /\ TOKEN_BATCH_MAX_COUNT \in Nat \ {0}
    /\ BootMayFail \in BOOLEAN
    /\ {MaxCommands, MaxRestarts, MaxRepairs} \subseteq Nat

VARIABLES
    log,        \* the rows of domain_events, in insertion order
    snapshots,  \* the snapshots table: the latest snapshot of each aggregate
    store,      \* the in-memory read model
    feed,       \* envelopes published to clients, in order
    pc,         \* where each task stands
    cmd,        \* the command each worker is running
    evs,        \* the events a task has decided or ingested
    ver,        \* the version it read, and will append at
    tx,         \* its SQLite transaction: "none", "fresh" or "stale"
    attempts,   \* conflicts a worker has met on this command
    captured,   \* the snapshot a worker is about to save
    reply,      \* the answer to a worker's last command
    inbox,      \* what a consumer's stream still holds
    buf,        \* tokens a consumer has buffered
    dropped,    \* tokens a consumer has given up
    repair,     \* the state of the repairState handler
    issued, restarts, repairs   \* counters of the bounds

durable == <<log, snapshots>>
consumerVars == <<inbox, buf, dropped>>
bounds == <<issued, restarts, repairs>>
vars == <<log, snapshots, store, feed, pc, cmd, evs, ver, tx, attempts, captured, reply,
          inbox, buf, dropped, repair, issued, restarts, repairs>>

WorkerPc == {"idle", "decide", "version", "begin", "commit", "project", "snapshot", "publish"}
ConsumerPc == {"stream", "version", "begin", "commit", "project", "publish", "stopped"}
Replies == {"none", "ok", "rejected", "conflict", "internal", "lost"}
RepairPc == {"idle", "clear", "snapshots", "rows", "project", "restore"}

NoRepair == [pc |-> "idle", saved |-> Nil, snaps |-> NoSnapshots, rows |-> <<>>]

(* Mutant: a boot that starts from an empty read model. *)
BootEmpty(rows, snaps) == EmptyStore

(* replay_read_model, run before the server accepts a command. *)
Boot(rows, snaps) == Replay(EmptyStore, snaps, ReadRows(rows))

Init ==
    /\ log = Existing
    /\ snapshots = NoSnapshots
    /\ store = Boot(Existing, NoSnapshots)
    /\ feed = <<>>
    /\ pc = [t \in Tasks |-> IF t \in Workers THEN "idle" ELSE "stream"]
    /\ cmd = [w \in Workers |-> Nil]
    /\ evs = [t \in Tasks |-> <<>>]
    /\ ver = [t \in Tasks |-> 0]
    /\ tx = [t \in Tasks |-> "none"]
    /\ attempts = [w \in Workers |-> 0]
    /\ captured = [w \in Workers |-> Nil]
    /\ reply = [w \in Workers |-> "none"]
    /\ inbox = Script
    /\ buf = [c \in Consumers |-> 0]
    /\ dropped = [c \in Consumers |-> 0]
    /\ repair = NoRepair
    /\ issued = 0 /\ restarts = 0 /\ repairs = 0

-----------------------------------------------------------------------------
(* The stream a task appends to: a command's is that of its first event,   *)
(* everything a provider reports goes to the turn's.                       *)
StreamOf(t) == IF t \in Workers THEN evs[t][1].id ELSE TurnOf[t]

CurrentVersion(id) == VersionIn(log, id)

(* AppendedOutcome.new_version, and a mutant that is one ahead. *)
VersionAfterNext(t) == ver[t] + Len(evs[t]) + 1
NewVersion(t) == ver[t] + Len(evs[t])

(* The rows a task's events make when they are appended after version v. *)
RowsAt(t, v) ==
    [k \in 1..Len(evs[t]) |->
       [stream |-> StreamOf(t), sequence |-> v + k, event |-> evs[t][k]]]

UsedIds == {log[i].event.id : i \in DOMAIN log}
             \cup UNION {{evs[t][k].id : k \in DOMAIN evs[t]} : t \in Tasks}

(* A commit by t leaves every transaction that has already read behind: in *)
(* WAL mode SQLite will refuse to let it write.                            *)
Overtake(t) ==
    tx' = [u \in Tasks |-> IF u = t THEN "none"
                           ELSE IF tx[u] = "none" THEN "none" ELSE "stale"]

-----------------------------------------------------------------------------
(* handle_command *)

ReceiveCommand(w) ==
    /\ pc[w] = "idle"
    /\ issued < MaxCommands
    /\ issued' = issued + 1
    /\ \E c \in Commands[w] : cmd' = [cmd EXCEPT ![w] = c]
    /\ attempts' = [attempts EXCEPT ![w] = 0]
    /\ reply' = [reply EXCEPT ![w] = "none"]
    /\ pc' = [pc EXCEPT ![w] = "decide"]
    /\ UNCHANGED <<durable, store, feed, evs, ver, tx, captured, consumerVars, repair,
                   restarts, repairs>>

Answer(w, what) ==
    /\ pc' = [pc EXCEPT ![w] = "idle"]
    /\ reply' = [reply EXCEPT ![w] = what]

(* load_aggregate_state and Decider::decide, under one read lock. *)
DecideCommand(w) ==
    /\ pc[w] = "decide"
    /\ LET fresh == Ids \ UsedIds IN
         \/ /\ ~Accepts(cmd[w], store)
            /\ Answer(w, "rejected")
            /\ UNCHANGED evs
         \/ /\ Accepts(cmd[w], store)
            /\ CanAllocate(cmd[w], fresh)
            /\ evs' = [evs EXCEPT ![w] = Decide(cmd[w], fresh)]
            /\ pc' = [pc EXCEPT ![w] = "version"]
            /\ UNCHANGED reply
    /\ UNCHANGED <<durable, store, feed, cmd, ver, tx, attempts, captured, consumerVars,
                   repair, bounds>>

(* current_version(..).await.unwrap_or(0): a failed read counts as 0. *)
ReadVersion(t) ==
    /\ pc[t] = "version"
    /\ \E v \in {CurrentVersion(StreamOf(t)), 0} : ver' = [ver EXCEPT ![t] = v]
    /\ pc' = [pc EXCEPT ![t] = "begin"]
    /\ UNCHANGED <<durable, store, feed, cmd, evs, tx, attempts, captured, reply,
                   consumerVars, repair, bounds>>

(* The first half of append_domain_events: BEGIN, then compare the version *)
(* the transaction sees with the expected one.                             *)
BeginAppend(t) ==
    /\ pc[t] = "begin"
    /\ CurrentVersion(StreamOf(t)) = ver[t]
    /\ tx' = [tx EXCEPT ![t] = "fresh"]
    /\ pc' = [pc EXCEPT ![t] = "commit"]
    /\ UNCHANGED <<durable, store, feed, cmd, evs, ver, attempts, captured, reply,
                   consumerVars, repair, bounds>>

(* Mutant: an INSERT that does not mind a stale snapshot. *)
CommitUnchecked(t) ==
    /\ pc[t] = "commit"
    /\ log' = log \o RowsAt(t, ver[t])
    /\ Overtake(t)
    /\ pc' = [pc EXCEPT ![t] = "project"]
    /\ UNCHANGED <<snapshots, store, feed, cmd, evs, ver, attempts, captured, reply,
                   consumerVars, repair, bounds>>

(* Mutant: the events are stored and published but never projected. *)
CommitSkipsProject(t) ==
    /\ pc[t] = "commit"
    /\ tx[t] = "fresh"
    /\ log' = log \o RowsAt(t, ver[t])
    /\ Overtake(t)
    /\ pc' = [pc EXCEPT ![t] = "publish"]
    /\ UNCHANGED <<snapshots, store, feed, cmd, evs, ver, attempts, captured, reply,
                   consumerVars, repair, bounds>>

(* The second half: INSERT the rows and COMMIT. *)
CommitAppend(t) ==
    /\ pc[t] = "commit"
    /\ tx[t] = "fresh"
    /\ log' = log \o RowsAt(t, ver[t])
    /\ Overtake(t)
    /\ pc' = [pc EXCEPT ![t] = "project"]
    /\ UNCHANGED <<snapshots, store, feed, cmd, evs, ver, attempts, captured, reply,
                   consumerVars, repair, bounds>>

(* Mutant: a retry loop that never counts its conflicts. *)
RetryForEver(w) ==
    /\ pc' = [pc EXCEPT ![w] = "decide"]
    /\ UNCHANGED <<attempts, reply>>

(* Mutant: one retry more than there are attempts. *)
RetryOnceTooOften(w) ==
    /\ attempts' = [attempts EXCEPT ![w] = @ + 1]
    /\ \/ /\ attempts[w] < MAX_CONCURRENCY_ATTEMPTS
          /\ pc' = [pc EXCEPT ![w] = "decide"]
          /\ UNCHANGED reply
       \/ /\ attempts[w] >= MAX_CONCURRENCY_ATTEMPTS
          /\ Answer(w, "conflict")

(* ConcurrencyConflict: decide again, until the attempts are used up. *)
RetryOrGiveUp(w) ==
    /\ attempts' = [attempts EXCEPT ![w] = @ + 1]
    /\ \/ /\ attempts[w] + 1 < MAX_CONCURRENCY_ATTEMPTS
          /\ pc' = [pc EXCEPT ![w] = "decide"]
          /\ UNCHANGED reply
       \/ /\ attempts[w] + 1 >= MAX_CONCURRENCY_ATTEMPTS
          /\ Answer(w, "conflict")

AppendConflict(w) ==
    /\ pc[w] = "begin"
    /\ CurrentVersion(StreamOf(w)) # ver[w]
    /\ RetryOrGiveUp(w)
    /\ evs' = [evs EXCEPT ![w] = <<>>]
    /\ UNCHANGED <<durable, store, feed, cmd, ver, tx, captured, consumerVars, repair, bounds>>

(* Mutant: a failed INSERT that is only logged. *)
AppendBusyIgnored(w) ==
    /\ pc[w] = "commit"
    /\ tx[w] = "stale"
    /\ tx' = [tx EXCEPT ![w] = "none"]
    /\ pc' = [pc EXCEPT ![w] = "project"]
    /\ UNCHANGED <<durable, store, feed, cmd, evs, ver, attempts, captured, reply,
                   consumerVars, repair, bounds>>

(* SQLITE_BUSY on the INSERT of an overtaken transaction: PortError::Internal, *)
(* which handle_command does not retry.                                      *)
AppendBusy(w) ==
    /\ pc[w] = "commit"
    /\ tx[w] = "stale"
    /\ tx' = [tx EXCEPT ![w] = "none"]
    /\ evs' = [evs EXCEPT ![w] = <<>>]
    /\ Answer(w, "internal")
    /\ UNCHANGED <<durable, store, feed, cmd, ver, attempts, captured, consumerVars,
                   repair, bounds>>

(* Projector::project_many under the write lock; a worker whose append     *)
(* reached a multiple of the interval captures the view it has just made.  *)
ProjectEvents(t) ==
    /\ pc[t] = "project"
    /\ store' = ProjectMany(store, evs[t])
    /\ LET snap == IF t \in Workers /\ ShouldSnapshot(NewVersion(t))
                   THEN ViewForAggregate(store', StreamOf(t), NewVersion(t)) ELSE Nil IN
         /\ captured' = IF t \in Workers THEN [captured EXCEPT ![t] = snap] ELSE captured
         /\ pc' = [pc EXCEPT ![t] = IF snap = Nil THEN "publish" ELSE "snapshot"]
    /\ UNCHANGED <<durable, feed, cmd, evs, ver, tx, attempts, reply, consumerVars,
                   repair, bounds>>

(* Mutant: a failed save sends the command around the retry loop. *)
SaveSnapshotOrRetry(w) ==
    /\ pc[w] = "snapshot"
    /\ \/ /\ snapshots' = [snapshots EXCEPT ![StreamOf(w)] = captured[w]]
          /\ Overtake(w)
          /\ pc' = [pc EXCEPT ![w] = "publish"]
       \/ /\ pc' = [pc EXCEPT ![w] = "decide"]
          /\ UNCHANGED <<snapshots, tx>>
    /\ captured' = [captured EXCEPT ![w] = Nil]
    /\ UNCHANGED <<log, store, feed, cmd, evs, ver, attempts, reply, consumerVars, repair,
                   bounds>>

(* save_snapshot, after the lock is released: an unconditional upsert whose *)
(* failure is only logged.                                                 *)
SaveSnapshot(w) ==
    /\ pc[w] = "snapshot"
    /\ \/ /\ snapshots' = [snapshots EXCEPT ![StreamOf(w)] = captured[w]]
          /\ Overtake(w)
       \/ UNCHANGED <<snapshots, tx>>
    /\ captured' = [captured EXCEPT ![w] = Nil]
    /\ pc' = [pc EXCEPT ![w] = "publish"]
    /\ UNCHANGED <<log, store, feed, cmd, evs, ver, attempts, reply, consumerVars, repair,
                   bounds>>

(* The commands whose events the reactor passes on to a provider, and what *)
(* such a command may answer: the reactor's failure is the command's, though *)
(* its events are stored and published.                                    *)
NeedsProviderInteraction ==
    {"StartTurn", "FailTurn", "CancelTurn", "InterruptTurn", "PauseThread", "CancelThread"}
Outcomes(command) ==
    {"ok"} \cup IF command.type \in NeedsProviderInteraction THEN {"internal"} ELSE {}

(* Mutant: only command events are pushed. *)
PublishCommandsOnly(t) ==
    /\ pc[t] = "publish"
    /\ feed' = IF t \in Workers THEN feed \o RowsAt(t, ver[t]) ELSE feed
    /\ evs' = [evs EXCEPT ![t] = <<>>]
    /\ IF t \in Workers THEN \E what \in Outcomes(cmd[t]) : Answer(t, what)
       ELSE pc' = [pc EXCEPT ![t] = "stream"] /\ UNCHANGED reply
    /\ UNCHANGED <<durable, store, cmd, ver, tx, attempts, captured, consumerVars, repair,
                   bounds>>

(* publish_events, then the command is answered or the stream read on. *)
Publish(t) ==
    /\ pc[t] = "publish"
    /\ feed' = feed \o RowsAt(t, ver[t])
    /\ evs' = [evs EXCEPT ![t] = <<>>]
    /\ IF t \in Workers THEN \E what \in Outcomes(cmd[t]) : Answer(t, what)
       ELSE pc' = [pc EXCEPT ![t] = "stream"] /\ UNCHANGED reply
    /\ UNCHANGED <<durable, store, cmd, ver, tx, attempts, captured, consumerVars, repair,
                   bounds>>

-----------------------------------------------------------------------------
(* consume_provider_stream *)

(* Hand the ingested events to append_and_project. *)
Submit(c, events) ==
    /\ evs' = [evs EXCEPT ![c] = events]
    /\ pc' = [pc EXCEPT ![c] = IF events = <<>> THEN "stream" ELSE "version"]

(* A token goes to the buffer; a full buffer is flushed at once. *)
TakeToken(c) ==
    /\ pc[c] = "stream"
    /\ inbox[c] # <<>>
    /\ Head(inbox[c]) = "Token"
    /\ inbox' = [inbox EXCEPT ![c] = Tail(@)]
    /\ \/ /\ buf[c] + 1 < TOKEN_BATCH_MAX_COUNT
          /\ buf' = [buf EXCEPT ![c] = @ + 1]
          /\ UNCHANGED <<evs, pc>>
       \/ /\ buf[c] + 1 >= TOKEN_BATCH_MAX_COUNT
          /\ buf' = [buf EXCEPT ![c] = 0]
          /\ Submit(c, Ingest("Token", TurnOf[c], buf[c] + 1))
    /\ UNCHANGED <<durable, store, feed, cmd, ver, tx, attempts, captured, reply, dropped,
                   repair, bounds>>

(* Mutant: the flushed tokens stay in the buffer. *)
FlushKeepsTokens(c) ==
    /\ pc[c] = "stream"
    /\ buf[c] > 0
    /\ Submit(c, Ingest("Token", TurnOf[c], buf[c]))
    /\ UNCHANGED <<durable, store, feed, cmd, ver, tx, attempts, captured, reply,
                   consumerVars, repair, bounds>>

(* Mutant: no timer and no flush after the loop. *)
FlushBeforeEvent(c) ==
    /\ pc[c] = "stream"
    /\ buf[c] > 0 /\ inbox[c] # <<>>
    /\ buf' = [buf EXCEPT ![c] = 0]
    /\ Submit(c, Ingest("Token", TurnOf[c], buf[c]))
    /\ UNCHANGED <<durable, store, feed, cmd, ver, tx, attempts, captured, reply, inbox,
                   dropped, repair, bounds>>

(* The flush timer fires, a non-token event is next, or the stream ended:  *)
(* the buffered tokens become one delta.                                   *)
FlushTokens(c) ==
    /\ pc[c] = "stream"
    /\ buf[c] > 0
    /\ buf' = [buf EXCEPT ![c] = 0]
    /\ Submit(c, Ingest("Token", TurnOf[c], buf[c]))
    /\ UNCHANGED <<durable, store, feed, cmd, ver, tx, attempts, captured, reply, inbox,
                   dropped, repair, bounds>>

(* Mutant: a tool call overtakes the buffered tokens. *)
TakeEventEarly(c) ==
    /\ pc[c] = "stream"
    /\ inbox[c] # <<>>
    /\ Head(inbox[c]) # "Token"
    /\ inbox' = [inbox EXCEPT ![c] = Tail(@)]
    /\ Submit(c, Ingest(Head(inbox[c]), TurnOf[c], 0))
    /\ UNCHANGED <<durable, store, feed, cmd, ver, tx, attempts, captured, reply, buf,
                   dropped, repair, bounds>>

(* Any other event waits until the buffer is empty. *)
TakeEvent(c) ==
    /\ pc[c] = "stream"
    /\ inbox[c] # <<>>
    /\ Head(inbox[c]) # "Token"
    /\ buf[c] = 0
    /\ inbox' = [inbox EXCEPT ![c] = Tail(@)]
    /\ Submit(c, Ingest(Head(inbox[c]), TurnOf[c], 0))
    /\ UNCHANGED <<durable, store, feed, cmd, ver, tx, attempts, captured, reply, buf,
                   dropped, repair, bounds>>

TokensIn(events) == Cardinality({i \in DOMAIN events : events[i] = "Token"})

(* The broadcast receiver lagged or its sender went: the stream ends       *)
(* early. (An error item would end the consumer without a last flush; no   *)
(* adapter of the repository's puts one on its stream.)                    *)
StreamEnds(c) ==
    /\ pc[c] = "stream"
    /\ inbox[c] # <<>>
    /\ inbox' = [inbox EXCEPT ![c] = <<>>]
    /\ dropped' = [dropped EXCEPT ![c] = @ + TokensIn(inbox[c])]
    /\ UNCHANGED <<durable, store, feed, pc, cmd, evs, ver, tx, attempts, captured, reply,
                   buf, repair, bounds>>

(* A failed append: a batch of tokens is dropped, anything else stops the  *)
(* consumer for good.                                                      *)
ConsumerAppendFails(c) ==
    /\ \/ pc[c] = "begin" /\ CurrentVersion(StreamOf(c)) # ver[c]
       \/ pc[c] = "commit" /\ tx[c] = "stale"
    /\ tx' = [tx EXCEPT ![c] = "none"]
    /\ evs' = [evs EXCEPT ![c] = <<>>]
    /\ \/ /\ evs[c][1].type = "MessageDeltaAppended"
          /\ dropped' = [dropped EXCEPT ![c] = @ + evs[c][1].n]
          /\ pc' = [pc EXCEPT ![c] = "stream"]
       \/ /\ evs[c][1].type # "MessageDeltaAppended"
          /\ pc' = [pc EXCEPT ![c] = "stopped"]
          /\ UNCHANGED dropped
    /\ UNCHANGED <<durable, store, feed, cmd, ver, attempts, captured, reply, inbox, buf,
                   repair, bounds>>

-----------------------------------------------------------------------------
(* orchestration.repairState, with and without `repair` *)

UNCHANGEDTasks == UNCHANGED <<durable, feed, pc, cmd, evs, ver, tx, attempts, captured,
                              reply, consumerVars>>

(* A dry run clones the store first, under a read lock of its own. *)
RepairBegin ==
    /\ repair.pc = "idle"
    /\ repairs < MaxRepairs
    /\ repairs' = repairs + 1
    /\ \E saved \in {store, Nil} : repair' = [NoRepair EXCEPT !.pc = "clear", !.saved = saved]
    /\ UNCHANGEDTasks /\ UNCHANGED <<store, issued, restarts>>

RepairClear ==
    /\ repair.pc = "clear"
    /\ store' = EmptyStore
    /\ repair' = [repair EXCEPT !.pc = "snapshots"]
    /\ UNCHANGEDTasks /\ UNCHANGED bounds

(* replay_read_model reads the database before it takes the write lock. *)
RepairLoadSnapshots ==
    /\ repair.pc = "snapshots"
    /\ repair' = [repair EXCEPT !.pc = "rows", !.snaps = snapshots]
    /\ UNCHANGEDTasks /\ UNCHANGED <<store, bounds>>

RepairReadRows ==
    /\ repair.pc = "rows"
    /\ repair' = [repair EXCEPT !.pc = "project", !.rows = ReadRows(log)]
    /\ UNCHANGEDTasks /\ UNCHANGED <<store, bounds>>

RepairReplay ==
    /\ repair.pc = "project"
    /\ store' = Replay(store, repair.snaps, repair.rows)
    /\ repair' = IF repair.saved = Nil THEN NoRepair ELSE [repair EXCEPT !.pc = "restore"]
    /\ UNCHANGEDTasks /\ UNCHANGED bounds

(* A database read of the replay fails: a dry run still restores its clone, *)
(* a repair leaves the read model empty.                                   *)
RepairFails ==
    /\ repair.pc \in {"snapshots", "rows"}
    /\ repair' = IF repair.saved = Nil THEN NoRepair ELSE [repair EXCEPT !.pc = "restore"]
    /\ UNCHANGEDTasks /\ UNCHANGED <<store, bounds>>

(* The dry run puts its clone back. *)
RepairRestore ==
    /\ repair.pc = "restore"
    /\ store' = repair.saved
    /\ repair' = NoRepair
    /\ UNCHANGEDTasks /\ UNCHANGED bounds

-----------------------------------------------------------------------------
(* The process dies and boots again: tasks and read model are gone, and    *)
(* replay_read_model runs before the server accepts a command.  A replay   *)
(* that fails is logged, and the server starts with an empty read model.   *)
Restart ==
    /\ restarts < MaxRestarts
    /\ restarts' = restarts + 1
    /\ \/ store' = Boot(log, snapshots)
       \/ BootMayFail /\ store' = EmptyStore
    /\ pc' = [t \in Tasks |-> IF t \in Workers THEN "idle" ELSE "stopped"]
    /\ reply' = [w \in Workers |-> IF pc[w] = "idle" THEN reply[w] ELSE "lost"]
    /\ evs' = [t \in Tasks |-> <<>>]
    /\ tx' = [t \in Tasks |-> "none"]
    /\ captured' = [w \in Workers |-> Nil]
    /\ repair' = NoRepair
    /\ UNCHANGED <<durable, feed, cmd, ver, attempts, consumerVars, issued, repairs>>

WorkerStep(w) ==
    \/ DecideCommand(w) \/ ReadVersion(w) \/ BeginAppend(w) \/ CommitAppend(w)
    \/ AppendConflict(w) \/ AppendBusy(w)
    \/ ProjectEvents(w) \/ SaveSnapshot(w) \/ Publish(w)

ConsumerStep(c) ==
    \/ TakeToken(c) \/ FlushTokens(c) \/ TakeEvent(c) \/ StreamEnds(c)
    \/ ReadVersion(c) \/ BeginAppend(c) \/ CommitAppend(c) \/ ConsumerAppendFails(c)
    \/ ProjectEvents(c) \/ Publish(c)

RepairStep ==
    \/ RepairBegin \/ RepairClear \/ RepairLoadSnapshots \/ RepairReadRows
    \/ RepairReplay \/ RepairFails \/ RepairRestore

Next ==
    \/ \E w \in Workers : ReceiveCommand(w) \/ WorkerStep(w)
    \/ \E c \in Consumers : ConsumerStep(c)
    \/ RepairStep
    \/ Restart

Spec == Init /\ [][Next]_vars

(* The tokio scheduler keeps polling a task that is ready; clients need not *)
(* send commands, and nothing has to crash or be repaired.                 *)
FairSpec ==
    /\ Spec
    /\ \A w \in Workers : WF_vars(WorkerStep(w))
    /\ \A c \in Consumers : WF_vars(ConsumerStep(c))

-----------------------------------------------------------------------------
(* Properties *)

(* The types of everything but the views: the rows, the tasks, the queues. *)
TasksTypeOK ==
    /\ log \in Seq(Row)
    /\ feed \in Seq(Row)
    /\ pc \in [Tasks -> WorkerPc \cup ConsumerPc]
    /\ \A w \in Workers : pc[w] \in WorkerPc
    /\ \A c \in Consumers : pc[c] \in ConsumerPc
    /\ cmd \in [Workers -> Command \cup {Nil}]
    /\ evs \in [Tasks -> Seq(Event)]
    /\ ver \in [Tasks -> Nat]
    /\ tx \in [Tasks -> {"none", "fresh", "stale"}]
    /\ attempts \in [Workers -> 0..MAX_CONCURRENCY_ATTEMPTS]
    /\ reply \in [Workers -> Replies]
    /\ inbox \in [Consumers -> Seq(ProviderEventTypes)]
    /\ buf \in [Consumers -> 0..(TOKEN_BATCH_MAX_COUNT - 1)]
    /\ dropped \in [Consumers -> Nat]

TypeOK ==
    /\ TasksTypeOK
    /\ snapshots \in [Ids -> Snapshot \cup {Nil}]
    /\ captured \in [Workers -> Snapshot \cup {Nil}]
    /\ store \in ReadModelStore
    /\ repair.pc \in RepairPc

(* However many tasks append at once, and wherever the process dies, every *)
(* stream of the event store is numbered 1, 2, 3, ... without gap or       *)
(* duplicate: what the version check and the transaction together promise. *)
StreamsContiguous == Contiguous(log)

(* What clients are told happened is what is stored, under the number it   *)
(* is stored at, and they are told of no stored event twice.               *)
FeedMatchesLog ==
    /\ \A i \in DOMAIN feed : \E j \in DOMAIN log : log[j] = feed[i]
    /\ \A i, j \in DOMAIN feed : feed[i] = feed[j] => i = j

(* A stored snapshot never claims events the log does not hold, even if    *)
(* two saves cross, a save fails or the process dies between append and    *)
(* save: a replay can only skip what is there.                             *)
SnapshotNeverAhead ==
    \A id \in Ids : snapshots[id] # Nil => snapshots[id].version <= CurrentVersion(id)

(* A command is answered "ok" only when all of its events are stored, at   *)
(* the numbers it published them under.                                    *)
AnsweredIsDurable ==
    [][\A w \in Workers : reply[w] # "ok" /\ reply'[w] = "ok" =>
         \A k \in DOMAIN evs[w] :
           /\ \E i \in DOMAIN log : log[i] = RowsAt(w, ver[w])[k]
           /\ \E i \in DOMAIN feed' : feed'[i] = RowsAt(w, ver[w])[k]]_vars

(* Every command a worker takes up is answered, however often its appends  *)
(* lose to others, unless the process dies.                                *)
CommandAnswered == \A w \in Workers : pc[w] = "decide" ~> pc[w] = "idle"

-----------------------------------------------------------------------------
(* The abstract event log *)

(* What a task has appended and not yet published. *)
Due(t) == IF pc[t] \in {"project", "snapshot", "publish"} THEN RowsAt(t, ver[t]) ELSE <<>>

Log == INSTANCE EventLog WITH
         due <- [t \in Tasks |-> Due(t)],
         busy <- [w \in Workers |-> pc[w] # "idle"]

(* The version check, the transactions and the retry loop implement the    *)
(* log that EventLog describes: however tasks interleave and wherever the  *)
(* process dies, a command takes effect once, whole and in order, before   *)
(* it is announced and answered, or not at all.                            *)
ImplementsEventLog == Log!Spec

-----------------------------------------------------------------------------
(* Provider streams *)

(* What a row adds to the streamed text of a turn, and what a log adds up to. *)
DeltaTokens(r, turn) ==
    IF r.stream = turn /\ r.event.type = "MessageDeltaAppended" THEN r.event.n ELSE 0

TokensStored(rows, turn) ==
    LET sum[k \in 0..Len(rows)] ==
          IF k = 0 THEN 0 ELSE sum[k - 1] + DeltaTokens(rows[k], turn)
    IN  sum[Len(rows)]

InFlight(c) ==
    IF pc[c] \in {"version", "begin", "commit"} THEN TokensStored(RowsAt(c, 0), TurnOf[c])
    ELSE 0

(* No token of a turn is stored twice, and until the process dies none     *)
(* vanishes: each is still to come, buffered, on its way to the store,     *)
(* stored, or lost with a failed flush or a stream that was cut short.     *)
TokensAccounted ==
    \A c \in Consumers :
      LET found == TokensStored(log, TurnOf[c]) + InFlight(c) + buf[c]
                     + TokensIn(inbox[c]) + dropped[c]
      IN  /\ found <= TokensIn(Script[c])
          /\ restarts = 0 => found = TokensIn(Script[c])

(* Tool calls in a provider's stream, and those of a turn in a log. *)
ToolCallsIn(events) == Cardinality({i \in DOMAIN events : events[i] = "ToolCall"})
IsCall(r, turn) == r.stream = turn /\ r.event.type = "ActivityLogged"
CallsStored(rows, turn) == Cardinality({i \in DOMAIN rows : IsCall(rows[i], turn)})

(* The tokens a provider emits before a tool call are stored before it,    *)
(* but for those a failed flush dropped, and those emitted after it are    *)
(* stored after it: the k-th stored is the k-th emitted.                   *)
ProviderOrder ==
    \A c \in Consumers : \A i \in DOMAIN log : IsCall(log[i], TurnOf[c]) =>
      \E p \in DOMAIN Script[c] :
        LET emitted == TokensIn(SubSeq(Script[c], 1, p))
            stored == TokensStored(SubSeq(log, 1, i), TurnOf[c])
        IN  /\ Script[c][p] = "ToolCall"
            /\ ToolCallsIn(SubSeq(Script[c], 1, p)) = CallsStored(SubSeq(log, 1, i), TurnOf[c])
            /\ stored <= emitted /\ emitted <= stored + dropped[c]

(* A consumer that is not stopped by a failure works off everything its    *)
(* provider emitted, down to the last buffered token.                      *)
StreamDrained ==
    \A c \in Consumers :
      <>(pc[c] = "stopped" \/ (pc[c] = "stream" /\ inbox[c] = <<>> /\ buf[c] = 0))

Quiet ==
    /\ \A w \in Workers : pc[w] = "idle"
    /\ \A c \in Consumers : pc[c] \in {"stream", "stopped"}
    /\ repair.pc = "idle"

(* When nothing is under way and the process has not died, a client that   *)
(* was subscribed all along has been told of every event stored since.     *)
QuietFeedComplete ==
    Quiet /\ restarts = 0 => Len(feed) = Len(log) - Len(Existing)

-----------------------------------------------------------------------------
(* The read model and the log *)

(* The last command event in the log is one a command could produce from   *)
(* the state the log before it describes: the decision was not stale.      *)
DecisionsFollowLog ==
    LET last == Len(log)
        DecidesAlone == DOMAIN NewThreadStatus \cup DOMAIN PlainEventType
        before == FullReplay(SubSeq(log, 1, last - 1))
    IN  last > Len(Existing) /\ log[last].stream \in Threads
          => \E w \in Workers : \E c \in Commands[w] :
               /\ c.type \in DecidesAlone
               /\ Accepts(c, before)
               /\ Decide(c, {}) = <<log[last].event>>

(* When nothing is under way, the read model that decisions are made from  *)
(* is what the whole log projects to, also after a crash.                  *)
QuietReadModelMatchesLog == Quiet => store = FullReplay(log)

(* The same of the threads alone, which is all that decisions about        *)
(* threads read; it does not need the counters of other views to be right. *)
QuietThreadsMatchLog == Quiet => store.threads = FullReplay(log).threads

(* A thread has no more pins and markers than the Decider's caps allow,    *)
(* also when they were counted on a read model rebuilt after a crash.      *)
AnnotationsWithinCaps ==
    \A th \in Threads :
      /\ Cardinality(PinnedMessageIds(FullReplay(log), th)) <= MAX_PINNED_MESSAGES
      /\ Cardinality(MarkerIds(FullReplay(log), th)) <= MAX_MARKERS

(* Whenever the process dies, the next one boots with the thread statuses  *)
(* of a full replay, although it replays only the tails of snapshots.      *)
ThreadStatusSurvivesRestart ==
    \A th \in Threads :
      LET booted == Boot(log, snapshots).threads[th]
          replayed == FullReplay(log).threads[th]
      IN  /\ booted = Nil <=> replayed = Nil
          /\ booted # Nil => booted.status = replayed.status

(* "so `seed + tail == full replay`": booting from snapshots rebuilds the  *)
(* read model that projecting every event would.                           *)
SeedPlusTailIsFullReplay == Boot(log, snapshots) = FullReplay(log)

(* "a dry-run drift check without mutation": when a dry run of repairState *)
(* is over and no command is under way, the threads are as the log says.   *)
DryRunMutatesNothing ==
    [][repair.pc = "restore" /\ restarts' = restarts /\ repair'.pc = "idle"
         /\ (\A w \in Workers : pc[w] = "idle")
         => store'.threads = FullReplay(log).threads]_vars
=============================================================================
