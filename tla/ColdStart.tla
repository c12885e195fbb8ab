------------------------------ MODULE ColdStart ------------------------------
(***************************************************************************)
(* How the read model is rebuilt from the event store: snapshots of single *)
(* views, the prefix of each stream a snapshot is taken to cover, and the  *)
(* replay of the rest (Orchestrator::replay_read_model).                   *)
(*                                                                         *)
(* The table domain_events is a sequence of rows in insertion order; a     *)
(* row's `sequence` is its position in its own stream.                     *)
(***************************************************************************)
EXTENDS Projector, FiniteSets

CONSTANTS
    SNAPSHOT_INTERVAL,      \* a snapshot at every multiple of this version
    REPLAY_LIMIT            \* rows a replay reads at most

ASSUME ReplayAssumption ==
    SNAPSHOT_INTERVAL \in Nat /\ REPLAY_LIMIT \in Nat

Row == [stream : Ids, sequence : Nat \ {0}, event : Event]

(* A stored snapshot: the kind of view, the view, and the stream version. *)
Snapshot ==
         [kind : {"project"}, view : ProjectView, version : Nat]
    \cup [kind : {"thread"}, view : ThreadView, version : Nat]
    \cup [kind : {"turn"}, view : TurnView, version : Nat]
    \cup [kind : {"message"}, view : MessageView, version : Nat]

NoSnapshots == [id \in Ids |-> Nil]

ShouldSnapshot(version) ==
    SNAPSHOT_INTERVAL > 0 /\ version > 0 /\ version % SNAPSHOT_INTERVAL = 0

(* view_for_aggregate: the first keyed map that holds the id. *)
ViewForAggregate(store, id, version) ==
    LET Of(kind, view) == [kind |-> kind, view |-> view, version |-> version]
    IN  CASE id \in Projects /\ store.projects[id] # Nil -> Of("project", store.projects[id])
          [] id \in Threads /\ store.threads[id] # Nil -> Of("thread", store.threads[id])
          [] id \in Turns /\ store.turns[id] # Nil -> Of("turn", store.turns[id])
          [] id \in MessageKeys /\ store.messages[id] # Nil
               /\ (id \in Turns => store.turns[id] = Nil) -> Of("message", store.messages[id])
          [] OTHER -> Nil

-----------------------------------------------------------------------------
(* One map of the store with the snapshots of its kind put over it. *)
SeedMap(map, snaps, kind) ==
    [id \in DOMAIN map |->
       IF snaps[id] # Nil /\ snaps[id].kind = kind THEN snaps[id].view ELSE map[id]]

SeedFromSnapshots(store, snaps) ==
    [store EXCEPT !.projects = SeedMap(@, snaps, "project"),
                  !.threads = SeedMap(@, snaps, "thread"),
                  !.turns = SeedMap(@, snaps, "turn"),
                  !.messages = SeedMap(@, snaps, "message")]

(* Mutant: the replay skips one event too many. *)
CoveredTooFar(rows, i, snaps) ==
    LET id == rows[i].event.id
    IN  /\ id # Nil
        /\ snaps[id] # Nil
        /\ Cardinality({j \in 1..i : rows[j].event.id = id}) <= snaps[id].version + 1

(* The skip counter has not run out when the replay reaches row i.  It is  *)
(* the counter of the id the row's EVENT carries, which need not be the    *)
(* row's stream.                                                           *)
Covered(rows, i, snaps) ==
    LET id == rows[i].event.id
    IN  /\ id # Nil
        /\ snaps[id] # Nil
        /\ Cardinality({j \in 1..i : rows[j].event.id = id}) <= snaps[id].version

(* replay_read_model on the rows already read: seed, then project the tail. *)
Replay(store, snaps, rows) ==
    LET after[i \in 0..Len(rows)] ==
          IF i = 0 THEN SeedFromSnapshots(store, snaps)
          ELSE IF Covered(rows, i, snaps) THEN after[i - 1]
          ELSE Project(after[i - 1], rows[i].event)
    IN  after[Len(rows)]

(* replay_all_events(None, REPLAY_LIMIT): the oldest rows, by insertion order. *)
ReadRows(log) ==
    SubSeq(log, 1, IF Len(log) < REPLAY_LIMIT THEN Len(log) ELSE REPLAY_LIMIT)

(* What a plain full replay of a log projects: the reference for the rest. *)
FullReplay(log) == Replay(EmptyStore, NoSnapshots, log)
=============================================================================
