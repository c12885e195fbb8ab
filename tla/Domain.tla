------------------------------- MODULE Domain -------------------------------
(***************************************************************************)
(* The vocabulary of syncode-core: the identifiers of the aggregates, the  *)
(* commands a client sends, the domain events the engine persists and the  *)
(* views of the in-memory read model.                                      *)
(*                                                                         *)
(* Payloads that no decision and no projection looks at (titles, prompts,  *)
(* timestamps, offsets, colours) are left out.  A piece of streamed text   *)
(* is represented by the number of provider tokens it holds.               *)
(***************************************************************************)
EXTENDS Integers, Sequences

CONSTANTS
    Projects,       \* project ids
    Threads,        \* thread ids
    Turns,          \* turn ids
    Messages,       \* ids of user messages
    Markers,        \* ids of text markers
    Nil             \* an absent id, view or argument

(* The five kinds of id are distinct UUIDs, and none of them is Nil. *)
ASSUME IdAssumption ==
    /\ Nil \notin Projects \cup Threads \cup Turns \cup Messages \cup Markers
    /\ Projects \cap (Threads \cup Turns \cup Messages) = {}
    /\ Threads \cap (Turns \cup Messages) = {}
    /\ Turns \cap Messages = {}

(* Every id that names an event stream. *)
Ids == Projects \cup Threads \cup Turns \cup Messages

ThreadStatus == {"active", "paused", "completed", "cancelled", "archived"}
TurnStatus == {"pending", "running", "completed", "error", "cancelled", "interrupted"}

-----------------------------------------------------------------------------
(***************************************************************************)
(* Domain events.  `id` is what DomainEvent::aggregate_id returns (Nil for *)
(* an activity: its id is fresh and no view is keyed by it), `of` is the   *)
(* parent the event names, `arg` and `n` are the only payloads that count. *)
(***************************************************************************)
ProjectEventTypes == {"ProjectCreated", "ProjectDeleted"}
ThreadEventTypes == {"ThreadArchived", "ThreadUnarchived", "ThreadDeleted"}
PinEventTypes == {"PinnedMessageAdded", "PinnedMessageRemoved"}
MarkerEventTypes == {"MarkerAdded", "MarkerRemoved"}
TurnEventTypes == {"TurnCompleted", "TurnFailed", "TurnCancelled", "TurnInterrupted"}

Event ==
         [type : ProjectEventTypes, id : Projects, of : {Nil}, arg : {Nil}, n : {0}]
    \cup [type : {"ThreadCreated"}, id : Threads, of : Projects, arg : {Nil}, n : {0}]
    \cup [type : {"ThreadStatusChanged"}, id : Threads, of : {Nil}, arg : ThreadStatus, n : {0}]
    \cup [type : ThreadEventTypes, id : Threads, of : {Nil}, arg : {Nil}, n : {0}]
    \cup [type : PinEventTypes, id : Threads, of : {Nil}, arg : Messages, n : {0}]
    \cup [type : MarkerEventTypes, id : Threads, of : {Nil}, arg : Markers, n : {0}]
    \cup [type : {"ThreadRevertCompleted"}, id : Threads, of : {Nil}, arg : {Nil}, n : Nat]
    \cup [type : {"TurnStarted"}, id : Turns, of : Threads, arg : {Nil}, n : Nat]
    \cup [type : TurnEventTypes, id : Turns, of : {Nil}, arg : {Nil}, n : {0}]
    \cup [type : {"MessageAdded"}, id : Messages, of : Turns, arg : {Nil}, n : {1}]
    \cup [type : {"MessageDeltaAppended"}, id : Turns, of : Turns, arg : {Nil}, n : Nat]
    \cup [type : {"ActivityLogged"}, id : {Nil}, of : Turns, arg : {Nil}, n : {0}]

EventRecord(type, id, of, arg, n) ==
    [type |-> type, id |-> id, of |-> of, arg |-> arg, n |-> n]

ThreadStatusChanged(th, status) == EventRecord("ThreadStatusChanged", th, Nil, status, 0)
TurnStarted(t, th, sequence) == EventRecord("TurnStarted", t, th, Nil, sequence)
MessageAdded(m, t) == EventRecord("MessageAdded", m, t, Nil, 1)
MessageDeltaAppended(t, tokens) == EventRecord("MessageDeltaAppended", t, t, Nil, tokens)
ActivityLogged(t) == EventRecord("ActivityLogged", Nil, t, Nil, 0)

-----------------------------------------------------------------------------
(***************************************************************************)
(* Commands have the shape of events: the aggregate the command names, its *)
(* argument, and a number.                                                 *)
(***************************************************************************)
CommandRecord(type, id, arg, n) == [type |-> type, id |-> id, arg |-> arg, n |-> n]

ThreadCommands ==
    { "PauseThread", "ResumeThread", "CompleteThread", "CancelThread", "ArchiveThread",
      "UnarchiveThread", "DeleteThread" }
PinCommands == {"AddPinnedMessage", "RemovePinnedMessage"}
MarkerCommands == {"AddMarker", "RemoveMarker"}
TurnCommands == {"CompleteTurn", "FailTurn", "CancelTurn", "InterruptTurn"}

(* CreateThread names its project, and its thread if the client chose the  *)
(* id; n is a revert's turn count or a new turn's sequence number.         *)
Command ==
         [type : {"CreateProject"}, id : {Nil}, arg : {Nil}, n : {0}]
    \cup [type : {"DeleteProject"}, id : Projects, arg : {Nil}, n : {0}]
    \cup [type : {"CreateThread"}, id : Projects, arg : Threads \cup {Nil}, n : {0}]
    \cup [type : ThreadCommands, id : Threads, arg : {Nil}, n : {0}]
    \cup [type : PinCommands, id : Threads, arg : Messages, n : {0}]
    \cup [type : MarkerCommands, id : Threads, arg : Markers, n : {0}]
    \cup [type : {"CompleteRevert", "StartTurn"}, id : Threads, arg : {Nil}, n : Nat]
    \cup [type : TurnCommands \cup {"AddMessage"}, id : Turns, arg : {Nil}, n : {0}]

-----------------------------------------------------------------------------
(***************************************************************************)
(* The read model (ReadModelStore): one keyed map per kind of view.  The   *)
(* map of messages is keyed by user message ids and, for the streamed      *)
(* answer of a turn, by the turn's own id.                                 *)
(***************************************************************************)
ProjectView == [thread_count : Nat]
ThreadView == [project : Projects \cup {Nil}, status : ThreadStatus, turn_count : Nat]
TurnView == [thread : Threads, sequence : Nat, status : TurnStatus]
MessageView == [turn : Turns, content : Nat, is_streaming : BOOLEAN]

MessageKeys == Messages \cup Turns

(* An absent view (None) is not a view. *)
ASSUME ViewAssumption == Nil \notin ThreadView

ReadModelStore ==
    [projects : [Projects -> ProjectView \cup {Nil}],
     threads : [Threads -> ThreadView \cup {Nil}],
     turns : [Turns -> TurnView \cup {Nil}],
     messages : [MessageKeys -> MessageView \cup {Nil}],
     pinned_messages : SUBSET (Threads \X Messages),
     markers : SUBSET (Threads \X Markers),
     activities : [Turns -> Nat]]

(* ReadModelStore::new: the read model of a process that has replayed nothing. *)
EmptyStore ==
    [projects |-> [p \in Projects |-> Nil],
     threads |-> [th \in Threads |-> Nil],
     turns |-> [t \in Turns |-> Nil],
     messages |-> [m \in MessageKeys |-> Nil],
     pinned_messages |-> {},
     markers |-> {},
     activities |-> [t \in Turns |-> 0]]
=============================================================================
