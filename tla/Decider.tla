------------------------------- MODULE Decider -------------------------------
(***************************************************************************)
(* The pure Decider of syncode-orchestration: which events a command       *)
(* produces on the aggregate state it is shown.  The state comes from      *)
(* load_aggregate_state, so a decision is a function of the read model.    *)
(***************************************************************************)
EXTENDS Domain, FiniteSets

CONSTANTS
    MAX_PINNED_MESSAGES,    \* cap on the pinned messages of a thread
    MAX_MARKERS             \* cap on the markers of a thread

ASSUME CapAssumption == MAX_PINNED_MESSAGES \in Nat /\ MAX_MARKERS \in Nat

PinnedMessageIds(store, th) == {m \in Messages : <<th, m>> \in store.pinned_messages}
MarkerIds(store, th) == {k \in Markers : <<th, k>> \in store.markers}

(* The thread exists in the read model (extract_thread_status succeeds). *)
HasThread(store, th) == store.threads[th] # Nil
HasTurn(store, t) == store.turns[t] # Nil

-----------------------------------------------------------------------------
(* The guards of the decide_* functions, one disjunct per command. *)
AcceptsProjectCommand(cmd, store) ==
    \/ cmd.type = "CreateProject"
    \/ cmd.type = "DeleteProject" /\ store.projects[cmd.id] # Nil

(* CreateThread is guarded by handle_command itself: the project must exist. *)
AcceptsCreateThread(cmd, store) ==
    cmd.type = "CreateThread" /\ store.projects[cmd.id] # Nil

AcceptsThreadStatusCommand(cmd, store) ==
    /\ cmd.type \in ThreadCommands
    /\ HasThread(store, cmd.id)
    /\ LET status == store.threads[cmd.id].status IN
         \/ cmd.type \in {"PauseThread", "CompleteThread"} /\ status = "active"
         \/ cmd.type = "ResumeThread" /\ status = "paused"
         \/ cmd.type = "CancelThread" /\ status \notin {"completed", "cancelled"}
         \/ cmd.type = "ArchiveThread" /\ status # "archived"
         \/ cmd.type = "UnarchiveThread" /\ status = "archived"
         \/ cmd.type = "DeleteThread"

(* Mutant: the caps are off by one. *)
AcceptsOneTooMany(cmd, store) ==
    /\ cmd.type \in PinCommands \cup MarkerCommands
    /\ HasThread(store, cmd.id)
    /\ LET pins == PinnedMessageIds(store, cmd.id)
           markers == MarkerIds(store, cmd.id) IN
         \/ cmd.type = "AddPinnedMessage" /\ Cardinality(pins) <= MAX_PINNED_MESSAGES
         \/ cmd.type = "RemovePinnedMessage" /\ cmd.arg \in pins
         \/ cmd.type = "AddMarker" /\ Cardinality(markers) <= MAX_MARKERS
         \/ cmd.type = "RemoveMarker" /\ cmd.arg \in markers

AcceptsAnnotationCommand(cmd, store) ==
    /\ cmd.type \in PinCommands \cup MarkerCommands
    /\ HasThread(store, cmd.id)
    /\ LET pins == PinnedMessageIds(store, cmd.id)
           markers == MarkerIds(store, cmd.id) IN
         \/ cmd.type = "AddPinnedMessage" /\ Cardinality(pins) < MAX_PINNED_MESSAGES
         \/ cmd.type = "RemovePinnedMessage" /\ cmd.arg \in pins
         \/ cmd.type = "AddMarker" /\ Cardinality(markers) < MAX_MARKERS
         \/ cmd.type = "RemoveMarker" /\ cmd.arg \in markers

AcceptsCompleteRevert(cmd, store) ==
    cmd.type = "CompleteRevert" /\ HasThread(store, cmd.id)

(* decide_start_turn and decide_add_message look at no state at all. *)
AcceptsUnguardedCommand(cmd) == cmd.type \in {"StartTurn", "AddMessage"}

AcceptsTurnCommand(cmd, store) ==
    /\ cmd.type \in TurnCommands
    /\ HasTurn(store, cmd.id)
    /\ LET status == store.turns[cmd.id].status IN
         \/ cmd.type \in {"CompleteTurn", "FailTurn", "CancelTurn"}
              /\ status \notin {"completed", "cancelled"}
         \/ cmd.type = "InterruptTurn" /\ status = "running"

(* Decider::decide returns events rather than an error. *)
Accepts(cmd, store) ==
    \/ AcceptsProjectCommand(cmd, store)
    \/ AcceptsCreateThread(cmd, store)
    \/ AcceptsThreadStatusCommand(cmd, store)
    \/ AcceptsAnnotationCommand(cmd, store)
    \/ AcceptsCompleteRevert(cmd, store)
    \/ AcceptsUnguardedCommand(cmd)
    \/ AcceptsTurnCommand(cmd, store)

-----------------------------------------------------------------------------
(* EntityId::new: an id nobody has used.  Which one is immaterial. *)
FreshId(kind, fresh) == CHOOSE x \in kind \cap fresh : TRUE

(* The ids a command makes up exist within the model's bounds. *)
CanAllocate(cmd, fresh) ==
    /\ cmd.type = "StartTurn" =>
         Turns \cap fresh # {} /\ Messages \cap fresh # {}
    /\ cmd.type = "AddMessage" => Messages \cap fresh # {}
    /\ cmd.type = "CreateThread" /\ cmd.arg = Nil => Threads \cap fresh # {}
    /\ cmd.type = "CreateProject" => Projects \cap fresh # {}

(* The event of a command that yields a single event with nothing but a type. *)
PlainEventType ==
    [DeleteProject |-> "ProjectDeleted", ArchiveThread |-> "ThreadArchived",
     UnarchiveThread |-> "ThreadUnarchived", DeleteThread |-> "ThreadDeleted",
     AddPinnedMessage |-> "PinnedMessageAdded", RemovePinnedMessage |-> "PinnedMessageRemoved",
     AddMarker |-> "MarkerAdded", RemoveMarker |-> "MarkerRemoved",
     CompleteRevert |-> "ThreadRevertCompleted", CompleteTurn |-> "TurnCompleted",
     FailTurn |-> "TurnFailed", CancelTurn |-> "TurnCancelled",
     InterruptTurn |-> "TurnInterrupted"]

NewThreadStatus ==
    [PauseThread |-> "paused", ResumeThread |-> "active",
     CompleteThread |-> "completed", CancelThread |-> "cancelled"]

(* CreateThread takes the client's thread id when it carries one. *)
CreatedThread(cmd, fresh) == IF cmd.arg # Nil THEN cmd.arg ELSE FreshId(Threads, fresh)

(* The events Decider::decide returns for an accepted command. *)
Decide(cmd, fresh) ==
    CASE cmd.type \in DOMAIN NewThreadStatus ->
           <<ThreadStatusChanged(cmd.id, NewThreadStatus[cmd.type])>>
      [] cmd.type \in DOMAIN PlainEventType ->
           <<EventRecord(PlainEventType[cmd.type], cmd.id, Nil, cmd.arg, cmd.n)>>
      [] cmd.type = "CreateProject" ->
           <<EventRecord("ProjectCreated", FreshId(Projects, fresh), Nil, Nil, 0)>>
      [] cmd.type = "CreateThread" ->
           <<EventRecord("ThreadCreated", CreatedThread(cmd, fresh), cmd.id, Nil, 0)>>
      [] cmd.type = "StartTurn" ->
           LET t == FreshId(Turns, fresh)
           IN  <<TurnStarted(t, cmd.id, cmd.n), MessageAdded(FreshId(Messages, fresh), t)>>
      [] cmd.type = "AddMessage" ->
           <<MessageAdded(FreshId(Messages, fresh), cmd.id)>>
=============================================================================
