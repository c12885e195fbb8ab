------------------------------ MODULE Projector ------------------------------
(***************************************************************************)
(* Projector::project: the effect of one domain event on the read model.   *)
(* An event about a view that is not there is ignored, as `get_mut`        *)
(* returning None is in the code.                                          *)
(***************************************************************************)
EXTENDS Domain

(* A status event, by type, and the status the projector stores for it. *)
ThreadStatusOf(ev) ==
    IF ev.type = "ThreadStatusChanged" THEN ev.arg
    ELSE IF ev.type = "ThreadArchived" THEN "archived" ELSE "active"

TurnStatusOf ==
    [TurnCompleted |-> "completed", TurnFailed |-> "error",
     TurnCancelled |-> "cancelled", TurnInterrupted |-> "interrupted"]

(* HashMap::insert and HashMap::remove on one of the store's maps. *)
Put(map, key, view) == [map EXCEPT ![key] = view]
Drop(map, keys) == [k \in DOMAIN map |-> IF k \in keys THEN Nil ELSE map[k]]

-----------------------------------------------------------------------------
ProjectThreadCreated(store, ev) ==
    [store EXCEPT
       !.threads = Put(@, ev.id, [project |-> ev.of, status |-> "active", turn_count |-> 0]),
       !.projects = IF @[ev.of] = Nil THEN @
                    ELSE Put(@, ev.of, [thread_count |-> @[ev.of].thread_count + 1])]

ProjectThreadStatus(store, ev) ==
    IF store.threads[ev.id] = Nil THEN store
    ELSE [store EXCEPT !.threads[ev.id].status = ThreadStatusOf(ev)]

ProjectTurnStarted(store, ev) ==
    LET counted == IF store.threads[ev.of] = Nil THEN store.threads
                   ELSE [store.threads EXCEPT ![ev.of].turn_count = @ + 1]
    IN  [store EXCEPT
           !.turns = Put(@, ev.id, [thread |-> ev.of, sequence |-> ev.n, status |-> "pending"]),
           !.threads = counted]

ProjectTurnStatus(store, ev) ==
    IF store.turns[ev.id] = Nil THEN store
    ELSE [store EXCEPT !.turns[ev.id].status = TurnStatusOf[ev.type]]

(* The first delta creates the message under the turn's id, the next append. *)
ProjectMessageDelta(store, ev) ==
    LET seen == IF store.messages[ev.id] = Nil THEN 0 ELSE store.messages[ev.id].content
    IN  [store EXCEPT !.messages[ev.id] =
           [turn |-> ev.of, content |-> seen + ev.n, is_streaming |-> TRUE]]

(* remove_turns_and_dependents: the turns and the messages that belong to them. *)
RemoveTurns(store, removed) ==
    [store EXCEPT
       !.turns = Drop(@, removed),
       !.messages = Drop(@, {m \in MessageKeys :
                              store.messages[m] # Nil /\ store.messages[m].turn \in removed})]

ProjectRevertCompleted(store, ev) ==
    RemoveTurns(store, {t \in Turns : /\ store.turns[t] # Nil
                                      /\ store.turns[t].thread = ev.id
                                      /\ store.turns[t].sequence > ev.n})

-----------------------------------------------------------------------------
Project(store, ev) ==
    CASE ev.type = "ProjectCreated" ->
           [store EXCEPT !.projects = Put(@, ev.id, [thread_count |-> 0])]
      [] ev.type = "ProjectDeleted" -> [store EXCEPT !.projects = Drop(@, {ev.id})]
      [] ev.type = "ThreadCreated" -> ProjectThreadCreated(store, ev)
      [] ev.type \in {"ThreadStatusChanged", "ThreadArchived", "ThreadUnarchived"} ->
           ProjectThreadStatus(store, ev)
      [] ev.type = "ThreadDeleted" -> [store EXCEPT !.threads = Drop(@, {ev.id})]
      [] ev.type = "PinnedMessageAdded" ->
           [store EXCEPT !.pinned_messages = @ \cup {<<ev.id, ev.arg>>}]
      [] ev.type = "PinnedMessageRemoved" ->
           [store EXCEPT !.pinned_messages = @ \ {<<ev.id, ev.arg>>}]
      [] ev.type = "MarkerAdded" -> [store EXCEPT !.markers = @ \cup {<<ev.id, ev.arg>>}]
      [] ev.type = "MarkerRemoved" -> [store EXCEPT !.markers = @ \ {<<ev.id, ev.arg>>}]
      [] ev.type = "ThreadRevertCompleted" -> ProjectRevertCompleted(store, ev)
      [] ev.type = "TurnStarted" -> ProjectTurnStarted(store, ev)
      [] ev.type \in DOMAIN TurnStatusOf -> ProjectTurnStatus(store, ev)
      [] ev.type = "MessageAdded" ->
           [store EXCEPT !.messages = Put(@, ev.id, [turn |-> ev.of, content |-> ev.n,
                                                     is_streaming |-> FALSE])]
      [] ev.type = "MessageDeltaAppended" -> ProjectMessageDelta(store, ev)
      [] ev.type = "ActivityLogged" -> [store EXCEPT !.activities[ev.of] = @ + 1]
      [] OTHER -> store

(* Projector::project_many: the events in order. *)
ProjectMany(store, events) ==
    LET after[k \in 0..Len(events)] ==
          IF k = 0 THEN store ELSE Project(after[k - 1], events[k])
    IN  after[Len(events)]
=============================================================================
