--------------------------- MODULE ReadModelProofs ---------------------------
(***************************************************************************)
(* What holds of the in-memory read model: that every view keeps its type, *)
(* that one writer at a time keeps it in step with the log, and that one   *)
(* writer per thread keeps the threads in step, snapshots included.        *)
(***************************************************************************)
EXTENDS EventPipelineProofs, DataInduction, FunctionTheorems

-----------------------------------------------------------------------------
(* The Projector *)

(* The ids and payloads of an event, by type. *)
LEMMA EventFields ==
    ASSUME NEW e \in Event
    PROVE  /\ e.type \in ProjectEventTypes => e.id \in Projects
           /\ e.type = "ThreadCreated" => e.id \in Threads /\ e.of \in Projects
           /\ e.type = "ThreadStatusChanged" => e.id \in Threads /\ e.arg \in ThreadStatus
           /\ e.type \in ThreadEventTypes => e.id \in Threads
           /\ e.type \in PinEventTypes => e.id \in Threads /\ e.arg \in Messages
           /\ e.type \in MarkerEventTypes => e.id \in Threads /\ e.arg \in Markers
           /\ e.type = "ThreadRevertCompleted" => e.id \in Threads
           /\ e.type = "TurnStarted" => e.id \in Turns /\ e.of \in Threads /\ e.n \in Nat
           /\ e.type \in TurnEventTypes => e.id \in Turns
           /\ e.type = "MessageAdded" => e.id \in Messages /\ e.of \in Turns /\ e.n \in Nat
           /\ e.type = "MessageDeltaAppended" => e.id \in Turns /\ e.of \in Turns /\ e.n \in Nat
           /\ e.type = "ActivityLogged" => e.of \in Turns
BY DEF Event, ProjectEventTypes, ThreadEventTypes, PinEventTypes, MarkerEventTypes,
       TurnEventTypes

LEMMA PutType ==
    ASSUME NEW Keys, NEW Views, NEW map \in [Keys -> Views \cup {Nil}], NEW k \in Keys,
           NEW v \in Views
    PROVE  Put(map, k, v) \in [Keys -> Views \cup {Nil}]
BY DEF Put

LEMMA DropType ==
    ASSUME NEW Keys, NEW Views, NEW map \in [Keys -> Views \cup {Nil}], NEW removed
    PROVE  Drop(map, removed) \in [Keys -> Views \cup {Nil}]
BY DEF Drop

LEMMA ProjectType ==
    ASSUME NEW s \in ReadModelStore, NEW e \in Event
    PROVE  Project(s, e) \in ReadModelStore
<1>1. /\ s.projects \in [Projects -> ProjectView \cup {Nil}]
      /\ s.threads \in [Threads -> ThreadView \cup {Nil}]
      /\ s.turns \in [Turns -> TurnView \cup {Nil}]
      /\ s.messages \in [MessageKeys -> MessageView \cup {Nil}]
      /\ s.pinned_messages \in SUBSET (Threads \X Messages)
      /\ s.markers \in SUBSET (Threads \X Markers)
      /\ s.activities \in [Turns -> Nat]
  BY DEF ReadModelStore
<1>p. \A m : m \in [Projects -> ProjectView \cup {Nil}]
               => [s EXCEPT !.projects = m] \in ReadModelStore
  BY DEF ReadModelStore
<1>h. \A m : m \in [Threads -> ThreadView \cup {Nil}]
               => [s EXCEPT !.threads = m] \in ReadModelStore
  BY DEF ReadModelStore
<1>2. CASE e.type = "ProjectCreated"
  <2>1. e.id \in Projects /\ [thread_count |-> 0] \in ProjectView
    BY <1>2, EventFields DEF ProjectEventTypes, ProjectView
  <2>2. Put(s.projects, e.id, [thread_count |-> 0]) \in [Projects -> ProjectView \cup {Nil}]
    BY <1>1, <2>1, PutType
  <2>3. Project(s, e) = [s EXCEPT !.projects = Put(s.projects, e.id, [thread_count |-> 0])]
    BY <1>2 DEF Project, TurnStatusOf
  <2> QED BY <1>p, <2>2, <2>3
<1>3. CASE e.type = "ProjectDeleted"
  <2>1. Drop(s.projects, {e.id}) \in [Projects -> ProjectView \cup {Nil}]
    BY <1>1, DropType
  <2>2. Project(s, e) = [s EXCEPT !.projects = Drop(s.projects, {e.id})]
    BY <1>3 DEF Project, TurnStatusOf
  <2> QED BY <1>p, <2>1, <2>2
<1>4. CASE e.type = "ThreadCreated"
  <2> DEFINE view == [project |-> e.of, status |-> "active", turn_count |-> 0]
             counted == [thread_count |-> s.projects[e.of].thread_count + 1]
             projects == IF s.projects[e.of] = Nil THEN s.projects
                         ELSE Put(s.projects, e.of, counted)
  <2>1. e.id \in Threads /\ e.of \in Projects
    BY <1>4, EventFields
  <2>2. view \in ThreadView
    BY <2>1 DEF ThreadView, ThreadStatus
  <2>3. s.projects[e.of] # Nil => counted \in ProjectView
    BY <1>1, <2>1 DEF ProjectView
  <2>4. Project(s, e) = [s EXCEPT !.threads = Put(s.threads, e.id, view), !.projects = projects]
    BY <1>4 DEF Project, TurnStatusOf, ProjectThreadCreated
  <2> HIDE DEF view, counted
  <2>5. projects \in [Projects -> ProjectView \cup {Nil}]
    BY <1>1, <2>1, <2>3, PutType
  <2>6. Put(s.threads, e.id, view) \in [Threads -> ThreadView \cup {Nil}]
    BY <1>1, <2>1, <2>2, PutType
  <2> HIDE DEF projects
  <2> QED BY <2>4, <2>5, <2>6 DEF ReadModelStore
<1>5. CASE e.type \in {"ThreadStatusChanged", "ThreadArchived", "ThreadUnarchived"}
  <2>1. e.id \in Threads /\ ThreadStatusOf(e) \in ThreadStatus
    BY <1>5, EventFields DEF ThreadStatusOf, ThreadStatus, ThreadEventTypes
  <2>2. Project(s, e) = ProjectThreadStatus(s, e)
    BY <1>5 DEF Project, TurnStatusOf
  <2>3. CASE s.threads[e.id] = Nil
    BY <2>2, <2>3 DEF ProjectThreadStatus
  <2>4. CASE s.threads[e.id] # Nil
    <3> DEFINE view == [s.threads[e.id] EXCEPT !.status = ThreadStatusOf(e)]
    <3>1. s.threads[e.id] \in ThreadView
      BY <1>1, <2>1, <2>4
    <3>2. view \in ThreadView
      BY <2>1, <3>1 DEF ThreadView
    <3>3. Project(s, e) = [s EXCEPT !.threads = [s.threads EXCEPT ![e.id] = view]]
      BY <2>2, <2>4 DEF ProjectThreadStatus
    <3> HIDE DEF view
    <3>4. [s.threads EXCEPT ![e.id] = view] \in [Threads -> ThreadView \cup {Nil}]
      BY <1>1, <2>1, <3>2
    <3> QED BY <1>h, <3>3, <3>4
  <2> QED BY <2>3, <2>4
<1>6. CASE e.type = "ThreadDeleted"
  <2>1. Drop(s.threads, {e.id}) \in [Threads -> ThreadView \cup {Nil}]
    BY <1>1, DropType
  <2>2. Project(s, e) = [s EXCEPT !.threads = Drop(s.threads, {e.id})]
    BY <1>6 DEF Project, TurnStatusOf
  <2> QED BY <1>h, <2>1, <2>2
<1>7. CASE e.type \in PinEventTypes
  <2>1. <<e.id, e.arg>> \in Threads \X Messages
    BY <1>7, EventFields
  <2>2. PICK pins \in SUBSET (Threads \X Messages) :
          Project(s, e) = [s EXCEPT !.pinned_messages = pins]
    BY <1>1, <1>7, <2>1 DEF Project, TurnStatusOf, PinEventTypes
  <2> QED BY <2>2 DEF ReadModelStore
<1>8. CASE e.type \in MarkerEventTypes
  <2>1. <<e.id, e.arg>> \in Threads \X Markers
    BY <1>8, EventFields
  <2>2. PICK marks \in SUBSET (Threads \X Markers) :
          Project(s, e) = [s EXCEPT !.markers = marks]
    BY <1>1, <1>8, <2>1 DEF Project, TurnStatusOf, MarkerEventTypes
  <2> QED BY <2>2 DEF ReadModelStore
<1>9. CASE e.type = "ThreadRevertCompleted"
  <2>1. PICK removed : Project(s, e) = RemoveTurns(s, removed)
    BY <1>9 DEF Project, TurnStatusOf, ProjectRevertCompleted
  <2>2. PICK messages : Project(s, e) = [s EXCEPT !.turns = Drop(s.turns, removed),
                                                  !.messages = Drop(s.messages, messages)]
    BY <2>1 DEF RemoveTurns
  <2>3. /\ Drop(s.turns, removed) \in [Turns -> TurnView \cup {Nil}]
        /\ Drop(s.messages, messages) \in [MessageKeys -> MessageView \cup {Nil}]
    BY <1>1, DropType
  <2> QED BY <2>2, <2>3 DEF ReadModelStore
<1>10. CASE e.type = "TurnStarted"
  <2> DEFINE turn == [thread |-> e.of, sequence |-> e.n, status |-> "pending"]
             view == [s.threads[e.of] EXCEPT !.turn_count = @ + 1]
             threads == IF s.threads[e.of] = Nil THEN s.threads
                        ELSE [s.threads EXCEPT ![e.of] = view]
  <2>1. e.id \in Turns /\ e.of \in Threads /\ e.n \in Nat
    BY <1>10, EventFields
  <2>2. turn \in TurnView
    BY <2>1 DEF TurnView, TurnStatus
  <2>3. s.threads[e.of] # Nil => view \in ThreadView
    BY <1>1, <2>1 DEF ThreadView
  <2>4. Project(s, e) = [s EXCEPT !.turns = Put(s.turns, e.id, turn), !.threads = threads]
    <3>1. Project(s, e) = ProjectTurnStarted(s, e)
      BY <1>10 DEF Project, TurnStatusOf
    <3>2. [s EXCEPT !.turns = Put(s.turns, e.id, turn), !.threads = threads]
            = ProjectTurnStarted(s, e)
      BY DEF ProjectTurnStarted
    <3> QED BY <3>1, <3>2
  <2> HIDE DEF turn, view
  <2>5. threads \in [Threads -> ThreadView \cup {Nil}]
    BY <1>1, <2>1, <2>3, PutType
  <2>6. Put(s.turns, e.id, turn) \in [Turns -> TurnView \cup {Nil}]
    BY <1>1, <2>1, <2>2, PutType
  <2> HIDE DEF threads
  <2> QED BY <2>4, <2>5, <2>6 DEF ReadModelStore
<1>11. CASE e.type \in TurnEventTypes
  <2>1. e.id \in Turns /\ TurnStatusOf[e.type] \in TurnStatus
    BY <1>11, EventFields DEF TurnStatusOf, TurnStatus, TurnEventTypes
  <2>2. Project(s, e) = ProjectTurnStatus(s, e)
    BY <1>11 DEF Project, TurnStatusOf, TurnEventTypes
  <2>3. CASE s.turns[e.id] = Nil
    BY <2>2, <2>3 DEF ProjectTurnStatus
  <2>4. CASE s.turns[e.id] # Nil
    <3> DEFINE view == [s.turns[e.id] EXCEPT !.status = TurnStatusOf[e.type]]
    <3>1. s.turns[e.id] \in TurnView
      BY <1>1, <2>1, <2>4
    <3>2. view \in TurnView
      BY <2>1, <3>1 DEF TurnView
    <3>3. Project(s, e) = [s EXCEPT !.turns = [s.turns EXCEPT ![e.id] = view]]
      BY <2>2, <2>4 DEF ProjectTurnStatus
    <3> HIDE DEF view
    <3>4. [s.turns EXCEPT ![e.id] = view] \in [Turns -> TurnView \cup {Nil}]
      BY <1>1, <2>1, <3>2
    <3> QED BY <3>3, <3>4 DEF ReadModelStore
  <2> QED BY <2>3, <2>4
<1>12. CASE e.type = "MessageAdded"
  <2> DEFINE view == [turn |-> e.of, content |-> e.n, is_streaming |-> FALSE]
  <2>1. e.id \in MessageKeys /\ view \in MessageView
    BY <1>12, EventFields DEF MessageKeys, MessageView
  <2>2. Project(s, e) = [s EXCEPT !.messages = Put(s.messages, e.id, view)]
    BY <1>12 DEF Project, TurnStatusOf
  <2> HIDE DEF view
  <2>3. Put(s.messages, e.id, view) \in [MessageKeys -> MessageView \cup {Nil}]
    BY <1>1, <2>1, PutType
  <2> QED BY <2>2, <2>3 DEF ReadModelStore
<1>13. CASE e.type = "MessageDeltaAppended"
  <2> DEFINE seen == IF s.messages[e.id] = Nil THEN 0 ELSE s.messages[e.id].content
             view == [turn |-> e.of, content |-> seen + e.n, is_streaming |-> TRUE]
  <2>1. e.id \in MessageKeys /\ e.of \in Turns /\ e.n \in Nat
    BY <1>13, EventFields DEF MessageKeys
  <2>2. seen \in Nat
    BY <1>1, <2>1 DEF MessageView
  <2>3. Project(s, e) = [s EXCEPT !.messages[e.id] = view]
    BY <1>13 DEF Project, TurnStatusOf, ProjectMessageDelta
  <2> HIDE DEF seen
  <2>4. view \in MessageView
    BY <2>1, <2>2 DEF MessageView
  <2> HIDE DEF view
  <2>5. [s.messages EXCEPT ![e.id] = view] \in [MessageKeys -> MessageView \cup {Nil}]
    BY <1>1, <2>1, <2>4
  <2> QED BY <2>3, <2>5 DEF ReadModelStore
<1>14. CASE e.type = "ActivityLogged"
  <2>1. e.of \in Turns
    BY <1>14, EventFields
  <2>2. Project(s, e) = [s EXCEPT !.activities = [s.activities EXCEPT ![e.of] = @ + 1]]
    BY <1>14 DEF Project, TurnStatusOf
  <2>3. [s.activities EXCEPT ![e.of] = @ + 1] \in [Turns -> Nat]
    BY <1>1, <2>1
  <2> QED BY <2>2, <2>3 DEF ReadModelStore
<1>15. \/ e.type \in {"ProjectCreated", "ProjectDeleted", "ThreadCreated", "ThreadDeleted"}
       \/ e.type \in {"ThreadStatusChanged", "ThreadArchived", "ThreadUnarchived"}
       \/ e.type \in PinEventTypes \cup MarkerEventTypes \cup TurnEventTypes
       \/ e.type \in {"ThreadRevertCompleted", "TurnStarted", "MessageAdded",
                      "MessageDeltaAppended", "ActivityLogged"}
  BY DEF Event, ProjectEventTypes, ThreadEventTypes
<1> QED
  BY <1>2, <1>3, <1>4, <1>5, <1>6, <1>7, <1>8, <1>9, <1>10, <1>11, <1>12, <1>13, <1>14, <1>15

-----------------------------------------------------------------------------
(* Projector::project_many, unfolded *)

(* The read models that projecting events one by one goes through. *)
Projects1By1(f, s, events) ==
    /\ f \in [0..Len(events) -> ReadModelStore]
    /\ f[0] = s
    /\ \A k \in 1..Len(events) : f[k] = Project(f[k - 1], events[k])

LEMMA ProjectManyRuns ==
    ASSUME NEW s \in ReadModelStore, NEW events \in Seq(Event)
    PROVE  \E f : Projects1By1(f, s, events) /\ ProjectMany(s, events) = f[Len(events)]
<1> DEFINE n == Len(events)
           step == [k \in 1..n |-> [x \in ReadModelStore |-> Project(x, events[k])]]
           Def(g) == [k \in 0..n |-> IF k = 0 THEN s ELSE Project(g[k - 1], events[k])]
           after == CHOOSE g : g = Def(g)
<1>1. n \in Nat /\ \A k \in 1..n : events[k] \in Event
  OBVIOUS
<1>2. step \in [1..n -> [ReadModelStore -> ReadModelStore]]
  BY <1>1, ProjectType
<1> HIDE DEF n
<1>3. PICK f \in [0..n -> ReadModelStore] : IsFold(f, s, step, n)
  <2> HIDE DEF step
  <2> QED BY <1>1, <1>2, FoldExists
<1>4. \A k \in 1..n : k - 1 \in 0..n /\ f[k - 1] \in ReadModelStore
  BY <1>1
<1>5. f[0] = s /\ \A k \in 1..n : f[k] = Project(f[k - 1], events[k])
  BY <1>3, <1>4 DEF IsFold
<1>6. f = Def(f)
  <2>1. \A k \in 0..n : k = 0 \/ k \in 1..n
    BY <1>1
  <2> QED BY <1>5, <2>1
<1>7. after = Def(after)
  <2> HIDE DEF Def
  <2> QED BY <1>6
<1>8. ProjectMany(s, events) = after[n]
  BY DEF ProjectMany, n
<1> HIDE DEF after
<1>9. after[0] = s /\ \A k \in 1..n : after[k] = Project(after[k - 1], events[k])
  BY <1>1, <1>7
<1>10. \A k \in 0..n : after[k] = f[k]
  <2>1. StepAlike(after, f, n)
    BY <1>5, <1>9 DEF StepAlike
  <2> QED BY <1>1, <2>1, SameSteps
<1>11. ProjectMany(s, events) = f[n]
  BY <1>1, <1>8, <1>10
<1> QED BY <1>5, <1>11 DEF Projects1By1, n

LEMMA ProjectManyType ==
    ASSUME NEW s \in ReadModelStore, NEW events \in Seq(Event)
    PROVE  ProjectMany(s, events) \in ReadModelStore
<1>1. PICK f : Projects1By1(f, s, events) /\ ProjectMany(s, events) = f[Len(events)]
  BY ProjectManyRuns
<1>2. Len(events) \in 0..Len(events)
  OBVIOUS
<1> QED BY <1>1, <1>2 DEF Projects1By1

(* Projecting a longer sequence is projecting the rest on what the first   *)
(* part gives.                                                             *)
LEMMA ProjectManyConcat ==
    ASSUME NEW s \in ReadModelStore, NEW a \in Seq(Event), NEW b \in Seq(Event)
    PROVE  ProjectMany(s, a \o b) = ProjectMany(ProjectMany(s, a), b)
<1> DEFINE n == Len(a)
           m == Len(b)
           mid == ProjectMany(s, a)
<1>0. n \in Nat /\ m \in Nat /\ a \o b \in Seq(Event) /\ Len(a \o b) = n + m
  OBVIOUS
<1>1. PICK f : Projects1By1(f, s, a) /\ mid = f[n]
  BY ProjectManyRuns
<1>2. PICK g : Projects1By1(g, s, a \o b) /\ ProjectMany(s, a \o b) = g[n + m]
  BY <1>0, ProjectManyRuns
<1>3. mid \in ReadModelStore
  BY ProjectManyType
<1>4. PICK h : Projects1By1(h, mid, b) /\ ProjectMany(mid, b) = h[m]
  BY <1>3, ProjectManyRuns
<1> DEFINE shifted == [k \in 0..m |-> g[n + k]]
<1>5. /\ \A k \in 1..n : (a \o b)[k] = a[k]
      /\ \A k \in 1..m : (a \o b)[n + k] = b[k]
  OBVIOUS
<1> HIDE DEF n, m, mid
<1>6. /\ f[0] = s /\ \A k \in 1..n : f[k] = Project(f[k - 1], a[k])
      /\ g[0] = s /\ \A k \in 1..(n + m) : g[k] = Project(g[k - 1], (a \o b)[k])
      /\ h[0] = mid /\ \A k \in 1..m : h[k] = Project(h[k - 1], b[k])
  BY <1>0, <1>1, <1>2, <1>4 DEF Projects1By1, n, m
<1>7. \A k \in 0..n : g[k] = f[k]
  <2>1. \A k \in 1..n : g[k - 1] = f[k - 1] => g[k] = f[k]
    BY <1>0, <1>5, <1>6
  <2>2. StepAlike(g, f, n)
    BY <1>6, <2>1 DEF StepAlike
  <2> QED BY <1>0, <2>2, SameSteps
<1>8. \A k \in 0..m : shifted[k] = h[k]
  <2>1. shifted[0] = h[0]
    BY <1>0, <1>1, <1>6, <1>7
  <2>2. ASSUME NEW k \in 1..m, shifted[k - 1] = h[k - 1] PROVE shifted[k] = h[k]
    <3>1. /\ n + k \in 1..(n + m) /\ (n + k) - 1 = n + (k - 1)
          /\ k \in 0..m /\ k - 1 \in 0..m
      BY <1>0
    <3>2. g[n + k] = Project(g[n + (k - 1)], b[k])
      BY <1>5, <1>6, <3>1
    <3>3. shifted[k] = g[n + k] /\ shifted[k - 1] = g[n + (k - 1)]
      BY <3>1
    <3> QED BY <1>6, <2>2, <3>2, <3>3
  <2> HIDE DEF shifted
  <2>3. StepAlike(shifted, h, m)
    BY <2>1, <2>2 DEF StepAlike
  <2> QED BY <1>0, <2>3, SameSteps
<1>9. g[n + m] = h[m]
  <2>1. m \in 0..m
    BY <1>0
  <2> QED BY <1>8, <2>1
<1> QED BY <1>2, <1>4, <1>9 DEF mid

-----------------------------------------------------------------------------
(* Snapshots and the replay of a boot *)

Snapshots == [Ids -> Snapshot \cup {Nil}]

LEMMA SnapshotViews ==
    ASSUME NEW snap \in Snapshot
    PROVE  /\ snap.kind = "project" => snap.view \in ProjectView
           /\ snap.kind = "thread" => snap.view \in ThreadView
           /\ snap.kind = "turn" => snap.view \in TurnView
           /\ snap.kind = "message" => snap.view \in MessageView
           /\ snap.version \in Nat
BY DEF Snapshot

LEMMA SeedMapType ==
    ASSUME NEW snaps \in Snapshots, NEW kind, NEW Keys, Keys \subseteq Ids, NEW Views,
           NEW map \in [Keys -> Views \cup {Nil}],
           \A snap \in Snapshot : snap.kind = kind => snap.view \in Views
    PROVE  SeedMap(map, snaps, kind) \in [Keys -> Views \cup {Nil}]
BY DEF SeedMap, Snapshots

LEMMA SeedType ==
    ASSUME NEW s \in ReadModelStore, NEW snaps \in Snapshots
    PROVE  SeedFromSnapshots(s, snaps) \in ReadModelStore
<1>1. /\ s.projects \in [Projects -> ProjectView \cup {Nil}]
      /\ s.threads \in [Threads -> ThreadView \cup {Nil}]
      /\ s.turns \in [Turns -> TurnView \cup {Nil}]
      /\ s.messages \in [MessageKeys -> MessageView \cup {Nil}]
  BY DEF ReadModelStore
<1>2. /\ Projects \subseteq Ids /\ Threads \subseteq Ids /\ Turns \subseteq Ids
      /\ MessageKeys \subseteq Ids
  BY DEF Ids, MessageKeys
<1>3. SeedMap(s.projects, snaps, "project") \in [Projects -> ProjectView \cup {Nil}]
  BY <1>1, <1>2, SnapshotViews, SeedMapType
<1>4. SeedMap(s.threads, snaps, "thread") \in [Threads -> ThreadView \cup {Nil}]
  BY <1>1, <1>2, SnapshotViews, SeedMapType
<1>5. SeedMap(s.turns, snaps, "turn") \in [Turns -> TurnView \cup {Nil}]
  BY <1>1, <1>2, SnapshotViews, SeedMapType
<1>6. SeedMap(s.messages, snaps, "message") \in [MessageKeys -> MessageView \cup {Nil}]
  BY <1>1, <1>2, SnapshotViews, SeedMapType
<1> QED BY <1>3, <1>4, <1>5, <1>6 DEF SeedFromSnapshots, ReadModelStore

LEMMA ViewType ==
    ASSUME NEW s \in ReadModelStore, NEW id, NEW v \in Nat
    PROVE  ViewForAggregate(s, id, v) \in Snapshot \cup {Nil}
<1>1. /\ id \in Projects => s.projects[id] \in ProjectView \cup {Nil}
      /\ id \in Threads => s.threads[id] \in ThreadView \cup {Nil}
      /\ id \in Turns => s.turns[id] \in TurnView \cup {Nil}
      /\ id \in MessageKeys => s.messages[id] \in MessageView \cup {Nil}
  BY DEF ReadModelStore
<1> DEFINE view(kind, x) == [kind |-> kind, view |-> x, version |-> v]
<1>2. \/ ViewForAggregate(s, id, v) = Nil
      \/ /\ id \in Projects /\ s.projects[id] # Nil
         /\ ViewForAggregate(s, id, v) = view("project", s.projects[id])
      \/ /\ id \in Threads /\ s.threads[id] # Nil
         /\ ViewForAggregate(s, id, v) = view("thread", s.threads[id])
      \/ /\ id \in Turns /\ s.turns[id] # Nil
         /\ ViewForAggregate(s, id, v) = view("turn", s.turns[id])
      \/ /\ id \in MessageKeys /\ s.messages[id] # Nil
         /\ ViewForAggregate(s, id, v) = view("message", s.messages[id])
  BY DEF ViewForAggregate
<1>3. /\ \A x \in ProjectView : view("project", x) \in Snapshot
      /\ \A x \in ThreadView : view("thread", x) \in Snapshot
      /\ \A x \in TurnView : view("turn", x) \in Snapshot
      /\ \A x \in MessageView : view("message", x) \in Snapshot
  BY DEF Snapshot
<1> HIDE DEF view
<1> QED BY <1>1, <1>2, <1>3

LEMMA EmptyStoreType == EmptyStore \in ReadModelStore
BY DEF EmptyStore, ReadModelStore

(* The read models a replay goes through. *)
Replays1By1(f, s, snaps, rows) ==
    /\ f \in [0..Len(rows) -> ReadModelStore]
    /\ f[0] = SeedFromSnapshots(s, snaps)
    /\ \A k \in 1..Len(rows) :
         f[k] = IF Covered(rows, k, snaps) THEN f[k - 1] ELSE Project(f[k - 1], rows[k].event)

LEMMA ReplayRuns ==
    ASSUME NEW s \in ReadModelStore, NEW snaps \in Snapshots, NEW rows \in Seq(Row)
    PROVE  \E f : Replays1By1(f, s, snaps, rows) /\ Replay(s, snaps, rows) = f[Len(rows)]
<1> DEFINE n == Len(rows)
           seed == SeedFromSnapshots(s, snaps)
           Next1(x, k) == IF Covered(rows, k, snaps) THEN x ELSE Project(x, rows[k].event)
           step == [k \in 1..n |-> [x \in ReadModelStore |-> Next1(x, k)]]
           Def(g) == [k \in 0..n |->
                        IF k = 0 THEN SeedFromSnapshots(s, snaps)
                        ELSE IF Covered(rows, k, snaps) THEN g[k - 1]
                        ELSE Project(g[k - 1], rows[k].event)]
           after == CHOOSE g : g = Def(g)
<1>1. n \in Nat /\ \A k \in 1..n : rows[k].event \in Event
  <2>1. n \in Nat /\ \A k \in 1..n : rows[k] \in Row
    OBVIOUS
  <2>2. \A r \in Row : r.event \in Event
    BY DEF Row
  <2> QED BY <2>1, <2>2
<1>2. step \in [1..n -> [ReadModelStore -> ReadModelStore]]
  BY <1>1, ProjectType
<1>3. seed \in ReadModelStore
  BY SeedType
<1> HIDE DEF n, seed
<1>4. PICK f \in [0..n -> ReadModelStore] : IsFold(f, seed, step, n)
  <2> HIDE DEF step
  <2> QED BY <1>1, <1>2, <1>3, FoldExists
<1>5. \A k \in 1..n : k - 1 \in 0..n /\ f[k - 1] \in ReadModelStore
  BY <1>1
<1>6. f[0] = seed /\ \A k \in 1..n : f[k] = Next1(f[k - 1], k)
  BY <1>4, <1>5 DEF IsFold
<1>7. f = Def(f)
  <2>1. \A k \in 0..n : k = 0 \/ k \in 1..n
    BY <1>1
  <2> QED BY <1>6, <2>1 DEF seed
<1>8. after = Def(after)
  <2> HIDE DEF Def
  <2> QED BY <1>7
<1>9. Replay(s, snaps, rows) = after[n]
  BY DEF Replay, n
<1> HIDE DEF after
<1>10. after[0] = seed /\ \A k \in 1..n : after[k] = Next1(after[k - 1], k)
  BY <1>1, <1>8 DEF seed
<1> HIDE DEF Next1
<1>11. \A k \in 0..n : after[k] = f[k]
  <2>1. StepAlike(after, f, n)
    BY <1>6, <1>10 DEF StepAlike
  <2> QED BY <1>1, <2>1, SameSteps
<1>12. Replay(s, snaps, rows) = f[n]
  BY <1>1, <1>9, <1>11
<1> QED BY <1>6, <1>12 DEF Replays1By1, n, seed, Next1

LEMMA ReplayType ==
    ASSUME NEW s \in ReadModelStore, NEW snaps \in Snapshots, NEW rows \in Seq(Row)
    PROVE  Replay(s, snaps, rows) \in ReadModelStore
<1>1. PICK f : Replays1By1(f, s, snaps, rows) /\ Replay(s, snaps, rows) = f[Len(rows)]
  BY ReplayRuns
<1>2. Len(rows) \in 0..Len(rows)
  OBVIOUS
<1> QED BY <1>1, <1>2 DEF Replays1By1

(* A boot reads rows of the log. *)
LEMMA ReadRowsType ==
    ASSUME NEW rows \in Seq(Row)
    PROVE  ReadRows(rows) \in Seq(Row)
BY ReplayAssumption DEF ReadRows

LEMMA BootType ==
    ASSUME NEW rows \in Seq(Row), NEW snaps \in Snapshots
    PROVE  Boot(rows, snaps) \in ReadModelStore
BY ReadRowsType, ReplayType, EmptyStoreType DEF Boot

LEMMA NoSnapshotsType == NoSnapshots \in Snapshots
BY DEF NoSnapshots, Snapshots
-----------------------------------------------------------------------------
(* The typing invariant of everything that holds views: the read model, the *)
(* snapshots, those waiting to be saved, and the repair handler's copies.  *)
(* A handler that restores has something to restore.                       *)
RepairStates ==
    [pc : RepairPc, saved : ReadModelStore \cup {Nil}, snaps : Snapshots, rows : Seq(Row)]

ViewInv ==
    /\ snapshots \in Snapshots
    /\ captured \in [Workers -> Snapshot \cup {Nil}]
    /\ store \in ReadModelStore
    /\ repair \in RepairStates
    /\ repair.pc = "restore" => repair.saved # Nil

LEMMA NoRepairType == NoRepair \in RepairStates /\ NoRepair.pc = "idle"
BY NoSnapshotsType DEF NoRepair, RepairStates, RepairPc

LEMMA ViewInit == Init => ViewInv
<1> SUFFICES ASSUME Init PROVE ViewInv
  OBVIOUS
<1>1. store \in ReadModelStore
  BY PipelineAssumption, BootType, NoSnapshotsType DEF Init
<1> QED BY <1>1, NoSnapshotsType, NoRepairType DEF Init, ViewInv

LEMMA ProjectEventsViews ==
    ASSUME TypeInv, ViewInv, NEW t \in Tasks, ProjectEvents(t)
    PROVE  ViewInv'
<1>1. /\ evs[t] \in Seq(Event) /\ ver[t] \in Nat /\ StreamOf(t) \in Ids
  BY DEF ProjectEvents, TypeInv, TasksTypeOK, Appending
<1>2. store' \in ReadModelStore
  BY <1>1, ProjectManyType DEF ProjectEvents, ViewInv
<1>3. NewVersion(t) \in Nat
  BY <1>1 DEF NewVersion
<1>4. ViewForAggregate(store', StreamOf(t), NewVersion(t)) \in Snapshot \cup {Nil}
  BY <1>1, <1>2, <1>3, ViewType
<1>5. captured' \in [Workers -> Snapshot \cup {Nil}]
  <2> DEFINE snap == IF t \in Workers /\ ShouldSnapshot(NewVersion(t))
                     THEN ViewForAggregate(store', StreamOf(t), NewVersion(t)) ELSE Nil
  <2>1. snap \in Snapshot \cup {Nil}
    BY <1>4
  <2>2. captured' = IF t \in Workers THEN [captured EXCEPT ![t] = snap] ELSE captured
    BY DEF ProjectEvents
  <2> HIDE DEF snap
  <2> QED BY <2>1, <2>2 DEF ViewInv
<1> QED BY <1>2, <1>5 DEF ProjectEvents, ViewInv, durable

LEMMA RepairViews ==
    ASSUME TypeInv, ViewInv, RepairStep
    PROVE  ViewInv'
<1>0. snapshots' = snapshots /\ captured' = captured
  BY RepairTouchesStoreOnly
<1>1. /\ store \in ReadModelStore /\ snapshots \in Snapshots /\ log \in Seq(Row)
      /\ repair.pc \in RepairPc /\ repair.saved \in ReadModelStore \cup {Nil}
      /\ repair.snaps \in Snapshots /\ repair.rows \in Seq(Row)
  BY DEF ViewInv, RepairStates, TypeInv, TasksTypeOK
<1> DEFINE Kept == /\ store' \in ReadModelStore /\ repair' \in RepairStates
                   /\ repair'.pc = "restore" => repair'.saved # Nil
           After == IF repair.saved = Nil THEN NoRepair ELSE [repair EXCEPT !.pc = "restore"]
<1>2. /\ After \in RepairStates
      /\ After.pc = "restore" => After.saved # Nil
  BY <1>1, NoRepairType DEF RepairStates, RepairPc, ViewInv, NoRepair
<1>3. ASSUME RepairBegin PROVE Kept
  <2>1. PICK saved \in {store, Nil} :
          repair' = [pc |-> "clear", saved |-> saved, snaps |-> NoSnapshots, rows |-> <<>>]
    BY <1>3 DEF RepairBegin, NoRepair
  <2>2. repair' \in RepairStates
    BY <1>1, <2>1, NoSnapshotsType DEF RepairStates, RepairPc
  <2> QED BY <1>1, <1>3, <2>1, <2>2 DEF RepairBegin
<1>4. ASSUME RepairClear PROVE Kept
  BY <1>1, <1>4, EmptyStoreType DEF RepairClear, RepairStates, RepairPc, ViewInv
<1>5. ASSUME RepairLoadSnapshots PROVE Kept
  BY <1>1, <1>5 DEF RepairLoadSnapshots, RepairStates, RepairPc, ViewInv
<1>6. ASSUME RepairReadRows PROVE Kept
  BY <1>1, <1>6, ReadRowsType DEF RepairReadRows, RepairStates, RepairPc, ViewInv
<1>7. ASSUME RepairReplay PROVE Kept
  BY <1>1, <1>2, <1>7, ReplayType DEF RepairReplay
<1>8. ASSUME RepairFails PROVE Kept
  BY <1>1, <1>2, <1>8 DEF RepairFails
<1>9. ASSUME RepairRestore PROVE Kept
  BY <1>1, <1>9, NoRepairType DEF RepairRestore, ViewInv
<1>10. Kept
  BY <1>3, <1>4, <1>5, <1>6, <1>7, <1>8, <1>9 DEF RepairStep
<1> QED BY <1>0, <1>1, <1>10 DEF ViewInv

LEMMA ViewStep ==
    ASSUME TypeInv, ViewInv, [Next]_vars
    PROVE  ViewInv'
<1> DEFINE Aside == /\ snapshots' = snapshots /\ captured' = captured
                    /\ store' = store /\ repair' = repair
<1> USE DEF durable, consumerVars
<1>1. \A w \in Workers : ReceiveCommand(w) \/ DecideCommand(w) \/ AppendConflict(w)
                           \/ AppendBusy(w) => Aside
  BY DEF ReceiveCommand, DecideCommand, AppendConflict, AppendBusy
<1>2. \A t \in Tasks : ReadVersion(t) \/ BeginAppend(t) \/ CommitAppend(t) \/ Publish(t)
                         => Aside
  BY DEF ReadVersion, BeginAppend, CommitAppend, Publish
<1>3. \A c \in Consumers : TakeToken(c) \/ FlushTokens(c) \/ TakeEvent(c)
                             \/ StreamEnds(c) \/ ConsumerAppendFails(c) => Aside
  BY DEF TakeToken, FlushTokens, TakeEvent, StreamEnds, ConsumerAppendFails
<1>4. UNCHANGED vars => Aside
  BY DEF vars
<1>5. Aside => ViewInv'
  BY DEF ViewInv
<1> HIDE DEF Aside
<1>6. ASSUME NEW w \in Workers, SaveSnapshot(w) PROVE ViewInv'
  <2>1. captured' \in [Workers -> Snapshot \cup {Nil}] /\ snapshots' \in Snapshots
    <3>1. /\ captured' = [captured EXCEPT ![w] = Nil]
          /\ \/ snapshots' = snapshots
             \/ snapshots' = [snapshots EXCEPT ![StreamOf(w)] = captured[w]]
      BY <1>6 DEF SaveSnapshot
    <3> QED BY <3>1 DEF ViewInv, Snapshots
  <2> QED BY <1>6, <2>1 DEF SaveSnapshot, ViewInv
<1>7. ASSUME Restart PROVE ViewInv'
  <2>1. log \in Seq(Row) /\ snapshots \in Snapshots
    BY DEF TypeInv, TasksTypeOK, ViewInv
  <2>2. store' \in ReadModelStore
    BY <1>7, <2>1, BootType, EmptyStoreType DEF Restart
  <2> QED BY <1>7, <2>2, NoRepairType DEF Restart, ViewInv
<1> QED
  BY <1>1, <1>2, <1>3, <1>4, <1>5, <1>6, <1>7, NextCases, ProjectEventsViews, RepairViews

LEMMA ViewsAreTyped == Spec => []ViewInv
<1>1. TypeInv /\ ViewInv /\ [Next]_vars => ViewInv'
  BY ViewStep
<1> QED BY <1>1, ViewInit, TypeAndStore, PTL DEF Spec

(* Every part of the pipeline keeps its type, whatever a repair, a restart *)
(* or a late save does: projections and replays in any order of any events *)
(* leave a well-formed read model, and a repair that is to put a clone     *)
(* back has one.                                                           *)
THEOREM PipelineIsTyped == Spec => []TypeOK
<1>1. TypeInv /\ ViewInv => TypeOK
  BY DEF TypeInv, ViewInv, TypeOK, Snapshots, RepairStates
<1> QED BY <1>1, TypeAndStore, ViewsAreTyped, PTL
-----------------------------------------------------------------------------
(* The full replay, unfolded: with no snapshot nothing is seeded and       *)
(* nothing skipped, so it projects the events of all rows in order.        *)
EventsOf(rows) == [i \in 1..Len(rows) |-> rows[i].event]

LEMMA EventsOfType ==
    ASSUME NEW rows \in Seq(Row)
    PROVE  EventsOf(rows) \in Seq(Event) /\ Len(EventsOf(rows)) = Len(rows)
<1>1. \A r \in Row : r.event \in Event
  BY DEF Row
<1>2. Len(rows) \in Nat /\ \A i \in 1..Len(rows) : rows[i] \in Row
  OBVIOUS
<1> QED BY <1>1, <1>2 DEF EventsOf

LEMMA EventsOfConcat ==
    ASSUME NEW a \in Seq(Row), NEW b \in Seq(Row)
    PROVE  EventsOf(a \o b) = EventsOf(a) \o EventsOf(b)
<1>0. a \o b \in Seq(Row) /\ Len(a \o b) = Len(a) + Len(b) /\ Len(a) \in Nat /\ Len(b) \in Nat
  OBVIOUS
<1>1. /\ EventsOf(a) \in Seq(Event) /\ EventsOf(b) \in Seq(Event)
      /\ Len(EventsOf(a)) = Len(a) /\ Len(EventsOf(b)) = Len(b)
      /\ EventsOf(a \o b) \in Seq(Event) /\ Len(EventsOf(a \o b)) = Len(a) + Len(b)
  BY <1>0, EventsOfType
<1>2. /\ EventsOf(a) \o EventsOf(b) \in Seq(Event)
      /\ Len(EventsOf(a) \o EventsOf(b)) = Len(a) + Len(b)
  <2>1. \A x, y \in Seq(Event) : x \o y \in Seq(Event) /\ Len(x \o y) = Len(x) + Len(y)
    OBVIOUS
  <2> QED BY <1>1, <2>1
<1>3. ASSUME NEW i \in 1..(Len(a) + Len(b))
      PROVE  EventsOf(a \o b)[i] = (EventsOf(a) \o EventsOf(b))[i]
  <2>1. EventsOf(a \o b)[i] = (a \o b)[i].event
    BY DEF EventsOf
  <2>2. CASE i <= Len(a)
    <3>1. (a \o b)[i] = a[i] /\ (EventsOf(a) \o EventsOf(b))[i] = EventsOf(a)[i]
      BY <2>2, EventsOfType
    <3> QED BY <2>1, <2>2, <3>1 DEF EventsOf
  <2>3. CASE i > Len(a)
    <3>1. /\ i - Len(a) \in 1..Len(b)
          /\ (a \o b)[i] = b[i - Len(a)]
          /\ (EventsOf(a) \o EventsOf(b))[i] = EventsOf(b)[i - Len(a)]
      BY <2>3, EventsOfType
    <3> QED BY <2>1, <3>1 DEF EventsOf
  <2>4. i <= Len(a) \/ i > Len(a)
    BY <1>0
  <2> QED BY <2>2, <2>3, <2>4
<1> QED BY <1>1, <1>2, <1>3

LEMMA EventsOfRowsAt ==
    ASSUME NEW t \in Tasks, NEW v \in Nat, evs[t] \in Seq(Event), StreamOf(t) \in Ids
    PROVE  EventsOf(RowsAt(t, v)) = evs[t]
<1>1. \A i \in 1..Len(evs[t]) : RowsAt(t, v)[i].event = evs[t][i]
  BY DEF RowsAt
<1>2. Len(RowsAt(t, v)) = Len(evs[t])
  BY RowsAtType
<1>3. EventsOf(RowsAt(t, v)) = [i \in 1..Len(evs[t]) |-> evs[t][i]]
  BY <1>1, <1>2 DEF EventsOf
<1> QED BY <1>3

LEMMA NothingSeeded ==
    ASSUME NEW s \in ReadModelStore
    PROVE  SeedFromSnapshots(s, NoSnapshots) = s
<1>1. \A map, kind : DOMAIN map \subseteq Ids /\ map = [x \in DOMAIN map |-> map[x]]
                       => SeedMap(map, NoSnapshots, kind) = map
  BY DEF SeedMap, NoSnapshots
<1>2. /\ s.projects \in [Projects -> ProjectView \cup {Nil}]
      /\ s.threads \in [Threads -> ThreadView \cup {Nil}]
      /\ s.turns \in [Turns -> TurnView \cup {Nil}]
      /\ s.messages \in [MessageKeys -> MessageView \cup {Nil}]
  BY DEF ReadModelStore
<1>3. /\ SeedMap(s.projects, NoSnapshots, "project") = s.projects
      /\ SeedMap(s.threads, NoSnapshots, "thread") = s.threads
      /\ SeedMap(s.turns, NoSnapshots, "turn") = s.turns
      /\ SeedMap(s.messages, NoSnapshots, "message") = s.messages
  BY <1>1, <1>2 DEF Ids, MessageKeys
<1> QED BY <1>3 DEF SeedFromSnapshots, ReadModelStore

LEMMA NothingCovered ==
    ASSUME NEW rows \in Seq(Row), NEW i \in 1..Len(rows)
    PROVE  ~Covered(rows, i, NoSnapshots)
<1>1. rows[i].event.id \in Ids \cup {Nil}
  <2>1. \A r \in Row : r.event.id \in Ids \cup {Nil}
    BY DEF Row, Event, Ids
  <2> QED BY <2>1
<1> QED BY <1>1 DEF Covered, NoSnapshots

LEMMA FullReplayProjects ==
    ASSUME NEW rows \in Seq(Row)
    PROVE  FullReplay(rows) = ProjectMany(EmptyStore, EventsOf(rows))
<1> DEFINE n == Len(rows)
<1>1. PICK f : Replays1By1(f, EmptyStore, NoSnapshots, rows) /\ FullReplay(rows) = f[n]
  BY ReplayRuns, EmptyStoreType, NoSnapshotsType DEF FullReplay
<1>2. PICK g : /\ Projects1By1(g, EmptyStore, EventsOf(rows))
               /\ ProjectMany(EmptyStore, EventsOf(rows)) = g[n]
  BY ProjectManyRuns, EmptyStoreType, EventsOfType
<1>0. n \in Nat
  OBVIOUS
<1>3. Len(EventsOf(rows)) = n /\ \A k \in 1..n : EventsOf(rows)[k] = rows[k].event
  BY EventsOfType DEF EventsOf
<1>4. f[0] = EmptyStore /\ \A k \in 1..n : f[k] = Project(f[k - 1], rows[k].event)
  BY <1>1, EmptyStoreType, NothingSeeded, NothingCovered DEF Replays1By1
<1>5. g[0] = EmptyStore /\ \A k \in 1..n : g[k] = Project(g[k - 1], rows[k].event)
  BY <1>2, <1>3 DEF Projects1By1
<1> HIDE DEF n
<1>6. \A k \in 0..n : f[k] = g[k]
  <2>1. StepAlike(f, g, n)
    BY <1>4, <1>5 DEF StepAlike
  <2> QED BY <1>0, <2>1, SameSteps
<1>7. n \in 0..n
  BY <1>0
<1> QED BY <1>1, <1>2, <1>6, <1>7

LEMMA FullReplayType ==
    ASSUME NEW rows \in Seq(Row)
    PROVE  FullReplay(rows) \in ReadModelStore
BY FullReplayProjects, ProjectManyType, EmptyStoreType, EventsOfType

LEMMA FullReplayConcat ==
    ASSUME NEW a \in Seq(Row), NEW b \in Seq(Row)
    PROVE  FullReplay(a \o b) = ProjectMany(FullReplay(a), EventsOf(b))
<1>1. a \o b \in Seq(Row)
  OBVIOUS
<1>2. FullReplay(a \o b) = ProjectMany(EmptyStore, EventsOf(a) \o EventsOf(b))
  BY <1>1, FullReplayProjects, EventsOfConcat
<1> QED BY <1>2, FullReplayProjects, ProjectManyConcat, EmptyStoreType, EventsOfType

LEMMA ReadsAll ==
    ASSUME NEW rows \in Seq(Row), Len(rows) <= REPLAY_LIMIT
    PROVE  ReadRows(rows) = rows
<1>1. SubSeq(rows, 1, Len(rows)) = rows
  OBVIOUS
<1>2. Len(rows) \in Nat /\ (Len(rows) < REPLAY_LIMIT \/ Len(rows) = REPLAY_LIMIT)
  BY ReplayAssumption
<1> QED BY <1>1, <1>2 DEF ReadRows

(* A boot without snapshots that reads the whole log is a full replay. *)
LEMMA BootReplaysAll ==
    ASSUME NEW rows \in Seq(Row), Len(rows) <= REPLAY_LIMIT
    PROVE  Boot(rows, NoSnapshots) = FullReplay(rows)
BY ReadsAll DEF Boot, FullReplay

-----------------------------------------------------------------------------
(* When the read model is the log's: nothing in the code makes a task wait *)
(* for another's projection, a snapshot restores one view and not what its *)
(* events did to others, and a repair works on the live store.  What       *)
(* follows says that these three, with a boot that reads only part of the  *)
(* log, are all that can go wrong: the runs `projection_order`,            *)
(* `snapshot_tail` and `dry_run_repair` show that each does.               *)
ProjectInTurn == \A t, u \in Tasks : pc[t] = "project" /\ pc[u] = "project" => t = u
Undisturbed == snapshots = NoSnapshots /\ repair.pc = "idle" /\ Len(log) <= REPLAY_LIMIT

InStep ==
    /\ (\A t \in Tasks : pc[t] # "project") => store = FullReplay(log)
    /\ \A t \in Tasks : pc[t] = "project" => ProjectMany(store, evs[t]) = FullReplay(log)

LEMMA InStepInit == Init /\ Undisturbed => InStep
<1> SUFFICES ASSUME Init, Undisturbed PROVE InStep
  OBVIOUS
<1>1. \A t \in Tasks : pc[t] # "project"
  BY DEF Init
<1>2. store = Boot(log, NoSnapshots) /\ log \in Seq(Row)
  BY PipelineAssumption DEF Init
<1> QED BY <1>1, <1>2, BootReplaysAll DEF InStep, Undisturbed

LEMMA CommitInStep ==
    ASSUME TypeInv, InStep, ProjectInTurn', NEW t \in Tasks, CommitAppend(t)
    PROVE  InStep'
<1>1. /\ pc[t] = "commit" /\ log' = log \o RowsAt(t, ver[t]) /\ store' = store /\ evs' = evs
      /\ pc' = [pc EXCEPT ![t] = "project"]
  BY DEF CommitAppend
<1>2. /\ log \in Seq(Row) /\ ver[t] \in Nat /\ StreamOf(t) \in Ids /\ evs[t] \in Seq(Event)
      /\ pc \in [Tasks -> WorkerPc \cup ConsumerPc]
  BY <1>1 DEF TypeInv, TasksTypeOK, Appending
<1>3. \A u \in Tasks : pc'[u] = "project" => u = t
  BY <1>1, <1>2 DEF ProjectInTurn
<1>4. \A u \in Tasks : pc[u] # "project"
  BY <1>1, <1>2, <1>3
<1>5. FullReplay(log') = ProjectMany(FullReplay(log), evs[t])
  BY <1>1, <1>2, RowsAtType, FullReplayConcat, EventsOfRowsAt
<1>6. pc'[t] = "project"
  BY <1>1, <1>2
<1> QED BY <1>1, <1>3, <1>4, <1>5, <1>6 DEF InStep

LEMMA ProjectInStep ==
    ASSUME TypeInv, InStep, ProjectInTurn, NEW t \in Tasks, ProjectEvents(t)
    PROVE  InStep'
<1>1. /\ pc[t] = "project" /\ log' = log /\ store' = ProjectMany(store, evs[t])
      /\ pc' = [pc EXCEPT ![t] = pc'[t]] /\ pc'[t] # "project"
  BY DEF ProjectEvents, durable, TypeInv, TasksTypeOK
<1>2. \A u \in Tasks : pc'[u] # "project"
  BY <1>1 DEF ProjectInTurn, TypeInv, TasksTypeOK
<1> QED BY <1>1, <1>2 DEF InStep

(* Every step but a commit, a projection and a boot leaves the log, the    *)
(* read model and who has yet to project alone, if no repair is run.       *)
ProjectionsAside ==
    /\ log' = log /\ store' = store
    /\ \A t \in Tasks : /\ (pc'[t] = "project") = (pc[t] = "project")
                        /\ pc[t] = "project" => evs'[t] = evs[t] /\ ver'[t] = ver[t]

LEMMA ProjectionMoves ==
    ASSUME TypeInv, repair.pc = "idle", repair'.pc = "idle", [Next]_vars
    PROVE  \/ ProjectionsAside
           \/ \E t \in Tasks : CommitAppend(t) \/ ProjectEvents(t)
           \/ Restart
<1> USE PipelineAssumption
<1> USE DEF Tasks, TypeInv, TasksTypeOK, durable, consumerVars, ProjectionsAside
<1>1. ASSUME NEW w \in Workers, ReceiveCommand(w) PROVE ProjectionsAside
  BY <1>1 DEF ReceiveCommand
<1>2. ASSUME NEW w \in Workers, DecideCommand(w) PROVE ProjectionsAside
  BY <1>2 DEF DecideCommand, Answer
<1>3. ASSUME NEW w \in Workers, AppendConflict(w) PROVE ProjectionsAside
  BY <1>3 DEF AppendConflict, RetryOrGiveUp, Answer
<1>4. ASSUME NEW w \in Workers, AppendBusy(w) PROVE ProjectionsAside
  BY <1>4 DEF AppendBusy, Answer
<1>5. ASSUME NEW w \in Workers, SaveSnapshot(w) PROVE ProjectionsAside
  BY <1>5 DEF SaveSnapshot
<1>6. ASSUME NEW t \in Tasks, ReadVersion(t) \/ BeginAppend(t) PROVE ProjectionsAside
  BY <1>6 DEF ReadVersion, BeginAppend
<1>7. ASSUME NEW t \in Tasks, Publish(t) PROVE ProjectionsAside
  BY SMTT(20), <1>7 DEF Publish, Answer
<1>8. ASSUME NEW c \in Consumers, TakeToken(c) \/ FlushTokens(c) \/ TakeEvent(c)
      PROVE  ProjectionsAside
  <2>1. /\ UNCHANGED <<log, store>> /\ pc[c] = "stream" /\ pc'[c] \in {"stream", "version"}
        /\ \A u \in Tasks \ {c} : pc'[u] = pc[u] /\ evs'[u] = evs[u] /\ ver'[u] = ver[u]
    BY <1>8 DEF TakeToken, FlushTokens, TakeEvent, Submit
  <2> QED BY <2>1
<1>9. ASSUME NEW c \in Consumers, StreamEnds(c) \/ ConsumerAppendFails(c)
      PROVE  ProjectionsAside
  <2>1. CASE StreamEnds(c)
    BY <2>1 DEF StreamEnds
  <2>2. CASE ConsumerAppendFails(c)
    <3>1. /\ UNCHANGED <<log, store>> /\ pc[c] \in {"begin", "commit"}
          /\ pc'[c] \in {"stream", "stopped"}
          /\ \A u \in Tasks \ {c} : pc'[u] = pc[u] /\ evs'[u] = evs[u] /\ ver'[u] = ver[u]
      BY <2>2 DEF ConsumerAppendFails
    <3> QED BY <3>1
  <2> QED BY <1>9, <2>1, <2>2
<1>10. ~RepairStep
  BY DEF RepairStep, RepairBegin, NoRepair, RepairClear, RepairLoadSnapshots, RepairReadRows,
         RepairReplay, RepairFails, RepairRestore
<1>11. ASSUME UNCHANGED vars PROVE ProjectionsAside
  BY <1>11 DEF vars
<1> HIDE DEF Tasks, TypeInv, TasksTypeOK, durable, consumerVars, ProjectionsAside
<1> QED
  BY <1>1, <1>2, <1>3, <1>4, <1>5, <1>6, <1>7, <1>8, <1>9, <1>10, <1>11, NextCases

LEMMA InStepStep ==
    ASSUME ~BootMayFail, TypeInv, InStep, ProjectInTurn, ProjectInTurn',
           Undisturbed, Undisturbed', [Next]_vars
    PROVE  InStep'
<1>1. CASE ProjectionsAside
  BY <1>1 DEF InStep, ProjectionsAside
<1>2. CASE Restart
  <2>1. log' = log /\ store' = Boot(log, NoSnapshots)
    BY <1>2 DEF Restart, Undisturbed, durable
  <2>2. \A u \in Tasks : pc'[u] # "project"
    BY <1>2 DEF Restart
  <2>3. log \in Seq(Row)
    BY DEF TypeInv, TasksTypeOK
  <2>4. store' = FullReplay(log)
    BY <2>1, <2>3, BootReplaysAll DEF Undisturbed
  <2> QED BY <2>1, <2>2, <2>4 DEF InStep
<1>3. repair.pc = "idle" /\ repair'.pc = "idle"
  BY DEF Undisturbed
<1> QED BY <1>1, <1>2, <1>3, ProjectionMoves, CommitInStep, ProjectInStep

LEMMA StaysInStep ==
    ASSUME ~BootMayFail
    PROVE  Spec /\ [](ProjectInTurn /\ Undisturbed) => []InStep
<1>1. TypeInv /\ InStep /\ ProjectInTurn /\ Undisturbed /\ [Next]_vars
        /\ ProjectInTurn' /\ Undisturbed' => InStep'
  BY InStepStep
<1> QED BY <1>1, InStepInit, TypeAndStore, PTL DEF Spec

(* However many tasks there are, if each projects what it has appended     *)
(* before another appends, and no snapshot, repair or cut replay comes in  *)
(* between, then a quiet read model is what the whole log projects to,     *)
(* across any number of crashes and conflicts.                             *)
THEOREM ReadModelStaysInStep ==
    ASSUME ~BootMayFail
    PROVE  Spec /\ [](ProjectInTurn /\ Undisturbed) => []QuietReadModelMatchesLog
<1>1. InStep => QuietReadModelMatchesLog
  BY DEF InStep, QuietReadModelMatchesLog, Quiet, Tasks
<1> QED BY <1>1, StaysInStep, PTL
-----------------------------------------------------------------------------
(* Pins and markers *)

LEMMA ProjectOne ==
    ASSUME NEW s \in ReadModelStore, NEW e \in Event
    PROVE  ProjectMany(s, <<e>>) = Project(s, e)
<1>1. <<e>> \in Seq(Event) /\ Len(<<e>>) = 1 /\ <<e>>[1] = e
  OBVIOUS
<1>2. PICK f : Projects1By1(f, s, <<e>>) /\ ProjectMany(s, <<e>>) = f[1]
  BY <1>1, ProjectManyRuns
<1>3. 1 \in 1..1 /\ 1 - 1 = 0
  OBVIOUS
<1> QED BY <1>1, <1>2, <1>3 DEF Projects1By1

(* Only their own events touch them. *)
LEMMA ProjectAnnotations ==
    ASSUME NEW s \in ReadModelStore, NEW e \in Event
    PROVE  LET after == Project(s, e) IN
           /\ e.type \notin PinEventTypes => after.pinned_messages = s.pinned_messages
           /\ e.type \notin MarkerEventTypes => after.markers = s.markers
           /\ e.type = "PinnedMessageAdded" =>
                after.pinned_messages = s.pinned_messages \cup {<<e.id, e.arg>>}
           /\ e.type = "PinnedMessageRemoved" =>
                after.pinned_messages = s.pinned_messages \ {<<e.id, e.arg>>}
           /\ e.type = "MarkerAdded" => after.markers = s.markers \cup {<<e.id, e.arg>>}
           /\ e.type = "MarkerRemoved" => after.markers = s.markers \ {<<e.id, e.arg>>}
<1> USE DEF ReadModelStore, PinEventTypes, MarkerEventTypes
<1>1. CASE e.type \in PinEventTypes \cup MarkerEventTypes
  BY <1>1 DEF Project, TurnStatusOf
<1> DEFINE Spared(x) == x.pinned_messages = s.pinned_messages /\ x.markers = s.markers
<1>2. CASE e.type \in {"ProjectCreated", "ProjectDeleted", "ThreadCreated", "ThreadDeleted"}
  <2>1. Spared(Project(s, e))
    BY <1>2 DEF Project, TurnStatusOf, ProjectThreadCreated
  <2> QED BY <1>2, <2>1
<1>3. CASE e.type \in {"ThreadStatusChanged", "ThreadArchived", "ThreadUnarchived"}
  <2>1. Spared(ProjectThreadStatus(s, e))
    BY DEF ProjectThreadStatus
  <2>2. Project(s, e) = ProjectThreadStatus(s, e)
    BY <1>3 DEF Project, TurnStatusOf
  <2> QED BY <1>3, <2>1, <2>2
<1>4. CASE e.type = "ThreadRevertCompleted"
  <2>1. PICK removed : Project(s, e) = RemoveTurns(s, removed)
    BY <1>4 DEF Project, TurnStatusOf, ProjectRevertCompleted
  <2>2. Spared(Project(s, e))
    BY <2>1 DEF RemoveTurns
  <2> QED BY <1>4, <2>2
<1>5. CASE e.type \in TurnEventTypes
  <2>1. Spared(ProjectTurnStatus(s, e))
    BY DEF ProjectTurnStatus
  <2>2. Project(s, e) = ProjectTurnStatus(s, e)
    BY <1>5 DEF Project, TurnStatusOf, TurnEventTypes
  <2> QED BY <1>5, <2>1, <2>2 DEF TurnEventTypes
<1>6. CASE e.type = "TurnStarted"
  <2>1. Spared(ProjectTurnStarted(s, e))
    BY DEF ProjectTurnStarted
  <2>2. Project(s, e) = ProjectTurnStarted(s, e)
    BY <1>6 DEF Project, TurnStatusOf
  <2> QED BY <1>6, <2>1, <2>2
<1>7. CASE e.type \in {"MessageAdded", "MessageDeltaAppended", "ActivityLogged"}
  <2>1. Spared(Project(s, e))
    BY <1>7 DEF Project, TurnStatusOf, ProjectMessageDelta
  <2> QED BY <1>7, <2>1
<1>8. \/ e.type \in PinEventTypes \cup MarkerEventTypes \cup TurnEventTypes
      \/ e.type \in {"ProjectCreated", "ProjectDeleted", "ThreadCreated", "ThreadDeleted",
                     "ThreadStatusChanged", "ThreadArchived", "ThreadUnarchived",
                     "ThreadRevertCompleted", "TurnStarted", "MessageAdded",
                     "MessageDeltaAppended", "ActivityLogged"}
  BY DEF Event, ProjectEventTypes, ThreadEventTypes
<1> QED BY <1>1, <1>2, <1>3, <1>4, <1>5, <1>6, <1>7, <1>8

AnnotationTypes == PinEventTypes \cup MarkerEventTypes

LEMMA OtherEventsSpareAnnotations ==
    ASSUME NEW s \in ReadModelStore, NEW events \in Seq(Event),
           \A k \in 1..Len(events) : events[k].type \notin AnnotationTypes
    PROVE  /\ ProjectMany(s, events).pinned_messages = s.pinned_messages
           /\ ProjectMany(s, events).markers = s.markers
<1> DEFINE n == Len(events)
           X == {x \in ReadModelStore : /\ x.pinned_messages = s.pinned_messages
                                        /\ x.markers = s.markers}
<1>1. PICK f : Projects1By1(f, s, events) /\ ProjectMany(s, events) = f[n]
  BY ProjectManyRuns
<1>2. n \in Nat /\ n \in 0..n /\ \A k \in 1..n : events[k] \in Event
  OBVIOUS
<1>3. f[0] \in X
  BY <1>1 DEF Projects1By1
<1>4. ASSUME NEW k \in 1..n, f[k - 1] \in X PROVE f[k] \in X
  <2>1. f[k] = Project(f[k - 1], events[k]) /\ f[k - 1] \in ReadModelStore
    BY <1>1, <1>4 DEF Projects1By1
  <2>2. events[k] \in Event /\ events[k].type \notin AnnotationTypes
    BY <1>2
  <2>3. Project(f[k - 1], events[k]) \in ReadModelStore
    BY <2>1, <2>2, ProjectType
  <2>4. /\ Project(f[k - 1], events[k]).pinned_messages = f[k - 1].pinned_messages
        /\ Project(f[k - 1], events[k]).markers = f[k - 1].markers
    BY <2>1, <2>2, ProjectAnnotations DEF AnnotationTypes
  <2> QED BY <1>4, <2>1, <2>3, <2>4
<1> HIDE DEF n, X
<1>5. f[n] \in X
  <2>1. StepInto(f, X, n)
    BY <1>3, <1>4 DEF StepInto
  <2> QED BY <1>2, <2>1, StepsStayIn
<1> QED BY <1>1, <1>5 DEF X

(* A thread has no more of either than the caps allow. *)
WithinCaps(s) ==
    \A th \in Threads :
      /\ IsFiniteSet(PinnedMessageIds(s, th)) /\ IsFiniteSet(MarkerIds(s, th))
      /\ Cardinality(PinnedMessageIds(s, th)) <= MAX_PINNED_MESSAGES
      /\ Cardinality(MarkerIds(s, th)) <= MAX_MARKERS

LEMMA SmallerStaysBelow ==
    ASSUME NEW S, IsFiniteSet(S), NEW T, T \subseteq S, NEW n \in Nat, Cardinality(S) <= n
    PROVE  IsFiniteSet(T) /\ Cardinality(T) <= n
<1>1. IsFiniteSet(T) /\ Cardinality(T) <= Cardinality(S)
  BY FS_Subset
<1>2. Cardinality(T) \in Nat /\ Cardinality(S) \in Nat
  BY <1>1, FS_CardinalityType
<1> QED BY <1>1, <1>2

LEMMA OneMoreStaysBelow ==
    ASSUME NEW S, IsFiniteSet(S), NEW x, NEW n \in Nat, Cardinality(S) < n
    PROVE  IsFiniteSet(S \cup {x}) /\ Cardinality(S \cup {x}) <= n
<1>1. /\ IsFiniteSet(S \cup {x})
      /\ Cardinality(S \cup {x}) = IF x \in S THEN Cardinality(S) ELSE Cardinality(S) + 1
  BY FS_AddElement
<1>2. Cardinality(S) \in Nat
  BY FS_CardinalityType
<1> QED BY <1>1, <1>2

(* An accepted command keeps the caps of the state it was accepted on. *)
LEMMA DecideAnnotations ==
    ASSUME NEW c \in Command, NEW fresh, CanAllocate(c, fresh)
    PROVE  /\ c.type \in PinCommands \cup MarkerCommands =>
                Decide(c, fresh) = <<EventRecord(PlainEventType[c.type], c.id, Nil, c.arg, c.n)>>
           /\ c.type \notin PinCommands \cup MarkerCommands =>
                \A k \in 1..Len(Decide(c, fresh)) :
                  Decide(c, fresh)[k].type \notin AnnotationTypes
<1> DEFINE Other(e) == e.type \notin AnnotationTypes
<1>0. \A e, f : /\ Other(e) => \A k \in 1..Len(<<e>>) : Other(<<e>>[k])
                /\ Other(e) /\ Other(f) => \A k \in 1..Len(<<e, f>>) : Other(<<e, f>>[k])
  OBVIOUS
<1>1. CASE c.type \in PinCommands \cup MarkerCommands
  BY <1>1 DEF Decide, PlainEventType, NewThreadStatus, PinCommands, MarkerCommands
<1>2. CASE c.type \in DOMAIN NewThreadStatus
  <2>1. Decide(c, fresh) = <<ThreadStatusChanged(c.id, NewThreadStatus[c.type])>>
    BY <1>2 DEF Decide, NewThreadStatus, PlainEventType
  <2>2. Other(ThreadStatusChanged(c.id, NewThreadStatus[c.type]))
    BY DEF ThreadStatusChanged, EventRecord, AnnotationTypes, PinEventTypes, MarkerEventTypes
  <2>3. c.type \notin PinCommands \cup MarkerCommands
    BY <1>2 DEF NewThreadStatus, PinCommands, MarkerCommands
  <2> HIDE DEF Other
  <2> QED BY <1>0, <2>1, <2>2, <2>3 DEF Other
<1>3. CASE c.type \in DOMAIN PlainEventType \ (PinCommands \cup MarkerCommands)
  <2> DEFINE e == EventRecord(PlainEventType[c.type], c.id, Nil, c.arg, c.n)
  <2>1. Decide(c, fresh) = <<e>>
    BY <1>3 DEF Decide, NewThreadStatus, PlainEventType
  <2>2. Other(e)
    BY <1>3 DEF EventRecord, AnnotationTypes, PinEventTypes, MarkerEventTypes, PlainEventType,
                PinCommands, MarkerCommands
  <2> HIDE DEF Other, e
  <2> QED BY <1>0, <1>3, <2>1, <2>2 DEF Other
<1>4. CASE c.type \in {"CreateProject", "CreateThread", "AddMessage"}
  <2>1. PICK e : Decide(c, fresh) = <<e>> /\ e.type \in {"ProjectCreated", "ThreadCreated",
                                                          "MessageAdded"}
    BY <1>4 DEF Decide, PlainEventType, NewThreadStatus, MessageAdded, EventRecord
  <2>2. Other(e)
    BY <2>1 DEF AnnotationTypes, PinEventTypes, MarkerEventTypes
  <2>3. c.type \notin PinCommands \cup MarkerCommands
    BY <1>4 DEF PinCommands, MarkerCommands
  <2> HIDE DEF Other
  <2> QED BY <1>0, <2>1, <2>2, <2>3 DEF Other
<1>5. CASE c.type = "StartTurn"
  <2>1. PICK e, f : Decide(c, fresh) = <<e, f>> /\ e.type = "TurnStarted"
                                                /\ f.type = "MessageAdded"
    BY <1>5 DEF Decide, PlainEventType, NewThreadStatus, MessageAdded, TurnStarted, EventRecord
  <2>2. Other(e) /\ Other(f)
    BY <2>1 DEF AnnotationTypes, PinEventTypes, MarkerEventTypes
  <2>3. c.type \notin PinCommands \cup MarkerCommands
    BY <1>5 DEF PinCommands, MarkerCommands
  <2> HIDE DEF Other
  <2> QED BY <1>0, <2>1, <2>2, <2>3 DEF Other
<1>6. \/ c.type \in DOMAIN NewThreadStatus \/ c.type \in DOMAIN PlainEventType
      \/ c.type \in {"CreateProject", "CreateThread", "StartTurn", "AddMessage"}
  BY DEF Command, PlainEventType, NewThreadStatus, ThreadCommands, PinCommands,
         MarkerCommands, TurnCommands
<1> QED BY <1>1, <1>2, <1>3, <1>4, <1>5, <1>6

LEMMA AcceptedKeepsCaps ==
    ASSUME NEW s \in ReadModelStore, WithinCaps(s), NEW c \in Command, Accepts(c, s),
           NEW fresh, CanAllocate(c, fresh)
    PROVE  WithinCaps(ProjectMany(s, Decide(c, fresh)))
<1> USE CapAssumption
<1>1. Decide(c, fresh) \in Seq(Event)
  BY DecideType
<1>2. CASE c.type \notin PinCommands \cup MarkerCommands
  <2>1. /\ ProjectMany(s, Decide(c, fresh)).pinned_messages = s.pinned_messages
        /\ ProjectMany(s, Decide(c, fresh)).markers = s.markers
    BY <1>1, <1>2, DecideAnnotations, OtherEventsSpareAnnotations
  <2> QED BY <2>1 DEF WithinCaps, PinnedMessageIds, MarkerIds
<1>3. CASE c.type \in PinCommands \cup MarkerCommands
  <2> DEFINE e == EventRecord(PlainEventType[c.type], c.id, Nil, c.arg, c.n)
             after == Project(s, e)
  <2>1. Decide(c, fresh) = <<e>> /\ e \in Event
    <3>1. Decide(c, fresh) = <<e>>
      BY <1>3, DecideAnnotations
    <3>2. 1 \in 1..Len(<<e>>) /\ <<e>>[1] = e
      OBVIOUS
    <3> HIDE DEF e
    <3> QED BY <1>1, <3>1, <3>2
  <2>2. ProjectMany(s, Decide(c, fresh)) = after
    <3> HIDE DEF e
    <3> QED BY <2>1, ProjectOne
  <2>3. c.id \in Threads /\ AcceptsAnnotationCommand(c, s)
    <3>1. c.id \in Threads
      BY <1>3 DEF Command, PinCommands, MarkerCommands, ThreadCommands, TurnCommands
    <3>2. AcceptsAnnotationCommand(c, s)
      BY <1>3 DEF Accepts, AcceptsProjectCommand, AcceptsCreateThread,
                  AcceptsThreadStatusCommand, AcceptsCompleteRevert, AcceptsUnguardedCommand,
                  AcceptsTurnCommand, PinCommands, MarkerCommands, ThreadCommands, TurnCommands
    <3> QED BY <3>1, <3>2
  <2>4. e.type = PlainEventType[c.type] /\ e.id = c.id /\ e.arg = c.arg
    BY DEF EventRecord
  <2> HIDE DEF e
  <2>5. SUFFICES ASSUME NEW th \in Threads
                 PROVE  /\ IsFiniteSet(PinnedMessageIds(after, th))
                        /\ IsFiniteSet(MarkerIds(after, th))
                        /\ Cardinality(PinnedMessageIds(after, th)) <= MAX_PINNED_MESSAGES
                        /\ Cardinality(MarkerIds(after, th)) <= MAX_MARKERS
    BY <2>2 DEF WithinCaps
  <2>6. CASE c.type = "AddPinnedMessage"
    <3>1. e.type = "PinnedMessageAdded"
      BY <2>4, <2>6 DEF PlainEventType
    <3>2. /\ after.pinned_messages = s.pinned_messages \cup {<<c.id, c.arg>>}
          /\ after.markers = s.markers
      BY <2>1, <2>4, <3>1, ProjectAnnotations DEF MarkerEventTypes
    <3>3. Cardinality(PinnedMessageIds(s, c.id)) < MAX_PINNED_MESSAGES
      BY <2>3, <2>6 DEF AcceptsAnnotationCommand
    <3>4. /\ MarkerIds(after, th) = MarkerIds(s, th)
          /\ th # c.id => PinnedMessageIds(after, th) = PinnedMessageIds(s, th)
          /\ th = c.id => PinnedMessageIds(after, th) \subseteq
                            PinnedMessageIds(s, th) \cup {c.arg}
      BY <3>2 DEF MarkerIds, PinnedMessageIds
    <3>5. th = c.id => /\ IsFiniteSet(PinnedMessageIds(s, th) \cup {c.arg})
                       /\ Cardinality(PinnedMessageIds(s, th) \cup {c.arg})
                            <= MAX_PINNED_MESSAGES
      BY <3>3, OneMoreStaysBelow DEF WithinCaps
    <3>6. th = c.id => /\ IsFiniteSet(PinnedMessageIds(after, th))
                       /\ Cardinality(PinnedMessageIds(after, th)) <= MAX_PINNED_MESSAGES
      BY <3>4, <3>5, SmallerStaysBelow
    <3> QED BY <3>4, <3>6 DEF WithinCaps
  <2>7. CASE c.type = "AddMarker"
    <3>1. e.type = "MarkerAdded"
      BY <2>4, <2>7 DEF PlainEventType
    <3>2. /\ after.markers = s.markers \cup {<<c.id, c.arg>>}
          /\ after.pinned_messages = s.pinned_messages
      BY <2>1, <2>4, <3>1, ProjectAnnotations DEF PinEventTypes
    <3>3. Cardinality(MarkerIds(s, c.id)) < MAX_MARKERS
      BY <2>3, <2>7 DEF AcceptsAnnotationCommand
    <3>4. /\ PinnedMessageIds(after, th) = PinnedMessageIds(s, th)
          /\ th # c.id => MarkerIds(after, th) = MarkerIds(s, th)
          /\ th = c.id => MarkerIds(after, th) \subseteq MarkerIds(s, th) \cup {c.arg}
      BY <3>2 DEF MarkerIds, PinnedMessageIds
    <3>5. th = c.id => /\ IsFiniteSet(MarkerIds(s, th) \cup {c.arg})
                       /\ Cardinality(MarkerIds(s, th) \cup {c.arg}) <= MAX_MARKERS
      BY <3>3, OneMoreStaysBelow DEF WithinCaps
    <3>6. th = c.id => /\ IsFiniteSet(MarkerIds(after, th))
                       /\ Cardinality(MarkerIds(after, th)) <= MAX_MARKERS
      BY <3>4, <3>5, SmallerStaysBelow
    <3> QED BY <3>4, <3>6 DEF WithinCaps
  <2>8. CASE c.type \in {"RemovePinnedMessage", "RemoveMarker"}
    <3>1. e.type \in {"PinnedMessageRemoved", "MarkerRemoved"}
      BY <2>4, <2>8 DEF PlainEventType
    <3>2. after.pinned_messages \subseteq s.pinned_messages /\ after.markers \subseteq s.markers
      BY <2>1, <3>1, ProjectAnnotations DEF PinEventTypes, MarkerEventTypes
    <3>3. /\ PinnedMessageIds(after, th) \subseteq PinnedMessageIds(s, th)
          /\ MarkerIds(after, th) \subseteq MarkerIds(s, th)
      BY <3>2 DEF MarkerIds, PinnedMessageIds
    <3> QED BY <3>3, SmallerStaysBelow DEF WithinCaps
  <2> QED BY <1>3, <2>6, <2>7, <2>8 DEF PinCommands, MarkerCommands
<1> QED BY <1>2, <1>3
-----------------------------------------------------------------------------
(* Where a task's events come from: a worker runs a command of its client, *)
(* and a consumer holds at most one event, of its own turn.                *)
OwnCommands == \A w \in Workers : pc[w] # "idle" => cmd[w] \in Commands[w]

Reported(c) ==
    {MessageDeltaAppended(TurnOf[c], n) : n \in Nat}
      \cup {ActivityLogged(TurnOf[c])}
      \cup {EventRecord(type, TurnOf[c], Nil, Nil, 0) : type \in {"TurnCompleted", "TurnFailed"}}

OneReport == \A c \in Consumers : evs[c] = <<>> \/ \E e \in Reported(c) : evs[c] = <<e>>

SourceInv == OwnCommands /\ OneReport

LEMMA IngestReports ==
    ASSUME NEW c \in Consumers, NEW type \in ProviderEventTypes, NEW n \in Nat
    PROVE  \/ Ingest(type, TurnOf[c], n) = <<>>
           \/ \E e \in Reported(c) : Ingest(type, TurnOf[c], n) = <<e>>
<1>1. CASE type = "Started"
  BY <1>1 DEF Ingest
<1>2. CASE type = "Token"
  BY <1>2 DEF Ingest, Reported
<1>3. CASE type = "ToolCall"
  BY <1>3 DEF Ingest, Reported
<1>4. CASE type \in {"Completed", "Error"}
  <2>1. PICK kind \in {"TurnCompleted", "TurnFailed"} :
          Ingest(type, TurnOf[c], n) = <<EventRecord(kind, TurnOf[c], Nil, Nil, 0)>>
    BY <1>4 DEF Ingest
  <2> QED BY <2>1 DEF Reported
<1> QED BY <1>1, <1>2, <1>3, <1>4 DEF ProviderEventTypes

LEMMA SourceInit == Init => SourceInv
BY DEF Init, SourceInv, OwnCommands, OneReport, Tasks

LEMMA SourceStep ==
    ASSUME TypeInv, SourceInv, [Next]_vars
    PROVE  SourceInv'
<1> DEFINE Worker(w) == pc'[w] # "idle" => pc[w] # "idle" /\ cmd'[w] = cmd[w]
           Consumer(c) == evs'[c] = evs[c] \/ evs'[c] = <<>>
           Aside == (\A w \in Workers : Worker(w)) /\ (\A c \in Consumers : Consumer(c))
<1>0. Workers \cap Consumers = {}
  BY PipelineAssumption
<1> USE <1>0 DEF Tasks, TypeInv, TasksTypeOK, durable, consumerVars
<1>1. ASSUME NEW w \in Workers, ReceiveCommand(w) PROVE SourceInv'
  <2>1. PICK c \in Commands[w] : cmd' = [cmd EXCEPT ![w] = c]
    BY <1>1 DEF ReceiveCommand
  <2>2. evs' = evs /\ pc' = [pc EXCEPT ![w] = "decide"]
    BY <1>1 DEF ReceiveCommand
  <2> QED BY <2>1, <2>2 DEF SourceInv, OwnCommands, OneReport, Reported
<1>2. ASSUME NEW w \in Workers, DecideCommand(w) PROVE Aside
  BY <1>2 DEF DecideCommand, Answer
<1>3. ASSUME NEW w \in Workers, AppendConflict(w) PROVE Aside
  BY <1>3 DEF AppendConflict, RetryOrGiveUp, Answer
<1>4. ASSUME NEW w \in Workers, AppendBusy(w) PROVE Aside
  BY <1>4 DEF AppendBusy, Answer
<1>5. ASSUME NEW w \in Workers, SaveSnapshot(w) PROVE Aside
  BY <1>5 DEF SaveSnapshot
<1>6. ASSUME NEW t \in Tasks, ReadVersion(t) \/ BeginAppend(t) PROVE Aside
  BY <1>6 DEF ReadVersion, BeginAppend
<1>7. ASSUME NEW t \in Tasks, CommitAppend(t) PROVE Aside
  BY <1>7 DEF CommitAppend
<1>8. ASSUME NEW t \in Tasks, ProjectEvents(t) PROVE Aside
  BY <1>8 DEF ProjectEvents
<1>9. ASSUME NEW t \in Tasks, Publish(t) PROVE Aside
  BY <1>9 DEF Publish, Answer
<1>10. ASSUME NEW c \in Consumers, NEW events, Submit(c, events), cmd' = cmd,
              \/ events = <<>>
              \/ \E e \in Reported(c) : events = <<e>>
       PROVE  SourceInv'
  <2>1. /\ \A u \in Tasks \ {c} : pc'[u] = pc[u] /\ evs'[u] = evs[u]
        /\ evs'[c] = events
    BY <1>10 DEF Submit
  <2> QED BY ZenonT(30), <1>10, <2>1 DEF SourceInv, OwnCommands, OneReport, Reported
<1>11. ASSUME NEW c \in Consumers, TakeToken(c) PROVE SourceInv'
  <2>1. buf[c] + 1 \in Nat /\ "Token" \in ProviderEventTypes
    BY PipelineAssumption DEF ProviderEventTypes
  <2>2. CASE UNCHANGED <<evs, pc>>
    BY <1>11, <2>2 DEF TakeToken, SourceInv, OwnCommands, OneReport, Reported
  <2>3. CASE Submit(c, Ingest("Token", TurnOf[c], buf[c] + 1))
    BY <1>10, <1>11, <2>1, <2>3, IngestReports DEF TakeToken
  <2> QED BY <1>11, <2>2, <2>3 DEF TakeToken
<1>12. ASSUME NEW c \in Consumers, FlushTokens(c) PROVE SourceInv'
  <2>1. buf[c] \in Nat /\ "Token" \in ProviderEventTypes
    BY PipelineAssumption DEF ProviderEventTypes
  <2> QED BY <1>10, <1>12, <2>1, IngestReports DEF FlushTokens
<1>13. ASSUME NEW c \in Consumers, TakeEvent(c) PROVE SourceInv'
  <2>1. Head(inbox[c]) \in ProviderEventTypes
    BY <1>13 DEF TakeEvent
  <2> QED BY <1>10, <1>13, <2>1, IngestReports DEF TakeEvent
<1>14. ASSUME NEW c \in Consumers, StreamEnds(c) PROVE Aside
  BY <1>14 DEF StreamEnds
<1>15. ASSUME NEW c \in Consumers, ConsumerAppendFails(c) PROVE Aside
  <2>1. /\ cmd' = cmd /\ evs' = [evs EXCEPT ![c] = <<>>]
        /\ \A u \in Tasks \ {c} : pc'[u] = pc[u]
    BY <1>15 DEF ConsumerAppendFails
  <2> QED BY <2>1
<1>16. ASSUME RepairStep PROVE Aside
  BY <1>16, RepairTouchesStoreOnly
<1>17. ASSUME Restart PROVE Aside
  BY <1>17 DEF Restart
<1>18. ASSUME UNCHANGED vars PROVE Aside
  BY <1>18 DEF vars
<1>19. Aside => SourceInv'
  BY DEF SourceInv, OwnCommands, OneReport, Reported
<1> HIDE DEF Aside
<1> QED
  BY <1>1, <1>2, <1>3, <1>4, <1>5, <1>6, <1>7, <1>8, <1>9, <1>11, <1>12, <1>13, <1>14, <1>15,
     <1>16, <1>17, <1>18, <1>19, NextCases

LEMMA SourcesKnown == Spec => []SourceInv
<1>1. TypeInv /\ SourceInv /\ [Next]_vars => SourceInv'
  BY SourceStep
<1> QED BY <1>1, SourceInit, TypeAndStore, PTL DEF Spec

-----------------------------------------------------------------------------
(* Decisions.  The version check covers the stream a command appends to,   *)
(* and only from the moment it reads the version; a decision reads the     *)
(* read model before that.  If no two tasks are between their decision and *)
(* their projection at once, every decision is one on the state of the log.*)
DecideInTurn ==
    \A t, u \in Tasks : {pc[t], pc[u]} \subseteq {"version", "begin", "commit", "project"}
                          => t = u

Undecided(p) == p \notin {"version", "begin", "commit"}

DecidedOnLog ==
    \A w \in Workers : Undecided(pc[w]) \/
      /\ Accepts(cmd[w], FullReplay(log))
      /\ \E fresh \in SUBSET Ids : /\ CanAllocate(cmd[w], fresh)
                                   /\ evs[w] = Decide(cmd[w], fresh)

LEMMA DecidedInit == Init => DecidedOnLog
BY DEF Init, DecidedOnLog, Undecided, Tasks

LEMMA DecidedStep ==
    ASSUME TypeInv, InStep, DecidedOnLog, DecideInTurn, DecideInTurn', [Next]_vars
    PROVE  DecidedOnLog'
<1> DEFINE Same(w) == Undecided(pc'[w]) \/ /\ ~Undecided(pc[w])
                                            /\ cmd'[w] = cmd[w] /\ evs'[w] = evs[w]
           Aside == log' = log /\ \A w \in Workers : Same(w)
<1>0. Workers \cap Consumers = {}
  BY PipelineAssumption
<1> USE <1>0 DEF Tasks, TypeInv, TasksTypeOK, durable, consumerVars, Undecided
<1>1. ASSUME NEW w \in Workers, ReceiveCommand(w) PROVE Aside
  BY <1>1 DEF ReceiveCommand
<1>2. ASSUME NEW w \in Workers, DecideCommand(w) PROVE DecidedOnLog'
  <2>1. /\ log' = log /\ cmd' = cmd /\ pc[w] = "decide"
        /\ \A u \in Tasks \ {w} : pc'[u] = pc[u] /\ evs'[u] = evs[u]
    BY <1>2 DEF DecideCommand, Answer
  <2>2. CASE pc'[w] = "idle"
    BY <2>1, <2>2 DEF DecidedOnLog
  <2>3. CASE pc'[w] # "idle"
    <3> DEFINE fresh == Ids \ UsedIds
    <3>1. /\ pc'[w] = "version" /\ Accepts(cmd[w], store) /\ CanAllocate(cmd[w], fresh)
          /\ evs'[w] = Decide(cmd[w], fresh) /\ fresh \in SUBSET Ids
      BY <1>2, <2>3 DEF DecideCommand, Answer
    <3> HIDE DEF fresh
    <3>2. \A t \in Tasks : pc[t] # "project"
      <4>1. \A t \in Tasks : pc'[t] = "project" => t = w
        BY <3>1 DEF DecideInTurn
      <4> QED BY <2>1, <4>1
    <3>3. store = FullReplay(log)
      BY <3>2 DEF InStep
    <3> QED BY <2>1, <3>1, <3>3 DEF DecidedOnLog
  <2> QED BY <2>2, <2>3
<1>3. ASSUME NEW w \in Workers, AppendConflict(w) PROVE Aside
  BY <1>3 DEF AppendConflict, RetryOrGiveUp, Answer
<1>4. ASSUME NEW w \in Workers, AppendBusy(w) PROVE Aside
  BY <1>4 DEF AppendBusy, Answer
<1>5. ASSUME NEW w \in Workers, SaveSnapshot(w) PROVE Aside
  BY <1>5 DEF SaveSnapshot
<1>6. ASSUME NEW t \in Tasks, ReadVersion(t) \/ BeginAppend(t) PROVE Aside
  BY <1>6 DEF ReadVersion, BeginAppend
<1>7. ASSUME NEW t \in Tasks, CommitAppend(t) PROVE DecidedOnLog'
  <2>1. pc[t] = "commit" /\ pc' = [pc EXCEPT ![t] = "project"]
    BY <1>7 DEF CommitAppend
  <2>2. \A u \in Tasks : Undecided(pc[u]) \/ u = t
    BY <2>1 DEF DecideInTurn
  <2>3. \A u \in Tasks : Undecided(pc'[u])
    BY <2>1, <2>2
  <2> QED BY <2>3 DEF DecidedOnLog
<1>8. ASSUME NEW t \in Tasks, ProjectEvents(t) PROVE Aside
  BY <1>8 DEF ProjectEvents
<1>9. ASSUME NEW t \in Tasks, Publish(t) PROVE Aside
  BY <1>9 DEF Publish, Answer
<1>10. ASSUME NEW c \in Consumers, TakeToken(c) \/ FlushTokens(c) \/ TakeEvent(c) PROVE Aside
  <2>1. /\ log' = log /\ cmd' = cmd
        /\ \A u \in Tasks \ {c} : pc'[u] = pc[u] /\ evs'[u] = evs[u]
    BY <1>10 DEF TakeToken, FlushTokens, TakeEvent, Submit
  <2> QED BY <2>1
<1>11. ASSUME NEW c \in Consumers, StreamEnds(c) \/ ConsumerAppendFails(c) PROVE Aside
  <2>1. /\ log' = log /\ cmd' = cmd
        /\ \A u \in Tasks \ {c} : pc'[u] = pc[u] /\ evs'[u] = evs[u]
    BY <1>11 DEF StreamEnds, ConsumerAppendFails
  <2> QED BY <2>1
<1>12. ASSUME RepairStep PROVE Aside
  BY <1>12, RepairTouchesStoreOnly
<1>13. ASSUME Restart PROVE Aside
  BY <1>13 DEF Restart
<1>14. ASSUME UNCHANGED vars PROVE Aside
  BY <1>14 DEF vars
<1>15. Aside => DecidedOnLog'
  BY DEF DecidedOnLog
<1> HIDE DEF Aside
<1> QED
  BY <1>1, <1>2, <1>3, <1>4, <1>5, <1>6, <1>7, <1>8, <1>9, <1>10, <1>11, <1>12, <1>13, <1>14,
     <1>15, NextCases

LEMMA InTurn == DecideInTurn => ProjectInTurn
BY DEF DecideInTurn, ProjectInTurn

LEMMA StaysDecidedOnLog ==
    ASSUME ~BootMayFail
    PROVE  Spec /\ [](DecideInTurn /\ Undisturbed) => [](InStep /\ DecidedOnLog)
<1>1. TypeInv /\ InStep /\ DecidedOnLog /\ DecideInTurn /\ [Next]_vars /\ DecideInTurn'
        => DecidedOnLog'
  BY DecidedStep
<1> QED BY <1>1, DecidedInit, StaysInStep, InTurn, TypeAndStore, PTL DEF Spec
(* A step that stores nothing, or the commit of one task. *)
LEMMA LogChanges ==
    ASSUME [Next]_vars
    PROVE  log' = log \/ \E t \in Tasks : CommitAppend(t)
<1> USE DEF durable
<1>1. \A w \in Workers : ReceiveCommand(w) \/ DecideCommand(w) \/ AppendConflict(w)
                           \/ AppendBusy(w) \/ SaveSnapshot(w) => log' = log
  BY DEF ReceiveCommand, DecideCommand, AppendConflict, AppendBusy, SaveSnapshot
<1>2. \A t \in Tasks : ReadVersion(t) \/ BeginAppend(t) \/ ProjectEvents(t) \/ Publish(t)
                         => log' = log
  BY DEF ReadVersion, BeginAppend, ProjectEvents, Publish
<1>3. \A c \in Consumers : TakeToken(c) \/ FlushTokens(c) \/ TakeEvent(c)
                             \/ StreamEnds(c) \/ ConsumerAppendFails(c) => log' = log
  BY DEF TakeToken, FlushTokens, TakeEvent, StreamEnds, ConsumerAppendFails
<1>4. RepairStep \/ Restart \/ UNCHANGED vars => log' = log
  BY RepairTouchesStoreOnly DEF Restart, vars
<1> QED BY <1>1, <1>2, <1>3, <1>4, NextCases

(* What a commit adds. *)
LEMMA CommitAdds ==
    ASSUME TypeInv, NEW t \in Tasks, CommitAppend(t)
    PROVE  /\ log \in Seq(Row) /\ evs[t] \in Seq(Event) /\ evs[t] # <<>>
           /\ StreamOf(t) \in Ids /\ ver[t] \in Nat /\ RowsAt(t, ver[t]) \in Seq(Row)
           /\ log' = log \o RowsAt(t, ver[t])
           /\ Len(RowsAt(t, ver[t])) = Len(evs[t])
           /\ FullReplay(log') = ProjectMany(FullReplay(log), evs[t])
<1>1. /\ log \in Seq(Row) /\ ver[t] \in Nat /\ StreamOf(t) \in Ids /\ evs[t] \in Seq(Event)
      /\ evs[t] # <<>> /\ log' = log \o RowsAt(t, ver[t])
  BY DEF TypeInv, TasksTypeOK, Appending, CommitAppend
<1>2. RowsAt(t, ver[t]) \in Seq(Row) /\ Len(RowsAt(t, ver[t])) = Len(evs[t])
  BY <1>1, RowsAtType
<1> QED BY <1>1, <1>2, FullReplayConcat, EventsOfRowsAt

FiniteAnnotations(s) ==
    \A th \in Threads : IsFiniteSet(PinnedMessageIds(s, th)) /\ IsFiniteSet(MarkerIds(s, th))

LEMMA ReplayedAnnotationsAreFinite ==
    ASSUME NEW rows \in Seq(Row)
    PROVE  FiniteAnnotations(FullReplay(rows))
<1> DEFINE events == EventsOf(rows)
           n == Len(events)
           X == {x \in ReadModelStore : FiniteAnnotations(x)}
<1>1. events \in Seq(Event)
  BY EventsOfType
<1> HIDE DEF events
<1>2. PICK f : Projects1By1(f, EmptyStore, events) /\ ProjectMany(EmptyStore, events) = f[n]
  BY <1>1, ProjectManyRuns, EmptyStoreType
<1>3. n \in Nat /\ n \in 0..n /\ \A k \in 1..n : events[k] \in Event
  BY <1>1
<1>4. f[0] \in X
  <2>1. \A th \in Threads : PinnedMessageIds(EmptyStore, th) = {} /\ MarkerIds(EmptyStore, th) = {}
    BY DEF EmptyStore, PinnedMessageIds, MarkerIds
  <2> QED BY <1>2, <2>1, EmptyStoreType, FS_EmptySet DEF Projects1By1, FiniteAnnotations
<1>5. ASSUME NEW k \in 1..n, f[k - 1] \in X PROVE f[k] \in X
  <2> DEFINE x == f[k - 1]
             e == events[k]
  <2>1. f[k] = Project(x, e) /\ x \in ReadModelStore /\ FiniteAnnotations(x) /\ e \in Event
    BY <1>2, <1>3, <1>5 DEF Projects1By1
  <2> HIDE DEF x, e
  <2>2. f[k] \in ReadModelStore
    BY <2>1, ProjectType
  <2>3. ASSUME NEW th \in Threads
        PROVE  IsFiniteSet(PinnedMessageIds(f[k], th)) /\ IsFiniteSet(MarkerIds(f[k], th))
    <3>1. /\ f[k].pinned_messages \subseteq x.pinned_messages \cup {<<e.id, e.arg>>}
          /\ f[k].markers \subseteq x.markers \cup {<<e.id, e.arg>>}
      BY <2>1, ProjectAnnotations DEF PinEventTypes, MarkerEventTypes
    <3>2. /\ PinnedMessageIds(f[k], th) \subseteq PinnedMessageIds(x, th) \cup {e.arg}
          /\ MarkerIds(f[k], th) \subseteq MarkerIds(x, th) \cup {e.arg}
      BY <3>1 DEF PinnedMessageIds, MarkerIds
    <3>3. /\ IsFiniteSet(PinnedMessageIds(x, th) \cup {e.arg})
          /\ IsFiniteSet(MarkerIds(x, th) \cup {e.arg})
      BY <2>1, FS_AddElement DEF FiniteAnnotations
    <3> QED BY <3>2, <3>3, FS_Subset
  <2> QED BY <2>2, <2>3 DEF FiniteAnnotations
<1> HIDE DEF n, X
<1>6. f[n] \in X
  <2>1. StepInto(f, X, n)
    BY <1>4, <1>5 DEF StepInto
  <2> QED BY <1>3, <2>1, StepsStayIn
<1> QED BY <1>2, <1>6, FullReplayProjects DEF events, X

LEMMA CapsInit ==
    ASSUME \A th \in Threads :
             /\ Cardinality(PinnedMessageIds(FullReplay(Existing), th)) <= MAX_PINNED_MESSAGES
             /\ Cardinality(MarkerIds(FullReplay(Existing), th)) <= MAX_MARKERS
    PROVE  Init => WithinCaps(FullReplay(log))
BY PipelineAssumption, ReplayedAnnotationsAreFinite DEF Init, WithinCaps, FiniteAnnotations

LEMMA CapsStep ==
    ASSUME TypeInv, SourceInv, DecidedOnLog, WithinCaps(FullReplay(log)), [Next]_vars
    PROVE  WithinCaps(FullReplay(log))'
<1>1. ASSUME NEW t \in Tasks, CommitAppend(t) PROVE WithinCaps(FullReplay(log'))
  <2>1. /\ log \in Seq(Row) /\ evs[t] \in Seq(Event) /\ pc[t] = "commit"
        /\ FullReplay(log') = ProjectMany(FullReplay(log), evs[t])
    BY <1>1, CommitAdds DEF CommitAppend
  <2>2. FullReplay(log) \in ReadModelStore
    BY <2>1, FullReplayType
  <2>3. CASE t \in Workers
    <3>1. /\ cmd[t] \in Command /\ Accepts(cmd[t], FullReplay(log))
          /\ \E fresh \in SUBSET Ids : CanAllocate(cmd[t], fresh)
                                         /\ evs[t] = Decide(cmd[t], fresh)
      BY <2>1, <2>3 DEF DecidedOnLog, Undecided, TypeInv
    <3> QED BY <2>1, <2>2, <3>1, AcceptedKeepsCaps
  <2>4. CASE t \in Consumers
    <3>1. PICK e : evs[t] = <<e>> /\ e \in Reported(t)
      BY <1>1, <2>4, CommitAdds DEF SourceInv, OneReport
    <3>2. e.type \notin AnnotationTypes
      BY <3>1 DEF Reported, MessageDeltaAppended, ActivityLogged, EventRecord, AnnotationTypes,
                  PinEventTypes, MarkerEventTypes
    <3>3. \A k \in 1..Len(evs[t]) : evs[t][k].type \notin AnnotationTypes
      BY <3>1, <3>2
    <3>4. /\ FullReplay(log').pinned_messages = FullReplay(log).pinned_messages
          /\ FullReplay(log').markers = FullReplay(log).markers
      BY <2>1, <2>2, <3>3, OtherEventsSpareAnnotations
    <3> QED BY <3>4 DEF WithinCaps, PinnedMessageIds, MarkerIds
  <2> QED BY <2>3, <2>4 DEF Tasks
<1>2. CASE log' = log
  BY <1>2 DEF WithinCaps, PinnedMessageIds, MarkerIds, FullReplay
<1> QED BY <1>1, <1>2, LogChanges

(* If decisions are made one at a time and nothing disturbs the read       *)
(* model, no thread ever has more pins or markers than the caps allow,     *)
(* whatever mixture of commands and provider events, conflicts and crashes *)
(* comes.                                                                  *)
THEOREM CapsHold ==
    ASSUME ~BootMayFail,
           \A th \in Threads :
             /\ Cardinality(PinnedMessageIds(FullReplay(Existing), th)) <= MAX_PINNED_MESSAGES
             /\ Cardinality(MarkerIds(FullReplay(Existing), th)) <= MAX_MARKERS
    PROVE  Spec /\ [](DecideInTurn /\ Undisturbed) => []AnnotationsWithinCaps
<1>1. TypeInv /\ SourceInv /\ DecidedOnLog /\ WithinCaps(FullReplay(log)) /\ [Next]_vars
        => WithinCaps(FullReplay(log))'
  BY CapsStep
<1>2. WithinCaps(FullReplay(log)) => AnnotationsWithinCaps
  BY DEF WithinCaps, AnnotationsWithinCaps
<1>3. Init => WithinCaps(FullReplay(log))
  BY CapsInit
<1> QED BY <1>1, <1>2, <1>3, StaysDecidedOnLog, SourcesKnown, TypeAndStore, PTL DEF Spec

-----------------------------------------------------------------------------
(* The last decision about a thread *)

LEMMA DecidesAloneOnThreads ==
    ASSUME NEW c \in Command, c.type # "CreateThread", NEW fresh, CanAllocate(c, fresh),
           Decide(c, fresh)[1].id \in Threads
    PROVE  /\ c.type \in DOMAIN NewThreadStatus \cup DOMAIN PlainEventType
           /\ \E e : Decide(c, fresh) = <<e>> /\ Decide(c, {}) = <<e>>
<1>1. CASE c.type \in DOMAIN NewThreadStatus
  BY <1>1 DEF Decide, NewThreadStatus, PlainEventType
<1>2. CASE c.type \in DOMAIN PlainEventType
  BY <1>2 DEF Decide, NewThreadStatus, PlainEventType
<1>3. CASE c.type = "CreateProject"
  <2>1. Decide(c, fresh)[1].id \in Projects
    BY <1>3 DEF Decide, NewThreadStatus, PlainEventType, CanAllocate, FreshId, EventRecord
  <2> QED BY <2>1, IdAssumption
<1>4. CASE c.type = "StartTurn"
  <2>1. Decide(c, fresh)[1].id \in Turns
    BY <1>4 DEF Decide, NewThreadStatus, PlainEventType, CanAllocate, FreshId, EventRecord,
                TurnStarted
  <2> QED BY <2>1, IdAssumption
<1>5. CASE c.type = "AddMessage"
  <2>1. Decide(c, fresh)[1].id \in Messages
    BY <1>5 DEF Decide, NewThreadStatus, PlainEventType, CanAllocate, FreshId, EventRecord,
                MessageAdded
  <2> QED BY <2>1, IdAssumption
<1>6. \/ c.type \in DOMAIN NewThreadStatus \/ c.type \in DOMAIN PlainEventType
      \/ c.type \in {"CreateProject", "StartTurn", "AddMessage"}
  BY DEF Command, PlainEventType, NewThreadStatus, ThreadCommands, PinCommands,
         MarkerCommands, TurnCommands
<1> QED BY <1>1, <1>2, <1>3, <1>4, <1>5, <1>6

LEMMA FollowStep ==
    ASSUME \A w \in Workers : \A c \in Commands[w] : c.type # "CreateThread",
           TypeInv, SourceInv, DecidedOnLog, DecisionsFollowLog, [Next]_vars
    PROVE  DecisionsFollowLog'
<1>1. ASSUME NEW t \in Tasks, CommitAppend(t) PROVE DecisionsFollowLog'
  <2> DEFINE new == RowsAt(t, ver[t])
  <2>1. /\ log \in Seq(Row) /\ evs[t] \in Seq(Event) /\ evs[t] # <<>> /\ StreamOf(t) \in Ids
        /\ new \in Seq(Row) /\ log' = log \o new /\ Len(new) = Len(evs[t]) /\ pc[t] = "commit"
    BY <1>1, CommitAdds DEF CommitAppend
  <2>2. \A k \in 1..Len(evs[t]) : new[k].stream = StreamOf(t) /\ new[k].event = evs[t][k]
    BY DEF RowsAt
  <2> HIDE DEF new
  <2>3. /\ Len(log') = Len(log) + Len(evs[t]) /\ Len(evs[t]) \in 1..Len(evs[t])
        /\ log'[Len(log')] = new[Len(evs[t])]
    <3>1. \A x \in Seq(Event) : x # <<>> => Len(x) \in Nat \ {0}
      OBVIOUS
    <3>2. \A x \in Seq(Row), y \in Seq(Row) : Len(x \o y) = Len(x) + Len(y)
      OBVIOUS
    <3>3. \A x \in Seq(Row), y \in Seq(Row) : \A i \in 1..Len(y) :
            (x \o y)[Len(x) + i] = y[i]
      OBVIOUS
    <3>4. Len(evs[t]) \in Nat \ {0} /\ Len(log) \in Nat
      BY <2>1, <3>1
    <3>5. Len(evs[t]) \in 1..Len(evs[t])
      BY <3>4
    <3>6. Len(log') = Len(log) + Len(evs[t])
      BY <2>1, <3>2
    <3>7. (log \o new)[Len(log) + Len(evs[t])] = new[Len(evs[t])]
      BY <2>1, <3>3, <3>5
    <3> QED BY <2>1, <3>5, <3>6, <3>7
  <2> SUFFICES ASSUME StreamOf(t) \in Threads
               PROVE  \E w \in Workers : \E c \in Commands[w] :
                        /\ c.type \in DOMAIN NewThreadStatus \cup DOMAIN PlainEventType
                        /\ Accepts(c, FullReplay(SubSeq(log', 1, Len(log') - 1)))
                        /\ Decide(c, {}) = <<log'[Len(log')].event>>
    BY <2>2, <2>3 DEF DecisionsFollowLog
  <2>4. t \in Workers
    <3>1. t \in Consumers => TurnOf[t] \in Turns
      BY PipelineAssumption
    <3> QED BY <3>1, IdAssumption DEF StreamOf, Tasks
  <2>5. cmd[t] \in Commands[t] /\ cmd[t] \in Command /\ Accepts(cmd[t], FullReplay(log))
    BY <2>1, <2>4 DEF SourceInv, OwnCommands, DecidedOnLog, Undecided, TypeInv
  <2>6. PICK fresh \in SUBSET Ids : CanAllocate(cmd[t], fresh) /\ evs[t] = Decide(cmd[t], fresh)
    BY <2>1, <2>4 DEF DecidedOnLog, Undecided
  <2>7. Decide(cmd[t], fresh)[1].id \in Threads /\ cmd[t].type # "CreateThread"
    BY <2>4, <2>5, <2>6 DEF StreamOf
  <2>8. PICK e : evs[t] = <<e>> /\ Decide(cmd[t], {}) = <<e>>
    BY <2>5, <2>6, <2>7, DecidesAloneOnThreads
  <2>9. /\ Len(evs[t]) = 1 /\ log'[Len(log')].event = e
    BY <2>2, <2>3, <2>8
  <2>10. SubSeq(log', 1, Len(log') - 1) = log
    <3>1. \A x \in Seq(Row), y \in Seq(Row) :
            Len(y) = 1 => SubSeq(x \o y, 1, Len(x \o y) - 1) = x
      <4> TAKE x \in Seq(Row), y \in Seq(Row)
      <4> HAVE Len(y) = 1
      <4> DEFINE z == SubSeq(x \o y, 1, Len(x \o y) - 1)
      <4>1. Len(x \o y) = Len(x) + 1 /\ Len(x) \in Nat
        <5>1. \A u \in Seq(Row), v \in Seq(Row) : Len(u \o v) = Len(u) + Len(v)
          OBVIOUS
        <5>2. \A u \in Seq(Row) : Len(u) \in Nat
          OBVIOUS
        <5>3. Len(x \o y) = Len(x) + Len(y)
          BY ONLY <5>1, x \in Seq(Row), y \in Seq(Row)
        <5> QED BY <5>2, <5>3
      <4>2. z \in Seq(Row) /\ Len(z) = Len(x) /\ \A i \in 1..Len(x) : z[i] = x[i]
        BY <4>1
      <4> HIDE DEF z
      <4>3. z = x
        BY <4>2
      <4> QED BY <4>3 DEF z
    <3> QED BY <2>1, <2>9, <3>1
  <2>11. cmd[t].type \in DOMAIN NewThreadStatus \cup DOMAIN PlainEventType
    BY <2>5, <2>6, <2>7, DecidesAloneOnThreads
  <2> QED BY <2>4, <2>5, <2>8, <2>9, <2>10, <2>11
<1>2. CASE log' = log
  BY <1>2 DEF DecisionsFollowLog
<1> QED BY <1>1, <1>2, LogChanges

(* Then, too, the event last appended to a thread is one that a command of *)
(* a client produces from the state the log before it describes: the       *)
(* decision was not stale when it was stored.  (CreateThread is left out:  *)
(* handle_command itself guards it, and not with the state of the thread.) *)
THEOREM DecisionsAreCurrent ==
    ASSUME ~BootMayFail, \A w \in Workers : \A c \in Commands[w] : c.type # "CreateThread"
    PROVE  Spec /\ [](DecideInTurn /\ Undisturbed) => []DecisionsFollowLog
<1>1. Init => DecisionsFollowLog
  <2> SUFFICES ASSUME Init PROVE DecisionsFollowLog
    OBVIOUS
  <2>1. Len(log) = Len(Existing) /\ Len(log) \in Nat
    BY PipelineAssumption DEF Init
  <2> QED BY <2>1 DEF DecisionsFollowLog
<1>2. TypeInv /\ SourceInv /\ DecidedOnLog /\ DecisionsFollowLog /\ [Next]_vars
        => DecisionsFollowLog'
  BY FollowStep
<1> QED BY <1>1, <1>2, StaysDecidedOnLog, SourcesKnown, TypeAndStore, PTL DEF Spec

-----------------------------------------------------------------------------
(* Threads.  Snapshots seed one view each, so a boot that uses them need   *)
(* not be a full replay; but what it makes of the project and the status   *)
(* of a thread depends on the events of that thread alone.                 *)

(* What decisions about a thread read of its view. *)
Settled(view) ==
    IF view = Nil THEN <<>> ELSE <<[project |-> view.project, status |-> view.status]>>

ThreadIn(s, th) == Settled(s.threads[th])

(* What an event of the thread makes of it. *)
StatusEventTypes == {"ThreadStatusChanged", "ThreadArchived", "ThreadUnarchived"}
Becomes(x, e) ==
    IF e.type = "ThreadCreated" THEN <<[project |-> e.of, status |-> "active"]>>
    ELSE IF e.type = "ThreadDeleted" \/ x = <<>> THEN <<>>
    ELSE IF e.type \in StatusEventTypes
         THEN <<[project |-> x[1].project, status |-> ThreadStatusOf(e)]>>
    ELSE x

LEMMA SettledView ==
    ASSUME NEW view \in ThreadView
    PROVE  /\ Settled(view) = <<[project |-> view.project, status |-> view.status]>>
           /\ Settled(view) # <<>> /\ Settled(Nil) = <<>>
BY ViewAssumption DEF Settled

(* Only these touch the map of threads. *)
ThreadTouchers == {"ThreadCreated", "ThreadDeleted", "TurnStarted"} \cup StatusEventTypes

LEMMA ThreadsSpared ==
    ASSUME NEW s \in ReadModelStore, NEW e \in Event, e.type \notin ThreadTouchers
    PROVE  Project(s, e).threads = s.threads
<1> DEFINE after == Project(s, e)
<1> USE DEF ThreadTouchers
<1>1. CASE e.type = "ThreadRevertCompleted"
  <2>1. PICK removed : after = RemoveTurns(s, removed)
    BY <1>1 DEF Project, TurnStatusOf, ProjectRevertCompleted
  <2> QED BY <2>1 DEF RemoveTurns, ReadModelStore
<1>2. CASE e.type \in TurnEventTypes
  <2>1. after = ProjectTurnStatus(s, e)
    BY <1>2 DEF Project, TurnStatusOf, TurnEventTypes
  <2> QED BY <2>1 DEF ProjectTurnStatus, ReadModelStore
<1>3. CASE e.type \in PinEventTypes \cup MarkerEventTypes \cup
                       {"ProjectCreated", "ProjectDeleted", "MessageAdded",
                        "MessageDeltaAppended", "ActivityLogged"}
  BY <1>3 DEF Project, TurnStatusOf, ProjectMessageDelta, PinEventTypes, MarkerEventTypes,
              ReadModelStore
<1>4. \/ e.type \in PinEventTypes \cup MarkerEventTypes \cup TurnEventTypes
      \/ e.type \in {"ProjectCreated", "ProjectDeleted", "MessageAdded",
                     "MessageDeltaAppended", "ActivityLogged", "ThreadRevertCompleted"}
  BY DEF Event, ProjectEventTypes, ThreadEventTypes, StatusEventTypes
<1> QED BY <1>1, <1>2, <1>3, <1>4

LEMMA ProjectThread ==
    ASSUME NEW s \in ReadModelStore, NEW e \in Event, NEW th \in Threads
    PROVE  ThreadIn(Project(s, e), th) =
             IF e.id = th THEN Becomes(ThreadIn(s, th), e) ELSE ThreadIn(s, th)
<1> DEFINE after == Project(s, e)
<1>1. s.threads \in [Threads -> ThreadView \cup {Nil}]
  BY DEF ReadModelStore
<1>2. CASE e.type = "ThreadCreated"
  <2> DEFINE view == [project |-> e.of, status |-> "active", turn_count |-> 0]
  <2>1. e.id \in Threads /\ view \in ThreadView
    BY <1>2, EventFields DEF ThreadView, ThreadStatus
  <2>2. after.threads = [s.threads EXCEPT ![e.id] = view]
    BY <1>2 DEF Project, TurnStatusOf, ProjectThreadCreated, Put, ReadModelStore
  <2>3. Settled(view) = <<[project |-> e.of, status |-> "active"]>>
    BY <2>1, SettledView
  <2> HIDE DEF view, after
  <2>4. after.threads[th] = IF e.id = th THEN view ELSE s.threads[th]
    BY <1>1, <2>1, <2>2
  <2> QED BY <1>2, <2>3, <2>4 DEF ThreadIn, Becomes, after
<1>3. CASE e.type = "ThreadDeleted"
  <2>1. after.threads = Drop(s.threads, {e.id})
    BY <1>3 DEF Project, TurnStatusOf, ReadModelStore
  <2> HIDE DEF after
  <2>2. after.threads[th] = IF e.id = th THEN Nil ELSE s.threads[th]
    BY <1>1, <2>1 DEF Drop
  <2> QED BY <1>3, <2>2 DEF ThreadIn, Becomes, Settled, after
<1>4. CASE e.type \in StatusEventTypes
  <2>1. e.id \in Threads /\ ThreadStatusOf(e) \in ThreadStatus
    BY <1>4, EventFields DEF ThreadStatusOf, ThreadStatus, ThreadEventTypes, StatusEventTypes
  <2>2. after = ProjectThreadStatus(s, e)
    BY <1>4 DEF Project, TurnStatusOf, StatusEventTypes
  <2>3. CASE s.threads[e.id] = Nil
    BY <1>4, <2>2, <2>3 DEF ProjectThreadStatus, ThreadIn, Becomes, Settled, StatusEventTypes
  <2>4. CASE s.threads[e.id] # Nil
    <3> DEFINE view == [s.threads[e.id] EXCEPT !.status = ThreadStatusOf(e)]
    <3>1. s.threads[e.id] \in ThreadView
      BY <1>1, <2>1, <2>4
    <3>2. /\ view \in ThreadView /\ view.project = s.threads[e.id].project
          /\ view.status = ThreadStatusOf(e)
      BY <2>1, <3>1 DEF ThreadView
    <3>3. after.threads = [s.threads EXCEPT ![e.id] = view]
      BY <2>2, <2>4 DEF ProjectThreadStatus, ReadModelStore
    <3> HIDE DEF view, after
    <3>4. after.threads[th] = IF e.id = th THEN view ELSE s.threads[th]
      BY <1>1, <2>1, <3>3
    <3>5. Settled(view) = <<[project |-> s.threads[e.id].project, status |-> ThreadStatusOf(e)]>>
      BY <3>2, SettledView
    <3>6. /\ Settled(s.threads[e.id]) # <<>>
          /\ Settled(s.threads[e.id])[1].project = s.threads[e.id].project
      BY <3>1, SettledView
    <3>7. Becomes(ThreadIn(s, e.id), e) = Settled(view)
      BY <1>4, <3>5, <3>6 DEF ThreadIn, Becomes, StatusEventTypes
    <3> QED BY <3>4, <3>7 DEF ThreadIn, after
  <2> QED BY <2>3, <2>4
<1>5. CASE e.type = "TurnStarted"
  <2> DEFINE view == [s.threads[e.of] EXCEPT !.turn_count = @ + 1]
  <2>1. e.id \in Turns /\ e.of \in Threads
    BY <1>5, EventFields
  <2>2. after = ProjectTurnStarted(s, e)
    BY <1>5 DEF Project, TurnStatusOf
  <2>3. CASE s.threads[e.of] = Nil
    <3>1. after.threads = s.threads
      BY <2>2, <2>3 DEF ProjectTurnStarted, ReadModelStore
    <3> QED BY <2>1, <3>1, IdAssumption DEF ThreadIn
  <2>4. CASE s.threads[e.of] # Nil
    <3>1. s.threads[e.of] \in ThreadView
      BY <1>1, <2>1, <2>4
    <3>2. /\ view \in ThreadView /\ view.project = s.threads[e.of].project
          /\ view.status = s.threads[e.of].status
      BY <3>1 DEF ThreadView
    <3>3. after.threads = [s.threads EXCEPT ![e.of] = view]
      BY <2>2, <2>4 DEF ProjectTurnStarted, ReadModelStore
    <3> HIDE DEF view, after
    <3>4. after.threads[th] = IF e.of = th THEN view ELSE s.threads[th]
      BY <1>1, <2>1, <3>3
    <3>5. Settled(view) = Settled(s.threads[e.of])
      BY <3>1, <3>2, SettledView
    <3> QED BY <2>1, <3>4, <3>5, IdAssumption DEF ThreadIn, after
  <2> QED BY <2>3, <2>4
<1>6. CASE e.type \notin ThreadTouchers
  <2>1. after.threads = s.threads
    BY <1>6, ThreadsSpared
  <2>2. Becomes(ThreadIn(s, th), e) = ThreadIn(s, th)
    BY <1>6 DEF Becomes, ThreadTouchers
  <2> QED BY <2>1, <2>2 DEF ThreadIn
<1> QED BY <1>2, <1>3, <1>4, <1>5, <1>6 DEF ThreadTouchers

LEMMA ProjectsElsewhere ==
    ASSUME NEW s \in ReadModelStore, NEW events \in Seq(Event), NEW th \in Threads,
           \A k \in 1..Len(events) : events[k].id # th
    PROVE  ThreadIn(ProjectMany(s, events), th) = ThreadIn(s, th)
<1> DEFINE n == Len(events)
           X == {x \in ReadModelStore : ThreadIn(x, th) = ThreadIn(s, th)}
<1>1. PICK f : Projects1By1(f, s, events) /\ ProjectMany(s, events) = f[n]
  BY ProjectManyRuns
<1>2. n \in Nat /\ n \in 0..n /\ \A k \in 1..n : events[k] \in Event
  OBVIOUS
<1>3. f[0] \in X
  BY <1>1 DEF Projects1By1
<1>4. ASSUME NEW k \in 1..n, f[k - 1] \in X PROVE f[k] \in X
  <2>1. f[k] = Project(f[k - 1], events[k]) /\ f[k - 1] \in ReadModelStore
    BY <1>1, <1>4 DEF Projects1By1
  <2>2. events[k] \in Event /\ events[k].id # th
    BY <1>2
  <2>3. Project(f[k - 1], events[k]) \in ReadModelStore
    BY <2>1, <2>2, ProjectType
  <2>4. ThreadIn(Project(f[k - 1], events[k]), th) = ThreadIn(f[k - 1], th)
    BY <2>1, <2>2, ProjectThread
  <2> QED BY <1>4, <2>1, <2>3, <2>4
<1> HIDE DEF n, X
<1>5. f[n] \in X
  <2>1. StepInto(f, X, n)
    BY <1>3, <1>4 DEF StepInto
  <2> QED BY <1>2, <2>1, StepsStayIn
<1> QED BY <1>1, <1>5 DEF X

-----------------------------------------------------------------------------
(* The rows of a thread: its events, and no others, are in its own stream. *)
InOwnStream(stream, e) == e.id \in Threads \/ stream \in Threads => e.id = stream
Native(rows) == \A i \in DOMAIN rows : InOwnStream(rows[i].stream, rows[i].event)

LEMMA CountingUp ==
    ASSUME NEW b \in Nat
    PROVE  IsFiniteSet(1..b) /\ Cardinality(1..b) = b
<1>1. 1 \in Int /\ b \in Int
  OBVIOUS
<1> QED BY <1>1, FS_Interval

(* The replay's skip counter of a thread has reached, at each of the       *)
(* thread's rows, the number the row has in its stream.                    *)
LEMMA EventCount ==
    ASSUME NEW rows \in Seq(Row), Contiguous(rows), Native(rows), NEW th \in Threads,
           NEW j \in 1..Len(rows), rows[j].event.id = th
    PROVE  Cardinality({k \in 1..j : rows[k].event.id = th}) = rows[j].sequence
<1> DEFINE K == {k \in 1..j : rows[k].event.id = th}
           m == rows[j].sequence
           f == [k \in K |-> rows[k].sequence]
<1>1. \A k \in 1..Len(rows) : /\ rows[k].sequence \in Nat \ {0}
                              /\ rows[k].event.id = th <=> rows[k].stream = th
  <2>1. \A r \in Row : r.sequence \in Nat \ {0}
    BY DEF Row
  <2>2. \A k \in 1..Len(rows) : rows[k] \in Row /\ InOwnStream(rows[k].stream, rows[k].event)
    BY DEF Native
  <2> QED BY <2>1, <2>2 DEF InOwnStream
<1>2. Len(rows) \in Nat /\ 1..j \subseteq 1..Len(rows)
  OBVIOUS
<1>3. th \in Ids
  BY DEF Ids
<1>4. \A k, l \in 1..Len(rows) : k < l /\ rows[k].stream = th /\ rows[l].stream = th
                                   => rows[k].sequence < rows[l].sequence
  BY <1>3 DEF Contiguous
<1>5. PICK n \in 0..Len(rows) : Sequences(rows, th) = 1..n
  BY <1>3 DEF Contiguous
<1>6. f \in [K -> 1..m]
  <2> SUFFICES ASSUME NEW k \in K PROVE rows[k].sequence \in 1..m
    OBVIOUS
  <2>1. k = j \/ k < j
    OBVIOUS
  <2> QED BY <1>1, <1>2, <1>4, <2>1
<1>7. \A k, l \in K : f[k] = f[l] => k = l
  <2> SUFFICES ASSUME NEW k \in K, NEW l \in K, k # l
               PROVE  rows[k].sequence # rows[l].sequence
    OBVIOUS
  <2>1. k < l \/ l < k
    OBVIOUS
  <2> QED BY <1>1, <1>2, <1>4, <2>1
<1>8. ASSUME NEW q \in 1..m PROVE \E k \in K : f[k] = q
  <2>1. m \in Sequences(rows, th)
    BY <1>1 DEF Sequences
  <2>2. q \in Sequences(rows, th)
    BY <1>1, <1>5, <2>1
  <2>3. PICK k \in 1..Len(rows) : rows[k].stream = th /\ rows[k].sequence = q
    BY <2>2 DEF Sequences
  <2>4. k <= j
    <3>1. ~ j < k
      BY <1>1, <1>4, <2>3
    <3> QED BY <3>1
  <2> QED BY <1>1, <2>3, <2>4
<1> HIDE DEF K, f
<1>9. f \in Bijection(K, 1..m)
  BY <1>6, <1>7, <1>8 DEF Bijection, Injection, IsInjective, Surjection
<1>10. ExistsBijection(1..m, K)
  <2>1. ExistsBijection(K, 1..m)
    BY <1>9 DEF ExistsBijection
  <2> QED BY <2>1, Fun_ExistsBijSymmetric
<1>11. IsFiniteSet(1..m) /\ Cardinality(1..m) = m
  BY <1>1, CountingUp
<1>12. Cardinality(K) = m
  BY <1>10, <1>11, FS_Bijection
<1> QED BY <1>12 DEF K

(* The read models of a full replay are the full replays of the log's      *)
(* beginnings.                                                             *)
LEMMA BeginningType ==
    ASSUME NEW rows \in Seq(Row), NEW i \in 0..Len(rows)
    PROVE  /\ SubSeq(rows, 1, i) \in Seq(Row) /\ Len(SubSeq(rows, 1, i)) = i
           /\ \A k \in 1..i : SubSeq(rows, 1, i)[k] = rows[k]
OBVIOUS

LEMMA ReplaysOfBeginnings ==
    ASSUME NEW rows \in Seq(Row), NEW g, Replays1By1(g, EmptyStore, NoSnapshots, rows),
           NEW i \in 0..Len(rows)
    PROVE  FullReplay(SubSeq(rows, 1, i)) = g[i]
<1> DEFINE head == SubSeq(rows, 1, i)
<1>1. head \in Seq(Row) /\ Len(head) = i /\ \A k \in 1..i : head[k] = rows[k]
  BY BeginningType
<1> HIDE DEF head
<1>2. PICK f : Replays1By1(f, EmptyStore, NoSnapshots, head) /\ FullReplay(head) = f[i]
  BY <1>1, ReplayRuns, EmptyStoreType, NoSnapshotsType DEF FullReplay
<1>3. \A k \in 1..i : k \in 1..Len(rows) /\ k \in 1..Len(head)
  BY <1>1
<1>4. f[0] = g[0]
  BY <1>2 DEF Replays1By1
<1>5. \A k \in 1..i : /\ f[k] = Project(f[k - 1], head[k].event)
                      /\ g[k] = Project(g[k - 1], rows[k].event)
  <2> TAKE k \in 1..i
  <2>1. ~Covered(head, k, NoSnapshots) /\ ~Covered(rows, k, NoSnapshots)
    BY <1>1, <1>3, NothingCovered
  <2> QED BY <1>2, <1>3, <2>1 DEF Replays1By1
<1>6. StepAlike(f, g, i)
  BY <1>1, <1>4, <1>5 DEF StepAlike
<1>7. i \in Nat /\ i \in 0..i
  OBVIOUS
<1>8. f[i] = g[i]
  BY <1>6, <1>7, SameSteps
<1> QED BY <1>2, <1>8 DEF head

-----------------------------------------------------------------------------
(* A snapshot of a thread that is right: it is what the log said of the    *)
(* thread at some moment, and its version tells the thread's rows of       *)
(* before from those of after.                                             *)
Cut(rows, th, v, i) ==
    \A j \in DOMAIN rows : rows[j].stream = th => (rows[j].sequence <= v <=> j <= i)

AsOf(snap, rows, th) ==
    /\ snap.kind = "thread"
    /\ \E i \in 0..Len(rows) :
         /\ Cut(rows, th, snap.version, i)
         /\ Settled(snap.view) = ThreadIn(FullReplay(SubSeq(rows, 1, i)), th)

(* A boot that reads the whole log makes of a thread with such a snapshot, *)
(* or with none, what a full replay makes of it: up to the snapshot it     *)
(* skips the thread's events, and from there it goes along with the full   *)
(* replay.                                                                 *)
LEMMA BootThread ==
    ASSUME NEW rows \in Seq(Row), Contiguous(rows), Native(rows), Len(rows) <= REPLAY_LIMIT,
           NEW snaps \in Snapshots, NEW th \in Threads,
           snaps[th] # Nil => AsOf(snaps[th], rows, th)
    PROVE  ThreadIn(Boot(rows, snaps), th) = ThreadIn(FullReplay(rows), th)
<1> DEFINE n == Len(rows)
<1>1. PICK g : Replays1By1(g, EmptyStore, NoSnapshots, rows) /\ FullReplay(rows) = g[n]
  BY ReplayRuns, EmptyStoreType, NoSnapshotsType DEF FullReplay
<1>2. PICK f : Replays1By1(f, EmptyStore, snaps, rows) /\ Boot(rows, snaps) = f[n]
  <2>1. ReadRows(rows) = rows
    BY ReadsAll
  <2> QED BY <2>1, ReplayRuns, EmptyStoreType DEF Boot
<1>3. /\ n \in Nat /\ n \in 0..n /\ th \in Ids
      /\ \A k \in 1..n : rows[k] \in Row /\ k - 1 \in 0..n
  BY DEF Ids
<1>4. \A k \in 1..n : /\ rows[k].event \in Event /\ rows[k].sequence \in Nat
                      /\ rows[k].event.id = th <=> rows[k].stream = th
  <2>1. \A r \in Row : r.sequence \in Nat /\ r.event \in Event
    BY DEF Row
  <2>2. \A k \in 1..n : InOwnStream(rows[k].stream, rows[k].event)
    BY DEF Native
  <2> QED BY <1>3, <2>1, <2>2 DEF InOwnStream
<1>5. PICK i \in 0..n :
        /\ ThreadIn(f[0], th) = ThreadIn(g[i], th)
        /\ \A k \in 1..n : rows[k].event.id = th => (Covered(rows, k, snaps) <=> k <= i)
  <2>1. f[0] = SeedFromSnapshots(EmptyStore, snaps)
    BY <1>2 DEF Replays1By1
  <2>2. f[0].threads[th] = IF snaps[th] # Nil /\ snaps[th].kind = "thread" THEN snaps[th].view
                           ELSE Nil
    BY <2>1 DEF SeedFromSnapshots, SeedMap, EmptyStore
  <2>3. \A k \in 1..n : rows[k].event.id = th =>
          (Covered(rows, k, snaps) <=> snaps[th] # Nil /\ rows[k].sequence <= snaps[th].version)
    <3> TAKE k \in 1..n
    <3> HAVE rows[k].event.id = th
    <3>1. Cardinality({j \in 1..k : rows[j].event.id = th}) = rows[k].sequence
      BY EventCount
    <3>2. th # Nil
      BY IdAssumption
    <3> QED BY <3>1, <3>2 DEF Covered
  <2>4. CASE snaps[th] = Nil
    <3>1. g[0] = EmptyStore
      BY <1>1, EmptyStoreType, NothingSeeded DEF Replays1By1
    <3>2. ThreadIn(g[0], th) = ThreadIn(f[0], th)
      BY <2>2, <2>4, <3>1 DEF ThreadIn, EmptyStore
    <3>3. 0 \in 0..n /\ \A k \in 1..n : ~ k <= 0
      BY <1>3
    <3> QED BY <2>3, <2>4, <3>2, <3>3
  <2>5. CASE snaps[th] # Nil
    <3>1. PICK i \in 0..n : /\ Cut(rows, th, snaps[th].version, i)
                            /\ Settled(snaps[th].view)
                                 = ThreadIn(FullReplay(SubSeq(rows, 1, i)), th)
      BY <2>5 DEF AsOf
    <3>2. ThreadIn(f[0], th) = ThreadIn(g[i], th)
      <4>1. FullReplay(SubSeq(rows, 1, i)) = g[i]
        BY <1>1, ReplaysOfBeginnings
      <4>2. f[0].threads[th] = snaps[th].view
        BY <2>2, <2>5 DEF AsOf
      <4> QED BY <3>1, <4>1, <4>2 DEF ThreadIn
    <3>3. \A k \in 1..n : rows[k].event.id = th => (Covered(rows, k, snaps) <=> k <= i)
      BY <1>4, <2>3, <2>5, <3>1 DEF Cut
    <3> QED BY <3>2, <3>3
  <2> QED BY <2>4, <2>5
<1> DEFINE x == [k \in 0..n |-> ThreadIn(f[k], th)]
           y == [k \in 0..n |-> IF k <= i THEN ThreadIn(g[i], th) ELSE ThreadIn(g[k], th)]
<1>6. x[0] = y[0]
  BY <1>3, <1>5
<1>7. ASSUME NEW k \in 1..n, x[k - 1] = y[k - 1] PROVE x[k] = y[k]
  <2>0. k \in 0..n /\ k - 1 \in 0..n /\ i \in Nat
    BY <1>3
  <2>1. /\ f[k] = IF Covered(rows, k, snaps) THEN f[k - 1] ELSE Project(f[k - 1], rows[k].event)
        /\ f[k - 1] \in ReadModelStore
    BY <1>2, <2>0 DEF Replays1By1
  <2>2. g[k] = Project(g[k - 1], rows[k].event) /\ g[k - 1] \in ReadModelStore
    BY <1>1, <2>0, NothingCovered DEF Replays1By1
  <2>3. x[k] = ThreadIn(f[k], th) /\ x[k - 1] = ThreadIn(f[k - 1], th)
    BY <2>0
  <2>4. CASE k <= i
    <3>1. y[k] = ThreadIn(g[i], th) /\ y[k - 1] = ThreadIn(g[i], th)
      BY <2>0, <2>4
    <3>2. x[k] = x[k - 1]
      BY <1>4, <1>5, <2>1, <2>3, <2>4, ProjectThread
    <3> QED BY <1>7, <3>1, <3>2
  <2>5. CASE ~ k <= i
    <3>1. y[k] = ThreadIn(g[k], th)
      BY <2>0, <2>5
    <3>2. y[k - 1] = ThreadIn(g[k - 1], th)
      <4>1. CASE k - 1 <= i
        <5>1. k - 1 = i
          BY <2>0, <2>5, <4>1
        <5> QED BY <2>0, <5>1
      <4>2. CASE ~ k - 1 <= i
        BY <2>0, <4>2
      <4> QED BY <4>1, <4>2
    <3>3. CASE rows[k].event.id = th
      <4>1. x[k] = Becomes(x[k - 1], rows[k].event)
        BY <1>4, <1>5, <2>1, <2>3, <2>5, <3>3, ProjectThread
      <4>2. y[k] = Becomes(y[k - 1], rows[k].event)
        BY <1>4, <2>2, <3>1, <3>2, <3>3, ProjectThread
      <4> QED BY <1>7, <4>1, <4>2
    <3>4. CASE rows[k].event.id # th
      <4>1. x[k] = x[k - 1]
        BY <1>4, <2>1, <2>3, <3>4, ProjectThread
      <4>2. y[k] = y[k - 1]
        BY <1>4, <2>2, <3>1, <3>2, <3>4, ProjectThread
      <4> QED BY <1>7, <4>1, <4>2
    <3> QED BY <3>3, <3>4
  <2> QED BY <2>4, <2>5
<1>8. x[n] = ThreadIn(f[n], th) /\ y[n] = ThreadIn(g[n], th)
  <2>1. n <= i => n = i
    BY <1>3
  <2> QED BY <1>3, <2>1
<1> HIDE DEF x, y, n
<1>9. x[n] = y[n]
  <2>1. StepAlike(x, y, n)
    BY <1>6, <1>7 DEF StepAlike
  <2> QED BY <1>3, <2>1, SameSteps
<1> QED BY <1>1, <1>2, <1>8, <1>9

(* Later rows do not make a snapshot wrong. *)
LEMMA AsOfGrows ==
    ASSUME NEW old \in Seq(Row), NEW new \in Seq(Row), Contiguous(old), Contiguous(old \o new),
           NEW th \in Threads, NEW snap, AsOf(snap, old, th),
           snap.version \in Nat, snap.version <= VersionIn(old, th)
    PROVE  AsOf(snap, old \o new, th)
<1> DEFINE all == old \o new
           v == snap.version
<1>1. /\ all \in Seq(Row) /\ Len(all) = Len(old) + Len(new) /\ Len(old) \in Nat
      /\ Len(new) \in Nat /\ \A k \in 1..Len(old) : all[k] = old[k]
      /\ DOMAIN all = 1..Len(all) /\ DOMAIN old = 1..Len(old)
  OBVIOUS
<1>2. th \in Ids /\ \A r \in Row : r.sequence \in Nat
  BY DEF Ids, Row
<1> HIDE DEF all
<1>3. PICK i \in 0..Len(old) : /\ Cut(old, th, v, i)
                               /\ Settled(snap.view) = ThreadIn(FullReplay(SubSeq(old, 1, i)), th)
  BY DEF AsOf
<1>4. SubSeq(all, 1, i) = SubSeq(old, 1, i)
  <2>1. i \in 0..Len(all)
    BY <1>1
  <2>2. /\ SubSeq(old, 1, i) \in Seq(Row) /\ SubSeq(all, 1, i) \in Seq(Row)
        /\ Len(SubSeq(old, 1, i)) = i /\ Len(SubSeq(all, 1, i)) = i
        /\ \A k \in 1..i : SubSeq(all, 1, i)[k] = all[k] /\ SubSeq(old, 1, i)[k] = old[k]
    BY <1>1, <2>1, BeginningType
  <2>3. \A k \in 1..i : all[k] = old[k]
    BY <1>1
  <2> DEFINE a == SubSeq(all, 1, i)
             b == SubSeq(old, 1, i)
  <2>4. a \in Seq(Row) /\ b \in Seq(Row) /\ Len(a) = Len(b) /\ \A k \in 1..Len(a) : a[k] = b[k]
    BY <2>2, <2>3
  <2> HIDE DEF a, b
  <2>5. a = b
    BY <2>4
  <2> QED BY <2>5 DEF a, b
<1>5. ASSUME NEW j \in 1..Len(all), all[j].stream = th
      PROVE  all[j].sequence <= v <=> j <= i
  <2>1. CASE j <= Len(old)
    BY <1>1, <1>3, <1>5, <2>1 DEF Cut
  <2>2. CASE j > Len(old)
    <3>1. /\ VersionIn(old, th) \in Nat
          /\ Sequences(old, th) = 1..VersionIn(old, th)
      BY <1>2, VersionIsNat
    <3>2. all[j].sequence > VersionIn(old, th)
      <4>1. CASE VersionIn(old, th) = 0
        <5>1. all[j] \in Row
          BY <1>1
        <5>2. \A r \in Row : r.sequence \in Nat /\ r.sequence > 0
          BY DEF Row
        <5> QED BY <4>1, <5>1, <5>2
      <4>2. CASE VersionIn(old, th) # 0
        <5>1. VersionIn(old, th) \in Sequences(old, th)
          BY <3>1, <4>2
        <5>2. PICK k \in 1..Len(old) : old[k].stream = th /\ old[k].sequence = VersionIn(old, th)
          BY <1>1, <5>1 DEF Sequences
        <5>3. k \in DOMAIN all /\ j \in DOMAIN all /\ k < j /\ all[k] = old[k]
          BY <1>1, <2>2, <5>2
        <5>4. \A x, y \in DOMAIN all : x < y /\ all[x].stream = th /\ all[y].stream = th
                                         => all[x].sequence < all[y].sequence
          BY <1>2 DEF Contiguous, all
        <5>5. all[k].sequence < all[j].sequence
          BY <1>5, <5>2, <5>3, <5>4
        <5>6. all[j].sequence \in Nat
          BY <1>1, <1>2
        <5> QED BY <3>1, <5>2, <5>3, <5>5, <5>6
      <4> QED BY <4>1, <4>2
    <3>3. all[j].sequence \in Nat
      BY <1>1, <1>2
    <3>4. ~ all[j].sequence <= v
      BY <3>1, <3>2, <3>3
    <3>5. ~ j <= i
      BY <1>1, <2>2
    <3> QED BY <3>4, <3>5
  <2> QED BY <1>1, <2>1, <2>2
<1>6. Cut(all, th, v, i) /\ i \in 0..Len(all)
  BY <1>1, <1>5 DEF Cut
<1> QED BY <1>3, <1>4, <1>6 DEF AsOf, all

(* What a thread is now makes a right snapshot at its current version. *)
LEMMA AsOfNow ==
    ASSUME NEW rows \in Seq(Row), Contiguous(rows), NEW th \in Threads, NEW snap,
           snap.kind = "thread", snap.version = VersionIn(rows, th),
           Settled(snap.view) = ThreadIn(FullReplay(rows), th)
    PROVE  AsOf(snap, rows, th)
<1>1. SubSeq(rows, 1, Len(rows)) = rows /\ Len(rows) \in 0..Len(rows)
  OBVIOUS
<1>2. th \in Ids
  BY DEF Ids
<1>3. Cut(rows, th, VersionIn(rows, th), Len(rows))
  <2> SUFFICES ASSUME NEW j \in DOMAIN rows, rows[j].stream = th
               PROVE  rows[j].sequence <= VersionIn(rows, th) /\ j <= Len(rows)
    BY DEF Cut
  <2>1. rows[j].sequence \in Sequences(rows, th)
    BY DEF Sequences
  <2> QED BY <1>2, <2>1, VersionIsNat
<1> QED BY <1>1, <1>3 DEF AsOf

-----------------------------------------------------------------------------
(* A command names the thread its event is about, unless it creates it, and *)
(* yields one event then.                                                  *)
OneOnThread(c, events) ==
    \E e : events = <<e>> /\ (e.id \in Threads /\ c.type # "CreateThread" => c.id = e.id)
NoneOnThread(events) == \A k \in 1..Len(events) : events[k].id \notin Threads

LEMMA DecidesNatively ==
    ASSUME NEW c \in Command, NEW fresh, CanAllocate(c, fresh)
    PROVE  OneOnThread(c, Decide(c, fresh)) \/ NoneOnThread(Decide(c, fresh))
<1>1. CASE c.type \in DOMAIN NewThreadStatus
  <2>1. Decide(c, fresh) = <<ThreadStatusChanged(c.id, NewThreadStatus[c.type])>>
    BY <1>1 DEF Decide, NewThreadStatus, PlainEventType
  <2>2. ThreadStatusChanged(c.id, NewThreadStatus[c.type]).id = c.id
    BY DEF ThreadStatusChanged, EventRecord
  <2> QED BY <2>1, <2>2 DEF OneOnThread
<1>2. CASE c.type \in DOMAIN PlainEventType
  <2>1. Decide(c, fresh) = <<EventRecord(PlainEventType[c.type], c.id, Nil, c.arg, c.n)>>
    BY <1>2 DEF Decide, NewThreadStatus, PlainEventType
  <2>2. EventRecord(PlainEventType[c.type], c.id, Nil, c.arg, c.n).id = c.id
    BY DEF EventRecord
  <2> QED BY <2>1, <2>2 DEF OneOnThread
<1>3. CASE c.type = "CreateProject"
  <2> DEFINE e == EventRecord("ProjectCreated", FreshId(Projects, fresh), Nil, Nil, 0)
  <2>1. Decide(c, fresh) = <<e>>
    BY <1>3 DEF Decide, PlainEventType, NewThreadStatus
  <2>2. FreshId(Projects, fresh) \in Projects
    BY <1>3 DEF CanAllocate, FreshId
  <2>3. e.id \notin Threads
    BY <2>2, IdAssumption DEF EventRecord
  <2> QED BY <2>1, <2>3 DEF OneOnThread
<1>7. CASE c.type = "AddMessage"
  <2> DEFINE e == MessageAdded(FreshId(Messages, fresh), c.id)
  <2>1. Decide(c, fresh) = <<e>>
    BY <1>7 DEF Decide, PlainEventType, NewThreadStatus
  <2>2. FreshId(Messages, fresh) \in Messages
    BY <1>7 DEF CanAllocate, FreshId
  <2>3. e.id \notin Threads
    BY <2>2, IdAssumption DEF EventRecord, MessageAdded
  <2> QED BY <2>1, <2>3 DEF OneOnThread
<1>4. CASE c.type = "CreateThread"
  <2>1. PICK e : Decide(c, fresh) = <<e>>
    BY <1>4 DEF Decide, PlainEventType, NewThreadStatus
  <2> QED BY <1>4, <2>1 DEF OneOnThread
<1>5. CASE c.type = "StartTurn"
  <2> DEFINE e == TurnStarted(FreshId(Turns, fresh), c.id, c.n)
             f == MessageAdded(FreshId(Messages, fresh), FreshId(Turns, fresh))
  <2>1. Decide(c, fresh) = <<e, f>>
    BY <1>5 DEF Decide, PlainEventType, NewThreadStatus
  <2>2. FreshId(Turns, fresh) \in Turns /\ FreshId(Messages, fresh) \in Messages
    BY <1>5 DEF CanAllocate, FreshId
  <2>3. e.id \notin Threads /\ f.id \notin Threads
    BY <2>2, IdAssumption DEF EventRecord, MessageAdded, TurnStarted
  <2> HIDE DEF e, f
  <2>4. \A k \in 1..Len(<<e, f>>) : <<e, f>>[k] \in {e, f}
    OBVIOUS
  <2> QED BY <2>1, <2>3, <2>4 DEF NoneOnThread
<1>6. \/ c.type \in DOMAIN NewThreadStatus \/ c.type \in DOMAIN PlainEventType
      \/ c.type \in {"CreateProject", "CreateThread", "StartTurn", "AddMessage"}
  BY DEF Command, PlainEventType, NewThreadStatus, ThreadCommands, PinCommands,
         MarkerCommands, TurnCommands
<1> QED BY <1>1, <1>2, <1>3, <1>4, <1>5, <1>6, <1>7

(* What a task is about to append belongs where it goes: an event of a     *)
(* thread comes alone, in the thread's own stream, and, unless it creates  *)
(* the thread, from a command that names it.  Consumers write to turns.    *)
NativeTask(t) ==
    /\ StreamOf(t) \in Threads => Len(evs[t]) = 1
    /\ \A k \in 1..Len(evs[t]) : InOwnStream(StreamOf(t), evs[t][k])
NamesItsThread(w) ==
    StreamOf(w) \in Threads /\ cmd[w].type # "CreateThread" => cmd[w].id = StreamOf(w)

NativeInv ==
    /\ Native(log)
    /\ \A t \in Tasks : pc[t] \in Appending => NativeTask(t)
    /\ \A w \in Workers : pc[w] \in Appending => NamesItsThread(w)

LEMMA ReportsAreNative ==
    ASSUME NEW c \in Consumers
    PROVE  TurnOf[c] \notin Threads /\ \A e \in Reported(c) : InOwnStream(TurnOf[c], e)
<1>1. TurnOf[c] \in Turns
  BY PipelineAssumption
<1>2. TurnOf[c] \notin Threads /\ Nil \notin Threads
  BY <1>1, IdAssumption
<1>3. \A e \in Reported(c) : e.id \in {TurnOf[c], Nil}
  BY DEF Reported, MessageDeltaAppended, ActivityLogged, EventRecord
<1> QED BY <1>2, <1>3 DEF InOwnStream

LEMMA DecidedIsNative ==
    ASSUME TypeInv, NEW w \in Workers, DecideCommand(w), pc'[w] \in Appending
    PROVE  NativeTask(w)' /\ NamesItsThread(w)'
<1> DEFINE events == Decide(cmd[w], Ids \ UsedIds)
<1>1. w \in Tasks /\ pc[w] = "decide" /\ cmd' = cmd /\ cmd[w] \in Command
  BY DEF DecideCommand, TypeInv, Tasks
<1>2. CanAllocate(cmd[w], Ids \ UsedIds) /\ evs' = [evs EXCEPT ![w] = events]
  BY <1>1 DEF DecideCommand, Answer, TypeInv, TasksTypeOK, Appending
<1>3. /\ events \in Seq(Event) /\ events # <<>> /\ events[1].id \in Ids
      /\ OneOnThread(cmd[w], events) \/ NoneOnThread(events)
  BY <1>1, <1>2, DecideType, DecidesNatively
<1> HIDE DEF events
<1>4. evs'[w] = events
  BY <1>1, <1>2 DEF TypeInv, TasksTypeOK
<1>5. StreamOf(w)' = events[1].id
  BY <1>4 DEF StreamOf
<1>6. CASE OneOnThread(cmd[w], events)
  <2>1. PICK e : /\ events = <<e>>
                 /\ e.id \in Threads /\ cmd[w].type # "CreateThread" => cmd[w].id = e.id
    BY <1>6 DEF OneOnThread
  <2>2. Len(events) = 1 /\ events[1] = e /\ \A k \in 1..Len(events) : events[k] = e
    BY <2>1
  <2> QED BY <1>1, <1>4, <1>5, <2>1, <2>2 DEF NativeTask, NamesItsThread, InOwnStream
<1>7. CASE NoneOnThread(events)
  <2>1. events[1].id \notin Threads
    <3>1. 1 \in 1..Len(events)
      BY <1>3
    <3> QED BY <1>7, <3>1 DEF NoneOnThread
  <2> QED BY <1>4, <1>5, <1>7, <2>1 DEF NativeTask, NamesItsThread, InOwnStream, NoneOnThread
<1> QED BY <1>3, <1>6, <1>7

(* A worker that appends has just decided, or appends what it did before. *)
LEMMA AppendingGoesOn ==
    ASSUME TypeInv, [Next]_vars, NEW w \in Workers, pc'[w] \in Appending
    PROVE  \/ DecideCommand(w)
           \/ pc[w] \in Appending /\ evs'[w] = evs[w] /\ cmd'[w] = cmd[w]
<1> DEFINE Same == pc[w] \in Appending /\ evs'[w] = evs[w] /\ cmd'[w] = cmd[w]
<1> USE PipelineAssumption
<1> USE DEF Tasks, TypeInv, TasksTypeOK, durable, consumerVars, Appending
<1>1. ASSUME NEW u \in Workers, ReceiveCommand(u) PROVE Same
  BY <1>1 DEF ReceiveCommand
<1>2. ASSUME NEW u \in Workers, DecideCommand(u), u # w PROVE Same
  BY <1>2 DEF DecideCommand, Answer
<1>3. ASSUME NEW u \in Workers, AppendConflict(u) PROVE Same
  BY <1>3 DEF AppendConflict, RetryOrGiveUp, Answer
<1>4. ASSUME NEW u \in Workers, AppendBusy(u) PROVE Same
  BY <1>4 DEF AppendBusy, Answer
<1>5. ASSUME NEW u \in Workers, SaveSnapshot(u) PROVE Same
  BY <1>5 DEF SaveSnapshot
<1>6. ASSUME NEW t \in Tasks, ReadVersion(t) \/ BeginAppend(t) \/ CommitAppend(t) PROVE Same
  BY <1>6 DEF ReadVersion, BeginAppend, CommitAppend
<1>7. ASSUME NEW t \in Tasks, ProjectEvents(t) PROVE Same
  BY <1>7 DEF ProjectEvents
<1>8. ASSUME NEW t \in Tasks, Publish(t) PROVE Same
  BY SMTT(20), <1>8 DEF Publish, Answer
<1>9. ASSUME NEW c \in Consumers, \/ TakeToken(c) \/ FlushTokens(c) \/ TakeEvent(c)
                                  \/ StreamEnds(c) \/ ConsumerAppendFails(c)
      PROVE  Same
  <2>1. c # w
    OBVIOUS
  <2>2. cmd' = cmd /\ pc'[w] = pc[w] /\ evs'[w] = evs[w]
    BY SMTT(20), <1>9, <2>1 DEF TakeToken, FlushTokens, TakeEvent, StreamEnds,
                                ConsumerAppendFails, Submit
  <2> QED BY <2>2
<1>10. RepairStep => Same
  BY RepairTouchesStoreOnly
<1>11. ~Restart
  BY DEF Restart
<1>12. UNCHANGED vars => Same
  BY DEF vars
<1> HIDE DEF Tasks, TypeInv, TasksTypeOK, durable, consumerVars, Appending, Same
<1>13. DecideCommand(w) \/ Same
  BY <1>1, <1>2, <1>3, <1>4, <1>5, <1>6, <1>7, <1>8, <1>9, <1>10, <1>11, <1>12, NextCases
<1> QED BY <1>13 DEF Same

LEMMA CommitNative ==
    ASSUME TypeInv, NativeInv, NEW t \in Tasks, CommitAppend(t)
    PROVE  Native(log')
<1> DEFINE new == RowsAt(t, ver[t])
<1>1. /\ log \in Seq(Row) /\ new \in Seq(Row) /\ log' = log \o new /\ evs[t] \in Seq(Event)
      /\ Len(new) = Len(evs[t])
  BY CommitAdds
<1>2. \A k \in 1..Len(new) : new[k].stream = StreamOf(t) /\ new[k].event = evs[t][k]
  BY <1>1 DEF RowsAt
<1>3. NativeTask(t)
  BY DEF NativeInv, CommitAppend, Appending
<1>4. \A k \in 1..Len(new) : InOwnStream(new[k].stream, new[k].event)
  BY <1>1, <1>2, <1>3 DEF NativeTask
<1> HIDE DEF new
<1>5. \A i \in DOMAIN log' : \/ i \in DOMAIN log /\ log'[i] = log[i]
                             \/ \E k \in 1..Len(new) : log'[i] = new[k]
  <2> SUFFICES ASSUME NEW i \in DOMAIN log', i > Len(log)
               PROVE  \E k \in 1..Len(new) : log'[i] = new[k]
    BY <1>1
  <2>1. i - Len(log) \in 1..Len(new) /\ log'[i] = new[i - Len(log)]
    BY <1>1
  <2> QED BY <2>1
<1> QED BY <1>4, <1>5 DEF Native, NativeInv

LEMMA NativeStep ==
    ASSUME TypeInv, TypeInv', NativeInv, SourceInv', [Next]_vars
    PROVE  NativeInv'
<1>1. Native(log')
  BY CommitNative, LogChanges DEF NativeInv
<1>2. ASSUME NEW w \in Workers, pc'[w] \in Appending PROVE NativeTask(w)' /\ NamesItsThread(w)'
  <2>1. CASE pc[w] \in Appending /\ evs'[w] = evs[w] /\ cmd'[w] = cmd[w]
    BY <2>1 DEF NativeInv, NativeTask, NamesItsThread, StreamOf, Tasks
  <2> QED BY <1>2, <2>1, AppendingGoesOn, DecidedIsNative
<1>3. ASSUME NEW c \in Consumers, pc'[c] \in Appending PROVE NativeTask(c)'
  <2>1. evs'[c] # <<>>
    BY <1>3 DEF TypeInv, Tasks
  <2>2. PICK e \in Reported(c) : evs'[c] = <<e>>
    BY <2>1 DEF SourceInv, OneReport, Reported
  <2>3. StreamOf(c)' = TurnOf[c]
    BY PipelineAssumption DEF StreamOf
  <2>4. \A k \in 1..Len(evs'[c]) : evs'[c][k] = e
    BY <2>2
  <2> QED BY <2>3, <2>4, ReportsAreNative DEF NativeTask
<1> QED BY <1>1, <1>2, <1>3 DEF NativeInv, Tasks

LEMMA RowsAreNative ==
    ASSUME Native(Existing)
    PROVE  Spec => []NativeInv
<1>1. Init => NativeInv
  BY DEF Init, NativeInv, Appending, Tasks
<1>2. TypeInv /\ TypeInv' /\ NativeInv /\ SourceInv' /\ [Next]_vars => NativeInv'
  BY NativeStep
<1> QED BY <1>1, <1>2, TypeAndStore, SourcesKnown, PTL DEF Spec
-----------------------------------------------------------------------------
(* Threads in step.  It is enough that the tasks that project to one       *)
(* thread take turns, and no repair is run: then the read model shows each *)
(* thread as the log has it, but for the event a task has yet to project;  *)
(* such an event is the last of its thread; and every snapshot of a thread,*)
(* stored or about to be saved, is right.                                  *)
Shows(t, th) == pc[t] = "project" /\ StreamOf(t) = th

ThreadsInTurn ==
    \A t, u \in Tasks : \A th \in Threads : Shows(t, th) /\ Shows(u, th) => t = u
Unrepaired == repair.pc = "idle" /\ Len(log) <= REPLAY_LIMIT

ThreadInStep(th) ==
    /\ (\A t \in Tasks : ~Shows(t, th)) => ThreadIn(store, th) = ThreadIn(FullReplay(log), th)
    /\ \A t \in Tasks : Shows(t, th) =>
         Becomes(ThreadIn(store, th), evs[t][1]) = ThreadIn(FullReplay(log), th)

ShownLast ==
    \A t \in Tasks : \A th \in Threads : Shows(t, th) => CurrentVersion(th) = NewVersion(t)

SnapsHold ==
    /\ \A th \in Threads : snapshots[th] # Nil => AsOf(snapshots[th], log, th)
    /\ \A w \in Workers : pc[w] = "snapshot" /\ StreamOf(w) \in Threads =>
         AsOf(captured[w], log, StreamOf(w))

ThreadsInv == (\A th \in Threads : ThreadInStep(th)) /\ ShownLast /\ SnapsHold

(* What the events of a task do to a thread. *)
LEMMA TaskOnThread ==
    ASSUME NEW s \in ReadModelStore, NEW t \in Tasks, evs[t] \in Seq(Event), NativeTask(t),
           NEW th \in Threads
    PROVE  ThreadIn(ProjectMany(s, evs[t]), th) =
             IF StreamOf(t) = th THEN Becomes(ThreadIn(s, th), evs[t][1]) ELSE ThreadIn(s, th)
<1>1. CASE StreamOf(t) = th
  <2>1. Len(evs[t]) = 1 /\ evs[t][1] \in Event /\ evs[t] = <<evs[t][1]>>
    BY <1>1 DEF NativeTask
  <2>2. evs[t][1].id = th
    BY <1>1, <2>1 DEF NativeTask, InOwnStream
  <2>3. ProjectMany(s, evs[t]) = Project(s, evs[t][1])
    <3> DEFINE e == evs[t][1]
    <3>1. e \in Event /\ evs[t] = <<e>>
      BY <2>1
    <3> HIDE DEF e
    <3>2. ProjectMany(s, evs[t]) = Project(s, e)
      BY <3>1, ProjectOne
    <3> QED BY <3>2 DEF e
  <2> QED BY <1>1, <2>1, <2>2, <2>3, ProjectThread
<1>2. CASE StreamOf(t) # th
  <2>1. \A k \in 1..Len(evs[t]) : evs[t][k].id # th
    BY <1>2 DEF NativeTask, InOwnStream
  <2> QED BY <1>2, <2>1, ProjectsElsewhere
<1> QED BY <1>1, <1>2

LEMMA CommitThread ==
    ASSUME TypeInv, ViewInv, NativeInv, ThreadsInTurn', NEW t \in Tasks, CommitAppend(t),
           NEW th \in Threads, ThreadInStep(th)
    PROVE  ThreadInStep(th)'
<1>1. /\ log \in Seq(Row) /\ evs[t] \in Seq(Event)
      /\ FullReplay(log') = ProjectMany(FullReplay(log), evs[t])
  BY CommitAdds
<1>2. /\ store' = store /\ evs' = evs /\ pc[t] = "commit" /\ pc'[t] = "project"
      /\ \A u \in Tasks \ {t} : pc'[u] = pc[u]
  BY DEF CommitAppend, TypeInv, TasksTypeOK
<1>3. \A u \in Tasks : StreamOf(u)' = StreamOf(u)
  BY <1>2 DEF StreamOf
<1>4. /\ Shows(t, th)' <=> StreamOf(t) = th
      /\ ~Shows(t, th)
      /\ \A u \in Tasks \ {t} : Shows(u, th)' <=> Shows(u, th)
  BY <1>2, <1>3 DEF Shows
<1>5. ThreadIn(FullReplay(log'), th) =
        IF StreamOf(t) = th THEN Becomes(ThreadIn(FullReplay(log), th), evs[t][1])
        ELSE ThreadIn(FullReplay(log), th)
  BY <1>1, <1>2, FullReplayType, TaskOnThread DEF NativeInv, Appending
<1>6. CASE StreamOf(t) = th
  <2>1. \A u \in Tasks : Shows(u, th)' => u = t
    BY <1>4, <1>6 DEF ThreadsInTurn
  <2>2. \A u \in Tasks : ~Shows(u, th)
    BY <1>4, <2>1
  <2>3. ThreadIn(store, th) = ThreadIn(FullReplay(log), th)
    BY <2>2 DEF ThreadInStep
  <2>4. Shows(t, th)'
    BY <1>4, <1>6
  <2> QED BY <1>2, <1>5, <1>6, <2>1, <2>3, <2>4 DEF ThreadInStep
<1>7. CASE StreamOf(t) # th
  <2>1. \A u \in Tasks : Shows(u, th)' <=> Shows(u, th)
    BY <1>4, <1>7
  <2> QED BY <1>2, <1>5, <1>7, <2>1 DEF ThreadInStep
<1> QED BY <1>6, <1>7

LEMMA ProjectEventsThread ==
    ASSUME TypeInv, ViewInv, NativeInv, ThreadsInTurn, NEW t \in Tasks, ProjectEvents(t),
           NEW th \in Threads, ThreadInStep(th)
    PROVE  /\ ThreadInStep(th)'
           /\ StreamOf(t) = th => ThreadIn(store', th) = ThreadIn(FullReplay(log), th)
<1>1. /\ log' = log /\ evs' = evs /\ pc[t] = "project" /\ pc'[t] # "project"
      /\ store' = ProjectMany(store, evs[t]) /\ \A u \in Tasks \ {t} : pc'[u] = pc[u]
  BY DEF ProjectEvents, durable, TypeInv, TasksTypeOK
<1>2. evs[t] \in Seq(Event) /\ store \in ReadModelStore /\ NativeTask(t)
  BY <1>1 DEF TypeInv, TasksTypeOK, ViewInv, NativeInv, Appending
<1>3. \A u \in Tasks : StreamOf(u)' = StreamOf(u)
  BY <1>1 DEF StreamOf
<1>4. \A u \in Tasks : Shows(u, th)' <=> Shows(u, th) /\ u # t
  BY <1>1, <1>3 DEF Shows
<1>5. ThreadIn(store', th) =
        IF StreamOf(t) = th THEN Becomes(ThreadIn(store, th), evs[t][1]) ELSE ThreadIn(store, th)
  BY <1>1, <1>2, TaskOnThread
<1>6. CASE StreamOf(t) = th
  <2>1. Shows(t, th)
    BY <1>1, <1>6 DEF Shows
  <2>2. \A u \in Tasks : ~Shows(u, th)'
    BY <1>4, <2>1 DEF ThreadsInTurn
  <2>3. ThreadIn(store', th) = ThreadIn(FullReplay(log), th)
    BY <1>5, <1>6, <2>1 DEF ThreadInStep
  <2> QED BY <1>1, <2>2, <2>3 DEF ThreadInStep
<1>7. CASE StreamOf(t) # th
  <2>1. \A u \in Tasks : Shows(u, th)' <=> Shows(u, th)
    BY <1>4, <1>7 DEF Shows
  <2> QED BY <1>1, <1>5, <1>7, <2>1 DEF ThreadInStep
<1> QED BY <1>6, <1>7

LEMMA RestartThread ==
    ASSUME ~BootMayFail, TypeInv, StoreInv, ViewInv, NativeInv, SnapsHold, Unrepaired, Restart,
           NEW th \in Threads
    PROVE  ThreadInStep(th)'
<1>1. log' = log /\ store' = Boot(log, snapshots) /\ \A u \in Tasks : pc'[u] # "project"
  BY DEF Restart, durable
<1>2. log \in Seq(Row) /\ snapshots \in Snapshots /\ Contiguous(log) /\ Native(log)
  BY DEF TypeInv, TasksTypeOK, ViewInv, StoreInv, NativeInv
<1>3. ThreadIn(store', th) = ThreadIn(FullReplay(log), th)
  BY <1>1, <1>2, BootThread DEF Unrepaired, SnapsHold
<1> QED BY <1>1, <1>3 DEF ThreadInStep, Shows

LEMMA AsideThread ==
    ASSUME ProjectionsAside, NEW th \in Threads, ThreadInStep(th)
    PROVE  ThreadInStep(th)'
<1>1. \A u \in Tasks : pc[u] = "project" => StreamOf(u)' = StreamOf(u)
  BY DEF ProjectionsAside, StreamOf
<1>2. \A u \in Tasks : Shows(u, th)' <=> Shows(u, th)
  BY <1>1 DEF ProjectionsAside, Shows
<1>3. \A u \in Tasks : Shows(u, th) => evs'[u] = evs[u]
  BY DEF ProjectionsAside, Shows
<1> QED BY <1>2, <1>3 DEF ThreadInStep, ProjectionsAside

-----------------------------------------------------------------------------
(* Appending to one stream moves its version, and no other's. *)
LEMMA AppendMovesVersion ==
    ASSUME NEW old \in Seq(Row), NEW new \in Seq(Row), NEW s \in Ids, NEW v \in Nat,
           Sequences(old, s) = 1..v,
           \A k \in 1..Len(new) : new[k].stream = s /\ new[k].sequence = v + k
    PROVE  /\ VersionIn(old \o new, s) = v + Len(new)
           /\ \A id \in Ids \ {s} : VersionIn(old \o new, id) = VersionIn(old, id)
<1>1. RowSet(old \o new) = RowSet(old) \cup RowSet(new)
  BY RowSetConcat
<1>2. \A id : Sequences(old \o new, id) = Sequences(old, id) \cup Sequences(new, id)
  BY <1>1, SequencesOfRows
<1>3. \A q : q \in Sequences(new, s) <=> \E k \in 1..Len(new) : q = v + k
  <2>1. DOMAIN new = 1..Len(new)
    OBVIOUS
  <2> QED BY <2>1 DEF Sequences
<1>4. v + Len(new) \in Nat /\ Sequences(old \o new, s) = 1..(v + Len(new))
  <2> DEFINE n == Len(new)
  <2>1. n \in Nat /\ \A q : q \in Sequences(new, s) <=> \E k \in 1..n : q = v + k
    BY <1>3
  <2> HIDE DEF n
  <2>2. \A q \in 1..(v + n) : q \in 1..v \/ q \in Sequences(new, s)
    <3> SUFFICES ASSUME NEW q \in 1..(v + n), q \notin 1..v PROVE \E k \in 1..n : q = v + k
      BY <2>1
    <3>1. q - v \in 1..n /\ q = v + (q - v)
      BY <2>1
    <3> QED BY <3>1
  <2>3. \A q : q \in 1..v \/ q \in Sequences(new, s) => q \in 1..(v + n)
    <3>1. \A k \in 1..n : v + k \in 1..(v + n)
      BY <2>1
    <3> QED BY <2>1, <3>1
  <2>4. (1..v) \cup Sequences(new, s) = 1..(v + n)
    BY <2>2, <2>3
  <2>5. Sequences(old \o new, s) = (1..v) \cup Sequences(new, s)
    BY <1>2
  <2>6. v + n \in Nat
    BY <2>1
  <2>7. Sequences(old \o new, s) = 1..(v + n)
    BY <2>4, <2>5
  <2> QED BY <2>6, <2>7 DEF n
<1>5. \A id : id # s => Sequences(new, id) = {}
  BY DEF Sequences
<1>6. \A id : id # s => Sequences(old \o new, id) = Sequences(old, id)
  BY <1>2, <1>5
<1>7. VersionIn(old \o new, s) = v + Len(new)
  BY <1>4, VersionOfStream
<1>8. ASSUME NEW id \in Ids \ {s} PROVE VersionIn(old \o new, id) = VersionIn(old, id)
  <2>1. Sequences(old \o new, id) = Sequences(old, id)
    BY <1>6, <1>8
  <2> QED BY <2>1 DEF VersionIn
<1> QED BY <1>7, <1>8

LEMMA ShownLastStep ==
    ASSUME TypeInv, StoreInv, ShownLast, ThreadsInTurn', repair.pc = "idle",
           repair'.pc = "idle", [Next]_vars
    PROVE  ShownLast'
<1>1. CASE ProjectionsAside
  <2> SUFFICES ASSUME NEW t \in Tasks, NEW th \in Threads, Shows(t, th)'
               PROVE  CurrentVersion(th)' = NewVersion(t)'
    BY DEF ShownLast
  <2>1. /\ pc[t] = "project" /\ evs'[t] = evs[t] /\ ver'[t] = ver[t] /\ log' = log
    BY <1>1 DEF ProjectionsAside, Shows
  <2>2. StreamOf(t)' = th /\ StreamOf(t)' = StreamOf(t)
    BY <2>1 DEF Shows, StreamOf
  <2>3. CurrentVersion(th) = NewVersion(t)
    BY <2>1, <2>2 DEF ShownLast, Shows
  <2> QED BY <2>1, <2>3 DEF CurrentVersion, NewVersion
<1>2. ASSUME NEW t \in Tasks, ProjectEvents(t) PROVE ShownLast'
  <2>1. /\ log' = log /\ evs' = evs /\ ver' = ver /\ pc'[t] # "project"
        /\ \A u \in Tasks \ {t} : pc'[u] = pc[u]
    BY <1>2 DEF ProjectEvents, durable, TypeInv, TasksTypeOK
  <2>2. \A u \in Tasks : StreamOf(u)' = StreamOf(u) /\ NewVersion(u)' = NewVersion(u)
    BY <2>1 DEF StreamOf, NewVersion
  <2>3. \A u \in Tasks, th \in Threads : Shows(u, th)' => Shows(u, th)
    BY <2>1, <2>2 DEF Shows
  <2> QED BY <2>1, <2>2, <2>3 DEF ShownLast, CurrentVersion
<1>3. ASSUME NEW t \in Tasks, CommitAppend(t) PROVE ShownLast'
  <2> DEFINE new == RowsAt(t, ver[t])
  <2>1. /\ log \in Seq(Row) /\ new \in Seq(Row) /\ log' = log \o new /\ ver[t] \in Nat
        /\ Len(new) = Len(evs[t]) /\ StreamOf(t) \in Ids /\ evs[t] \in Seq(Event)
    BY <1>3, CommitAdds
  <2>2. \A k \in 1..Len(new) : new[k].stream = StreamOf(t) /\ new[k].sequence = ver[t] + k
    BY <2>1, RowsAtType
  <2>3. Sequences(log, StreamOf(t)) = 1..ver[t]
    BY <1>3 DEF CommitAppend, StoreInv, FreshIsCurrent
  <2> HIDE DEF new
  <2>4. /\ VersionIn(log', StreamOf(t)) = ver[t] + Len(evs[t])
        /\ \A id \in Ids \ {StreamOf(t)} : VersionIn(log', id) = VersionIn(log, id)
    BY <2>1, <2>2, <2>3, AppendMovesVersion
  <2>5. /\ evs' = evs /\ ver' = ver /\ pc'[t] = "project"
        /\ \A u \in Tasks \ {t} : pc'[u] = pc[u]
    BY <1>3 DEF CommitAppend, TypeInv, TasksTypeOK
  <2>6. \A u \in Tasks : StreamOf(u)' = StreamOf(u) /\ NewVersion(u)' = NewVersion(u)
    BY <2>5 DEF StreamOf, NewVersion
  <2> SUFFICES ASSUME NEW u \in Tasks, NEW th \in Threads, Shows(u, th)'
               PROVE  CurrentVersion(th)' = NewVersion(u)'
    BY DEF ShownLast
  <2>7. CASE u = t
    <3>1. StreamOf(t) = th
      BY <2>6, <2>7 DEF Shows
    <3> QED BY <2>4, <2>6, <2>7, <3>1 DEF CurrentVersion, NewVersion
  <2>8. CASE u # t
    <3>1. Shows(u, th)
      BY <2>5, <2>6, <2>8 DEF Shows
    <3>2. StreamOf(t) # th
      <4>1. StreamOf(t) = th => Shows(t, th)'
        BY <2>5, <2>6 DEF Shows
      <4> QED BY <2>8, <4>1 DEF ThreadsInTurn
    <3>3. CurrentVersion(th)' = CurrentVersion(th)
      BY <2>4, <3>2 DEF CurrentVersion, Ids
    <3> QED BY <2>6, <3>1, <3>3 DEF ShownLast
  <2> QED BY <2>7, <2>8
<1>4. Restart => ShownLast'
  BY DEF Restart, ShownLast, Shows
<1> QED BY <1>1, <1>2, <1>3, <1>4, ProjectionMoves

-----------------------------------------------------------------------------
(* A view captured of a thread is a thread's. *)
LEMMA ViewOfThread ==
    ASSUME NEW s, NEW th \in Threads, NEW v, ViewForAggregate(s, th, v) # Nil
    PROVE  ViewForAggregate(s, th, v) = [kind |-> "thread", view |-> s.threads[th], version |-> v]
<1>1. th \notin Projects /\ th \notin Turns /\ th \notin MessageKeys
  BY IdAssumption DEF MessageKeys
<1> QED BY <1>1 DEF ViewForAggregate

LEMMA SnapsGrow ==
    ASSUME TypeInv, StoreInv, StoreInv', SnapshotInv, SnapsHold, TypeInv', [Next]_vars
    PROVE  /\ \A th \in Threads : snapshots[th] # Nil => AsOf(snapshots[th], log', th)
           /\ \A w \in Workers : pc[w] = "snapshot" /\ StreamOf(w) \in Threads =>
                AsOf(captured[w], log', StreamOf(w))
<1>1. log \in Seq(Row) /\ Contiguous(log) /\ Contiguous(log')
  BY DEF TypeInv, TasksTypeOK, StoreInv, Contiguous, Sequences
<1>2. PICK new \in Seq(Row) : log' = log \o new
  <2>1. CASE log' = log
    <3>1. <<>> \in Seq(Row) /\ log' = log \o <<>>
      BY <1>1, <2>1
    <3> QED BY <3>1
  <2>2. CASE \E t \in Tasks : CommitAppend(t)
    BY <2>2, CommitAdds
  <2> QED BY <2>1, <2>2, LogChanges
<1>3. ASSUME NEW th \in Threads, NEW snap, AsOf(snap, log, th), snap.version \in Nat,
             snap.version <= CurrentVersion(th)
      PROVE  AsOf(snap, log', th)
  BY <1>1, <1>2, <1>3, AsOfGrows DEF CurrentVersion
<1>4. ASSUME NEW th \in Threads, snapshots[th] # Nil PROVE AsOf(snapshots[th], log', th)
  BY <1>3, <1>4 DEF SnapsHold, SnapshotInv, Ids
<1>5. ASSUME NEW w \in Workers, pc[w] = "snapshot", StreamOf(w) \in Threads
      PROVE  AsOf(captured[w], log', StreamOf(w))
  <2>1. captured[w].version = NewVersion(w) /\ AsOf(captured[w], log, StreamOf(w))
    BY <1>5 DEF SnapshotInv, SnapsHold
  <2>2. NewVersion(w) \in Nat /\ NewVersion(w) <= CurrentVersion(StreamOf(w))
    BY <1>5, PersistedVersion DEF Persisted, Tasks
  <2> QED BY <1>3, <1>5, <2>1, <2>2
<1> QED BY <1>4, <1>5

LEMMA SnapsHoldStep ==
    ASSUME TypeInv, TypeInv', StoreInv, StoreInv', ViewInv, NativeInv, SnapshotInv, ThreadsInv,
           ThreadsInTurn, [Next]_vars
    PROVE  SnapsHold'
<1> DEFINE Held(w) == pc'[w] = "snapshot" /\ StreamOf(w)' \in Threads =>
                        AsOf(captured'[w], log', StreamOf(w)')
<1>1. /\ \A th \in Threads : snapshots[th] # Nil => AsOf(snapshots[th], log', th)
      /\ \A w \in Workers : pc[w] = "snapshot" /\ StreamOf(w) \in Threads =>
           AsOf(captured[w], log', StreamOf(w))
  BY SnapsGrow DEF ThreadsInv
<1>2. CASE SnapshotsAside
  <2>1. \A w \in Workers : Held(w)
    <3> SUFFICES ASSUME NEW w \in Workers, pc'[w] = "snapshot", StreamOf(w)' \in Threads
                 PROVE  AsOf(captured'[w], log', StreamOf(w)')
      OBVIOUS
    <3>1. pc[w] = "snapshot" /\ captured'[w] = captured[w] /\ StreamOf(w)' = StreamOf(w)
      BY <1>2 DEF SnapshotsAside, StreamOf
    <3> QED BY <1>1, <3>1
  <2> QED BY <1>1, <1>2, <2>1 DEF SnapshotsAside, SnapsHold
<1>3. ASSUME NEW w \in Workers, SaveSnapshot(w) PROVE SnapsHold'
  <2>1. /\ pc[w] = "snapshot" /\ w \in Tasks /\ log' = log /\ evs' = evs
        /\ captured' = [captured EXCEPT ![w] = Nil] /\ pc' = [pc EXCEPT ![w] = "publish"]
        /\ \/ snapshots' = snapshots
           \/ snapshots' = [snapshots EXCEPT ![StreamOf(w)] = captured[w]]
    BY <1>3 DEF SaveSnapshot, Tasks
  <2>2. \A u \in Workers : StreamOf(u)' = StreamOf(u)
    BY <2>1 DEF StreamOf
  <2>3. \A u \in Workers : /\ pc'[u] = "snapshot" => u # w /\ pc[u] = "snapshot"
                           /\ u # w => captured'[u] = captured[u]
    BY <2>1 DEF TypeInv, TasksTypeOK, Tasks, SnapshotInv
  <2>4. \A u \in Workers : Held(u)
    BY <1>1, <2>2, <2>3
  <2>5. \A th \in Threads : \/ snapshots'[th] = snapshots[th]
                            \/ th = StreamOf(w) /\ snapshots'[th] = captured[w]
    BY <2>1 DEF SnapshotInv, Ids
  <2>6. \A th \in Threads : snapshots'[th] # Nil => AsOf(snapshots'[th], log', th)
    BY <1>1, <2>1, <2>5
  <2> QED BY <2>4, <2>6 DEF SnapsHold
<1>4. ASSUME NEW t \in Tasks, ProjectEvents(t) PROVE SnapsHold'
  <2>1. /\ log' = log /\ snapshots' = snapshots /\ evs' = evs /\ pc[t] = "project"
        /\ \A u \in Tasks \ {t} : pc'[u] = pc[u]
        /\ \A u \in Workers \ {t} : captured'[u] = captured[u]
    BY <1>4 DEF ProjectEvents, durable, SnapshotInv, TypeInv, TasksTypeOK
  <2>2. \A u \in Tasks : StreamOf(u)' = StreamOf(u)
    BY <2>1 DEF StreamOf
  <2>3. ASSUME t \in Workers, pc'[t] = "snapshot", StreamOf(t) \in Threads
        PROVE  AsOf(captured'[t], log, StreamOf(t))
    <3> DEFINE th == StreamOf(t)
               snap == ViewForAggregate(store', th, NewVersion(t))
    <3>1. captured'[t] = snap /\ snap # Nil
      BY <1>4, <2>3 DEF ProjectEvents, SnapshotInv, TypeInv, TasksTypeOK
    <3>2. th \in Threads
      BY <2>3
    <3>3. snap = [kind |-> "thread", view |-> store'.threads[th], version |-> NewVersion(t)]
      BY <3>1, <3>2, ViewOfThread
    <3>4. ThreadIn(store', th) = ThreadIn(FullReplay(log), th)
      BY <1>4, <3>2, ProjectEventsThread DEF ThreadsInv
    <3>5. NewVersion(t) = VersionIn(log, th)
      BY <2>1, <3>2 DEF ThreadsInv, ShownLast, Shows, CurrentVersion
    <3>6. log \in Seq(Row) /\ Contiguous(log)
      BY DEF TypeInv, TasksTypeOK, StoreInv
    <3> HIDE DEF snap, th
    <3>7. AsOf(snap, log, th)
      BY <3>2, <3>3, <3>4, <3>5, <3>6, AsOfNow DEF ThreadIn
    <3> QED BY <3>1, <3>7 DEF th
  <2>4. \A u \in Workers : Held(u)
    <3> SUFFICES ASSUME NEW u \in Workers, pc'[u] = "snapshot", StreamOf(u)' \in Threads
                 PROVE  AsOf(captured'[u], log', StreamOf(u)')
      OBVIOUS
    <3>1. u \in Tasks /\ StreamOf(u)' = StreamOf(u)
      BY <2>2 DEF Tasks
    <3>2. CASE u = t
      BY <2>1, <2>3, <3>1, <3>2
    <3>3. CASE u # t
      BY <1>1, <2>1, <3>1, <3>3
    <3> QED BY <3>2, <3>3
  <2> QED BY <1>1, <2>1, <2>4 DEF SnapsHold
<1>5. DOMAIN captured = Workers
  BY DEF SnapshotInv
<1> QED BY <1>2, <1>3, <1>4, <1>5, SnapshotMoves

LEMMA ThreadsStep ==
    ASSUME ~BootMayFail, TypeInv, TypeInv', StoreInv, StoreInv', ViewInv, NativeInv,
           SnapshotInv, ThreadsInv, ThreadsInTurn, ThreadsInTurn', Unrepaired, Unrepaired',
           [Next]_vars
    PROVE  ThreadsInv'
<1>1. repair.pc = "idle" /\ repair'.pc = "idle"
  BY DEF Unrepaired
<1>2. SnapsHold' /\ ShownLast'
  BY <1>1, SnapsHoldStep, ShownLastStep DEF ThreadsInv
<1>3. ASSUME NEW th \in Threads PROVE ThreadInStep(th)'
  <2>1. ThreadInStep(th) /\ SnapsHold
    BY DEF ThreadsInv
  <2> QED BY <1>1, <2>1, ProjectionMoves, CommitThread, ProjectEventsThread, RestartThread,
             AsideThread
<1> QED BY <1>2, <1>3 DEF ThreadsInv

LEMMA StaysThreadInStep ==
    ASSUME ~BootMayFail, Native(Existing)
    PROVE  Spec /\ [](ThreadsInTurn /\ Unrepaired) => []ThreadsInv
<1>1. Init /\ Unrepaired => ThreadsInv
  <2> SUFFICES ASSUME Init, Unrepaired PROVE ThreadsInv
    OBVIOUS
  <2>1. store = FullReplay(log)
    BY PipelineAssumption, BootReplaysAll DEF Init, Unrepaired
  <2>2. \A t \in Tasks : pc[t] \notin {"project", "snapshot"}
    BY DEF Init
  <2>3. \A th \in Threads : snapshots[th] = Nil
    BY DEF Init, NoSnapshots, Ids
  <2> QED BY <2>1, <2>2, <2>3 DEF ThreadsInv, ThreadInStep, ShownLast, SnapsHold, Shows, Tasks
<1>2. /\ TypeInv /\ TypeInv' /\ StoreInv /\ StoreInv' /\ ViewInv /\ NativeInv /\ SnapshotInv
      /\ ThreadsInv /\ ThreadsInTurn /\ ThreadsInTurn' /\ Unrepaired /\ Unrepaired'
      /\ [Next]_vars
      => ThreadsInv'
  BY ThreadsStep
<1> QED
  BY <1>1, <1>2, TypeAndStore, ViewsAreTyped, RowsAreNative, SnapshotsKnown, PTL DEF Spec

LEMMA SettledAlike ==
    ASSUME NEW a \in ThreadView \cup {Nil}, NEW b \in ThreadView \cup {Nil},
           Settled(a) = Settled(b)
    PROVE  /\ a = Nil <=> b = Nil
           /\ a # Nil => a.status = b.status /\ a.project = b.project
<1>1. CASE a = Nil \/ b = Nil
  BY <1>1, SettledView
<1>2. CASE a # Nil /\ b # Nil
  <2>1. Settled(a)[1] = [project |-> a.project, status |-> a.status]
    BY <1>2, SettledView
  <2>2. Settled(b)[1] = [project |-> b.project, status |-> b.status]
    BY <1>2, SettledView
  <2>3. [project |-> a.project, status |-> a.status] = [project |-> b.project, status |-> b.status]
    BY <2>1, <2>2
  <2> QED BY <1>2, <2>3
<1> QED BY <1>1, <1>2

(* Snapshots are taken of views that other tasks' events, too, have gone   *)
(* into, are saved after the lock is released and in any order, and stand  *)
(* in for a prefix of their stream only.  Nevertheless, whenever the       *)
(* process dies, a boot from them finds every thread with the status, and  *)
(* in the project, that the whole log gives it: it is enough that tasks    *)
(* projecting to one thread take turns, that no repair is run, and that    *)
(* the log is short enough for a boot to read.                             *)
THEOREM StatusesSurviveRestarts ==
    ASSUME ~BootMayFail, Native(Existing)
    PROVE  Spec /\ [](ThreadsInTurn /\ Unrepaired) => []ThreadStatusSurvivesRestart
<1>1. TypeInv /\ StoreInv /\ ViewInv /\ NativeInv /\ Unrepaired /\ ThreadsInv
        => ThreadStatusSurvivesRestart
  <2> SUFFICES ASSUME TypeInv, StoreInv, ViewInv, NativeInv, Unrepaired, ThreadsInv,
                      NEW th \in Threads
               PROVE  LET booted == Boot(log, snapshots).threads[th]
                          replayed == FullReplay(log).threads[th]
                      IN  /\ booted = Nil <=> replayed = Nil
                          /\ booted # Nil => booted.status = replayed.status
    BY DEF ThreadStatusSurvivesRestart
  <2>1. log \in Seq(Row) /\ snapshots \in Snapshots /\ Contiguous(log) /\ Native(log)
    BY DEF TypeInv, TasksTypeOK, ViewInv, StoreInv, NativeInv
  <2>2. ThreadIn(Boot(log, snapshots), th) = ThreadIn(FullReplay(log), th)
    BY <2>1, BootThread DEF Unrepaired, ThreadsInv, SnapsHold
  <2>3. Boot(log, snapshots) \in ReadModelStore /\ FullReplay(log) \in ReadModelStore
    BY <2>1, BootType, FullReplayType
  <2>4. /\ Boot(log, snapshots).threads[th] \in ThreadView \cup {Nil}
        /\ FullReplay(log).threads[th] \in ThreadView \cup {Nil}
    BY <2>3 DEF ReadModelStore
  <2> QED BY <2>2, <2>4, SettledAlike DEF ThreadIn
<1> QED BY <1>1, StaysThreadInStep, TypeAndStore, ViewsAreTyped, RowsAreNative, PTL

-----------------------------------------------------------------------------
(* One writer per thread.  No two workers have a command for the same      *)
(* thread, and none creates one (that could take an id of another's).      *)
OneWriterPerThread ==
    \A u, w \in Workers : \A c \in Commands[u], d \in Commands[w] :
      /\ c.type # "CreateThread"
      /\ c.id = d.id /\ c.id \in Threads => u = w

LEMMA WritersTakeTurns ==
    ASSUME OneWriterPerThread, NativeInv, SourceInv
    PROVE  ThreadsInTurn
<1> SUFFICES ASSUME NEW t \in Tasks, NEW u \in Tasks, NEW th \in Threads,
                    Shows(t, th), Shows(u, th)
             PROVE  t = u
  BY DEF ThreadsInTurn
<1>1. ASSUME NEW x \in Tasks, Shows(x, th)
      PROVE  x \in Workers /\ cmd[x] \in Commands[x] /\ cmd[x].id = th
  <2>1. x \in Workers
    <3>1. x \notin Consumers
      BY <1>1, PipelineAssumption, ReportsAreNative DEF Shows, StreamOf
    <3> QED BY <3>1 DEF Tasks
  <2>2. cmd[x] \in Commands[x]
    BY <1>1, <2>1 DEF SourceInv, OwnCommands, Shows
  <2>3. cmd[x].type # "CreateThread"
    BY <2>1, <2>2 DEF OneWriterPerThread
  <2> QED BY <1>1, <2>1, <2>2, <2>3 DEF NativeInv, NamesItsThread, Shows, Appending
<1>2. /\ t \in Workers /\ cmd[t] \in Commands[t] /\ cmd[t].id = th
      /\ u \in Workers /\ cmd[u] \in Commands[u] /\ cmd[u].id = th
  BY <1>1
<1> QED BY <1>2 DEF OneWriterPerThread

(* One client per thread is such a discipline, with any number of clients, *)
(* and provider streams beside them.                                       *)
THEOREM OneWriterKeepsStatuses ==
    ASSUME ~BootMayFail, Native(Existing), OneWriterPerThread
    PROVE  Spec /\ []Unrepaired => []ThreadStatusSurvivesRestart
<1>1. NativeInv /\ SourceInv => ThreadsInTurn
  BY WritersTakeTurns
<1> QED BY <1>1, StatusesSurviveRestarts, RowsAreNative, SourcesKnown, PTL

-----------------------------------------------------------------------------
(* Turn counts.  They are the one part of a thread's view that the events  *)
(* of other streams, those of its turns, change, and the one a boot from a *)
(* snapshot counts twice.  Without turns the whole view is right.          *)
TurnsNotStarted == \A i \in DOMAIN log : log[i].event.type # "TurnStarted"

Uncounted(s) == \A th \in Threads : s.threads[th] # Nil => s.threads[th].turn_count = 0
UncountedSnap(snap) == snap # Nil => snap.view.turn_count = 0

CountsInv ==
    /\ Uncounted(store)
    /\ \A th \in Threads : UncountedSnap(snapshots[th])
    /\ \A w \in Workers : pc[w] = "snapshot" /\ StreamOf(w) \in Threads =>
         UncountedSnap(captured[w])

LEMMA ProjectUncounted ==
    ASSUME NEW s \in ReadModelStore, NEW e \in Event, e.type # "TurnStarted", Uncounted(s)
    PROVE  Uncounted(Project(s, e))
<1> DEFINE after == Project(s, e)
<1>1. s.threads \in [Threads -> ThreadView \cup {Nil}]
  BY DEF ReadModelStore
<1> SUFFICES ASSUME NEW th \in Threads, after.threads[th] # Nil
             PROVE  after.threads[th].turn_count = 0
  BY DEF Uncounted
<1>2. CASE e.type = "ThreadCreated"
  <2> DEFINE view == [project |-> e.of, status |-> "active", turn_count |-> 0]
  <2>1. e.id \in Threads
    BY <1>2, EventFields
  <2>2. after.threads = [s.threads EXCEPT ![e.id] = view]
    BY <1>2 DEF Project, TurnStatusOf, ProjectThreadCreated, Put, ReadModelStore
  <2>3. view.turn_count = 0
    OBVIOUS
  <2> HIDE DEF view, after
  <2>4. after.threads[th] = IF e.id = th THEN view ELSE s.threads[th]
    BY <1>1, <2>1, <2>2
  <2> QED BY <2>3, <2>4 DEF Uncounted, after
<1>3. CASE e.type = "ThreadDeleted"
  <2>1. after.threads = Drop(s.threads, {e.id})
    BY <1>3 DEF Project, TurnStatusOf, ReadModelStore
  <2> HIDE DEF after
  <2>2. after.threads[th] = IF e.id = th THEN Nil ELSE s.threads[th]
    BY <1>1, <2>1 DEF Drop
  <2> QED BY <2>2 DEF Uncounted, after
<1>4. CASE e.type \in StatusEventTypes
  <2>1. e.id \in Threads
    BY <1>4, EventFields DEF ThreadEventTypes, StatusEventTypes
  <2>2. after = ProjectThreadStatus(s, e)
    BY <1>4 DEF Project, TurnStatusOf, StatusEventTypes
  <2>3. CASE s.threads[e.id] = Nil
    BY <2>2, <2>3 DEF ProjectThreadStatus, Uncounted
  <2>4. CASE s.threads[e.id] # Nil
    <3> DEFINE view == [s.threads[e.id] EXCEPT !.status = ThreadStatusOf(e)]
    <3>1. s.threads[e.id] \in ThreadView
      BY <1>1, <2>1, <2>4
    <3>2. view.turn_count = s.threads[e.id].turn_count
      BY <3>1 DEF ThreadView
    <3>3. after.threads = [s.threads EXCEPT ![e.id] = view]
      BY <2>2, <2>4 DEF ProjectThreadStatus, ReadModelStore
    <3> HIDE DEF view, after
    <3>4. after.threads[th] = IF e.id = th THEN view ELSE s.threads[th]
      BY <1>1, <2>1, <3>3
    <3> QED BY <2>1, <2>4, <3>2, <3>4 DEF Uncounted, after
  <2> QED BY <2>3, <2>4
<1>5. CASE e.type \notin ThreadTouchers
  BY <1>5, ThreadsSpared DEF Uncounted
<1> QED BY <1>2, <1>3, <1>4, <1>5 DEF ThreadTouchers

LEMMA ProjectManyUncounted ==
    ASSUME NEW s \in ReadModelStore, NEW events \in Seq(Event), Uncounted(s),
           \A k \in 1..Len(events) : events[k].type # "TurnStarted"
    PROVE  Uncounted(ProjectMany(s, events))
<1> DEFINE n == Len(events)
           X == {x \in ReadModelStore : Uncounted(x)}
<1>1. PICK f : Projects1By1(f, s, events) /\ ProjectMany(s, events) = f[n]
  BY ProjectManyRuns
<1>2. n \in Nat /\ n \in 0..n /\ \A k \in 1..n : events[k] \in Event
  OBVIOUS
<1>3. f[0] \in X
  BY <1>1 DEF Projects1By1
<1>4. ASSUME NEW k \in 1..n, f[k - 1] \in X PROVE f[k] \in X
  BY <1>1, <1>2, <1>4, ProjectType, ProjectUncounted DEF Projects1By1
<1> HIDE DEF n, X
<1>5. StepInto(f, X, n)
  BY <1>3, <1>4 DEF StepInto
<1>6. f[n] \in X
  BY <1>2, <1>5, StepsStayIn
<1> QED BY <1>1, <1>6 DEF X

LEMMA ReplayUncounted ==
    ASSUME NEW s \in ReadModelStore, NEW snaps \in Snapshots, NEW rows \in Seq(Row),
           Uncounted(s), \A th \in Threads : UncountedSnap(snaps[th]),
           \A k \in 1..Len(rows) : rows[k].event.type # "TurnStarted"
    PROVE  Uncounted(Replay(s, snaps, rows))
<1> DEFINE n == Len(rows)
           X == {x \in ReadModelStore : Uncounted(x)}
<1>1. PICK f : Replays1By1(f, s, snaps, rows) /\ Replay(s, snaps, rows) = f[n]
  BY ReplayRuns
<1>2. n \in Nat /\ n \in 0..n /\ \A k \in 1..n : rows[k].event \in Event
  <2>1. \A k \in 1..n : rows[k] \in Row
    OBVIOUS
  <2>2. \A r \in Row : r.event \in Event
    BY DEF Row
  <2> QED BY <2>1, <2>2
<1>3. f[0] \in X
  <2>1. f[0] = SeedFromSnapshots(s, snaps)
    BY <1>1 DEF Replays1By1
  <2>2. SeedFromSnapshots(s, snaps) \in ReadModelStore
    BY SeedType
  <2>3. s.threads \in [Threads -> ThreadView \cup {Nil}]
    BY DEF ReadModelStore
  <2>4. SeedFromSnapshots(s, snaps).threads = SeedMap(s.threads, snaps, "thread")
    BY DEF SeedFromSnapshots, ReadModelStore
  <2>5. \A th \in Threads : SeedMap(s.threads, snaps, "thread")[th] \in
          {s.threads[th]} \cup (IF snaps[th] # Nil THEN {snaps[th].view} ELSE {})
    BY <2>3 DEF SeedMap
  <2>6. Uncounted(SeedFromSnapshots(s, snaps))
    BY <2>4, <2>5 DEF Uncounted, UncountedSnap
  <2> QED BY <2>1, <2>2, <2>6
<1>4. ASSUME NEW k \in 1..n, f[k - 1] \in X PROVE f[k] \in X
  <2>1. f[k] = IF Covered(rows, k, snaps) THEN f[k - 1] ELSE Project(f[k - 1], rows[k].event)
    BY <1>1 DEF Replays1By1
  <2> QED BY <1>2, <1>4, <2>1, ProjectType, ProjectUncounted
<1> HIDE DEF n, X
<1>5. StepInto(f, X, n)
  BY <1>3, <1>4 DEF StepInto
<1>6. f[n] \in X
  BY <1>2, <1>5, StepsStayIn
<1> QED BY <1>1, <1>6 DEF X

LEMMA EmptyIsUncounted ==
    Uncounted(EmptyStore) /\ \A th \in Threads : UncountedSnap(NoSnapshots[th])
BY DEF Uncounted, UncountedSnap, EmptyStore, NoSnapshots, Ids

LEMMA BootUncounted ==
    ASSUME NEW rows \in Seq(Row), NEW snaps \in Snapshots, Len(rows) <= REPLAY_LIMIT,
           \A th \in Threads : UncountedSnap(snaps[th]),
           \A k \in DOMAIN rows : rows[k].event.type # "TurnStarted"
    PROVE  Uncounted(Boot(rows, snaps))
BY ReadsAll, ReplayUncounted, EmptyStoreType, EmptyIsUncounted DEF Boot

LEMMA FullReplayUncounted ==
    ASSUME NEW rows \in Seq(Row), \A k \in DOMAIN rows : rows[k].event.type # "TurnStarted"
    PROVE  Uncounted(FullReplay(rows))
BY ReplayUncounted, EmptyStoreType, EmptyIsUncounted, NoSnapshotsType DEF FullReplay

LEMMA ProjectEventsUncounted ==
    ASSUME TypeInv, StoreInv, ViewInv, CountsInv, TurnsNotStarted, NEW t \in Tasks,
           ProjectEvents(t)
    PROVE  Uncounted(store')
<1>1. pc[t] = "project" /\ store' = ProjectMany(store, evs[t])
  BY DEF ProjectEvents
<1>2. evs[t] \in Seq(Event) /\ store \in ReadModelStore
  BY DEF TypeInv, TasksTypeOK, ViewInv
<1>3. ASSUME NEW k \in 1..Len(evs[t]) PROVE evs[t][k].type # "TurnStarted"
  <2> DEFINE rows == RowsAt(t, ver[t])
  <2>1. k \in DOMAIN rows /\ rows[k].event = evs[t][k]
    BY <1>2 DEF RowsAt
  <2>2. rows[k] \in RowSet(log)
    BY <1>1, <2>1 DEF StoreInv, PersistedIsStored, StoredRows, RowSet, Persisted
  <2> HIDE DEF rows
  <2>3. PICK i \in DOMAIN log : rows[k] = log[i]
    BY <2>2 DEF RowSet
  <2> QED BY <2>1, <2>3 DEF TurnsNotStarted
<1> QED BY <1>1, <1>2, <1>3, ProjectManyUncounted DEF CountsInv

LEMMA CountsStep ==
    ASSUME ~BootMayFail, TypeInv, StoreInv, ViewInv, SnapshotInv, CountsInv, TurnsNotStarted,
           Unrepaired, Unrepaired', [Next]_vars
    PROVE  CountsInv'
<1> DEFINE Held(w) == pc'[w] = "snapshot" /\ StreamOf(w)' \in Threads
                        => UncountedSnap(captured'[w])
<1>0. log \in Seq(Row) /\ snapshots \in Snapshots
  BY DEF TypeInv, TasksTypeOK, ViewInv
<1>1. Uncounted(store')
  <2>1. ProjectionsAside \/ (\E t \in Tasks : CommitAppend(t)) => store' = store
    BY DEF ProjectionsAside, CommitAppend
  <2>2. Restart => store' = Boot(log, snapshots)
    BY DEF Restart
  <2>3. Uncounted(Boot(log, snapshots))
    BY <1>0, BootUncounted DEF Unrepaired, CountsInv, TurnsNotStarted
  <2> QED BY <2>1, <2>2, <2>3, ProjectionMoves, ProjectEventsUncounted DEF CountsInv, Unrepaired
<1>2. CASE SnapshotsAside
  <2>1. ASSUME NEW w \in Workers PROVE Held(w)
    <3>1. pc'[w] = "snapshot" => /\ pc[w] = "snapshot" /\ captured'[w] = captured[w]
                                 /\ StreamOf(w)' = StreamOf(w)
      BY <1>2 DEF SnapshotsAside, StreamOf
    <3> QED BY <3>1 DEF CountsInv
  <2> QED BY <1>1, <1>2, <2>1 DEF SnapshotsAside, CountsInv
<1>3. ASSUME NEW w \in Workers, SaveSnapshot(w) PROVE CountsInv'
  <2>1. /\ pc[w] = "snapshot" /\ w \in Tasks /\ evs' = evs
        /\ captured' = [captured EXCEPT ![w] = Nil] /\ pc' = [pc EXCEPT ![w] = "publish"]
        /\ \/ snapshots' = snapshots
           \/ snapshots' = [snapshots EXCEPT ![StreamOf(w)] = captured[w]]
    BY <1>3 DEF SaveSnapshot, Tasks
  <2>2. \A u \in Workers : StreamOf(u)' = StreamOf(u)
    BY <2>1 DEF StreamOf
  <2>3. \A u \in Workers : /\ pc'[u] = "snapshot" => u # w /\ pc[u] = "snapshot"
                           /\ u # w => captured'[u] = captured[u]
    BY <2>1 DEF TypeInv, TasksTypeOK, Tasks, SnapshotInv
  <2>4. \A u \in Workers : Held(u)
    BY <2>2, <2>3 DEF CountsInv
  <2>5. \A th \in Threads : \/ snapshots'[th] = snapshots[th]
                            \/ th = StreamOf(w) /\ snapshots'[th] = captured[w]
    BY <2>1 DEF SnapshotInv, Ids
  <2>6. \A th \in Threads : UncountedSnap(snapshots'[th])
    BY <2>1, <2>5 DEF CountsInv
  <2> QED BY <1>1, <2>4, <2>6 DEF CountsInv
<1>4. ASSUME NEW t \in Tasks, ProjectEvents(t) PROVE CountsInv'
  <2>1. /\ snapshots' = snapshots /\ evs' = evs /\ \A u \in Tasks \ {t} : pc'[u] = pc[u]
        /\ \A u \in Workers \ {t} : captured'[u] = captured[u]
    BY <1>4 DEF ProjectEvents, durable, SnapshotInv, TypeInv, TasksTypeOK
  <2>2. \A u \in Tasks : StreamOf(u)' = StreamOf(u)
    BY <2>1 DEF StreamOf
  <2>3. ASSUME t \in Workers, pc'[t] = "snapshot", StreamOf(t) \in Threads
        PROVE  UncountedSnap(captured'[t])
    <3> DEFINE th == StreamOf(t)
               snap == ViewForAggregate(store', th, NewVersion(t))
    <3>1. captured'[t] = snap /\ snap # Nil
      BY <1>4, <2>3 DEF ProjectEvents, SnapshotInv, TypeInv, TasksTypeOK
    <3>2. snap = [kind |-> "thread", view |-> store'.threads[th], version |-> NewVersion(t)]
      BY <2>3, <3>1, ViewOfThread
    <3>3. store'.threads[th] # Nil
      BY <2>3, <3>1, IdAssumption DEF ViewForAggregate, MessageKeys
    <3> HIDE DEF snap
    <3>4. snap.view.turn_count = 0
      BY <1>1, <2>3, <3>2, <3>3 DEF Uncounted
    <3> QED BY <3>1, <3>4 DEF UncountedSnap
  <2>4. ASSUME NEW u \in Workers PROVE Held(u)
    <3>1. u \in Tasks /\ StreamOf(u)' = StreamOf(u)
      BY <2>2 DEF Tasks
    <3>2. CASE u = t
      BY <2>3, <3>1, <3>2
    <3>3. CASE u # t
      BY <2>1, <3>1, <3>3 DEF CountsInv
    <3> QED BY <3>2, <3>3
  <2> QED BY <1>1, <2>1, <2>4 DEF CountsInv
<1>5. DOMAIN captured = Workers
  BY DEF SnapshotInv
<1> QED BY <1>2, <1>3, <1>4, <1>5, SnapshotMoves

LEMMA StaysUncounted ==
    ASSUME ~BootMayFail
    PROVE  Spec /\ [](Unrepaired /\ TurnsNotStarted) => []CountsInv
<1>1. Init /\ Unrepaired /\ TurnsNotStarted => CountsInv
  <2> SUFFICES ASSUME Init, Unrepaired, TurnsNotStarted PROVE CountsInv
    OBVIOUS
  <2>1. log \in Seq(Row) /\ store = Boot(log, NoSnapshots) /\ snapshots = NoSnapshots
    BY PipelineAssumption DEF Init
  <2>2. Uncounted(store)
    BY <2>1, BootUncounted, NoSnapshotsType, EmptyIsUncounted DEF Unrepaired, TurnsNotStarted
  <2>3. \A w \in Workers : pc[w] = "idle"
    BY DEF Init, Tasks
  <2> QED BY <2>1, <2>2, <2>3, EmptyIsUncounted DEF CountsInv
<1>2. /\ TypeInv /\ StoreInv /\ ViewInv /\ SnapshotInv /\ CountsInv /\ TurnsNotStarted
      /\ Unrepaired /\ Unrepaired' /\ [Next]_vars
      => CountsInv'
  BY CountsStep
<1> QED BY <1>1, <1>2, TypeAndStore, ViewsAreTyped, SnapshotsKnown, PTL DEF Spec

(* Under the same discipline, and as long as no turn has been started, a   *)
(* quiet read model holds exactly the threads the whole log projects to,   *)
(* snapshots and any number of crashes notwithstanding: what decisions on  *)
(* threads are made from is never behind or ahead of the log for good.     *)
THEOREM QuietThreadsAreTheLogs ==
    ASSUME ~BootMayFail, Native(Existing)
    PROVE  Spec /\ [](ThreadsInTurn /\ Unrepaired /\ TurnsNotStarted) => []QuietThreadsMatchLog
<1>1. TypeInv /\ ViewInv /\ ThreadsInv /\ CountsInv /\ TurnsNotStarted => QuietThreadsMatchLog
  <2> SUFFICES ASSUME TypeInv, ViewInv, ThreadsInv, CountsInv, TurnsNotStarted, Quiet
               PROVE  store.threads = FullReplay(log).threads
    BY DEF QuietThreadsMatchLog
  <2> DEFINE full == FullReplay(log)
  <2>1. log \in Seq(Row) /\ store \in ReadModelStore
    BY DEF TypeInv, TasksTypeOK, ViewInv
  <2>2. full \in ReadModelStore /\ Uncounted(full) /\ Uncounted(store)
    BY <2>1, FullReplayType, FullReplayUncounted DEF TurnsNotStarted, CountsInv
  <2>3. \A t \in Tasks : pc[t] # "project"
    BY DEF Quiet, Tasks
  <2>4. \A th \in Threads : ThreadIn(store, th) = ThreadIn(full, th)
    BY <2>3 DEF ThreadsInv, ThreadInStep, Shows
  <2> HIDE DEF full
  <2>5. /\ store.threads \in [Threads -> ThreadView \cup {Nil}]
        /\ full.threads \in [Threads -> ThreadView \cup {Nil}]
    BY <2>1, <2>2 DEF ReadModelStore
  <2>6. ASSUME NEW th \in Threads PROVE store.threads[th] = full.threads[th]
    <3> DEFINE a == store.threads[th]
               b == full.threads[th]
    <3>1. a \in ThreadView \cup {Nil} /\ b \in ThreadView \cup {Nil} /\ Settled(a) = Settled(b)
      BY <2>4, <2>5 DEF ThreadIn
    <3>2. (a # Nil => a.turn_count = 0) /\ (b # Nil => b.turn_count = 0)
      BY <2>2 DEF Uncounted
    <3> HIDE DEF a, b
    <3>3. a = b
      BY <3>1, <3>2, SettledAlike DEF ThreadView
    <3> QED BY <3>3 DEF a, b
  <2>7. store.threads = full.threads
    BY <2>5, <2>6
  <2> QED BY <2>7 DEF full
<1> QED BY <1>1, StaysThreadInStep, StaysUncounted, TypeAndStore, ViewsAreTyped, PTL
=============================================================================
