------------------------- MODULE EventPipelineProofs -------------------------
(***************************************************************************)
(* What holds of EventPipeline for any number of workers and consumers,    *)
(* any commands and scripts, and any value of the limits.                  *)
(***************************************************************************)
EXTENDS EventPipeline, FiniteSetTheorems, TLAPS

(* A task whose events wait to be appended, and one whose events are stored. *)
Appending == {"version", "begin", "commit", "project", "snapshot", "publish"}
Persisted == {"project", "snapshot", "publish"}

(* The typing invariant, and what makes it inductive: a task that appends  *)
(* has events and a stream to append them to.                              *)
TypeInv ==
    /\ TasksTypeOK
    /\ \A t \in Tasks : pc[t] \in Appending => evs[t] # <<>> /\ StreamOf(t) \in Ids
    /\ \A w \in Workers : pc[w] # "idle" => cmd[w] \in Command
    /\ \A w \in Workers : pc[w] # "idle" => attempts[w] < MAX_CONCURRENCY_ATTEMPTS

-----------------------------------------------------------------------------
(* The events of each kind, built from ids of the right kind. *)
LEMMA EventKinds ==
    /\ \A type \in ProjectEventTypes, p \in Projects : EventRecord(type, p, Nil, Nil, 0) \in Event
    /\ \A th \in Threads, p \in Projects : EventRecord("ThreadCreated", th, p, Nil, 0) \in Event
    /\ \A th \in Threads, status \in ThreadStatus : ThreadStatusChanged(th, status) \in Event
    /\ \A type \in ThreadEventTypes, th \in Threads : EventRecord(type, th, Nil, Nil, 0) \in Event
    /\ \A type \in PinEventTypes, th \in Threads, m \in Messages :
         EventRecord(type, th, Nil, m, 0) \in Event
    /\ \A type \in MarkerEventTypes, th \in Threads, k \in Markers :
         EventRecord(type, th, Nil, k, 0) \in Event
    /\ \A th \in Threads, n \in Nat :
         EventRecord("ThreadRevertCompleted", th, Nil, Nil, n) \in Event
    /\ \A t \in Turns, th \in Threads, n \in Nat : TurnStarted(t, th, n) \in Event
    /\ \A type \in TurnEventTypes, t \in Turns : EventRecord(type, t, Nil, Nil, 0) \in Event
    /\ \A m \in Messages, t \in Turns : MessageAdded(m, t) \in Event
    /\ \A t \in Turns, n \in Nat : MessageDeltaAppended(t, n) \in Event
    /\ \A t \in Turns : ActivityLogged(t) \in Event
<1> USE DEF EventRecord
<1>1. \A type \in ProjectEventTypes, p \in Projects : EventRecord(type, p, Nil, Nil, 0) \in Event
  <2> TAKE type \in ProjectEventTypes, p \in Projects
  <2>1. EventRecord(type, p, Nil, Nil, 0)
          \in [type : ProjectEventTypes, id : Projects, of : {Nil}, arg : {Nil}, n : {0}]
    OBVIOUS
  <2> QED BY <2>1 DEF Event
<1>2. \A th \in Threads, p \in Projects : EventRecord("ThreadCreated", th, p, Nil, 0) \in Event
  BY DEF Event
<1>3. \A th \in Threads, status \in ThreadStatus : ThreadStatusChanged(th, status) \in Event
  BY DEF Event, ThreadStatusChanged
<1>4. \A type \in ThreadEventTypes, th \in Threads : EventRecord(type, th, Nil, Nil, 0) \in Event
  BY DEF Event
<1>5. \A type \in PinEventTypes, th \in Threads, m \in Messages :
         EventRecord(type, th, Nil, m, 0) \in Event
  BY DEF Event
<1>6. \A type \in MarkerEventTypes, th \in Threads, k \in Markers :
         EventRecord(type, th, Nil, k, 0) \in Event
  BY DEF Event
<1>7. \A th \in Threads, n \in Nat :
         EventRecord("ThreadRevertCompleted", th, Nil, Nil, n) \in Event
  BY DEF Event
<1>8. \A t \in Turns, th \in Threads, n \in Nat : TurnStarted(t, th, n) \in Event
  BY DEF Event, TurnStarted
<1>9. \A type \in TurnEventTypes, t \in Turns : EventRecord(type, t, Nil, Nil, 0) \in Event
  BY DEF Event
<1>10. \A m \in Messages, t \in Turns : MessageAdded(m, t) \in Event
  BY DEF Event, MessageAdded
<1>11. \A t \in Turns, n \in Nat : MessageDeltaAppended(t, n) \in Event
  BY DEF Event, MessageDeltaAppended
<1>12. \A t \in Turns : ActivityLogged(t) \in Event
  BY DEF Event, ActivityLogged
<1> QED
  BY <1>1, <1>2, <1>3, <1>4, <1>5, <1>6, <1>7, <1>8, <1>9, <1>10, <1>11, <1>12

(* The Decider returns at least one event, the first of which names a stream. *)
LEMMA DecideType ==
    ASSUME NEW c \in Command, NEW fresh, CanAllocate(c, fresh)
    PROVE  /\ Decide(c, fresh) \in Seq(Event)
           /\ Decide(c, fresh) # <<>>
           /\ Decide(c, fresh)[1].id \in Ids
<1> DEFINE Good(e) == e \in Event /\ e.id \in Ids
<1>0. \A e, f : /\ Good(e) => <<e>> \in Seq(Event) /\ <<e>> # <<>> /\ <<e>>[1].id \in Ids
                /\ Good(e) /\ Good(f) => /\ <<e, f>> \in Seq(Event) /\ <<e, f>> # <<>>
                                         /\ <<e, f>>[1].id \in Ids
  OBVIOUS
<1> USE DEF Ids
<1>1. CASE c.type \in DOMAIN NewThreadStatus
  <2>1. c.id \in Threads /\ NewThreadStatus[c.type] \in ThreadStatus
    BY <1>1 DEF Command, NewThreadStatus, ThreadStatus, ThreadCommands, PinCommands,
                MarkerCommands, TurnCommands
  <2>2. Decide(c, fresh) = <<ThreadStatusChanged(c.id, NewThreadStatus[c.type])>>
    BY <1>1 DEF Decide, NewThreadStatus, PlainEventType
  <2>3. Good(ThreadStatusChanged(c.id, NewThreadStatus[c.type]))
    BY <2>1, EventKinds DEF ThreadStatusChanged, EventRecord
  <2> QED BY <2>2, <2>3, <1>0
<1>2. CASE c.type \in DOMAIN PlainEventType
  <2> DEFINE type == PlainEventType[c.type]
             e == EventRecord(type, c.id, Nil, c.arg, c.n)
  <2>1. \/ type \in ProjectEventTypes /\ c.id \in Projects /\ c.arg = Nil /\ c.n = 0
        \/ type \in ThreadEventTypes /\ c.id \in Threads /\ c.arg = Nil /\ c.n = 0
        \/ type \in PinEventTypes /\ c.id \in Threads /\ c.arg \in Messages /\ c.n = 0
        \/ type \in MarkerEventTypes /\ c.id \in Threads /\ c.arg \in Markers /\ c.n = 0
        \/ type = "ThreadRevertCompleted" /\ c.id \in Threads /\ c.arg = Nil /\ c.n \in Nat
        \/ type \in TurnEventTypes /\ c.id \in Turns /\ c.arg = Nil /\ c.n = 0
    <3> USE DEF PlainEventType
    <3>1. CASE c.type = "DeleteProject"
      <4>1. c.id \in Projects /\ c.arg = Nil /\ c.n = 0
        BY <3>1 DEF Command, ThreadCommands, PinCommands, MarkerCommands, TurnCommands
      <4>2. type \in ProjectEventTypes
        BY <3>1 DEF ProjectEventTypes
      <4> QED BY <4>1, <4>2
    <3>2. CASE c.type \in {"ArchiveThread", "UnarchiveThread", "DeleteThread"}
      <4>1. c.id \in Threads /\ c.arg = Nil /\ c.n = 0
        BY <3>2 DEF Command, ThreadCommands, PinCommands, MarkerCommands, TurnCommands
      <4>2. type \in ThreadEventTypes
        BY <3>2 DEF ThreadEventTypes
      <4> QED BY <4>1, <4>2
    <3>3. CASE c.type \in PinCommands
      <4>1. c.id \in Threads /\ c.arg \in Messages /\ c.n = 0
        BY <3>3 DEF Command, ThreadCommands, PinCommands, MarkerCommands, TurnCommands
      <4>2. type \in PinEventTypes
        BY <3>3 DEF PinEventTypes, PinCommands
      <4> QED BY <4>1, <4>2
    <3>4. CASE c.type \in MarkerCommands
      <4>1. c.id \in Threads /\ c.arg \in Markers /\ c.n = 0
        BY <3>4 DEF Command, ThreadCommands, PinCommands, MarkerCommands, TurnCommands
      <4>2. type \in MarkerEventTypes
        BY <3>4 DEF MarkerEventTypes, MarkerCommands
      <4> QED BY <4>1, <4>2
    <3>5. CASE c.type = "CompleteRevert"
      <4>1. c.id \in Threads /\ c.arg = Nil /\ c.n \in Nat
        BY <3>5 DEF Command, ThreadCommands, PinCommands, MarkerCommands, TurnCommands
      <4> QED BY <3>5, <4>1
    <3>6. CASE c.type \in TurnCommands
      <4>1. c.id \in Turns /\ c.arg = Nil /\ c.n = 0
        BY <3>6 DEF Command, ThreadCommands, PinCommands, MarkerCommands, TurnCommands
      <4>2. type \in TurnEventTypes
        BY <3>6 DEF TurnEventTypes, TurnCommands
      <4> QED BY <4>1, <4>2
    <3> QED
      BY <1>2, <3>1, <3>2, <3>3, <3>4, <3>5, <3>6 DEF PinCommands, MarkerCommands, TurnCommands
  <2>2. Decide(c, fresh) = <<e>>
    BY <1>2 DEF Decide, PlainEventType, NewThreadStatus
  <2> HIDE DEF type
  <2>3. e \in Event
    BY <2>1, EventKinds
  <2>4. e.id = c.id /\ c.id \in Ids
    BY <2>1 DEF EventRecord
  <2> QED BY <2>2, <2>3, <2>4, <1>0
<1>3. CASE c.type = "CreateProject"
  <2> DEFINE p == FreshId(Projects, fresh)
  <2>1. p \in Projects
    BY <1>3 DEF CanAllocate, FreshId
  <2>2. Decide(c, fresh) = <<EventRecord("ProjectCreated", p, Nil, Nil, 0)>>
    BY <1>3 DEF Decide, PlainEventType, NewThreadStatus
  <2> HIDE DEF p
  <2>3. EventRecord("ProjectCreated", p, Nil, Nil, 0) \in Event
    <3>1. "ProjectCreated" \in ProjectEventTypes
      BY DEF ProjectEventTypes
    <3> QED BY <2>1, <3>1, EventKinds
  <2>4. Good(EventRecord("ProjectCreated", p, Nil, Nil, 0))
    BY <2>1, <2>3 DEF EventRecord
  <2> QED BY <2>2, <2>4, <1>0
<1>4. CASE c.type = "CreateThread"
  <2>1. c.id \in Projects /\ c.arg \in Threads \cup {Nil}
    BY <1>4 DEF Command, ThreadCommands, PinCommands, MarkerCommands, TurnCommands
  <2>2. CreatedThread(c, fresh) \in Threads
    BY <1>4, <2>1 DEF CanAllocate, FreshId, CreatedThread
  <2>3. Decide(c, fresh) = <<EventRecord("ThreadCreated", CreatedThread(c, fresh), c.id, Nil, 0)>>
    BY <1>4 DEF Decide, PlainEventType, NewThreadStatus
  <2>4. Good(EventRecord("ThreadCreated", CreatedThread(c, fresh), c.id, Nil, 0))
    BY <2>1, <2>2, EventKinds DEF EventRecord
  <2> QED BY <2>3, <2>4, <1>0
<1>5. CASE c.type = "StartTurn"
  <2>1. c.id \in Threads /\ c.n \in Nat
    BY <1>5 DEF Command, ThreadCommands, PinCommands, MarkerCommands, TurnCommands
  <2> DEFINE t == FreshId(Turns, fresh)
             m == FreshId(Messages, fresh)
  <2>2. t \in Turns /\ m \in Messages
    BY <1>5 DEF CanAllocate, FreshId
  <2>3. Decide(c, fresh) = <<TurnStarted(t, c.id, c.n), MessageAdded(m, t)>>
    BY <1>5 DEF Decide, PlainEventType, NewThreadStatus
  <2>4. Good(TurnStarted(t, c.id, c.n)) /\ Good(MessageAdded(m, t))
    BY <2>1, <2>2, EventKinds DEF TurnStarted, MessageAdded, EventRecord
  <2> QED BY <2>3, <2>4, <1>0
<1>6. CASE c.type = "AddMessage"
  <2>1. c.id \in Turns
    BY <1>6 DEF Command, ThreadCommands, PinCommands, MarkerCommands, TurnCommands
  <2>2. FreshId(Messages, fresh) \in Messages
    BY <1>6 DEF CanAllocate, FreshId
  <2>3. Decide(c, fresh) = <<MessageAdded(FreshId(Messages, fresh), c.id)>>
    BY <1>6 DEF Decide, PlainEventType, NewThreadStatus
  <2>4. Good(MessageAdded(FreshId(Messages, fresh), c.id))
    BY <2>1, <2>2, EventKinds DEF MessageAdded, EventRecord
  <2> QED BY <2>3, <2>4, <1>0
<1>7. \/ c.type \in DOMAIN NewThreadStatus \/ c.type \in DOMAIN PlainEventType
      \/ c.type \in {"CreateProject", "CreateThread", "StartTurn", "AddMessage"}
  BY DEF Command, PlainEventType, NewThreadStatus, ThreadCommands, PinCommands,
         MarkerCommands, TurnCommands
<1> QED BY <1>1, <1>2, <1>3, <1>4, <1>5, <1>6, <1>7

(* Whatever a provider reports becomes well-formed events of its turn. *)
LEMMA IngestType ==
    ASSUME NEW type \in ProviderEventTypes, NEW t \in Turns, NEW n \in Nat
    PROVE  Ingest(type, t, n) \in Seq(Event)
<1>1. CASE type = "Started"
  BY <1>1 DEF Ingest
<1>2. CASE type # "Started"
  <2>1. PICK e \in Event : Ingest(type, t, n) = <<e>>
    BY <1>2, EventKinds DEF Ingest, ProviderEventTypes, TurnEventTypes
  <2> QED BY <2>1
<1> QED BY <1>1, <1>2

-----------------------------------------------------------------------------
(* The rows of a log as a set. *)
RowSet(rows) == {rows[i] : i \in DOMAIN rows}

LEMMA RowSetConcat ==
    ASSUME NEW S, NEW a \in Seq(S), NEW b \in Seq(S)
    PROVE  RowSet(a \o b) = RowSet(a) \cup RowSet(b)
<1>1. RowSet(a \o b) \subseteq RowSet(a) \cup RowSet(b)
  <2> SUFFICES ASSUME NEW i \in DOMAIN (a \o b)
               PROVE  (a \o b)[i] \in RowSet(a) \cup RowSet(b)
    BY DEF RowSet
  <2>1. CASE i <= Len(a)
    BY <2>1 DEF RowSet
  <2>2. CASE i > Len(a)
    <3>1. i - Len(a) \in DOMAIN b /\ (a \o b)[i] = b[i - Len(a)]
      BY <2>2
    <3> QED BY <3>1 DEF RowSet
  <2> QED BY <2>1, <2>2
<1>2. RowSet(a) \subseteq RowSet(a \o b)
  <2> SUFFICES ASSUME NEW i \in DOMAIN a
               PROVE  a[i] \in RowSet(a \o b)
    BY DEF RowSet
  <2>1. i \in DOMAIN (a \o b) /\ (a \o b)[i] = a[i]
    OBVIOUS
  <2> QED BY <2>1 DEF RowSet
<1>3. RowSet(b) \subseteq RowSet(a \o b)
  <2> SUFFICES ASSUME NEW i \in DOMAIN b
               PROVE  b[i] \in RowSet(a \o b)
    BY DEF RowSet
  <2>1. Len(a) + i \in DOMAIN (a \o b) /\ (a \o b)[Len(a) + i] = b[i]
    OBVIOUS
  <2> QED BY <2>1 DEF RowSet
<1> QED BY <1>1, <1>2, <1>3

(* The sequence numbers of a stream are those of its rows. *)
LEMMA SequencesOfRows ==
    ASSUME NEW rows, NEW id
    PROVE  Sequences(rows, id) = {r.sequence : r \in {x \in RowSet(rows) : x.stream = id}}
BY DEF Sequences, RowSet

(* A stream numbered 1..n is at version n. *)
LEMMA VersionOfStream ==
    ASSUME NEW rows, NEW id, NEW n \in Nat, Sequences(rows, id) = 1..n
    PROVE  VersionIn(rows, id) = n
<1>1. CASE n = 0
  BY <1>1 DEF VersionIn
<1>2. CASE n > 0
  <2>1. n \in 1..n /\ \A s \in 1..n : s <= n
    BY <1>2
  <2>2. \A v \in 1..n : (\A s \in 1..n : s <= v) => v = n
    BY <2>1
  <2> QED BY <2>1, <2>2, <1>2 DEF VersionIn
<1> QED BY <1>1, <1>2

LEMMA VersionIsNat ==
    ASSUME NEW rows \in Seq(Row), Contiguous(rows), NEW id \in Ids
    PROVE  /\ VersionIn(rows, id) \in Nat
           /\ Sequences(rows, id) = 1..VersionIn(rows, id)
<1>1. PICK n \in 0..Len(rows) : Sequences(rows, id) = 1..n
  BY DEF Contiguous
<1> QED BY <1>1, VersionOfStream

(* The rows a task appends: of its stream, numbered on from the version.   *)
LEMMA RowsAtType ==
    ASSUME NEW t \in Tasks, NEW v \in Nat, evs[t] \in Seq(Event), StreamOf(t) \in Ids
    PROVE  /\ RowsAt(t, v) \in Seq(Row)
           /\ Len(RowsAt(t, v)) = Len(evs[t])
           /\ \A k \in 1..Len(evs[t]) :
                /\ RowsAt(t, v)[k].stream = StreamOf(t)
                /\ RowsAt(t, v)[k].sequence = v + k
BY DEF RowsAt, Row

(* Rows appended at a stream's version keep the log contiguous, and are new. *)
LEMMA AppendKeepsContiguous ==
    ASSUME NEW old \in Seq(Row), Contiguous(old), NEW new \in Seq(Row),
           NEW s \in Ids, NEW v \in Nat, Sequences(old, s) = 1..v,
           \A k \in 1..Len(new) : new[k].stream = s /\ new[k].sequence = v + k
    PROVE  /\ Contiguous(old \o new)
           /\ RowSet(new) \cap RowSet(old) = {}
<1> DEFINE all == old \o new
<1>1. /\ all \in Seq(Row) /\ Len(all) = Len(old) + Len(new)
      /\ DOMAIN all = 1..Len(all) /\ DOMAIN old = 1..Len(old) /\ Len(old) \in Nat
      /\ \A i \in 1..Len(old) : all[i] = old[i]
      /\ \A i \in (Len(old) + 1)..Len(all) :
           i - Len(old) \in 1..Len(new) /\ all[i] = new[i - Len(old)]
  OBVIOUS
<1>2. v <= Len(old)
  <2>1. PICK n \in 0..Len(old) : Sequences(old, s) = 1..n
    BY DEF Contiguous
  <2>2. VersionIn(old, s) = n /\ VersionIn(old, s) = v
    BY <2>1, VersionOfStream
  <2> QED BY <2>2
<1>3. \A r \in RowSet(new) : r.stream = s /\ r.sequence \in (v + 1)..(v + Len(new))
  BY DEF RowSet
<1>4. \A r \in RowSet(old) : r.stream = s => r.sequence \in 1..v
  BY SequencesOfRows
<1>5. RowSet(all) = RowSet(old) \cup RowSet(new)
  BY RowSetConcat
<1>6. \A id \in Ids : \E n \in 0..Len(all) : Sequences(all, id) = 1..n
  <2> TAKE id \in Ids
  <2> HIDE DEF all
  <2>1. CASE id = s
    <3>1. Sequences(all, s) \subseteq 1..(v + Len(new))
      BY <1>3, <1>4, <1>5, SequencesOfRows
    <3>2. 1..v \subseteq Sequences(all, s)
      BY <1>5, SequencesOfRows
    <3>3. \A x \in (v + 1)..(v + Len(new)) : x \in Sequences(all, s)
      <4> TAKE x \in (v + 1)..(v + Len(new))
      <4>1. x - v \in 1..Len(new)
        OBVIOUS
      <4>2. new[x - v].stream = s /\ new[x - v].sequence = x
        BY <4>1
      <4>3. new[x - v] \in RowSet(new)
        BY <4>1 DEF RowSet
      <4> QED BY <4>2, <4>3, <1>5, SequencesOfRows
    <3>4. Sequences(all, s) = 1..(v + Len(new))
      <4>1. 1..(v + Len(new)) = (1..v) \cup ((v + 1)..(v + Len(new)))
        OBVIOUS
      <4>2. (v + 1)..(v + Len(new)) \subseteq Sequences(all, s)
        BY <3>3
      <4> QED BY <3>1, <3>2, <4>1, <4>2
    <3> QED BY <3>4, <2>1, <1>1, <1>2
  <2>2. CASE id # s
    <3>1. Sequences(all, id) = Sequences(old, id)
      BY <2>2, <1>3, <1>5, SequencesOfRows
    <3>2. PICK n \in 0..Len(old) : Sequences(old, id) = 1..n
      BY DEF Contiguous
    <3> QED BY <3>1, <3>2, <1>1
  <2> QED BY <2>1, <2>2
<1>7. ASSUME NEW id \in Ids, NEW i \in DOMAIN all, NEW j \in DOMAIN all,
             i < j, all[i].stream = id, all[j].stream = id
      PROVE  all[i].sequence < all[j].sequence
  <2> HIDE DEF all
  <2>0. i \in 1..Len(all) /\ j \in 1..Len(all) /\ Len(all) \in Nat
    BY <1>1
  <2>1. CASE j <= Len(old)
    <3>1. i \in DOMAIN old /\ j \in DOMAIN old /\ all[i] = old[i] /\ all[j] = old[j]
      BY <1>1, <2>0, <2>1, <1>7
    <3> QED BY <3>1, <1>7 DEF Contiguous
  <2>2. CASE i > Len(old)
    <3>1. /\ i \in (Len(old) + 1)..Len(all) /\ j \in (Len(old) + 1)..Len(all)
      BY <1>1, <2>0, <2>2, <1>7
    <3>2. /\ i - Len(old) \in 1..Len(new) /\ j - Len(old) \in 1..Len(new)
          /\ all[i].sequence = v + (i - Len(old)) /\ all[j].sequence = v + (j - Len(old))
      BY <1>1, <3>1
    <3> QED BY <3>2, <2>0, <1>1, <1>7
  <2>3. CASE i <= Len(old) /\ j > Len(old)
    <3>0. j \in (Len(old) + 1)..Len(all)
      BY <1>1, <2>0, <2>3
    <3>1. j - Len(old) \in 1..Len(new) /\ all[j] = new[j - Len(old)]
      BY <1>1, <3>0
    <3>2. id = s /\ all[j].sequence = v + (j - Len(old))
      BY <3>1, <1>7
    <3>3. all[i] \in RowSet(old)
      <4>1. i \in DOMAIN old /\ all[i] = old[i]
        BY <1>1, <2>0, <2>3
      <4> QED BY <4>1 DEF RowSet
    <3>4. all[i].sequence \in 1..v
      BY <3>2, <3>3, <1>4, <1>7
    <3>5. j - Len(old) \in 1..Len(new)
      BY <3>1
    <3> QED BY <3>2, <3>4, <3>5
  <2> QED BY <2>0, <2>1, <2>2, <2>3, <1>1, <1>7
<1>8. RowSet(new) \cap RowSet(old) = {}
  BY <1>3, <1>4
<1> QED BY <1>6, <1>7, <1>8 DEF Contiguous

(* No element occurs twice. *)
Once(s) == \A i, j \in DOMAIN s : s[i] = s[j] => i = j

LEMMA OnceConcat ==
    ASSUME NEW S, NEW a \in Seq(S), NEW b \in Seq(S), Once(a), Once(b),
           RowSet(a) \cap RowSet(b) = {}
    PROVE  Once(a \o b)
<1>1. /\ DOMAIN (a \o b) = 1..(Len(a) + Len(b))
      /\ \A i \in 1..Len(a) : (a \o b)[i] = a[i] /\ (a \o b)[i] \in RowSet(a)
      /\ \A i \in (Len(a) + 1)..(Len(a) + Len(b)) :
           /\ i - Len(a) \in 1..Len(b)
           /\ (a \o b)[i] = b[i - Len(a)] /\ (a \o b)[i] \in RowSet(b)
  BY DEF RowSet
<1> QED BY <1>1 DEF Once

LEMMA RowsAtOnce ==
    ASSUME NEW t \in Tasks, NEW v \in Nat, evs[t] \in Seq(Event), StreamOf(t) \in Ids
    PROVE  Once(RowsAt(t, v))
BY RowsAtType DEF Once

-----------------------------------------------------------------------------
(* Every step is one of these. *)
LEMMA NextCases ==
    ASSUME [Next]_vars
    PROVE  \/ \E w \in Workers : \/ ReceiveCommand(w) \/ DecideCommand(w)
                                 \/ AppendConflict(w) \/ AppendBusy(w) \/ SaveSnapshot(w)
           \/ \E t \in Tasks : \/ ReadVersion(t) \/ BeginAppend(t) \/ CommitAppend(t)
                               \/ ProjectEvents(t) \/ Publish(t)
           \/ \E c \in Consumers : \/ TakeToken(c) \/ FlushTokens(c) \/ TakeEvent(c)
                                   \/ StreamEnds(c) \/ ConsumerAppendFails(c)
           \/ RepairStep
           \/ Restart
           \/ UNCHANGED vars
BY DEF Next, WorkerStep, ConsumerStep, Tasks

(* What every step of the repair handler leaves alone. *)
LEMMA RepairTouchesStoreOnly ==
    ASSUME RepairStep
    PROVE  UNCHANGED <<log, snapshots, feed, pc, cmd, evs, ver, tx, attempts, captured, reply,
                       inbox, buf, dropped>>
BY DEF RepairStep, RepairBegin, RepairClear, RepairLoadSnapshots, RepairReadRows, RepairReplay,
       RepairFails, RepairRestore, UNCHANGEDTasks, durable, consumerVars

LEMMA TokensInIsNat ==
    ASSUME NEW S, NEW events \in Seq(S)
    PROVE  TokensIn(events) \in Nat
<1>1. IsFiniteSet(1..Len(events))
  BY FS_Interval
<1>2. IsFiniteSet({i \in DOMAIN events : events[i] = "Token"})
  BY <1>1, FS_Subset
<1> QED BY <1>2, FS_CardinalityType DEF TokensIn

LEMMA TypeInit == Init => TypeInv
<1> SUFFICES ASSUME Init PROVE TypeInv
  OBVIOUS
<1>1. TasksTypeOK
  BY PipelineAssumption DEF Init, TasksTypeOK, Tasks, WorkerPc, ConsumerPc, Replies
<1>2. \A t \in Tasks : pc[t] \notin Appending
  BY DEF Init, Appending
<1>3. \A w \in Workers : pc[w] = "idle"
  BY DEF Init, Tasks
<1> QED BY <1>1, <1>2, <1>3 DEF TypeInv

(* The types of what is neither a program counter nor a task's events. *)
QueuesTypeOK ==
    /\ log \in Seq(Row) /\ feed \in Seq(Row)
    /\ ver \in [Tasks -> Nat]
    /\ tx \in [Tasks -> {"none", "fresh", "stale"}]
    /\ attempts \in [Workers -> 0..MAX_CONCURRENCY_ATTEMPTS]
    /\ reply \in [Workers -> Replies]
    /\ inbox \in [Consumers -> Seq(ProviderEventTypes)]
    /\ buf \in [Consumers -> 0..(TOKEN_BATCH_MAX_COUNT - 1)]
    /\ dropped \in [Consumers -> Nat]

(* A step in which one task moves to p and holds the events e keeps the    *)
(* types if it keeps those of the queues.                                  *)
LEMMA TaskMoves ==
    ASSUME TypeInv, NEW t \in Tasks, NEW p, NEW e \in Seq(Event),
           pc' = [pc EXCEPT ![t] = p], evs' = [evs EXCEPT ![t] = e], cmd' = cmd,
           t \in Workers => p \in WorkerPc \ {"decide"},
           t \in Consumers => p \in ConsumerPc,
           p \in Appending => e # <<>> /\ (t \in Workers => e[1].id \in Ids),
           t \in Workers => pc[t] # "idle",
           attempts' = attempts,
           QueuesTypeOK'
    PROVE  TypeInv'
<1> USE PipelineAssumption
<1>1. TasksTypeOK'
  BY DEF TypeInv, TasksTypeOK, QueuesTypeOK, Tasks
<1>2. \A u \in Tasks : pc'[u] \in Appending => evs'[u] # <<>> /\ StreamOf(u)' \in Ids
  <2> TAKE u \in Tasks
  <2>1. CASE u = t
    <3>1. pc'[u] = p /\ evs'[u] = e
      BY <2>1 DEF TypeInv, TasksTypeOK
    <3> QED BY <3>1, <2>1 DEF StreamOf, Tasks, Ids
  <2>2. CASE u # t
    BY <2>2 DEF TypeInv, TasksTypeOK, StreamOf
  <2> QED BY <2>1, <2>2
<1>3. \A w \in Workers : pc'[w] # "idle" => cmd'[w] \in Command
  BY DEF TypeInv, TasksTypeOK, Tasks
<1>4. \A w \in Workers : pc'[w] # "idle" => attempts'[w] < MAX_CONCURRENCY_ATTEMPTS
  BY DEF TypeInv, TasksTypeOK, Tasks
<1> QED BY <1>1, <1>2, <1>3, <1>4 DEF TypeInv

(* So does a consumer that hands over events of its turn, or none. *)
LEMMA SubmitType ==
    ASSUME TypeInv, NEW c \in Consumers, NEW events \in Seq(Event), Submit(c, events),
           cmd' = cmd, attempts' = attempts, QueuesTypeOK'
    PROVE  TypeInv'
<1>1. c \in Tasks /\ c \notin Workers
  BY PipelineAssumption DEF Tasks
<1>2. CASE events = <<>>
  BY <1>1, <1>2, TaskMoves DEF Submit, ConsumerPc, Appending
<1>3. CASE events # <<>>
  BY <1>1, <1>3, TaskMoves DEF Submit, ConsumerPc, Appending
<1> QED BY <1>2, <1>3

LEMMA TypeStep ==
    ASSUME TypeInv, Contiguous(log), [Next]_vars
    PROVE  TypeInv'
<1>0. /\ Workers \cap Consumers = {} /\ TurnOf \in [Consumers -> Turns]
      /\ MAX_CONCURRENCY_ATTEMPTS \in Nat \ {0} /\ TOKEN_BATCH_MAX_COUNT \in Nat \ {0}
  BY PipelineAssumption
<1> USE <1>0
<1> USE DEF TypeInv, TasksTypeOK, WorkerPc, ConsumerPc, Appending, Tasks, durable,
            consumerVars, bounds
<1>1. ASSUME NEW w \in Workers, ReceiveCommand(w) PROVE TypeInv'
  <2>1. /\ UNCHANGED <<log, feed, evs, ver, tx, inbox, buf, dropped>>
        /\ pc[w] = "idle" /\ pc' = [pc EXCEPT ![w] = "decide"]
        /\ attempts' = [attempts EXCEPT ![w] = 0] /\ reply' = [reply EXCEPT ![w] = "none"]
    BY <1>1 DEF ReceiveCommand
  <2>2. PICK c \in Commands[w] : cmd' = [cmd EXCEPT ![w] = c]
    BY <1>1 DEF ReceiveCommand
  <2>3. c \in Command
    BY PipelineAssumption
  <2>4. TasksTypeOK'
    BY <2>1, <2>2, <2>3 DEF Replies
  <2> QED BY <2>1, <2>2, <2>3, <2>4 DEF StreamOf
<1>2. ASSUME NEW w \in Workers, DecideCommand(w) PROVE TypeInv'
  <2>1. CASE pc' = [pc EXCEPT ![w] = "idle"]
    BY <1>2, <2>1 DEF DecideCommand, Answer, Replies, StreamOf
  <2>2. CASE pc' # [pc EXCEPT ![w] = "idle"]
    <3> DEFINE fresh == Ids \ UsedIds
    <3> HIDE DEF fresh
    <3>1. /\ pc[w] = "decide" /\ CanAllocate(cmd[w], fresh)
          /\ evs' = [evs EXCEPT ![w] = Decide(cmd[w], fresh)]
          /\ pc' = [pc EXCEPT ![w] = "version"]
          /\ UNCHANGED <<log, feed, cmd, ver, tx, attempts, reply, inbox, buf, dropped>>
      BY <1>2, <2>2 DEF DecideCommand, Answer, fresh
    <3>2. cmd[w] \in Command
      BY <3>1
    <3>3. /\ Decide(cmd[w], fresh) \in Seq(Event) /\ Decide(cmd[w], fresh) # <<>>
          /\ Decide(cmd[w], fresh)[1].id \in Ids
      BY <3>1, <3>2, DecideType
    <3> QED BY <3>1, <3>3 DEF StreamOf
  <2> QED BY <2>1, <2>2
<1>3. ASSUME NEW w \in Workers, AppendConflict(w) PROVE TypeInv'
  <2>1. /\ evs' = [evs EXCEPT ![w] = <<>>] /\ evs' \in [Tasks -> Seq(Event)]
        /\ UNCHANGED <<log, feed, cmd, ver, tx, inbox, buf, dropped>>
    BY <1>3 DEF AppendConflict
  <2>2. /\ attempts[w] \in Nat /\ attempts[w] < MAX_CONCURRENCY_ATTEMPTS
        /\ cmd[w] \in Command \cup {Nil}
    BY <1>3 DEF AppendConflict
  <2>3. attempts' = [attempts EXCEPT ![w] = attempts[w] + 1]
    BY <1>3 DEF AppendConflict, RetryOrGiveUp
  <2>4. attempts' \in [Workers -> 0..MAX_CONCURRENCY_ATTEMPTS]
    BY <2>2, <2>3
  <2>5. /\ reply' \in [Workers -> Replies] /\ pc' \in [Tasks -> WorkerPc \cup ConsumerPc]
        /\ pc'[w] \in {"decide", "idle"} /\ \A u \in Tasks \ {w} : pc'[u] = pc[u]
        /\ pc'[w] = "decide" => attempts[w] + 1 < MAX_CONCURRENCY_ATTEMPTS
    BY ZenonT(30), <1>3 DEF AppendConflict, RetryOrGiveUp, Answer, Replies
  <2>6. cmd[w] \in Command
    BY <1>3 DEF AppendConflict
  <2>7. TasksTypeOK'
    BY <2>1, <2>4, <2>5
  <2>8. \A t \in Tasks : pc'[t] \in Appending => evs'[t] # <<>> /\ StreamOf(t)' \in Ids
    BY <2>1, <2>5 DEF StreamOf
  <2>9. \A u \in Workers : pc'[u] # "idle" => attempts'[u] < MAX_CONCURRENCY_ATTEMPTS
    BY <2>3, <2>5
  <2> QED BY <2>1, <2>5, <2>6, <2>7, <2>8, <2>9
<1>4. ASSUME NEW w \in Workers, AppendBusy(w) PROVE TypeInv'
  <2>1. evs' = [evs EXCEPT ![w] = <<>>] /\ evs' \in [Tasks -> Seq(Event)]
    BY <1>4 DEF AppendBusy
  <2> QED BY <1>4, <2>1 DEF AppendBusy, Answer, Replies, StreamOf
<1>5. ASSUME NEW w \in Workers, SaveSnapshot(w) PROVE TypeInv'
  <2>1. tx' \in [Tasks -> {"none", "fresh", "stale"}]
    BY <1>5 DEF SaveSnapshot, Overtake
  <2> QED BY <1>5, <2>1 DEF SaveSnapshot, StreamOf
<1>6. ASSUME NEW t \in Tasks, ReadVersion(t) PROVE TypeInv'
  <2>1. StreamOf(t) \in Ids
    BY <1>6 DEF ReadVersion
  <2>2. CurrentVersion(StreamOf(t)) \in Nat
    BY <2>1, VersionIsNat DEF CurrentVersion
  <2>3. ver' \in [Tasks -> Nat]
    BY <1>6, <2>2 DEF ReadVersion
  <2> QED BY <1>6, <2>3 DEF ReadVersion, StreamOf
<1>7. ASSUME NEW t \in Tasks, BeginAppend(t) PROVE TypeInv'
  BY <1>7 DEF BeginAppend, StreamOf
<1>8. ASSUME NEW t \in Tasks, CommitAppend(t) PROVE TypeInv'
  <2>1. log' \in Seq(Row)
    BY <1>8, RowsAtType DEF CommitAppend
  <2>2. tx' \in [Tasks -> {"none", "fresh", "stale"}]
    BY <1>8 DEF CommitAppend, Overtake
  <2> QED BY <1>8, <2>1, <2>2 DEF CommitAppend, StreamOf
<1>9. ASSUME NEW t \in Tasks, ProjectEvents(t) PROVE TypeInv'
  BY <1>9 DEF ProjectEvents, StreamOf
<1>10. ASSUME NEW t \in Tasks, Publish(t) PROVE TypeInv'
  <2>1. feed' \in Seq(Row)
    BY <1>10, RowsAtType DEF Publish
  <2>0. \A command : Outcomes(command) \subseteq Replies
    BY DEF Outcomes, Replies
  <2>2. reply' \in [Workers -> Replies]
    <3>1. CASE t \in Workers
      <4>1. PICK what \in Outcomes(cmd[t]) : Answer(t, what)
        BY <1>10, <3>1 DEF Publish
      <4> QED BY <2>0, <4>1 DEF Answer
    <3>2. CASE t \notin Workers
      BY <1>10, <3>2 DEF Publish
    <3> QED BY <3>1, <3>2
  <2>3. QueuesTypeOK'
    BY <1>10, <2>1, <2>2 DEF Publish, QueuesTypeOK
  <2>4. /\ pc[t] = "publish" /\ cmd' = cmd /\ attempts' = attempts
        /\ evs' = [evs EXCEPT ![t] = <<>>] /\ <<>> \in Seq(Event)
        /\ pc' = [pc EXCEPT ![t] = IF t \in Workers THEN "idle" ELSE "stream"]
    <3> HIDE DEF TypeInv, TasksTypeOK
    <3> QED BY <1>10 DEF Publish, Answer
  <2> HIDE DEF TypeInv, TasksTypeOK
  <2> QED BY <2>3, <2>4, TaskMoves
<1>11. ASSUME NEW c \in Consumers, TakeToken(c) PROVE TypeInv'
  <2>1. inbox' \in [Consumers -> Seq(ProviderEventTypes)] /\ buf[c] + 1 \in Nat
    BY <1>11 DEF TakeToken
  <2>2. buf' \in [Consumers -> 0..(TOKEN_BATCH_MAX_COUNT - 1)]
    <3>1. \/ buf' = [buf EXCEPT ![c] = buf[c] + 1] /\ buf[c] + 1 < TOKEN_BATCH_MAX_COUNT
          \/ buf' = [buf EXCEPT ![c] = 0]
      BY <1>11 DEF TakeToken
    <3>2. /\ 0 \in 0..(TOKEN_BATCH_MAX_COUNT - 1)
          /\ buf[c] + 1 < TOKEN_BATCH_MAX_COUNT
               => buf[c] + 1 \in 0..(TOKEN_BATCH_MAX_COUNT - 1)
      BY <2>1
    <3>3. buf \in [Consumers -> 0..(TOKEN_BATCH_MAX_COUNT - 1)]
      OBVIOUS
    <3> HIDE DEF TypeInv, TasksTypeOK
    <3> QED BY <3>1, <3>2, <3>3
  <2>3. QueuesTypeOK'
    BY <1>11, <2>1, <2>2 DEF TakeToken, QueuesTypeOK
  <2>4. CASE UNCHANGED <<evs, pc>>
    BY <1>11, <2>3, <2>4 DEF TakeToken, QueuesTypeOK, StreamOf
  <2>5. CASE Submit(c, Ingest("Token", TurnOf[c], buf[c] + 1))
    <3>1. Ingest("Token", TurnOf[c], buf[c] + 1) \in Seq(Event)
      BY <2>1, IngestType DEF ProviderEventTypes
    <3> QED BY <1>11, <2>3, <2>5, <3>1, SubmitType DEF TakeToken
  <2> QED BY <1>11, <2>4, <2>5 DEF TakeToken
<1>12. ASSUME NEW c \in Consumers, FlushTokens(c) PROVE TypeInv'
  <2>1. Ingest("Token", TurnOf[c], buf[c]) \in Seq(Event)
    BY IngestType DEF ProviderEventTypes
  <2>2. QueuesTypeOK'
    BY <1>12 DEF FlushTokens, QueuesTypeOK
  <2> QED BY <1>12, <2>1, <2>2, SubmitType DEF FlushTokens
<1>13. ASSUME NEW c \in Consumers, TakeEvent(c) PROVE TypeInv'
  <2>1. Head(inbox[c]) \in ProviderEventTypes
    BY <1>13 DEF TakeEvent
  <2>2. Ingest(Head(inbox[c]), TurnOf[c], 0) \in Seq(Event)
    BY <2>1, IngestType
  <2>3. inbox' \in [Consumers -> Seq(ProviderEventTypes)]
    BY <1>13 DEF TakeEvent
  <2>4. QueuesTypeOK'
    BY <1>13, <2>3 DEF TakeEvent, QueuesTypeOK
  <2> QED BY <1>13, <2>2, <2>4, SubmitType DEF TakeEvent
<1>14. ASSUME NEW c \in Consumers, StreamEnds(c) PROVE TypeInv'
  <2>1. dropped[c] + TokensIn(inbox[c]) \in Nat
    BY TokensInIsNat
  <2>2. dropped' \in [Consumers -> Nat] /\ inbox' \in [Consumers -> Seq(ProviderEventTypes)]
    BY <1>14, <2>1 DEF StreamEnds
  <2> QED BY <1>14, <2>2 DEF StreamEnds, StreamOf
<1>15. ASSUME NEW c \in Consumers, ConsumerAppendFails(c) PROVE TypeInv'
  <2>1. evs[c][1] \in Event
    BY <1>15 DEF ConsumerAppendFails
  <2>2. dropped[c] + evs[c][1].n \in Nat
    BY <2>1 DEF Event
  <2>3. dropped' \in [Consumers -> Nat] /\ tx' \in [Tasks -> {"none", "fresh", "stale"}]
    <3>1. \/ dropped' = [dropped EXCEPT ![c] = dropped[c] + evs[c][1].n]
          \/ dropped' = dropped
      BY <1>15 DEF ConsumerAppendFails
    <3>2. tx' = [tx EXCEPT ![c] = "none"]
      BY <1>15 DEF ConsumerAppendFails
    <3>3. dropped \in [Consumers -> Nat] /\ tx \in [Tasks -> {"none", "fresh", "stale"}]
      OBVIOUS
    <3> HIDE DEF TypeInv, TasksTypeOK
    <3> QED BY <2>2, <3>1, <3>2, <3>3
  <2>4. QueuesTypeOK'
    BY <1>15, <2>3 DEF ConsumerAppendFails, QueuesTypeOK
  <2>5. /\ c \in Tasks /\ c \notin Workers /\ cmd' = cmd /\ attempts' = attempts
        /\ evs' = [evs EXCEPT ![c] = <<>>] /\ <<>> \in Seq(Event)
        /\ \/ pc' = [pc EXCEPT ![c] = "stream"]
           \/ pc' = [pc EXCEPT ![c] = "stopped"]
    BY <1>15 DEF ConsumerAppendFails
  <2> HIDE DEF TypeInv, TasksTypeOK
  <2>6. CASE pc' = [pc EXCEPT ![c] = "stream"]
    BY <2>4, <2>5, <2>6, TaskMoves
  <2>7. CASE pc' = [pc EXCEPT ![c] = "stopped"]
    BY <2>4, <2>5, <2>7, TaskMoves
  <2> QED BY <2>5, <2>6, <2>7
<1>16. ASSUME RepairStep PROVE TypeInv'
  BY <1>16, RepairTouchesStoreOnly DEF StreamOf
<1>17. ASSUME Restart PROVE TypeInv'
  BY <1>17 DEF Restart, Replies, StreamOf
<1>18. ASSUME UNCHANGED vars PROVE TypeInv'
  BY <1>18 DEF vars, StreamOf
<1> QED
  BY <1>1, <1>2, <1>3, <1>4, <1>5, <1>6, <1>7, <1>8, <1>9, <1>10, <1>11, <1>12, <1>13, <1>14,
     <1>15, <1>16, <1>17, <1>18, NextCases

-----------------------------------------------------------------------------
(* The inductive invariant of the event store.  An append is checked in    *)
(* one step and written in the next; what carries the version check over   *)
(* the gap is that a transaction which is still fresh has not been         *)
(* overtaken.  What makes the feed faithful is that the rows of a task     *)
(* between its commit and its push are in the log, not yet in the feed,    *)
(* and no other task's.                                                    *)
StoredRows(t) == RowSet(RowsAt(t, ver[t]))

FreshIsCurrent ==
    \A t \in Tasks : pc[t] = "commit" /\ tx[t] = "fresh" =>
      Sequences(log, StreamOf(t)) = 1..ver[t]

PersistedIsStored ==
    \A t \in Tasks : pc[t] \in Persisted => StoredRows(t) \subseteq RowSet(log)

UnpublishedUntilPushed ==
    \A t \in Tasks : pc[t] \in Persisted => StoredRows(t) \cap RowSet(feed) = {}

RowsHaveOneOwner ==
    \A t, u \in Tasks : t # u /\ pc[t] \in Persisted /\ pc[u] \in Persisted =>
      StoredRows(t) \cap StoredRows(u) = {}

StoreInv ==
    /\ Contiguous(log)
    /\ FreshIsCurrent
    /\ PersistedIsStored
    /\ RowSet(feed) \subseteq RowSet(log)
    /\ Once(feed)
    /\ UnpublishedUntilPushed
    /\ RowsHaveOneOwner

(* A task that does not come closer to the log in a step. *)
Calm(u) ==
    \/ pc'[u] \notin Persisted \cup {"commit"}
    \/ /\ evs'[u] = evs[u] /\ ver'[u] = ver[u]
       /\ pc'[u] \in Persisted => pc[u] \in Persisted
       /\ pc'[u] = "commit" => pc[u] = "commit" /\ (tx'[u] = "fresh" => tx[u] = "fresh")

LEMMA CalmRows ==
    ASSUME NEW u, evs'[u] = evs[u], ver'[u] = ver[u]
    PROVE  StreamOf(u)' = StreamOf(u) /\ StoredRows(u)' = StoredRows(u)
BY DEF StreamOf, StoredRows, RowsAt, RowSet

LEMMA CalmStep ==
    ASSUME StoreInv, log' = log, feed' = feed, \A u \in Tasks : Calm(u)
    PROVE  StoreInv'
<1>1. ASSUME NEW u \in Tasks, pc'[u] \in Persisted
      PROVE  pc[u] \in Persisted /\ StoredRows(u)' = StoredRows(u)
  BY <1>1, CalmRows DEF Calm, Persisted
<1>2. ASSUME NEW u \in Tasks, pc'[u] = "commit", tx'[u] = "fresh"
      PROVE  Sequences(log', StreamOf(u)') = 1..ver'[u]
  <2>1. /\ evs'[u] = evs[u] /\ ver'[u] = ver[u] /\ pc[u] = "commit" /\ tx[u] = "fresh"
    BY <1>2 DEF Calm
  <2> QED BY <2>1, CalmRows DEF StoreInv, FreshIsCurrent
<1>3. FreshIsCurrent'
  BY <1>2 DEF FreshIsCurrent, Sequences
<1>4. PersistedIsStored' /\ UnpublishedUntilPushed' /\ RowsHaveOneOwner'
  BY <1>1 DEF StoreInv, PersistedIsStored, UnpublishedUntilPushed, RowsHaveOneOwner, RowSet
<1>5. Contiguous(log)' /\ (RowSet(feed) \subseteq RowSet(log))' /\ Once(feed)'
  BY DEF StoreInv, Contiguous, Sequences, RowSet, Once
<1> QED BY <1>3, <1>4, <1>5 DEF StoreInv

LEMMA StoreInit == Init => StoreInv
<1> SUFFICES ASSUME Init PROVE StoreInv
  OBVIOUS
<1>1. Contiguous(log) /\ feed = <<>>
  BY PipelineAssumption DEF Init
<1>2. \A t \in Tasks : pc[t] \notin Persisted \cup {"commit"}
  BY DEF Init, Persisted
<1> QED
  BY <1>1, <1>2 DEF StoreInv, FreshIsCurrent, PersistedIsStored, UnpublishedUntilPushed,
                    RowsHaveOneOwner, Once, RowSet

LEMMA BeginStore ==
    ASSUME TypeInv, StoreInv, NEW t \in Tasks, BeginAppend(t)
    PROVE  StoreInv'
<1> USE DEF TypeInv, TasksTypeOK
<1>1. /\ log' = log /\ feed' = feed /\ evs' = evs /\ ver' = ver
      /\ pc'[t] = "commit" /\ tx'[t] = "fresh"
      /\ \A u \in Tasks \ {t} : pc'[u] = pc[u] /\ tx'[u] = tx[u]
  BY DEF BeginAppend, durable
<1>2. Sequences(log, StreamOf(t)) = 1..ver[t]
  <2>1. StreamOf(t) \in Ids /\ VersionIn(log, StreamOf(t)) = ver[t]
    BY DEF BeginAppend, CurrentVersion, Appending
  <2> QED BY <2>1, VersionIsNat DEF StoreInv
<1> HIDE DEF TypeInv, TasksTypeOK
<1>3. \A u \in Tasks : StreamOf(u)' = StreamOf(u) /\ StoredRows(u)' = StoredRows(u)
  BY <1>1, CalmRows
<1>4. FreshIsCurrent'
  BY <1>1, <1>2, <1>3 DEF StoreInv, FreshIsCurrent, Sequences
<1>5. PersistedIsStored' /\ UnpublishedUntilPushed' /\ RowsHaveOneOwner'
  BY <1>1, <1>3 DEF StoreInv, PersistedIsStored, UnpublishedUntilPushed, RowsHaveOneOwner,
                    RowSet, Persisted
<1>6. Contiguous(log)' /\ (RowSet(feed) \subseteq RowSet(log))' /\ Once(feed)'
  BY <1>1 DEF StoreInv, Contiguous, Sequences, RowSet, Once
<1> QED BY <1>4, <1>5, <1>6 DEF StoreInv

LEMMA CommitStore ==
    ASSUME TypeInv, StoreInv, NEW t \in Tasks, CommitAppend(t)
    PROVE  StoreInv'
<1> DEFINE new == RowsAt(t, ver[t])
<1>1. /\ pc[t] = "commit" /\ tx[t] = "fresh" /\ log' = log \o new
      /\ feed' = feed /\ evs' = evs /\ ver' = ver /\ pc' = [pc EXCEPT ![t] = "project"]
  BY DEF CommitAppend
<1>2. \A u \in Tasks : tx'[u] # "fresh"
  BY DEF CommitAppend, Overtake
<1>3. /\ log \in Seq(Row) /\ ver[t] \in Nat /\ StreamOf(t) \in Ids /\ evs[t] \in Seq(Event)
  BY <1>1 DEF TypeInv, TasksTypeOK, Appending
<1>4. /\ new \in Seq(Row) /\ Len(new) = Len(evs[t])
      /\ \A k \in 1..Len(new) : new[k].stream = StreamOf(t) /\ new[k].sequence = ver[t] + k
  BY <1>3, RowsAtType
<1>5. Sequences(log, StreamOf(t)) = 1..ver[t]
  BY <1>1 DEF StoreInv, FreshIsCurrent
<1> HIDE DEF new
<1>6. Contiguous(log') /\ RowSet(new) \cap RowSet(log) = {}
  BY <1>1, <1>3, <1>4, <1>5, AppendKeepsContiguous DEF StoreInv
<1>7. RowSet(log') = RowSet(log) \cup RowSet(new)
  BY <1>1, <1>3, <1>4, RowSetConcat
<1>8. \A u \in Tasks : StoredRows(u)' = StoredRows(u)
  BY <1>1, CalmRows
<1>9. StoredRows(t) = RowSet(new)
  BY DEF StoredRows, new
<1>10. \A u \in Tasks \ {t} : pc'[u] \in Persisted => pc[u] \in Persisted
  BY <1>1
<1>11. FreshIsCurrent'
  BY <1>2 DEF FreshIsCurrent
<1>12. PersistedIsStored'
  BY <1>7, <1>8, <1>9, <1>10 DEF StoreInv, PersistedIsStored
<1>13. UnpublishedUntilPushed'
  BY <1>1, <1>6, <1>8, <1>9, <1>10 DEF StoreInv, UnpublishedUntilPushed
<1>14. RowsHaveOneOwner'
  <2> SUFFICES ASSUME NEW u \in Tasks, NEW v \in Tasks, u # v,
                      pc'[u] \in Persisted, pc'[v] \in Persisted
               PROVE  StoredRows(u) \cap StoredRows(v) = {}
    BY <1>8 DEF RowsHaveOneOwner
  <2>1. CASE u # t /\ v # t
    BY <2>1, <1>10 DEF StoreInv, RowsHaveOneOwner
  <2>2. CASE u = t
    BY <2>2, <1>6, <1>9, <1>10 DEF StoreInv, PersistedIsStored
  <2>3. CASE v = t
    BY <2>3, <1>6, <1>9, <1>10 DEF StoreInv, PersistedIsStored
  <2> QED BY <2>1, <2>2, <2>3
<1>15. (RowSet(feed) \subseteq RowSet(log))' /\ Once(feed)'
  BY <1>1, <1>7 DEF StoreInv, RowSet, Once
<1> QED BY <1>6, <1>11, <1>12, <1>13, <1>14, <1>15 DEF StoreInv, Contiguous, Sequences

LEMMA PublishStore ==
    ASSUME TypeInv, StoreInv, NEW t \in Tasks, Publish(t)
    PROVE  StoreInv'
<1> DEFINE new == RowsAt(t, ver[t])
<1>1. /\ pc[t] = "publish" /\ log' = log /\ feed' = feed \o new /\ ver' = ver /\ tx' = tx
      /\ evs' = [evs EXCEPT ![t] = <<>>]
      /\ pc' = [pc EXCEPT ![t] = IF t \in Workers THEN "idle" ELSE "stream"]
  BY DEF Publish, Answer, durable
<1>2. /\ feed \in Seq(Row) /\ ver[t] \in Nat /\ StreamOf(t) \in Ids /\ evs[t] \in Seq(Event)
      /\ pc \in [Tasks -> WorkerPc \cup ConsumerPc] /\ evs \in [Tasks -> Seq(Event)]
  BY <1>1 DEF TypeInv, TasksTypeOK, Appending
<1>3. new \in Seq(Row) /\ Once(new) /\ StoredRows(t) = RowSet(new)
  BY <1>2, RowsAtType, RowsAtOnce DEF StoredRows
<1> HIDE DEF new
<1>4. RowSet(new) \subseteq RowSet(log) /\ RowSet(new) \cap RowSet(feed) = {}
  BY <1>1, <1>3 DEF StoreInv, PersistedIsStored, UnpublishedUntilPushed, Persisted
<1>5. RowSet(feed') = RowSet(feed) \cup RowSet(new)
  BY <1>1, <1>2, <1>3, RowSetConcat
<1>6. RowSet(feed') \subseteq RowSet(log')
  BY <1>1, <1>4, <1>5 DEF StoreInv
<1>7. Once(feed')
  BY <1>1, <1>2, <1>3, <1>4, OnceConcat DEF StoreInv
<1>8. \A u \in Tasks : pc'[u] \in Persisted \cup {"commit"} =>
        /\ u # t /\ pc'[u] = pc[u]
        /\ StoredRows(u)' = StoredRows(u) /\ StreamOf(u)' = StreamOf(u)
  BY <1>1, <1>2, CalmRows DEF Persisted
<1>9. FreshIsCurrent'
  BY <1>1, <1>8 DEF StoreInv, FreshIsCurrent, Sequences
<1>10. PersistedIsStored' /\ RowsHaveOneOwner'
  BY <1>1, <1>8 DEF StoreInv, PersistedIsStored, RowsHaveOneOwner, RowSet
<1>11. UnpublishedUntilPushed'
  <2> SUFFICES ASSUME NEW u \in Tasks, pc'[u] \in Persisted
               PROVE  StoredRows(u) \cap RowSet(feed') = {}
    BY <1>8 DEF UnpublishedUntilPushed, RowSet
  <2>1. u # t /\ pc[u] \in Persisted /\ pc[t] \in Persisted
    BY <1>1, <1>8 DEF Persisted
  <2> QED BY <2>1, <1>3, <1>5 DEF StoreInv, UnpublishedUntilPushed, RowsHaveOneOwner
<1>12. Contiguous(log)'
  BY <1>1 DEF StoreInv, Contiguous, Sequences
<1>13. (RowSet(feed) \subseteq RowSet(log))' /\ Once(feed)'
  BY <1>6, <1>7 DEF RowSet, Once
<1> QED BY <1>9, <1>10, <1>11, <1>12, <1>13 DEF StoreInv

LEMMA StoreStep ==
    ASSUME TypeInv, StoreInv, [Next]_vars
    PROVE  StoreInv'
<1> USE PipelineAssumption
<1> DEFINE Calms == log' = log /\ feed' = feed /\ \A u \in Tasks : Calm(u)
<1> USE DEF Calm, Persisted, Tasks, TypeInv, TasksTypeOK, durable, consumerVars
<1>1. ASSUME NEW w \in Workers, ReceiveCommand(w) PROVE Calms
  BY <1>1 DEF ReceiveCommand
<1>2. ASSUME NEW w \in Workers, DecideCommand(w) PROVE Calms
  BY <1>2 DEF DecideCommand, Answer
<1>3. ASSUME NEW w \in Workers, AppendConflict(w) PROVE Calms
  BY <1>3 DEF AppendConflict, RetryOrGiveUp, Answer
<1>4. ASSUME NEW w \in Workers, AppendBusy(w) PROVE Calms
  BY <1>4 DEF AppendBusy, Answer
<1>5. ASSUME NEW w \in Workers, SaveSnapshot(w) PROVE Calms
  BY <1>5 DEF SaveSnapshot, Overtake
<1>6. ASSUME NEW t \in Tasks, ReadVersion(t) PROVE Calms
  BY <1>6 DEF ReadVersion
<1>7. ASSUME NEW t \in Tasks, ProjectEvents(t) PROVE Calms
  BY <1>7 DEF ProjectEvents
<1>8. ASSUME NEW c \in Consumers, TakeToken(c) PROVE Calms
  BY <1>8 DEF TakeToken, Submit
<1>9. ASSUME NEW c \in Consumers, FlushTokens(c) PROVE Calms
  BY <1>9 DEF FlushTokens, Submit
<1>10. ASSUME NEW c \in Consumers, TakeEvent(c) PROVE Calms
  BY <1>10 DEF TakeEvent, Submit
<1>11. ASSUME NEW c \in Consumers, StreamEnds(c) PROVE Calms
  BY <1>11 DEF StreamEnds
<1>12. ASSUME NEW c \in Consumers, ConsumerAppendFails(c) PROVE Calms
  BY <1>12 DEF ConsumerAppendFails
<1>13. ASSUME RepairStep PROVE Calms
  BY <1>13, RepairTouchesStoreOnly
<1>14. ASSUME Restart PROVE Calms
  BY <1>14 DEF Restart
<1>15. ASSUME UNCHANGED vars PROVE Calms
  BY <1>15 DEF vars
<1>16. Calms => StoreInv'
  BY CalmStep
<1> HIDE DEF Calms
<1> QED
  BY <1>1, <1>2, <1>3, <1>4, <1>5, <1>6, <1>7, <1>8, <1>9, <1>10, <1>11, <1>12, <1>13, <1>14,
     <1>15, <1>16, NextCases, BeginStore, CommitStore, PublishStore

-----------------------------------------------------------------------------
LEMMA TypeAndStore == Spec => [](TypeInv /\ StoreInv)
<1>1. Init => TypeInv /\ StoreInv
  BY TypeInit, StoreInit
<1>2. TypeInv /\ StoreInv /\ [Next]_vars => TypeInv' /\ StoreInv'
  <2> SUFFICES ASSUME TypeInv, StoreInv, [Next]_vars PROVE TypeInv' /\ StoreInv'
    OBVIOUS
  <2>1. Contiguous(log)
    BY DEF StoreInv
  <2> QED BY <2>1, TypeStep, StoreStep
<1> QED BY <1>1, <1>2, PTL DEF Spec

(* The rows, the program counters, the queues and the counters always have *)
(* their types; in particular a command meets fewer conflicts than it has  *)
(* attempts, and a token buffer stays below its limit.                     *)
THEOREM TasksAreTyped == Spec => []TasksTypeOK
<1>1. TypeInv => TasksTypeOK
  BY DEF TypeInv
<1> QED BY <1>1, TypeAndStore, PTL

(* Every stream of the event store is numbered without gap or duplicate.   *)
THEOREM StreamsStayContiguous == Spec => []StreamsContiguous
<1>1. StoreInv => StreamsContiguous
  BY DEF StoreInv, StreamsContiguous
<1> QED BY <1>1, TypeAndStore, PTL

(* Clients are told of stored events only, and of none twice.              *)
THEOREM FeedIsFaithful == Spec => []FeedMatchesLog
<1>1. StoreInv => FeedMatchesLog
  BY DEF StoreInv, FeedMatchesLog, RowSet, Once
<1> QED BY <1>1, TypeAndStore, PTL

LEMMA OnlyPublishAnswersOk ==
    ASSUME TypeInv, [Next]_vars, NEW w \in Workers, reply[w] # "ok", reply'[w] = "ok"
    PROVE  Publish(w)
<1> USE DEF TypeInv, TasksTypeOK
<1>1. \A t \in Workers : t # w => ~Publish(t)
  BY DEF Publish, Answer
<1>2. \A t \in Tasks : t \notin Workers => ~Publish(t)
  BY DEF Publish
<1>3. \A t \in Workers : /\ ~ReceiveCommand(t) /\ ~DecideCommand(t) /\ ~AppendBusy(t)
                         /\ ~SaveSnapshot(t)
  BY DEF ReceiveCommand, DecideCommand, AppendBusy, SaveSnapshot, Answer
<1>4. \A t \in Workers : ~AppendConflict(t)
  BY DEF AppendConflict, RetryOrGiveUp, Answer
<1>5. \A t \in Tasks : ~ReadVersion(t) /\ ~BeginAppend(t) /\ ~CommitAppend(t) /\ ~ProjectEvents(t)
  BY DEF ReadVersion, BeginAppend, CommitAppend, ProjectEvents
<1>6. \A c \in Consumers : /\ ~TakeToken(c) /\ ~FlushTokens(c) /\ ~TakeEvent(c)
                           /\ ~StreamEnds(c) /\ ~ConsumerAppendFails(c)
  BY DEF TakeToken, FlushTokens, TakeEvent, StreamEnds, ConsumerAppendFails
<1>7. ~RepairStep /\ ~Restart /\ ~UNCHANGED vars
  BY RepairTouchesStoreOnly DEF Restart, vars
<1> QED BY <1>1, <1>2, <1>3, <1>4, <1>5, <1>6, <1>7, NextCases DEF Tasks

(* A command that is answered "ok" is in the log and in the feed.          *)
THEOREM AnswersAreDurable == Spec => AnsweredIsDurable
<1> DEFINE Durable(w) ==
             \A k \in DOMAIN evs[w] :
               /\ \E i \in DOMAIN log : log[i] = RowsAt(w, ver[w])[k]
               /\ \E i \in DOMAIN feed' : feed'[i] = RowsAt(w, ver[w])[k]
<1>1. ASSUME TypeInv, StoreInv, [Next]_vars, NEW w \in Workers,
             reply[w] # "ok", reply'[w] = "ok"
      PROVE  Durable(w)
  <2>1. Publish(w)
    BY <1>1, OnlyPublishAnswersOk
  <2> DEFINE new == RowsAt(w, ver[w])
  <2>2. /\ pc[w] = "publish" /\ feed' = feed \o new /\ w \in Tasks
    BY <2>1 DEF Publish, Tasks
  <2>3. /\ feed \in Seq(Row) /\ ver[w] \in Nat /\ StreamOf(w) \in Ids /\ evs[w] \in Seq(Event)
    BY <1>1, <2>2 DEF TypeInv, TasksTypeOK, Appending
  <2>4. new \in Seq(Row) /\ DOMAIN new = DOMAIN evs[w]
    BY <2>2, <2>3, RowsAtType
  <2>5. RowSet(new) \subseteq RowSet(log)
    BY <1>1, <2>2 DEF StoreInv, PersistedIsStored, StoredRows, Persisted
  <2> HIDE DEF new
  <2>6. RowSet(new) \subseteq RowSet(feed')
    BY <2>2, <2>3, <2>4, RowSetConcat
  <2>7. \A k \in DOMAIN evs[w] : new[k] \in RowSet(log) /\ new[k] \in RowSet(feed')
    BY <2>4, <2>5, <2>6 DEF RowSet
  <2> QED BY <2>7 DEF RowSet, new
<1>2. TypeInv /\ StoreInv /\ [Next]_vars
        => [\A w \in Workers : reply[w] # "ok" /\ reply'[w] = "ok" => Durable(w)]_vars
  BY <1>1
<1> QED BY <1>2, TypeAndStore, PTL DEF Spec, AnsweredIsDurable
-----------------------------------------------------------------------------
(* Stored rows stay, so the version of a stream never goes down. *)
LEMMA LogGrows ==
    ASSUME TypeInv, [Next]_vars
    PROVE  RowSet(log) \subseteq RowSet(log')
<1>1. ASSUME NEW t \in Tasks, CommitAppend(t) PROVE RowSet(log) \subseteq RowSet(log')
  <2>1. /\ log' = log \o RowsAt(t, ver[t]) /\ log \in Seq(Row) /\ ver[t] \in Nat
        /\ StreamOf(t) \in Ids /\ evs[t] \in Seq(Event)
    BY <1>1 DEF CommitAppend, TypeInv, TasksTypeOK, Appending
  <2>2. RowsAt(t, ver[t]) \in Seq(Row)
    BY <2>1, RowsAtType
  <2> QED BY <2>1, <2>2, RowSetConcat
<1>2. ASSUME log' = log PROVE RowSet(log) \subseteq RowSet(log')
  BY <1>2
<1>3. \A w \in Workers : ReceiveCommand(w) \/ DecideCommand(w) \/ AppendConflict(w)
                           \/ AppendBusy(w) \/ SaveSnapshot(w) => log' = log
  BY DEF ReceiveCommand, DecideCommand, AppendConflict, AppendBusy, SaveSnapshot, durable
<1>4. \A t \in Tasks : ReadVersion(t) \/ BeginAppend(t) \/ ProjectEvents(t) \/ Publish(t)
                         => log' = log
  BY DEF ReadVersion, BeginAppend, ProjectEvents, Publish, durable
<1>5. \A c \in Consumers : TakeToken(c) \/ FlushTokens(c) \/ TakeEvent(c)
                             \/ StreamEnds(c) \/ ConsumerAppendFails(c) => log' = log
  BY DEF TakeToken, FlushTokens, TakeEvent, StreamEnds, ConsumerAppendFails, durable
<1>6. RepairStep \/ Restart \/ UNCHANGED vars => log' = log
  BY RepairTouchesStoreOnly DEF Restart, durable, vars
<1>7. log' = log \/ \E t \in Tasks : CommitAppend(t)
  BY <1>3, <1>4, <1>5, <1>6, NextCases
<1> QED BY <1>1, <1>2, <1>7

LEMMA VersionsGrow ==
    ASSUME NEW old \in Seq(Row), NEW new \in Seq(Row), Contiguous(old), Contiguous(new),
           RowSet(old) \subseteq RowSet(new), NEW id \in Ids
    PROVE  VersionIn(old, id) <= VersionIn(new, id)
<1>1. Sequences(old, id) \subseteq Sequences(new, id)
  BY SequencesOfRows
<1> DEFINE m == VersionIn(old, id)
           n == VersionIn(new, id)
<1>2. m \in Nat /\ n \in Nat /\ 1..m \subseteq 1..n
  BY <1>1, VersionIsNat
<1> HIDE DEF m, n
<1>3. m \in 1..n \/ m = 0
  BY <1>2
<1>4. m <= n
  BY <1>2, <1>3
<1> QED BY <1>4 DEF m, n

(* A snapshot carries the version it is asked to carry. *)
LEMMA ViewVersion ==
    ASSUME NEW s, NEW id, NEW v, ViewForAggregate(s, id, v) # Nil
    PROVE  ViewForAggregate(s, id, v).version = v
BY DEF ViewForAggregate

(* A snapshot waiting to be saved carries the version its worker's append  *)
(* reached, and the rows up to that version are stored: with the above, no *)
(* saved snapshot is ahead of the log.                                     *)
SnapshotInv ==
    /\ DOMAIN snapshots = Ids /\ DOMAIN captured = Workers
    /\ \A id \in Ids : snapshots[id] # Nil =>
         snapshots[id].version \in Nat /\ snapshots[id].version <= CurrentVersion(id)
    /\ \A w \in Workers : pc[w] = "snapshot" => captured[w].version = NewVersion(w)

(* A task whose rows are stored has brought its stream to their last number. *)
LEMMA PersistedVersion ==
    ASSUME TypeInv, StoreInv, NEW t \in Tasks, pc[t] \in Persisted
    PROVE  NewVersion(t) \in Nat /\ NewVersion(t) <= CurrentVersion(StreamOf(t))
<1> DEFINE id == StreamOf(t)
           v == NewVersion(t)
           rows == RowsAt(t, ver[t])
<1>1. /\ log \in Seq(Row) /\ ver[t] \in Nat /\ id \in Ids /\ evs[t] \in Seq(Event)
      /\ evs[t] # <<>>
  BY DEF TypeInv, TasksTypeOK, Appending, Persisted
<1>2. Len(evs[t]) \in 1..Len(evs[t]) /\ v = ver[t] + Len(evs[t])
  BY <1>1 DEF NewVersion
<1>3. rows[Len(evs[t])].stream = id /\ rows[Len(evs[t])].sequence = v
  BY <1>1, <1>2, RowsAtType
<1>4. rows[Len(evs[t])] \in RowSet(rows)
  <2>1. DOMAIN rows = 1..Len(evs[t])
    BY DEF RowsAt
  <2> HIDE DEF rows
  <2> QED BY <1>2, <2>1 DEF RowSet
<1>5. RowSet(rows) \subseteq RowSet(log)
  BY DEF StoreInv, PersistedIsStored, StoredRows
<1> HIDE DEF rows, v, id
<1>6. v \in Sequences(log, id)
  BY <1>3, <1>4, <1>5, SequencesOfRows
<1>7. CurrentVersion(id) \in Nat /\ Sequences(log, id) = 1..CurrentVersion(id)
  BY <1>1, VersionIsNat DEF StoreInv, CurrentVersion
<1>8. v \in Nat /\ v <= CurrentVersion(id)
  BY <1>6, <1>7
<1> QED BY <1>8 DEF v, id

LEMMA SaveSnapshotStep ==
    ASSUME TypeInv, StoreInv, SnapshotInv, NEW w \in Workers, SaveSnapshot(w)
    PROVE  SnapshotInv'
<1> DEFINE id == StreamOf(w)
           v == NewVersion(w)
<1>1. /\ pc[w] = "snapshot" /\ w \in Tasks /\ log' = log /\ evs' = evs /\ ver' = ver
      /\ captured' = [captured EXCEPT ![w] = Nil] /\ pc' = [pc EXCEPT ![w] = "publish"]
      /\ snapshots' \in {snapshots, [snapshots EXCEPT ![id] = captured[w]]}
  BY DEF SaveSnapshot, Tasks
<1>2. /\ log \in Seq(Row) /\ ver[w] \in Nat /\ id \in Ids /\ evs[w] \in Seq(Event)
      /\ evs[w] # <<>> /\ pc \in [Tasks -> WorkerPc \cup ConsumerPc]
  BY <1>1 DEF TypeInv, TasksTypeOK, Appending
<1>3. v \in Nat /\ v <= CurrentVersion(id)
  BY <1>1, PersistedVersion DEF Persisted
<1>4. captured[w].version = v
  BY <1>1 DEF SnapshotInv
<1>5. \A i \in Ids : CurrentVersion(i)' = CurrentVersion(i)
  BY <1>1 DEF CurrentVersion
<1>6. \A u \in Workers : /\ pc'[u] = "snapshot" => u # w /\ pc[u] = "snapshot"
                         /\ u # w => captured'[u] = captured[u]
                         /\ NewVersion(u)' = NewVersion(u)
  BY <1>1, <1>2 DEF NewVersion, Tasks, SnapshotInv
<1> HIDE DEF id, v
<1>7. DOMAIN snapshots' = Ids /\ DOMAIN captured' = Workers
  BY <1>1 DEF SnapshotInv
<1>8. ASSUME NEW i \in Ids, snapshots'[i] # Nil
      PROVE  snapshots'[i].version \in Nat /\ snapshots'[i].version <= CurrentVersion(i)
  <2>1. CASE snapshots'[i] = snapshots[i]
    BY <2>1, <1>8 DEF SnapshotInv
  <2>2. CASE i = id /\ snapshots'[i] = captured[w]
    BY <2>2, <1>3, <1>4
  <2>3. i # id => snapshots'[i] = snapshots[i]
    BY <1>1 DEF SnapshotInv
  <2>4. i = id => snapshots'[i] \in {snapshots[i], captured[w]}
    BY <1>1 DEF SnapshotInv
  <2> QED BY <2>1, <2>2, <2>3, <2>4
<1>9. \A u \in Workers : pc'[u] = "snapshot" => captured'[u].version = NewVersion(u)'
  BY <1>6 DEF SnapshotInv
<1> QED BY <1>5, <1>7, <1>8, <1>9 DEF SnapshotInv

LEMMA CaptureStep ==
    ASSUME TypeInv, SnapshotInv, NEW t \in Tasks, ProjectEvents(t)
    PROVE  SnapshotInv'
<1>1. /\ log' = log /\ snapshots' = snapshots /\ evs' = evs /\ ver' = ver
      /\ pc' = [pc EXCEPT ![t] = pc'[t]]
      /\ DOMAIN captured' = Workers
      /\ \A u \in Workers \ {t} : captured'[u] = captured[u]
  BY DEF ProjectEvents, durable, SnapshotInv, TypeInv, TasksTypeOK
<1>2. ASSUME t \in Workers, pc'[t] = "snapshot"
      PROVE  captured'[t].version = NewVersion(t)
  <2>1. /\ captured'[t] = ViewForAggregate(store', StreamOf(t), NewVersion(t))
        /\ captured'[t] # Nil
    BY <1>2 DEF ProjectEvents, SnapshotInv, TypeInv, TasksTypeOK
  <2> QED BY <2>1, ViewVersion
<1>3. \A u \in Workers : NewVersion(u)' = NewVersion(u)
  BY <1>1 DEF NewVersion
<1>4. \A i \in Ids : CurrentVersion(i)' = CurrentVersion(i)
  BY <1>1 DEF CurrentVersion
<1>5. \A u \in Workers \ {t} : pc'[u] = pc[u]
  BY <1>1 DEF TypeInv, TasksTypeOK, Tasks
<1> QED BY <1>1, <1>2, <1>3, <1>4, <1>5 DEF SnapshotInv

(* Every other step leaves snapshots, and workers that hold one, alone. *)
SnapshotsAside ==
    /\ snapshots' = snapshots
    /\ DOMAIN captured' = Workers
    /\ \A w \in Workers : pc'[w] = "snapshot" =>
         /\ pc[w] = "snapshot" /\ captured'[w] = captured[w]
         /\ evs'[w] = evs[w] /\ ver'[w] = ver[w]

LEMMA SnapshotMoves ==
    ASSUME TypeInv, DOMAIN captured = Workers, [Next]_vars
    PROVE  \/ SnapshotsAside
           \/ \E w \in Workers : SaveSnapshot(w)
           \/ \E t \in Tasks : ProjectEvents(t)
<1> USE DEF TypeInv, TasksTypeOK, Tasks, durable, SnapshotsAside
<1>1. ASSUME NEW w \in Workers, ReceiveCommand(w) PROVE SnapshotsAside
  BY <1>1 DEF ReceiveCommand
<1>2. ASSUME NEW w \in Workers, DecideCommand(w) PROVE SnapshotsAside
  BY <1>2 DEF DecideCommand, Answer
<1>3. ASSUME NEW w \in Workers, AppendConflict(w) PROVE SnapshotsAside
  BY <1>3 DEF AppendConflict, RetryOrGiveUp, Answer
<1>4. ASSUME NEW w \in Workers, AppendBusy(w) PROVE SnapshotsAside
  BY <1>4 DEF AppendBusy, Answer
<1>5. ASSUME NEW t \in Tasks, ReadVersion(t) PROVE SnapshotsAside
  BY <1>5 DEF ReadVersion
<1>6. ASSUME NEW t \in Tasks, BeginAppend(t) PROVE SnapshotsAside
  BY <1>6 DEF BeginAppend
<1>7. ASSUME NEW t \in Tasks, CommitAppend(t) PROVE SnapshotsAside
  BY <1>7 DEF CommitAppend
<1>8. ASSUME NEW t \in Tasks, Publish(t) PROVE SnapshotsAside
  BY <1>8 DEF Publish, Answer
<1>9. ASSUME NEW c \in Consumers, TakeToken(c) \/ FlushTokens(c) \/ TakeEvent(c) PROVE SnapshotsAside
  BY <1>9, PipelineAssumption DEF TakeToken, FlushTokens, TakeEvent, Submit
<1>10. ASSUME NEW c \in Consumers, StreamEnds(c) \/ ConsumerAppendFails(c) PROVE SnapshotsAside
  BY <1>10, PipelineAssumption DEF StreamEnds, ConsumerAppendFails
<1>11. ASSUME RepairStep PROVE SnapshotsAside
  BY <1>11, RepairTouchesStoreOnly
<1>12. ASSUME Restart PROVE SnapshotsAside
  BY <1>12 DEF Restart
<1>13. ASSUME UNCHANGED vars PROVE SnapshotsAside
  BY <1>13 DEF vars
<1> HIDE DEF TypeInv, TasksTypeOK, Tasks, durable, SnapshotsAside
<1> QED
  BY <1>1, <1>2, <1>3, <1>4, <1>5, <1>6, <1>7, <1>8, <1>9, <1>10, <1>11, <1>12, <1>13, NextCases

LEMMA SnapshotStep ==
    ASSUME TypeInv, StoreInv, SnapshotInv, [Next]_vars, TypeInv', StoreInv'
    PROVE  SnapshotInv'
<1>1. CASE SnapshotsAside
  <2>1. RowSet(log) \subseteq RowSet(log')
    BY LogGrows
  <2>2. /\ log \in Seq(Row) /\ log' \in Seq(Row) /\ Contiguous(log) /\ Contiguous(log')
    BY DEF TypeInv, TasksTypeOK, StoreInv, Contiguous, Sequences
  <2>3. \A i \in Ids : /\ CurrentVersion(i) \in Nat /\ CurrentVersion(i)' \in Nat
                       /\ CurrentVersion(i) <= CurrentVersion(i)'
    BY <2>1, <2>2, VersionsGrow, VersionIsNat DEF CurrentVersion
  <2> QED BY <1>1, <2>3 DEF SnapshotInv, SnapshotsAside, NewVersion
<1>2. DOMAIN captured = Workers
  BY DEF SnapshotInv
<1> QED BY <1>1, <1>2, SnapshotMoves, SaveSnapshotStep, CaptureStep

LEMMA SnapshotsKnown == Spec => []SnapshotInv
<1>1. Init => SnapshotInv
  <2> SUFFICES ASSUME Init PROVE SnapshotInv
    OBVIOUS
  <2>1. snapshots = NoSnapshots /\ captured = [w \in Workers |-> Nil]
    BY DEF Init
  <2>2. \A w \in Workers : pc[w] = "idle"
    BY DEF Init, Tasks
  <2> QED BY <2>1, <2>2 DEF SnapshotInv, NoSnapshots
<1>2. /\ TypeInv /\ StoreInv /\ SnapshotInv /\ [Next]_vars /\ TypeInv' /\ StoreInv'
        => SnapshotInv'
  BY SnapshotStep
<1> QED BY <1>1, <1>2, TypeAndStore, PTL DEF Spec

(* No stored snapshot claims a version its stream has not reached, however *)
(* the saves of several workers and crashes interleave.                    *)
THEOREM SnapshotsStayBehind == Spec => []SnapshotNeverAhead
<1>1. SnapshotInv => SnapshotNeverAhead
  BY DEF SnapshotInv, SnapshotNeverAhead
<1> QED BY <1>1, SnapshotsKnown, PTL
-----------------------------------------------------------------------------
(* No row is in a contiguous log twice. *)
LEMMA ContiguousOnce ==
    ASSUME NEW rows \in Seq(Row), Contiguous(rows)
    PROVE  Once(rows)
<1>1. \A i \in DOMAIN rows : i \in Nat /\ rows[i].stream \in Ids /\ rows[i].sequence \in Nat
  <2>1. \A r \in Row : r.stream \in Ids /\ r.sequence \in Nat
    BY DEF Row
  <2> QED BY <2>1
<1>2. ASSUME NEW i \in DOMAIN rows, NEW j \in DOMAIN rows, i < j PROVE rows[i] # rows[j]
  <2> SUFFICES ASSUME rows[i] = rows[j] PROVE FALSE
    OBVIOUS
  <2>1. rows[i].sequence < rows[j].sequence
    BY <1>1, <1>2 DEF Contiguous
  <2> QED BY <1>1, <2>1
<1> QED BY <1>1, <1>2 DEF Once

(* A sequence without repetition has as many elements as its set. *)
LEMMA OnceCounts ==
    ASSUME NEW S, NEW s \in Seq(S), Once(s)
    PROVE  IsFiniteSet(RowSet(s)) /\ Cardinality(RowSet(s)) = Len(s)
<1>1. IsFiniteSet(1..Len(s)) /\ Cardinality(1..Len(s)) = Len(s)
  <2>1. Len(s) \in Nat /\ 1 \in Int
    OBVIOUS
  <2> QED BY <2>1, FS_Interval
<1>2. s \in Bijection(1..Len(s), RowSet(s))
  <2>1. s \in [1..Len(s) -> RowSet(s)]
    BY DEF RowSet
  <2>2. \A i, j \in 1..Len(s) : s[i] = s[j] => i = j
    BY DEF Once
  <2>3. \A r \in RowSet(s) : \E i \in 1..Len(s) : s[i] = r
    BY DEF RowSet
  <2>4. s \in Injection(1..Len(s), RowSet(s))
    BY <2>1, <2>2 DEF Injection, IsInjective
  <2>5. s \in Surjection(1..Len(s), RowSet(s))
    BY <2>1, <2>3 DEF Surjection
  <2> QED BY <2>4, <2>5 DEF Bijection
<1>3. ExistsBijection(1..Len(s), RowSet(s))
  BY <1>2 DEF ExistsBijection
<1> QED BY <1>1, <1>3, FS_Bijection, FS_SameCardinalityBij

(* Where a row of the log can be: it was there at the start, clients have  *)
(* been told of it, or its task is about to tell them.  A crash is the     *)
(* only way out of the third place that is not the second.                 *)
Unannounced == {r \in RowSet(log) : \E t \in Tasks : pc[t] \in Persisted /\ r \in StoredRows(t)}

AnnouncedInv ==
    /\ restarts \in Nat
    /\ RowSet(Existing) \subseteq RowSet(log)
    /\ RowSet(Existing) \cap RowSet(feed) = {}
    /\ RowSet(Existing) \cap Unannounced = {}
    /\ restarts = 0 => RowSet(log) = RowSet(Existing) \cup RowSet(feed) \cup Unannounced

LEMMA AnnouncedInit == Init => AnnouncedInv
<1> SUFFICES ASSUME Init PROVE AnnouncedInv
  OBVIOUS
<1>1. log = Existing /\ feed = <<>> /\ restarts = 0
  BY DEF Init
<1>2. \A t \in Tasks : pc[t] \notin Persisted
  BY DEF Init, Persisted
<1> QED BY <1>1, <1>2 DEF AnnouncedInv, Unannounced, RowSet

(* A step that neither stores nor announces, and after which the same rows *)
(* wait to be announced, unless it is a crash.                             *)
LEMMA AnnouncedStutters ==
    ASSUME AnnouncedInv, log' = log, feed' = feed, restarts' = restarts,
           \A u \in Tasks : (pc'[u] \in Persisted) = (pc[u] \in Persisted),
           \A u \in Tasks : pc[u] \in Persisted => evs'[u] = evs[u] /\ ver'[u] = ver[u]
    PROVE  AnnouncedInv'
<1>1. \A u \in Tasks : pc[u] \in Persisted => StoredRows(u)' = StoredRows(u)
  BY CalmRows
<1>2. Unannounced' = Unannounced
  BY <1>1 DEF Unannounced, RowSet
<1>3. RowSet(log') = RowSet(log) /\ RowSet(feed') = RowSet(feed)
  OBVIOUS
<1> HIDE DEF Unannounced
<1> QED BY <1>2, <1>3 DEF AnnouncedInv

LEMMA CommitAnnounced ==
    ASSUME TypeInv, StoreInv, AnnouncedInv, NEW t \in Tasks, CommitAppend(t)
    PROVE  AnnouncedInv'
<1> DEFINE new == RowsAt(t, ver[t])
<1>1. /\ pc[t] = "commit" /\ tx[t] = "fresh" /\ log' = log \o new /\ restarts' = restarts
      /\ feed' = feed /\ evs' = evs /\ ver' = ver /\ pc' = [pc EXCEPT ![t] = "project"]
  BY DEF CommitAppend, bounds
<1>2. /\ log \in Seq(Row) /\ ver[t] \in Nat /\ StreamOf(t) \in Ids /\ evs[t] \in Seq(Event)
      /\ pc \in [Tasks -> WorkerPc \cup ConsumerPc]
  BY <1>1 DEF TypeInv, TasksTypeOK, Appending
<1>3. /\ new \in Seq(Row) /\ Len(new) = Len(evs[t])
      /\ \A k \in 1..Len(new) : new[k].stream = StreamOf(t) /\ new[k].sequence = ver[t] + k
  BY <1>2, RowsAtType
<1>4. Sequences(log, StreamOf(t)) = 1..ver[t]
  BY <1>1 DEF StoreInv, FreshIsCurrent
<1> HIDE DEF new
<1>5. RowSet(new) \cap RowSet(log) = {}
  BY <1>1, <1>2, <1>3, <1>4, AppendKeepsContiguous DEF StoreInv
<1>6. RowSet(log') = RowSet(log) \cup RowSet(new)
  BY <1>1, <1>2, <1>3, RowSetConcat
<1>7. \A u \in Tasks : StoredRows(u)' = StoredRows(u)
  BY <1>1, CalmRows
<1>8. StoredRows(t) = RowSet(new)
  BY DEF StoredRows, new
<1>9. /\ pc[t] \notin Persisted /\ pc'[t] \in Persisted
      /\ \A u \in Tasks \ {t} : (pc'[u] \in Persisted) = (pc[u] \in Persisted)
  BY <1>1, <1>2 DEF Persisted
<1>10. Unannounced' = Unannounced \cup RowSet(new)
  <2>1. Unannounced' = {r \in RowSet(log') :
                          \E u \in Tasks : pc'[u] \in Persisted /\ r \in StoredRows(u)}
    BY <1>7 DEF Unannounced, RowSet
  <2>2. \A r \in RowSet(new) : r \in Unannounced'
    BY <1>6, <1>8, <1>9, <2>1
  <2>3. \A u \in Tasks : pc[u] \in Persisted => u # t /\ pc'[u] \in Persisted
    BY <1>9
  <2>4. \A r \in Unannounced : r \in Unannounced'
    BY <1>6, <2>1, <2>3 DEF Unannounced
  <2>5. ASSUME NEW r \in Unannounced' PROVE r \in Unannounced \cup RowSet(new)
    <3>1. PICK u \in Tasks : pc'[u] \in Persisted /\ r \in StoredRows(u)
      BY <2>1
    <3>2. CASE u = t
      BY <3>1, <3>2, <1>8
    <3>3. CASE u # t
      BY <3>1, <3>3, <1>9 DEF Unannounced, StoreInv, PersistedIsStored
    <3> QED BY <3>2, <3>3
  <2> QED BY <2>2, <2>4, <2>5
<1>11. RowSet(feed') = RowSet(feed)
  BY <1>1
<1> HIDE DEF Unannounced
<1> QED BY <1>1, <1>5, <1>6, <1>10, <1>11 DEF AnnouncedInv

LEMMA PublishAnnounced ==
    ASSUME TypeInv, StoreInv, AnnouncedInv, NEW t \in Tasks, Publish(t)
    PROVE  AnnouncedInv'
<1> DEFINE new == RowsAt(t, ver[t])
<1>1. /\ pc[t] = "publish" /\ log' = log /\ feed' = feed \o new /\ ver' = ver
      /\ restarts' = restarts /\ evs' = [evs EXCEPT ![t] = <<>>]
      /\ pc' = [pc EXCEPT ![t] = IF t \in Workers THEN "idle" ELSE "stream"]
  BY DEF Publish, Answer, durable, bounds
<1>2. /\ feed \in Seq(Row) /\ ver[t] \in Nat /\ StreamOf(t) \in Ids /\ evs[t] \in Seq(Event)
      /\ pc \in [Tasks -> WorkerPc \cup ConsumerPc] /\ evs \in [Tasks -> Seq(Event)]
  BY <1>1 DEF TypeInv, TasksTypeOK, Appending
<1>3. new \in Seq(Row) /\ StoredRows(t) = RowSet(new)
  BY <1>2, RowsAtType DEF StoredRows
<1> HIDE DEF new
<1>4. RowSet(feed') = RowSet(feed) \cup RowSet(new)
  BY <1>1, <1>2, <1>3, RowSetConcat
<1>5. RowSet(log') = RowSet(log)
  BY <1>1
<1>6. /\ pc[t] \in Persisted /\ pc'[t] \notin Persisted
      /\ \A u \in Tasks \ {t} : (pc'[u] \in Persisted) = (pc[u] \in Persisted)
  BY <1>1, <1>2 DEF Persisted
<1>7. \A u \in Tasks \ {t} : StoredRows(u)' = StoredRows(u)
  BY <1>1, <1>2, CalmRows
<1>8. RowSet(new) \subseteq Unannounced
  BY <1>3, <1>6 DEF Unannounced, StoreInv, PersistedIsStored
<1>9. Unannounced' \subseteq Unannounced /\ Unannounced \subseteq Unannounced' \cup RowSet(new)
  BY <1>3, <1>5, <1>6, <1>7 DEF Unannounced
<1> HIDE DEF Unannounced
<1> QED BY <1>1, <1>4, <1>5, <1>8, <1>9 DEF AnnouncedInv

LEMMA AnnouncedStep ==
    ASSUME TypeInv, StoreInv, AnnouncedInv, [Next]_vars
    PROVE  AnnouncedInv'
<1> DEFINE Same(u) == /\ (pc'[u] \in Persisted) = (pc[u] \in Persisted)
                      /\ pc[u] \in Persisted => evs'[u] = evs[u] /\ ver'[u] = ver[u]
           Aside == /\ log' = log /\ feed' = feed /\ restarts' = restarts
                    /\ \A u \in Tasks : Same(u)
<1> USE PipelineAssumption
<1> USE DEF Persisted, Tasks, TypeInv, TasksTypeOK, durable, consumerVars, bounds
<1>1. ASSUME NEW w \in Workers, ReceiveCommand(w) PROVE Aside
  BY <1>1 DEF ReceiveCommand
<1>2. ASSUME NEW w \in Workers, DecideCommand(w) PROVE Aside
  BY SMTT(20), <1>2 DEF DecideCommand, Answer
<1>3. ASSUME NEW w \in Workers, AppendConflict(w) PROVE Aside
  BY SMTT(20), <1>3 DEF AppendConflict, RetryOrGiveUp, Answer
<1>4. ASSUME NEW w \in Workers, AppendBusy(w) PROVE Aside
  BY <1>4 DEF AppendBusy, Answer
<1>5. ASSUME NEW w \in Workers, SaveSnapshot(w) PROVE Aside
  BY <1>5 DEF SaveSnapshot
<1>6. ASSUME NEW t \in Tasks, ReadVersion(t) \/ BeginAppend(t) PROVE Aside
  BY <1>6 DEF ReadVersion, BeginAppend
<1>7. ASSUME NEW t \in Tasks, ProjectEvents(t) PROVE Aside
  BY <1>7 DEF ProjectEvents
<1>8. ASSUME NEW c \in Consumers, TakeToken(c) \/ FlushTokens(c) \/ TakeEvent(c) PROVE Aside
  <2>1. /\ UNCHANGED <<log, feed, ver, restarts>> /\ pc[c] = "stream"
        /\ pc'[c] \in {"stream", "version"}
        /\ \A u \in Tasks \ {c} : pc'[u] = pc[u] /\ evs'[u] = evs[u]
    BY <1>8 DEF TakeToken, FlushTokens, TakeEvent, Submit
  <2> QED BY <2>1
<1>9. ASSUME NEW c \in Consumers, StreamEnds(c) \/ ConsumerAppendFails(c) PROVE Aside
  <2>1. CASE StreamEnds(c)
    BY <2>1 DEF StreamEnds
  <2>2. CASE ConsumerAppendFails(c)
    <3>1. /\ UNCHANGED <<log, feed, ver, restarts>> /\ pc[c] \in {"begin", "commit"}
          /\ pc'[c] \in {"stream", "stopped"}
          /\ \A u \in Tasks \ {c} : pc'[u] = pc[u] /\ evs'[u] = evs[u]
      BY <2>2 DEF ConsumerAppendFails
    <3> QED BY <3>1
  <2> QED BY <1>9, <2>1, <2>2
<1>10. ASSUME RepairStep PROVE Aside
  <2>1. restarts' = restarts
    BY <1>10 DEF RepairStep, RepairBegin, RepairClear, RepairLoadSnapshots, RepairReadRows,
                 RepairReplay, RepairFails, RepairRestore
  <2> QED BY <1>10, <2>1, RepairTouchesStoreOnly
<1>11. ASSUME UNCHANGED vars PROVE Aside
  BY <1>11 DEF vars
<1>12. Aside => AnnouncedInv'
  BY AnnouncedStutters
<1>13. ASSUME Restart PROVE AnnouncedInv'
  <2>1. log' = log /\ feed' = feed /\ restarts' = restarts + 1
    BY <1>13 DEF Restart
  <2>2. restarts' \in Nat /\ restarts' # 0
    BY <2>1 DEF AnnouncedInv
  <2>3. Unannounced' = {}
    BY <1>13 DEF Restart, Unannounced
  <2>4. RowSet(log') = RowSet(log) /\ RowSet(feed') = RowSet(feed)
    BY <2>1
  <2> HIDE DEF Unannounced
  <2> QED BY <2>2, <2>3, <2>4 DEF AnnouncedInv
<1> HIDE DEF Aside
<1> QED
  BY <1>1, <1>2, <1>3, <1>4, <1>5, <1>6, <1>7, <1>8, <1>9, <1>10, <1>11, <1>12, <1>13,
     NextCases, CommitAnnounced, PublishAnnounced

(* As long as the process has not died, a quiet pipeline has told its      *)
(* clients of exactly as many events as have been stored since it booted.  *)
THEOREM FeedIsComplete == Spec => []QuietFeedComplete
<1>1. TypeInv /\ StoreInv /\ AnnouncedInv /\ [Next]_vars => AnnouncedInv'
  BY AnnouncedStep
<1>2. TypeInv /\ StoreInv /\ AnnouncedInv => QuietFeedComplete
  <2> SUFFICES ASSUME TypeInv, StoreInv, AnnouncedInv, Quiet, restarts = 0
               PROVE  Len(feed) = Len(log) - Len(Existing)
    BY DEF QuietFeedComplete
  <2>1. \A t \in Tasks : pc[t] \notin Persisted
    BY DEF Quiet, Persisted, Tasks
  <2>2. RowSet(log) = RowSet(Existing) \cup RowSet(feed) /\ RowSet(Existing) \cap RowSet(feed) = {}
    BY <2>1 DEF AnnouncedInv, Unannounced
  <2>3. /\ log \in Seq(Row) /\ feed \in Seq(Row) /\ Existing \in Seq(Row)
        /\ Contiguous(log) /\ Contiguous(Existing) /\ Once(feed)
    BY PipelineAssumption DEF TypeInv, TasksTypeOK, StoreInv
  <2>4. Once(log) /\ Once(Existing)
    BY <2>3, ContiguousOnce
  <2>5. /\ IsFiniteSet(RowSet(feed)) /\ Cardinality(RowSet(feed)) = Len(feed)
        /\ IsFiniteSet(RowSet(Existing)) /\ Cardinality(RowSet(Existing)) = Len(Existing)
        /\ Cardinality(RowSet(log)) = Len(log)
    BY <2>3, <2>4, OnceCounts
  <2>6. Cardinality(RowSet(log)) = Cardinality(RowSet(Existing)) + Cardinality(RowSet(feed))
    <3>1. Cardinality(RowSet(Existing) \cup RowSet(feed))
            = Cardinality(RowSet(Existing)) + Cardinality(RowSet(feed))
                - Cardinality(RowSet(Existing) \cap RowSet(feed))
      BY <2>5, FS_Union
    <3>2. Cardinality(RowSet(Existing) \cap RowSet(feed)) = 0
      BY <2>2, FS_EmptySet
    <3>3. Cardinality(RowSet(Existing)) \in Nat /\ Cardinality(RowSet(feed)) \in Nat
      BY <2>5, FS_CardinalityType
    <3> QED BY <2>2, <3>1, <3>2, <3>3
  <2> QED BY <2>3, <2>5, <2>6
<1> QED BY <1>1, <1>2, AnnouncedInit, TypeAndStore, PTL DEF Spec
=============================================================================
