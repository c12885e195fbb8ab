---------------------------- MODULE EventLogProofs ----------------------------
(***************************************************************************)
(* EventPipeline implements EventLog, for any number of workers and        *)
(* consumers, any commands and scripts, and any value of the limits.       *)
(***************************************************************************)
EXTENDS EventPipelineProofs

(* What the abstract log sees of the pipeline. *)
DueNow == [t \in Tasks |-> Due(t)]
BusyNow == [w \in Workers |-> pc[w] # "idle"]

(* A task whose rows are due before and after a step, or neither time. *)
SameDue(u) ==
    \/ pc[u] \notin Persisted /\ pc'[u] \notin Persisted
    \/ /\ pc[u] \in Persisted /\ pc'[u] \in Persisted
       /\ evs'[u] = evs[u] /\ ver'[u] = ver[u]

LEMMA SameDueUnchanged ==
    ASSUME NEW u, SameDue(u)
    PROVE  Due(u)' = Due(u)
BY DEF SameDue, Due, Persisted, RowsAt, StreamOf

LEMMA DueUnchanged ==
    ASSUME \A u \in Tasks : SameDue(u)
    PROVE  DueNow' = DueNow
BY SameDueUnchanged DEF DueNow

LEMMA DueMoves ==
    ASSUME NEW t \in Tasks, \A u \in Tasks \ {t} : SameDue(u)
    PROVE  DueNow' = [DueNow EXCEPT ![t] = DueNow'[t]]
BY SameDueUnchanged DEF DueNow

(* Steps the abstract log does not see: no rows, no announcement, no       *)
(* answer, and no command taken up or done with.                           *)
Unseen ==
    /\ log' = log /\ feed' = feed /\ reply' = reply
    /\ \A u \in Tasks : SameDue(u)
    /\ \A w \in Workers : pc'[w] = "idle" <=> pc[w] = "idle"

LEMMA UnseenStutters ==
    ASSUME Unseen
    PROVE  UNCHANGED Log!vars
<1>1. DueNow' = DueNow
  BY DueUnchanged DEF Unseen
<1>2. BusyNow' = BusyNow
  BY DEF BusyNow, Unseen
<1> QED BY <1>1, <1>2 DEF Log!vars, Unseen, DueNow, BusyNow

-----------------------------------------------------------------------------
(* The steps it does see. *)

LEMMA TakesUp ==
    ASSUME TypeInv, NEW w \in Workers, ReceiveCommand(w)
    PROVE  Log!TakeUp(w)
<1>1. /\ pc[w] = "idle" /\ pc' = [pc EXCEPT ![w] = "decide"]
      /\ reply' = [reply EXCEPT ![w] = "none"]
      /\ log' = log /\ feed' = feed /\ evs' = evs /\ ver' = ver
      /\ pc \in [Tasks -> WorkerPc \cup ConsumerPc]
  BY DEF ReceiveCommand, durable, TypeInv, TasksTypeOK
<1>2. DueNow' = DueNow
  <2>1. \A u \in Tasks : SameDue(u)
    BY <1>1 DEF SameDue, Persisted
  <2> QED BY <2>1, DueUnchanged
<1>3. ~BusyNow[w] /\ BusyNow' = [BusyNow EXCEPT ![w] = TRUE]
  BY <1>1 DEF BusyNow, Tasks
<1> QED BY <1>1, <1>2, <1>3 DEF Log!TakeUp, DueNow, BusyNow

(* A worker that gives its command up before it has appended anything. *)
LEMMA Refuses ==
    ASSUME TypeInv, NEW w \in Workers, NEW answer \in {"rejected", "conflict", "internal"},
           pc[w] \notin Persisted \cup {"idle"},
           Answer(w, answer), log' = log, feed' = feed, ver' = ver,
           \A u \in Tasks \ {w} : evs'[u] = evs[u]
    PROVE  Log!Refuse(w)
<1>1. /\ pc' = [pc EXCEPT ![w] = "idle"] /\ reply' = [reply EXCEPT ![w] = answer]
      /\ pc \in [Tasks -> WorkerPc \cup ConsumerPc]
  BY DEF Answer, TypeInv, TasksTypeOK
<1>2. DueNow' = DueNow
  <2>1. \A u \in Tasks : SameDue(u)
    BY <1>1 DEF SameDue, Persisted
  <2> QED BY <2>1, DueUnchanged
<1>3. DueNow[w] = <<>>
  BY DEF DueNow, Due, Persisted, Tasks
<1>4. BusyNow[w] /\ BusyNow' = [BusyNow EXCEPT ![w] = FALSE]
  BY <1>1 DEF BusyNow, Tasks
<1> QED BY <1>1, <1>2, <1>3, <1>4 DEF Log!Refuse, DueNow, BusyNow

(* A commit stores the next batch of one stream: the version the append    *)
(* was checked against is still the last number of the stream.             *)
LEMMA Stores ==
    ASSUME TypeInv, StoreInv, NEW t \in Tasks, CommitAppend(t)
    PROVE  Log!Store(t)
<1> DEFINE new == RowsAt(t, ver[t])
<1>1. /\ pc[t] = "commit" /\ tx[t] = "fresh" /\ log' = log \o new
      /\ feed' = feed /\ evs' = evs /\ ver' = ver /\ reply' = reply
      /\ pc' = [pc EXCEPT ![t] = "project"]
      /\ pc \in [Tasks -> WorkerPc \cup ConsumerPc]
  BY DEF CommitAppend, TypeInv, TasksTypeOK
<1>2. /\ log \in Seq(Row) /\ ver[t] \in Nat /\ StreamOf(t) \in Ids /\ evs[t] \in Seq(Event)
      /\ evs[t] # <<>>
  BY <1>1 DEF TypeInv, TasksTypeOK, Appending
<1>3. /\ new # <<>>
      /\ \A k \in DOMAIN new : new[k].stream = StreamOf(t) /\ new[k].sequence = ver[t] + k
  <2>1. /\ new \in Seq(Row) /\ Len(new) = Len(evs[t]) /\ Len(evs[t]) # 0
        /\ \A k \in 1..Len(evs[t]) : new[k].stream = StreamOf(t) /\ new[k].sequence = ver[t] + k
    BY <1>2, RowsAtType
  <2> QED BY <2>1
<1>4. Sequences(log, StreamOf(t)) = 1..ver[t]
  BY <1>1 DEF StoreInv, FreshIsCurrent
<1>5. ver[t] \in 0..Len(log)
  <2>1. PICK n \in 0..Len(log) : Sequences(log, StreamOf(t)) = 1..n
    BY <1>2 DEF StoreInv, Contiguous
  <2>2. n \in Nat
    BY <1>2, <2>1
  <2>3. VersionIn(log, StreamOf(t)) = n /\ VersionIn(log, StreamOf(t)) = ver[t]
    BY <1>2, <1>4, <2>1, <2>2, VersionOfStream
  <2> QED BY <2>1, <2>3
<1>6. DueNow[t] = <<>> /\ DueNow'[t] = new
  <2>1. DueNow[t] = <<>>
    BY <1>1 DEF DueNow, Due
  <2>2. Due(t)' = new
    BY <1>1 DEF Due, RowsAt, StreamOf
  <2> QED BY <2>1, <2>2 DEF DueNow
<1> HIDE DEF new
<1>7. Log!IsNextBatch(new)
  BY <1>2, <1>3, <1>4, <1>5 DEF Log!IsNextBatch, Log!Numbers, Sequences
<1>8. DueNow' = [DueNow EXCEPT ![t] = DueNow'[t]]
  <2>1. \A u \in Tasks \ {t} : SameDue(u)
    BY <1>1 DEF SameDue
  <2> QED BY <2>1, DueMoves
<1>9. BusyNow' = BusyNow /\ (t \in Workers => BusyNow[t])
  BY <1>1 DEF BusyNow, Tasks
<1> QED BY <1>1, <1>6, <1>7, <1>8, <1>9 DEF Log!Store, DueNow, BusyNow

LEMMA Announces ==
    ASSUME TypeInv, NEW t \in Tasks, Publish(t)
    PROVE  Log!Announce(t)
<1>1. /\ pc[t] = "publish" /\ log' = log /\ feed' = feed \o RowsAt(t, ver[t]) /\ ver' = ver
      /\ evs' = [evs EXCEPT ![t] = <<>>]
      /\ pc' = [pc EXCEPT ![t] = IF t \in Workers THEN "idle" ELSE "stream"]
      /\ pc \in [Tasks -> WorkerPc \cup ConsumerPc] /\ evs \in [Tasks -> Seq(Event)]
  BY DEF Publish, Answer, durable, TypeInv, TasksTypeOK
<1>2. /\ ver[t] \in Nat /\ StreamOf(t) \in Ids /\ evs[t] \in Seq(Event) /\ evs[t] # <<>>
  BY <1>1 DEF TypeInv, TasksTypeOK, Appending
<1>3. DueNow[t] = RowsAt(t, ver[t]) /\ DueNow[t] # <<>>
  <2>1. RowsAt(t, ver[t]) # <<>>
    BY <1>2, RowsAtType
  <2> QED BY <1>1, <2>1 DEF DueNow, Due
<1>4. DueNow' = [DueNow EXCEPT ![t] = <<>>]
  <2>1. \A u \in Tasks \ {t} : SameDue(u)
    BY <1>1 DEF SameDue
  <2>2. Due(t)' = <<>>
    BY <1>1 DEF Due
  <2>3. DueNow'[t] = <<>>
    BY <2>2 DEF DueNow
  <2> QED BY <2>1, <2>3, DueMoves
<1>5. CASE t \in Workers
  <2>1. \E answer \in {"ok", "internal"} : reply' = [reply EXCEPT ![t] = answer]
    BY <1>5 DEF Publish, Answer, Outcomes
  <2>2. BusyNow' = [BusyNow EXCEPT ![t] = FALSE]
    BY <1>1, <1>5 DEF BusyNow, Tasks
  <2> QED BY <1>1, <1>3, <1>4, <1>5, <2>1, <2>2 DEF Log!Announce, DueNow, BusyNow
<1>6. CASE t \notin Workers
  <2>1. reply' = reply
    BY <1>6 DEF Publish
  <2>2. BusyNow' = BusyNow
    BY <1>1, <1>6 DEF BusyNow, Tasks
  <2> QED BY <1>1, <1>3, <1>4, <1>6, <2>1, <2>2 DEF Log!Announce, DueNow, BusyNow
<1> QED BY <1>5, <1>6

LEMMA Crashes ==
    ASSUME TypeInv, Restart
    PROVE  Log!Crash
<1>1. /\ log' = log /\ feed' = feed
      /\ pc' = [t \in Tasks |-> IF t \in Workers THEN "idle" ELSE "stopped"]
      /\ reply' = [w \in Workers |-> IF pc[w] = "idle" THEN reply[w] ELSE "lost"]
  BY DEF Restart, durable
<1>2. DueNow' = [t \in Tasks |-> <<>>]
  <2>1. \A t \in Tasks : Due(t)' = <<>>
    BY <1>1 DEF Due
  <2> QED BY <2>1 DEF DueNow
<1>3. BusyNow' = [w \in Workers |-> FALSE]
  BY <1>1 DEF BusyNow, Tasks
<1>4. reply' = [w \in Workers |-> IF BusyNow[w] THEN "lost" ELSE reply[w]]
  BY <1>1 DEF BusyNow
<1> QED BY <1>1, <1>2, <1>3, <1>4 DEF Log!Crash, Log!Tasks, Tasks, DueNow, BusyNow

-----------------------------------------------------------------------------
LEMMA InitRefines == Init => Log!Init
<1> SUFFICES ASSUME Init PROVE Log!Init
  OBVIOUS
<1>1. /\ log = Existing /\ feed = <<>> /\ reply = [w \in Workers |-> "none"]
      /\ pc = [t \in Tasks |-> IF t \in Workers THEN "idle" ELSE "stream"]
  BY DEF Init
<1>2. DueNow = [t \in Tasks |-> <<>>]
  BY <1>1 DEF DueNow, Due
<1>3. BusyNow = [w \in Workers |-> FALSE]
  BY <1>1 DEF BusyNow, Tasks
<1> QED BY <1>1, <1>2, <1>3 DEF Log!Init, Log!Tasks, Tasks, DueNow, BusyNow

LEMMA StepRefines ==
    ASSUME TypeInv, StoreInv, [Next]_vars
    PROVE  [Log!Next]_(Log!vars)
<1> USE PipelineAssumption
<1> USE DEF TypeInv, TasksTypeOK, Tasks, SameDue, Persisted, durable, consumerVars
<1>1. ASSUME NEW w \in Workers, ReceiveCommand(w) PROVE Log!Next
  BY <1>1, TakesUp DEF Log!Next
<1>2. ASSUME NEW w \in Workers, DecideCommand(w) PROVE Log!Next \/ Unseen
  <2>1. CASE Answer(w, "rejected") /\ evs' = evs
    <3>1. pc[w] = "decide" /\ log' = log /\ feed' = feed /\ ver' = ver
      BY <1>2 DEF DecideCommand
    <3>2. Log!Refuse(w)
      BY <2>1, <3>1, Refuses
    <3> QED BY <3>2 DEF Log!Next
  <2>2. CASE pc' = [pc EXCEPT ![w] = "version"] /\ reply' = reply
    <3>1. /\ pc[w] = "decide" /\ log' = log /\ feed' = feed /\ ver' = ver
          /\ \A u \in Tasks \ {w} : evs'[u] = evs[u]
      BY <1>2 DEF DecideCommand
    <3> QED BY <2>2, <3>1 DEF Unseen
  <2> QED BY <1>2, <2>1, <2>2 DEF DecideCommand
<1>3. ASSUME NEW w \in Workers, AppendConflict(w) PROVE Log!Next \/ Unseen
  <2>1. /\ pc[w] = "begin" /\ log' = log /\ feed' = feed /\ ver' = ver
        /\ \A u \in Tasks \ {w} : evs'[u] = evs[u]
    BY <1>3 DEF AppendConflict
  <2>2. CASE pc' = [pc EXCEPT ![w] = "decide"] /\ reply' = reply
    BY <2>1, <2>2 DEF Unseen
  <2>3. CASE Answer(w, "conflict")
    <3>1. Log!Refuse(w)
      BY <2>1, <2>3, Refuses
    <3> QED BY <3>1 DEF Log!Next
  <2> QED BY <1>3, <2>2, <2>3 DEF AppendConflict, RetryOrGiveUp
<1>4. ASSUME NEW w \in Workers, AppendBusy(w) PROVE Log!Next
  <2>1. /\ pc[w] = "commit" /\ log' = log /\ feed' = feed /\ ver' = ver
        /\ \A u \in Tasks \ {w} : evs'[u] = evs[u]
        /\ Answer(w, "internal")
    BY <1>4 DEF AppendBusy
  <2>2. Log!Refuse(w)
    BY <2>1, Refuses
  <2> QED BY <2>2 DEF Log!Next
<1>5. ASSUME NEW w \in Workers, SaveSnapshot(w) PROVE Unseen
  BY <1>5 DEF SaveSnapshot, Unseen
<1>6. ASSUME NEW t \in Tasks, ReadVersion(t) PROVE Unseen
  BY <1>6 DEF ReadVersion, Unseen
<1>7. ASSUME NEW t \in Tasks, BeginAppend(t) PROVE Unseen
  BY <1>7 DEF BeginAppend, Unseen
<1>8. ASSUME NEW t \in Tasks, CommitAppend(t) PROVE Log!Next
  BY <1>8, Stores DEF Log!Next, Log!Tasks
<1>9. ASSUME NEW t \in Tasks, ProjectEvents(t) PROVE Unseen
  <2>1. /\ pc[t] = "project" /\ pc' = [pc EXCEPT ![t] = pc'[t]] /\ pc'[t] \in {"publish", "snapshot"}
        /\ log' = log /\ feed' = feed /\ reply' = reply /\ evs' = evs /\ ver' = ver
    BY <1>9 DEF ProjectEvents
  <2> QED BY <2>1 DEF Unseen
<1>10. ASSUME NEW t \in Tasks, Publish(t) PROVE Log!Next
  BY <1>10, Announces DEF Log!Next, Log!Tasks
<1>11. ASSUME NEW c \in Consumers, TakeToken(c) PROVE Unseen
  BY <1>11 DEF TakeToken, Submit, Unseen
<1>12. ASSUME NEW c \in Consumers, FlushTokens(c) PROVE Unseen
  BY <1>12 DEF FlushTokens, Submit, Unseen
<1>13. ASSUME NEW c \in Consumers, TakeEvent(c) PROVE Unseen
  BY <1>13 DEF TakeEvent, Submit, Unseen
<1>14. ASSUME NEW c \in Consumers, StreamEnds(c) PROVE Unseen
  BY <1>14 DEF StreamEnds, Unseen
<1>15. ASSUME NEW c \in Consumers, ConsumerAppendFails(c) PROVE Unseen
  BY <1>15 DEF ConsumerAppendFails, Unseen
<1>16. ASSUME RepairStep PROVE Unseen
  BY <1>16, RepairTouchesStoreOnly DEF Unseen
<1>17. ASSUME Restart PROVE Log!Next
  BY <1>17, Crashes DEF Log!Next
<1>18. ASSUME UNCHANGED vars PROVE Unseen
  BY <1>18 DEF vars, Unseen
<1>19. Log!Next \/ Unseen
  BY <1>1, <1>2, <1>3, <1>4, <1>5, <1>6, <1>7, <1>8, <1>9, <1>10, <1>11, <1>12, <1>13, <1>14,
     <1>15, <1>16, <1>17, <1>18, NextCases
<1> QED BY <1>19, UnseenStutters

(* Every behaviour of the pipeline is one of the abstract log: commands    *)
(* take effect at most once, atomically and in order, are announced only   *)
(* when stored, and leave no trace when they are refused.                  *)
THEOREM PipelineImplementsEventLog == Spec => ImplementsEventLog
<1>1. TypeInv /\ StoreInv /\ [Next]_vars => [Log!Next]_(Log!vars)
  BY StepRefines
<1> QED BY <1>1, InitRefines, TypeAndStore, PTL DEF Spec, ImplementsEventLog, Log!Spec

=============================================================================
