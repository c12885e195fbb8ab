--------------------------- MODULE MCEventPipeline ---------------------------
(***************************************************************************)
(* Instances of EventPipeline for TLC.  The database each starts from is   *)
(* what earlier commands of the same program leave: a project, one or two  *)
(* threads of it, and where a provider is streaming, a started turn.       *)
(***************************************************************************)
EXTENDS EventPipeline

CONSTANTS p1, p2, th1, th2, t1, t2, m1, m2, m3, k1, k2, w1, w2, c1

NewRow(stream, sequence, type, of) ==
    [stream |-> stream, sequence |-> sequence, event |-> EventRecord(type, stream, of, Nil, 0)]

ThreadRows(th) == <<NewRow(th, 1, "ThreadCreated", p1)>>

(* StartTurn's two events, both in the stream of the turn. *)
TurnRows(t, m, th) ==
    << [stream |-> t, sequence |-> 1, event |-> TurnStarted(t, th, 1)],
       [stream |-> t, sequence |-> 2, event |-> MessageAdded(m, t)] >>

OneThread == <<NewRow(p1, 1, "ProjectCreated", Nil)>> \o ThreadRows(th1)
TwoThreads == OneThread \o ThreadRows(th2)
OneTurn == OneThread \o TurnRows(t1, m1, th1)

OnThread(type, th) == CommandRecord(type, th, Nil, 0)

(* No provider stream. *)
NoTurns == [c \in Consumers |-> t1]
NoScript == [c \in Consumers |-> <<>>]

(* Two clients control the same thread. *)
RivalCommands ==
    [w \in Workers |->
       IF w = w1 THEN {OnThread("PauseThread", th1), OnThread("ResumeThread", th1)}
       ELSE {OnThread("CompleteThread", th1)}]

(* Two clients, each with a thread of its own. *)
SeparateCommands ==
    [w \in Workers |->
       LET th == IF w = w1 THEN th1 ELSE th2
       IN  {OnThread("PauseThread", th), OnThread("ResumeThread", th),
            OnThread("ArchiveThread", th), OnThread("UnarchiveThread", th),
            OnThread("DeleteThread", th)}]

(* One client uses every kind of command: it creates, annotates, runs and  *)
(* reverts turns, and deletes.                                             *)
EveryCommand ==
    [w \in Workers |->
       {CommandRecord("CreateProject", Nil, Nil, 0), CommandRecord("DeleteProject", p1, Nil, 0),
        CommandRecord("CreateThread", p1, Nil, 0), CommandRecord("CreateThread", p1, th1, 0),
        OnThread("CancelThread", th1), OnThread("DeleteThread", th1),
        CommandRecord("AddPinnedMessage", th1, m1, 0), CommandRecord("AddPinnedMessage", th1, m2, 0),
        CommandRecord("RemovePinnedMessage", th1, m1, 0),
        CommandRecord("AddMarker", th1, k1, 0), CommandRecord("AddMarker", th1, k2, 0),
        CommandRecord("RemoveMarker", th1, k1, 0),
        CommandRecord("StartTurn", th1, Nil, 1), CommandRecord("StartTurn", th1, Nil, 2),
        CommandRecord("CompleteRevert", th1, Nil, 1), CommandRecord("AddMessage", t1, Nil, 0),
        CommandRecord("CompleteTurn", t1, Nil, 0), CommandRecord("FailTurn", t1, Nil, 0),
        CommandRecord("InterruptTurn", t1, Nil, 0)}]

(* A turn streams its answer while a client cancels it. *)
StreamingTurn == [c \in Consumers |-> t1]
StreamingScript ==
    [c \in Consumers |-> <<"Started", "Token", "Token", "ToolCall", "Token", "Token", "Token",
                           "Completed">>]
CancelCommands == [w \in Workers |-> {CommandRecord("CancelTurn", t1, Nil, 0)}]
=============================================================================
