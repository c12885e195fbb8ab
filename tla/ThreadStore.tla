----------------------------- MODULE ThreadStore -----------------------------
(***************************************************************************)
(* What the client keeps of one thread (frontend/src/store.ts), and how    *)
(* live events, the shell snapshot and the thread snapshot change it.      *)
(*                                                                         *)
(* A text is the sequence of the pieces it was streamed in.  Titles, pins, *)
(* branches, plans, diffs and activities are left out, and so are the      *)
(* prompts: the transcript here is the assistant's answers, one message a  *)
(* turn, whose id is the turn's.                                           *)
(***************************************************************************)
EXTENDS Naturals, Sequences, SequencesExt

CONSTANT Turns

ASSUME TurnsAssumption == 0 \notin Turns

NoTurn == 0             \* null, and the turnId a server snapshot does not have
NoThread == [known |-> FALSE]
NoMessage == [text |-> <<>>, streaming |-> FALSE, shown |-> FALSE]
NoLatest == [turn |-> NoTurn, state |-> "none", message |-> FALSE]

SessionStatuses == {"none", "idle", "running", "ready", "error"}

-----------------------------------------------------------------------------
(* Live events, as the push adapter makes them *)

SessionSet(t, status) == [type |-> "session-set", turn |-> t, status |-> status]
MessageSent(t, text, streaming) ==
    [type |-> "message-sent", turn |-> t, text |-> text, streaming |-> streaming]

Message(text, streaming) == [text |-> text, streaming |-> streaming, shown |-> TRUE]

(* mergeStreamingMessage of an assistant's message. *)
MergeStreamingMessage(existing, incoming) ==
    Message(
      IF incoming.streaming \/ incoming.text = <<>> THEN existing.text \o incoming.text
      ELSE IF IsPrefix(existing.text, incoming.text) THEN incoming.text
      ELSE IF IsPrefix(incoming.text, existing.text) THEN existing.text
      ELSE existing.text \o incoming.text,
      incoming.streaming)

(* applyThreadMessageSentEvent. *)
ApplyMessageSent(thread, e) ==
    LET existing == thread.answers[e.turn]
        incoming == Message(e.text, e.streaming)
        about == thread.latest.state = "none" \/ thread.latest.turn = e.turn IN
      [thread EXCEPT
         !.answers[e.turn] = IF existing.shown THEN MergeStreamingMessage(existing, incoming)
                             ELSE incoming,
         !.latest = IF ~about THEN @ ELSE
                    [turn |-> e.turn, message |-> TRUE,
                     state |-> IF e.streaming THEN "running"
                               ELSE IF @.state = "error" THEN "error" ELSE "completed"]]

(* reconcileLatestTurnFromSession. *)
LatestFromSession(latest, e) ==
    CASE e.status = "running" ->
           [turn |-> e.turn, state |-> "running",
            message |-> latest.turn = e.turn /\ latest.message]
      [] e.status = "error" /\ latest.state = "running" -> [latest EXCEPT !.state = "error"]
      [] OTHER -> latest

ApplySessionSet(thread, e) ==
    [thread EXCEPT !.session = e.status, !.latest = LatestFromSession(@, e)]

(* applyOrchestrationEvent; an event of a thread the store does not have   *)
(* is lost.                                                                *)
ApplyEvent(thread, e) ==
    IF ~thread.known THEN thread
    ELSE CASE e.type = "session-set" -> ApplySessionSet(thread, e)
           [] e.type = "message-sent" -> ApplyMessageSent(thread, e)

ApplyEvents(thread, events) ==
    LET after[k \in 0..Len(events)] ==
          IF k = 0 THEN thread ELSE ApplyEvent(after[k - 1], events[k])
    IN  after[Len(events)]

-----------------------------------------------------------------------------
(* Snapshots *)

(* syncServerShellSnapshot: the thread's row comes with the thread's status *)
(* for a session and with no turn; the messages are retained.              *)
SyncShellSnapshot(thread) ==
    [known |-> TRUE, session |-> "idle", latest |-> NoLatest,
     answers |-> IF thread.known THEN thread.answers ELSE [t \in Turns |-> NoMessage]]

(* hasLiveAssistantIntro and shouldPreserveRunningTurn: the snapshot's turn *)
(* has no turnId to compare with.                                          *)
ShouldPreserveRunningTurn(thread) ==
    LET t == thread.latest.turn IN
      /\ thread.latest.state = "running"
      /\ thread.session = "running"
      /\ t # NoTurn
      /\ thread.answers[t].shown
      /\ thread.answers[t].streaming \/ thread.latest.message

(* shouldRetainLiveAssistantMessageForHotPath. *)
ShouldRetain(thread, t) ==
    LET message == thread.answers[t] IN
      /\ message.shown
      /\ \/ message.streaming
         \/ thread.latest.turn = t /\ (thread.latest.message \/ thread.session = "running")

(* Mutant: the snapshot always wins. *)
MergeSnapshotWins(thread, t, incoming) == incoming

(* mergeReadModelMessagesWithLiveHotPath, for the message of turn t: the   *)
(* live text is preferred when it is longer, or finished.                  *)
MergeMessage(thread, t, incoming) ==
    LET live == thread.answers[t] IN
      IF ~incoming.shown THEN IF ShouldRetain(thread, t) THEN live ELSE NoMessage
      ELSE IF live.shown /\ (Len(live.text) > Len(incoming.text) \/ ~live.streaming)
           THEN live ELSE incoming

(* syncServerThreadDetailHotPath.  A session kept running was updated after *)
(* the thread's row was, or is kept running over its status.               *)
SyncThreadSnapshot(thread, snapshot) ==
    IF ~thread.known
    THEN [known |-> TRUE, session |-> "idle", latest |-> snapshot.latest,
          answers |-> snapshot.answers]
    ELSE LET preserve == ShouldPreserveRunningTurn(thread) IN
      [known |-> TRUE,
       session |-> IF preserve THEN thread.session ELSE "idle",
       latest |-> IF preserve /\ snapshot.latest = NoLatest THEN thread.latest
                  ELSE snapshot.latest,
       answers |-> [t \in Turns |-> MergeMessage(thread, t, snapshot.answers[t])]]

-----------------------------------------------------------------------------
(* Batches *)

(* Mutant: the part that comes last replaces those before it. *)
CoalesceIntoKeepsLast(events, e) ==
    LET previous == Last(events) IN
      IF /\ events # <<>>
         /\ previous.type = "message-sent" /\ e.type = "message-sent"
         /\ previous.turn = e.turn
      THEN Append(Front(events), e)
      ELSE Append(events, e)

(* coalesceOrchestrationUiEvents: an event merges with the one before it   *)
(* when both are parts of one message.                                     *)
CoalesceInto(events, e) ==
    LET previous == Last(events) IN
      IF /\ events # <<>>
         /\ previous.type = "message-sent" /\ e.type = "message-sent"
         /\ previous.turn = e.turn
      THEN Append(Front(events),
                  [e EXCEPT !.text = IF ~e.streaming /\ @ # <<>> THEN @
                                     ELSE previous.text \o @])
      ELSE Append(events, e)

Coalesce(events) ==
    LET after[k \in 0..Len(events)] ==
          IF k = 0 THEN <<>> ELSE CoalesceInto(after[k - 1], events[k])
    IN  after[Len(events)]

=============================================================================
