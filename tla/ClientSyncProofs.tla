--------------------------- MODULE ClientSyncProofs ---------------------------
(***************************************************************************)
(* What holds of the client's copy of a thread: the merges of a message,   *)
(* batches of events, and the protocol that keeps it in step.              *)
(***************************************************************************)
EXTENDS ClientSync, DataInduction

-----------------------------------------------------------------------------
(* The merges, whatever a text is made of *)

(* A message, as a server snapshot or a live event can describe it. *)
MessagesOf(Piece) == [text : Seq(Piece), streaming : BOOLEAN, shown : BOOLEAN]

LEMMA PrefixOfConcat ==
    ASSUME NEW Piece, NEW a \in Seq(Piece), NEW b \in Seq(Piece)
    PROVE  IsPrefix(a, a \o b)
<1>1. a \o b \in Seq(Piece) /\ Len(a \o b) = Len(a) + Len(b)
  OBVIOUS
<1>2. SubSeq(a \o b, 1, Len(a)) = a
  OBVIOUS
<1> QED BY <1>1, <1>2 DEF IsPrefix

LEMMA PrefixOfItself ==
    ASSUME NEW Piece, NEW a \in Seq(Piece)
    PROVE  IsPrefix(a, a)
BY DEF IsPrefix

(* mergeStreamingMessage: a delta, a finished message, and a finished      *)
(* message that comes late all leave what is on the screen where it is and *)
(* at most add to it.                                                      *)
THEOREM StreamingMergeExtends ==
    ASSUME NEW Piece, NEW existing \in MessagesOf(Piece), NEW incoming \in MessagesOf(Piece)
    PROVE  IsPrefix(existing.text, MergeStreamingMessage(existing, incoming).text)
<1> DEFINE old == existing.text
           new == incoming.text
           merged == MergeStreamingMessage(existing, incoming).text
<1>1. old \in Seq(Piece) /\ new \in Seq(Piece)
  BY DEF MessagesOf
<1>2. \/ merged = old \o new
      \/ merged = new /\ IsPrefix(old, new)
      \/ merged = old
  BY DEF MergeStreamingMessage, Message
<1> HIDE DEF old, new, merged
<1>3. IsPrefix(old, merged)
  BY <1>1, <1>2, PrefixOfConcat, PrefixOfItself
<1> QED BY <1>3 DEF old, merged

(* mergeReadModelMessagesWithLiveHotPath: a snapshot that has the message  *)
(* never puts a shorter text in its place, and never replaces a text that  *)
(* is finished, however old the snapshot is.                               *)
THEOREM SnapshotMergeNeverShortens ==
    ASSUME NEW Piece, NEW T, NEW t, NEW incoming \in MessagesOf(Piece),
           T.answers[t] \in MessagesOf(Piece), incoming.shown, T.answers[t].shown
    PROVE  LET live == T.answers[t]
               merged == MergeMessage(T, t, incoming)
           IN  /\ Len(merged.text) >= Len(live.text)
               /\ ~live.streaming => merged = live
<1>1. Len(T.answers[t].text) \in Nat /\ Len(incoming.text) \in Nat
  BY DEF MessagesOf
<1> QED BY <1>1 DEF MergeMessage

-----------------------------------------------------------------------------
(* The store keeps its shape *)

LEMMA AnswerType == Answer \in Texts
<1>1. Chunks \in Nat
  BY ClientSyncAssumption
<1>2. \A n \in Nat : [k \in 1..n |-> k] \in Seq(1..n)
  OBVIOUS
<1> QED BY <1>1, <1>2 DEF Answer, Texts

LEMMA NothingType ==
    /\ NoThread \in Threads
    /\ NoMessage \in Messages
    /\ NoLatest \in Latest
BY DEF Threads, Messages, Latest, NoThread, NoMessage, NoLatest, NoTurn

(* A message has a text, and none is shown without one being there. *)
LEMMA MessageFields ==
    ASSUME NEW m \in Messages
    PROVE  /\ m.text \in Texts /\ m.streaming \in BOOLEAN /\ m.shown \in BOOLEAN
           /\ ~m.shown => m = NoMessage
           /\ m \in MessagesOf(1..Chunks)
<1>1. <<>> \in Texts
  BY DEF Texts
<1>2. CASE m = NoMessage
  BY <1>1, <1>2 DEF NoMessage, Texts, MessagesOf
<1>3. CASE m \in [text : Texts, streaming : BOOLEAN, shown : {TRUE}]
  BY <1>3 DEF Texts, MessagesOf
<1> QED BY <1>2, <1>3 DEF Messages

LEMMA MessageType ==
    ASSUME NEW text \in Texts, NEW streaming \in BOOLEAN
    PROVE  Message(text, streaming) \in Messages
BY DEF Message, Messages

LEMMA MergedType ==
    ASSUME NEW existing \in Messages, NEW incoming \in Messages
    PROVE  MergeStreamingMessage(existing, incoming) \in Messages
<1>1. /\ existing.text \in Texts /\ incoming.text \in Texts /\ incoming.streaming \in BOOLEAN
  BY MessageFields
<1>2. existing.text \o incoming.text \in Texts
  BY <1>1 DEF Texts
<1>3. \A text \in Texts : Message(text, incoming.streaming) \in Messages
  BY <1>1, MessageType
<1> QED BY <1>1, <1>2, <1>3 DEF MergeStreamingMessage

LEMMA KnownOrNot ==
    ASSUME NEW T \in Threads
    PROVE  T.known \in BOOLEAN /\ (~T.known => T = NoThread)
<1>1. CASE T = NoThread
  BY <1>1 DEF NoThread
<1>2. CASE T \in [known : {TRUE}, session : SessionStatuses, latest : Latest,
                  answers : [Turns -> Messages]]
  BY <1>2
<1> QED BY <1>1, <1>2 DEF Threads

LEMMA KnownFields ==
    ASSUME NEW T \in Threads, T.known
    PROVE  /\ T.session \in SessionStatuses /\ T.latest \in Latest
           /\ T.answers \in [Turns -> Messages]
           /\ T = [known |-> TRUE, session |-> T.session, latest |-> T.latest,
                   answers |-> T.answers]
<1>1. T # NoThread
  BY DEF NoThread
<1>2. T \in [known : {TRUE}, session : SessionStatuses, latest : Latest,
             answers : [Turns -> Messages]]
  BY <1>1 DEF Threads
<1> QED BY <1>2

LEMMA KnownType ==
    ASSUME NEW session \in SessionStatuses, NEW latest \in Latest,
           NEW answers \in [Turns -> Messages]
    PROVE  [known |-> TRUE, session |-> session, latest |-> latest, answers |-> answers]
             \in Threads
BY DEF Threads

LEMMA UiFields ==
    ASSUME NEW e \in UiEvents
    PROVE  \/ /\ e.type = "session-set" /\ e.turn \in Turns \cup {NoTurn}
              /\ e.status \in SessionStatuses
           \/ /\ e.type = "message-sent" /\ e.turn \in Turns /\ e.text \in Texts
              /\ e.streaming \in BOOLEAN
BY DEF UiEvents

(* What an event leaves of a known thread. *)
LEMMA AppliedSession ==
    ASSUME NEW T \in Threads, T.known, NEW e \in UiEvents, e.type = "session-set"
    PROVE  ApplyEvent(T, e) = [known |-> TRUE, session |-> e.status,
                               latest |-> LatestFromSession(T.latest, e),
                               answers |-> T.answers]
<1>1. T = [known |-> TRUE, session |-> T.session, latest |-> T.latest, answers |-> T.answers]
  BY KnownFields
<1> QED BY <1>1 DEF ApplyEvent, ApplySessionSet

LatestFromMessage(latest, e) ==
    IF latest.state = "none" \/ latest.turn = e.turn
    THEN [turn |-> e.turn, message |-> TRUE,
          state |-> IF e.streaming THEN "running"
                    ELSE IF latest.state = "error" THEN "error" ELSE "completed"]
    ELSE latest

Received(existing, e) ==
    IF existing.shown THEN MergeStreamingMessage(existing, Message(e.text, e.streaming))
    ELSE Message(e.text, e.streaming)

LEMMA AppliedMessage ==
    ASSUME NEW T \in Threads, T.known, NEW e \in UiEvents, e.type = "message-sent"
    PROVE  ApplyEvent(T, e) =
             [known |-> TRUE, session |-> T.session,
              latest |-> LatestFromMessage(T.latest, e),
              answers |-> [T.answers EXCEPT ![e.turn] = Received(T.answers[e.turn], e)]]
<1>1. T = [known |-> TRUE, session |-> T.session, latest |-> T.latest, answers |-> T.answers]
  BY KnownFields
<1> QED BY <1>1 DEF ApplyEvent, ApplyMessageSent, LatestFromMessage, Received

LEMMA ReceivedType ==
    ASSUME NEW m \in Messages, NEW e \in UiEvents, e.type = "message-sent"
    PROVE  Received(m, e) \in Messages
<1>1. Message(e.text, e.streaming) \in Messages
  BY UiFields, MessageType
<1> QED BY <1>1, MergedType DEF Received

LEMMA ApplyEventType ==
    ASSUME NEW T \in Threads, NEW e \in UiEvents
    PROVE  ApplyEvent(T, e) \in Threads /\ ApplyEvent(T, e).known = T.known
<1>4. T.known \in BOOLEAN
  BY KnownOrNot
<1>1. CASE ~T.known
  BY <1>1 DEF ApplyEvent
<1>2. CASE T.known /\ e.type = "session-set"
  <2>1. T.latest \in Latest /\ e.turn \in Turns \cup {NoTurn} /\ e.status \in SessionStatuses
    BY <1>2, KnownFields, UiFields
  <2>2. LatestFromSession(T.latest, e) \in Latest
    BY <2>1 DEF LatestFromSession, Latest
  <2>3. T.answers \in [Turns -> Messages]
    BY <1>2, KnownFields
  <2>4. ApplyEvent(T, e) \in Threads
    BY <1>2, <2>1, <2>2, <2>3, KnownType, AppliedSession
  <2>5. ApplyEvent(T, e).known = TRUE
    BY <1>2, AppliedSession
  <2> QED BY <1>2, <1>4, <2>4, <2>5
<1>3. CASE T.known /\ e.type = "message-sent"
  <2>1. /\ T.latest \in Latest /\ T.answers \in [Turns -> Messages]
        /\ e.turn \in Turns /\ e.streaming \in BOOLEAN
    BY <1>3, KnownFields, UiFields
  <2>2. LatestFromMessage(T.latest, e) \in Latest
    BY <2>1 DEF LatestFromMessage, Latest
  <2>3. [T.answers EXCEPT ![e.turn] = Received(T.answers[e.turn], e)] \in [Turns -> Messages]
    BY <1>3, <2>1, ReceivedType
  <2>4. T.session \in SessionStatuses
    BY <1>3, KnownFields
  <2>5. ApplyEvent(T, e) \in Threads
    BY <1>3, <2>2, <2>3, <2>4, KnownType, AppliedMessage
  <2>6. ApplyEvent(T, e).known = TRUE
    BY <1>3, AppliedMessage
  <2> QED BY <1>3, <1>4, <2>5, <2>6
<1> QED BY <1>1, <1>2, <1>3, UiFields
-----------------------------------------------------------------------------
(* Batches of events *)

Applied1By1(f, T, s) ==
    /\ f \in [0..Len(s) -> Threads]
    /\ f[0] = T
    /\ \A k \in 1..Len(s) : f[k] = ApplyEvent(f[k - 1], s[k])

LEMMA ApplyRuns ==
    ASSUME NEW T \in Threads, NEW s \in Seq(UiEvents)
    PROVE  \E f : Applied1By1(f, T, s) /\ ApplyEvents(T, s) = f[Len(s)]
<1> DEFINE n == Len(s)
           step == [k \in 1..n |-> [x \in Threads |-> ApplyEvent(x, s[k])]]
           Def(g) == [k \in 0..n |-> IF k = 0 THEN T ELSE ApplyEvent(g[k - 1], s[k])]
           after == CHOOSE g : g = Def(g)
<1>1. n \in Nat /\ \A k \in 1..n : s[k] \in UiEvents
  OBVIOUS
<1>2. step \in [1..n -> [Threads -> Threads]]
  BY <1>1, ApplyEventType
<1> HIDE DEF n
<1>3. PICK f \in [0..n -> Threads] : IsFold(f, T, step, n)
  <2> HIDE DEF step
  <2> QED BY <1>1, <1>2, FoldExists
<1>4. \A k \in 1..n : k - 1 \in 0..n /\ f[k - 1] \in Threads
  BY <1>1
<1>5. f[0] = T /\ \A k \in 1..n : f[k] = ApplyEvent(f[k - 1], s[k])
  BY <1>3, <1>4 DEF IsFold
<1>6. f = Def(f)
  <2>1. \A k \in 0..n : k = 0 \/ k \in 1..n
    BY <1>1
  <2> QED BY <1>5, <2>1
<1>7. after = Def(after)
  <2> HIDE DEF Def
  <2> QED BY <1>6
<1>8. ApplyEvents(T, s) = after[n]
  BY DEF ApplyEvents, n
<1> HIDE DEF after
<1>9. after[0] = T /\ \A k \in 1..n : after[k] = ApplyEvent(after[k - 1], s[k])
  BY <1>1, <1>7
<1>10. \A k \in 0..n : after[k] = f[k]
  <2>1. StepAlike(after, f, n)
    BY <1>5, <1>9 DEF StepAlike
  <2> QED BY <1>1, <2>1, SameSteps
<1>11. ApplyEvents(T, s) = f[n]
  BY <1>1, <1>8, <1>10
<1> QED BY <1>5, <1>11 DEF Applied1By1, n

(* What each event of a batch keeps, the batch keeps. *)
LEMMA BatchStaysIn ==
    ASSUME NEW X \in SUBSET Threads, NEW T \in X, NEW s \in Seq(UiEvents),
           \A x \in X : \A k \in 1..Len(s) : ApplyEvent(x, s[k]) \in X
    PROVE  ApplyEvents(T, s) \in X
<1>1. PICK f : Applied1By1(f, T, s) /\ ApplyEvents(T, s) = f[Len(s)]
  BY ApplyRuns
<1>2. Len(s) \in Nat /\ StepInto(f, X, Len(s))
  BY <1>1 DEF Applied1By1, StepInto
<1>3. \A k \in 0..Len(s) : f[k] \in X
  BY <1>2, StepsStayIn
<1> QED BY <1>1, <1>2, <1>3

LEMMA ApplyEventsType ==
    ASSUME NEW T \in Threads, NEW s \in Seq(UiEvents)
    PROVE  ApplyEvents(T, s) \in Threads /\ ApplyEvents(T, s).known = T.known
<1> DEFINE X == {x \in Threads : x.known = T.known}
<1>1. \A x \in X : \A k \in 1..Len(s) : ApplyEvent(x, s[k]) \in X
  BY ApplyEventType
<1>2. X \in SUBSET Threads /\ T \in X
  OBVIOUS
<1> HIDE DEF X
<1>3. ApplyEvents(T, s) \in X
  BY <1>1, <1>2, BatchStaysIn
<1> QED BY <1>3 DEF X

LEMMA ApplyNone ==
    ASSUME NEW T \in Threads
    PROVE  ApplyEvents(T, <<>>) = T
<1>1. <<>> \in Seq(UiEvents) /\ Len(<<>>) = 0
  OBVIOUS
<1>2. PICK f : Applied1By1(f, T, <<>>) /\ ApplyEvents(T, <<>>) = f[Len(<<>>)]
  BY <1>1, ApplyRuns
<1> QED BY <1>1, <1>2 DEF Applied1By1

LEMMA ApplyAppend ==
    ASSUME NEW T \in Threads, NEW s \in Seq(UiEvents), NEW e \in UiEvents
    PROVE  ApplyEvents(T, Append(s, e)) = ApplyEvent(ApplyEvents(T, s), e)
<1> DEFINE n == Len(s)
           longer == Append(s, e)
<1>1. /\ n \in Nat /\ longer \in Seq(UiEvents) /\ Len(longer) = n + 1
      /\ longer[n + 1] = e /\ \A k \in 1..n : longer[k] = s[k]
  OBVIOUS
<1>2. PICK f : Applied1By1(f, T, s) /\ ApplyEvents(T, s) = f[n]
  BY ApplyRuns
<1> HIDE DEF longer
<1>3. PICK g : Applied1By1(g, T, longer) /\ ApplyEvents(T, longer) = g[n + 1]
  BY <1>1, ApplyRuns
<1> HIDE DEF n
<1>4. /\ f[0] = T /\ \A k \in 1..n : f[k] = ApplyEvent(f[k - 1], s[k])
      /\ g[0] = T /\ \A k \in 1..(n + 1) : g[k] = ApplyEvent(g[k - 1], longer[k])
  BY <1>1, <1>2, <1>3 DEF Applied1By1, n
<1>5. StepAlike(g, f, n)
  <2>1. \A k \in 1..n : k \in 1..(n + 1)
    BY <1>1
  <2> QED BY <1>1, <1>4, <2>1 DEF StepAlike
<1>6. \A k \in 0..n : g[k] = f[k]
  BY <1>1, <1>5, SameSteps
<1>7. g[n] = f[n] /\ g[n + 1] = ApplyEvent(g[n], e)
  <2>1. n \in 0..n /\ n + 1 \in 1..(n + 1) /\ (n + 1) - 1 = n
    BY <1>1
  <2> QED BY <1>1, <1>4, <1>6, <2>1
<1> QED BY <1>2, <1>3, <1>7 DEF longer

-----------------------------------------------------------------------------
(* Coalescing.  Two adjacent events merge if they are parts of one         *)
(* message; applied one by one they do the same, if both stream.           *)
LEMMA ConcatAssociates == \A a, b, c \in Texts : (a \o b) \o c = a \o (b \o c)
BY DEF Texts

SameMessage(p, e) ==
    p.type = "message-sent" /\ e.type = "message-sent" /\ p.turn = e.turn

Merged(p, e) == [e EXCEPT !.text = p.text \o @]

LEMMA PartsMerge ==
    ASSUME NEW T \in Threads, NEW p \in UiEvents, NEW e \in UiEvents,
           SameMessage(p, e), p.streaming, e.streaming
    PROVE  /\ Merged(p, e) \in UiEvents
           /\ ApplyEvent(T, Merged(p, e)) = ApplyEvent(ApplyEvent(T, p), e)
<1> DEFINE m == Merged(p, e)
           t == e.turn
<1>1. /\ p.type = "message-sent" /\ e.type = "message-sent" /\ p.turn = t /\ t \in Turns
      /\ p.text \in Texts /\ e.text \in Texts /\ p.streaming = TRUE /\ e.streaming = TRUE
  BY UiFields DEF SameMessage
<1>2. p.text \o e.text \in Texts
  BY <1>1 DEF Texts
<1>3. m = [type |-> "message-sent", turn |-> t, text |-> p.text \o e.text, streaming |-> TRUE]
  <2>1. e \in [type : {"message-sent"}, turn : Turns, text : Texts, streaming : BOOLEAN]
    BY <1>1 DEF UiEvents
  <2>2. \A x \in [type : {"message-sent"}, turn : Turns, text : Texts, streaming : BOOLEAN] :
          \A text : [x EXCEPT !.text = text]
                     = [type |-> x.type, turn |-> x.turn, text |-> text,
                        streaming |-> x.streaming]
    OBVIOUS
  <2> QED BY <1>1, <2>1, <2>2 DEF Merged
<1>4. m \in UiEvents
  BY <1>1, <1>2, <1>3 DEF UiEvents
<1> HIDE DEF m, t
<1>5. CASE ~T.known
  <2>1. \A x \in UiEvents : ApplyEvent(T, x) = T
    BY <1>5 DEF ApplyEvent
  <2> QED BY <1>4, <2>1 DEF m
<1>6. CASE T.known
  <2> DEFINE P == ApplyEvent(T, p)
             old == T.answers[t]
             latest == [turn |-> t, message |-> TRUE, state |-> "running"]
             about == T.latest.state = "none" \/ T.latest.turn = t
             after == IF about THEN latest ELSE T.latest
  <2>1. T.answers \in [Turns -> Messages] /\ T.session \in SessionStatuses /\ T.latest \in Latest
    BY <1>6, KnownFields
  <2>2. P \in Threads /\ P.known
    BY <1>6, ApplyEventType
  <2>3. P = [known |-> TRUE, session |-> T.session, latest |-> after,
             answers |-> [T.answers EXCEPT ![t] = Received(old, p)]]
    <3>1. LatestFromMessage(T.latest, p) = after
      BY <1>1 DEF LatestFromMessage
    <3> QED BY <1>1, <1>6, <3>1, AppliedMessage
  <2>4. P.answers[t] = Received(old, p) /\ P.session = T.session /\ P.latest = after
    BY <1>1, <2>1, <2>3 DEF t
  <2>5. LatestFromMessage(after, e) = after /\ LatestFromMessage(T.latest, m) = after
    BY <1>1, <1>3 DEF LatestFromMessage, t
  <2>6. Received(Received(old, p), e) = Received(old, m)
    <3>1. old \in Messages
      BY <1>1, <2>1 DEF t
    <3> HIDE DEF old
    <3>2. (old.text \o p.text) \o e.text = old.text \o (p.text \o e.text)
      <4>1. old.text \in Texts
        BY <3>1, MessageFields
      <4> QED BY <1>1, <4>1, ConcatAssociates
    <3>3. /\ p.streaming = TRUE /\ e.streaming = TRUE /\ m.streaming = TRUE
          /\ m.text = p.text \o e.text
      BY <1>1, <1>3
    <3>4. \A x, y : MergeStreamingMessage(x, Message(y, TRUE)) = Message(x.text \o y, TRUE)
      BY DEF MergeStreamingMessage, Message
    <3>5. \A y : Message(y, TRUE).text = y /\ Message(y, TRUE).shown
      BY DEF Message
    <3>8. \A y : Received(Message(y, TRUE), e) = Message(y \o e.text, TRUE)
      <4>1. \A x : x.shown => Received(x, e) = MergeStreamingMessage(x, Message(e.text, TRUE))
        BY <3>3 DEF Received
      <4>2. \A x : x.shown => Received(x, e) = Message(x.text \o e.text, TRUE)
        BY <3>4, <4>1
      <4> QED BY <3>5, <4>2
    <3>6. CASE old.shown
      <4>1. Received(old, p) = Message(old.text \o p.text, TRUE)
        BY <3>3, <3>4, <3>6 DEF Received
      <4>2. Received(Received(old, p), e) = Message((old.text \o p.text) \o e.text, TRUE)
        BY <3>8, <4>1
      <4>3. Received(old, m) = Message(old.text \o (p.text \o e.text), TRUE)
        BY <3>3, <3>4, <3>6 DEF Received
      <4> QED BY <3>2, <4>2, <4>3
    <3>7. CASE ~old.shown
      <4>1. Received(old, p) = Message(p.text, TRUE)
        BY <3>3, <3>7 DEF Received
      <4>2. Received(Received(old, p), e) = Message(p.text \o e.text, TRUE)
        BY <3>8, <4>1
      <4>3. Received(old, m) = Message(p.text \o e.text, TRUE)
        BY <3>3, <3>7 DEF Received
      <4> QED BY <4>2, <4>3
    <3> QED BY <3>6, <3>7
  <2>7. ApplyEvent(P, e) = [known |-> TRUE, session |-> T.session, latest |-> after,
                            answers |-> [P.answers EXCEPT ![t] = Received(P.answers[t], e)]]
    <3>1. ApplyEvent(P, e) =
             [known |-> TRUE, session |-> P.session,
              latest |-> LatestFromMessage(P.latest, e),
              answers |-> [P.answers EXCEPT ![e.turn] = Received(P.answers[e.turn], e)]]
      BY <1>1, <2>2, AppliedMessage
    <3> QED BY <2>4, <2>5, <3>1 DEF t
  <2>8. ApplyEvent(T, m) = [known |-> TRUE, session |-> T.session, latest |-> after,
                            answers |-> [T.answers EXCEPT ![t] = Received(old, m)]]
    <3>1. m.type = "message-sent" /\ m.turn = t
      BY <1>3
    <3> QED BY <1>4, <1>6, <2>5, <3>1, AppliedMessage
  <2>9. [P.answers EXCEPT ![t] = Received(P.answers[t], e)]
          = [T.answers EXCEPT ![t] = Received(old, m)]
    <3>1. P.answers = [T.answers EXCEPT ![t] = Received(old, p)]
      BY <2>3
    <3> HIDE DEF P, old
    <3> QED BY <2>1, <2>4, <2>6, <3>1
  <2> HIDE DEF about, old, after, latest
  <2>10. ApplyEvent(T, m) = ApplyEvent(P, e)
    <3> HIDE DEF P
    <3> QED BY <2>7, <2>8, <2>9
  <2> QED BY <1>4, <2>10 DEF m
<1> QED BY <1>5, <1>6
LEMMA FrontAndLast ==
    ASSUME NEW S, NEW s \in Seq(S), s # <<>>
    PROVE  Front(s) \in Seq(S) /\ Last(s) \in S /\ s = Append(Front(s), Last(s))
<1>1. Len(s) \in Nat \ {0} /\ Last(s) \in S
  BY DEF Last
<1>2. /\ Front(s) \in Seq(S) /\ Len(Front(s)) = Len(s) - 1
      /\ \A i \in 1..(Len(s) - 1) : Front(s)[i] = s[i]
  <2>1. \A n \in 0..Len(s) : /\ SubSeq(s, 1, n) \in Seq(S) /\ Len(SubSeq(s, 1, n)) = n
                             /\ \A i \in 1..n : SubSeq(s, 1, n)[i] = s[i]
    OBVIOUS
  <2>2. Len(s) - 1 \in 0..Len(s)
    BY <1>1
  <2> QED BY <2>1, <2>2 DEF Front
<1>3. /\ Append(Front(s), Last(s)) \in Seq(S) /\ Len(Append(Front(s), Last(s))) = Len(s)
      /\ \A i \in 1..Len(s) : Append(Front(s), Last(s))[i] = s[i]
  <2>1. \A a \in Seq(S) : \A x \in S :
          /\ Append(a, x) \in Seq(S) /\ Len(Append(a, x)) = Len(a) + 1
          /\ \A i \in 1..Len(a) : Append(a, x)[i] = a[i]
          /\ Append(a, x)[Len(a) + 1] = x
    OBVIOUS
  <2>2. \A i \in 1..Len(s) : i \in 1..(Len(s) - 1) \/ i = Len(s)
    BY <1>1
  <2> QED BY <1>1, <1>2, <2>1, <2>2 DEF Last
<1>4. \A a, b \in Seq(S) : Len(a) = Len(b) /\ (\A i \in 1..Len(a) : a[i] = b[i]) => a = b
  OBVIOUS
<1> QED BY <1>1, <1>2, <1>3, <1>4

LEMMA AppendHas ==
    ASSUME NEW S, NEW s \in Seq(S), NEW x \in S
    PROVE  /\ Append(s, x) \in Seq(S) /\ Append(s, x) # <<>> /\ Last(Append(s, x)) = x
           /\ Len(Append(s, x)) = Len(s) + 1 /\ Append(s, x)[Len(s) + 1] = x
           /\ \A i \in 1..Len(s) : Append(s, x)[i] = s[i]
BY DEF Last

LEMMA CoalescedType ==
    ASSUME NEW s \in Seq(UiEvents), NEW e \in UiEvents
    PROVE  CoalesceInto(s, e) \in Seq(UiEvents)
<1>1. CASE s # <<>> /\ SameMessage(Last(s), e)
  <2> DEFINE text == IF ~e.streaming /\ e.text # <<>> THEN e.text ELSE Last(s).text \o e.text
  <2>1. Front(s) \in Seq(UiEvents) /\ Last(s) \in UiEvents
    BY <1>1, FrontAndLast
  <2>2. Last(s).text \in Texts /\ e.text \in Texts /\ e.type = "message-sent"
    BY <1>1, <2>1, UiFields DEF SameMessage
  <2>3. text \in Texts
    <3>1. \A a, b \in Texts : a \o b \in Texts
      BY DEF Texts
    <3> QED BY <2>2, <3>1
  <2> HIDE DEF text
  <2>4. e \in [type : {"message-sent"}, turn : Turns, text : Texts, streaming : BOOLEAN]
    BY <2>2 DEF UiEvents
  <2>5. [e EXCEPT !.text = text] \in UiEvents
    BY <2>3, <2>4 DEF UiEvents
  <2>6. CoalesceInto(s, e) = Append(Front(s), [e EXCEPT !.text = text])
    BY <1>1 DEF CoalesceInto, SameMessage, text
  <2> QED BY <2>1, <2>5, <2>6, AppendHas
<1>2. CASE ~(s # <<>> /\ SameMessage(Last(s), e))
  <2>1. CoalesceInto(s, e) = Append(s, e)
    BY <1>2 DEF CoalesceInto, SameMessage
  <2> QED BY <2>1, AppendHas
<1> QED BY <1>1, <1>2

Coalesced1By1(f, s) ==
    /\ f \in [0..Len(s) -> Seq(UiEvents)]
    /\ f[0] = <<>>
    /\ \A k \in 1..Len(s) : f[k] = CoalesceInto(f[k - 1], s[k])

LEMMA CoalesceRuns ==
    ASSUME NEW s \in Seq(UiEvents)
    PROVE  \E f : Coalesced1By1(f, s) /\ Coalesce(s) = f[Len(s)]
<1> DEFINE n == Len(s)
           step == [k \in 1..n |-> [x \in Seq(UiEvents) |-> CoalesceInto(x, s[k])]]
           Def(g) == [k \in 0..n |-> IF k = 0 THEN <<>> ELSE CoalesceInto(g[k - 1], s[k])]
           after == CHOOSE g : g = Def(g)
<1>1. n \in Nat /\ (\A k \in 1..n : s[k] \in UiEvents) /\ <<>> \in Seq(UiEvents)
  OBVIOUS
<1>2. step \in [1..n -> [Seq(UiEvents) -> Seq(UiEvents)]]
  BY <1>1, CoalescedType
<1> HIDE DEF n
<1>3. PICK f \in [0..n -> Seq(UiEvents)] : IsFold(f, <<>>, step, n)
  <2> HIDE DEF step
  <2> QED BY <1>1, <1>2, FoldExists
<1>4. \A k \in 1..n : k - 1 \in 0..n /\ f[k - 1] \in Seq(UiEvents)
  BY <1>1
<1>5. f[0] = <<>> /\ \A k \in 1..n : f[k] = CoalesceInto(f[k - 1], s[k])
  BY <1>3, <1>4 DEF IsFold
<1>6. f = Def(f)
  <2>1. \A k \in 0..n : k = 0 \/ k \in 1..n
    BY <1>1
  <2> QED BY <1>5, <2>1
<1>7. after = Def(after)
  <2> HIDE DEF Def
  <2> QED BY <1>6
<1>8. Coalesce(s) = after[n]
  BY DEF Coalesce, n
<1> HIDE DEF after
<1>9. after[0] = <<>> /\ \A k \in 1..n : after[k] = CoalesceInto(after[k - 1], s[k])
  BY <1>1, <1>7
<1>10. \A k \in 0..n : after[k] = f[k]
  <2>1. StepAlike(after, f, n)
    BY <1>5, <1>9 DEF StepAlike
  <2> QED BY <1>1, <2>1, SameSteps
<1>11. Coalesce(s) = f[n]
  BY <1>1, <1>8, <1>10
<1> QED BY <1>5, <1>11 DEF Coalesced1By1, n

LEMMA CoalesceType ==
    ASSUME NEW s \in Seq(UiEvents)
    PROVE  Coalesce(s) \in Seq(UiEvents)
<1>1. PICK f : Coalesced1By1(f, s) /\ Coalesce(s) = f[Len(s)]
  BY CoalesceRuns
<1>2. Len(s) \in 0..Len(s)
  OBVIOUS
<1> QED BY <1>1, <1>2 DEF Coalesced1By1

(* No final message stands next to another part of its message. *)
Mergeable(s) ==
    \A i \in 1..(Len(s) - 1) :
      SameMessage(s[i], s[i + 1]) => s[i].streaming /\ s[i + 1].streaming

(* Two events that merge with the same others. *)
Alike(p, e) ==
    /\ p.type = e.type /\ p.turn = e.turn
    /\ e.type = "message-sent" => (p.streaming <=> e.streaming)

LEMMA CoalesceStep ==
    ASSUME NEW T \in Threads, NEW s \in Seq(UiEvents), NEW e \in UiEvents,
           s # <<>> /\ SameMessage(Last(s), e) => Last(s).streaming /\ e.streaming
    PROVE  /\ ApplyEvents(T, CoalesceInto(s, e)) = ApplyEvent(ApplyEvents(T, s), e)
           /\ CoalesceInto(s, e) # <<>> /\ Alike(Last(CoalesceInto(s, e)), e)
<1>1. CASE s # <<>> /\ SameMessage(Last(s), e)
  <2> DEFINE front == Front(s)
             p == Last(s)
             m == Merged(p, e)
  <2>1. front \in Seq(UiEvents) /\ p \in UiEvents /\ s = Append(front, p)
    BY <1>1, FrontAndLast
  <2>2. SameMessage(p, e) /\ p.streaming /\ e.streaming
    BY <1>1
  <2>3. CoalesceInto(s, e) = Append(front, m)
    BY <1>1, <2>2 DEF CoalesceInto, SameMessage, Merged
  <2>4. ApplyEvents(T, front) \in Threads
    BY <2>1, ApplyEventsType
  <2>5. m.type = e.type /\ m.turn = e.turn /\ (m.streaming <=> e.streaming)
    <3>1. e \in [type : {"message-sent"}, turn : Turns, text : Texts, streaming : BOOLEAN]
      BY <2>2, UiFields DEF UiEvents, SameMessage
    <3> QED BY <3>1 DEF Merged
  <2> HIDE DEF front, p, m
  <2>6. /\ m \in UiEvents
        /\ ApplyEvent(ApplyEvents(T, front), m)
             = ApplyEvent(ApplyEvent(ApplyEvents(T, front), p), e)
    BY <2>1, <2>2, <2>4, PartsMerge DEF m
  <2>7. ApplyEvents(T, Append(front, m)) = ApplyEvent(ApplyEvents(T, front), m)
    BY <2>1, <2>6, ApplyAppend
  <2>8. ApplyEvents(T, s) = ApplyEvent(ApplyEvents(T, front), p)
    BY <2>1, ApplyAppend
  <2>9. Append(front, m) # <<>> /\ Last(Append(front, m)) = m
    BY <2>1, <2>6, AppendHas
  <2> QED BY <2>3, <2>5, <2>6, <2>7, <2>8, <2>9 DEF Alike
<1>2. CASE ~(s # <<>> /\ SameMessage(Last(s), e))
  <2>1. CoalesceInto(s, e) = Append(s, e)
    BY <1>2 DEF CoalesceInto, SameMessage
  <2>2. Append(s, e) # <<>> /\ Last(Append(s, e)) = e
    BY AppendHas
  <2> QED BY <2>1, <2>2, ApplyAppend DEF Alike
<1> QED BY <1>1, <1>2

(* coalesceOrchestrationUiEvents: a batch in which only streamed parts are *)
(* neighbours does to any thread, coalesced, what it does one by one.      *)
LEMMA CoalesceIsTransparent ==
    ASSUME NEW T \in Threads, NEW s \in Seq(UiEvents), Mergeable(s)
    PROVE  ApplyEvents(T, Coalesce(s)) = ApplyEvents(T, s)
<1> DEFINE n == Len(s)
<1>0. n \in Nat /\ \A k \in 1..n : s[k] \in UiEvents
  OBVIOUS
<1>1. PICK f : Coalesced1By1(f, s) /\ Coalesce(s) = f[n]
  BY CoalesceRuns
<1>2. PICK a : Applied1By1(a, T, s) /\ ApplyEvents(T, s) = a[n]
  BY ApplyRuns
<1> DEFINE G == {k \in 0..n : /\ ApplyEvents(T, f[k]) = a[k]
                              /\ k = 0 => f[k] = <<>>
                              /\ k # 0 => f[k] # <<>> /\ Alike(Last(f[k]), s[k])}
<1> HIDE DEF n
<1>3. /\ f[0] = <<>> /\ a[0] = T
      /\ \A k \in 0..n : f[k] \in Seq(UiEvents)
      /\ \A k \in 1..n : f[k] = CoalesceInto(f[k - 1], s[k])
      /\ \A k \in 1..n : a[k] = ApplyEvent(a[k - 1], s[k])
  BY <1>1, <1>2 DEF Coalesced1By1, Applied1By1, n
<1>4. 0 \in G
  BY <1>0, <1>3, ApplyNone
<1>5. ASSUME NEW k \in 1..n, k - 1 \in G PROVE k \in G
  <2> DEFINE before == f[k - 1]
             e == s[k]
  <2>1. k - 1 \in 0..n /\ k \in 0..n /\ k # 0 /\ e \in UiEvents
    BY <1>0
  <2>2. before \in Seq(UiEvents) /\ f[k] = CoalesceInto(before, e)
        /\ a[k] = ApplyEvent(a[k - 1], e)
    BY <1>3, <2>1
  <2>3. /\ ApplyEvents(T, before) = a[k - 1]
        /\ k - 1 = 0 => before = <<>>
        /\ k - 1 # 0 => Alike(Last(before), s[k - 1])
    BY <1>5
  <2>4. before # <<>> /\ SameMessage(Last(before), e) => Last(before).streaming /\ e.streaming
    <3> SUFFICES ASSUME before # <<>>, SameMessage(Last(before), e)
                 PROVE  Last(before).streaming /\ e.streaming
      OBVIOUS
    <3>1. k - 1 # 0 /\ k - 1 \in 1..(n - 1) /\ (k - 1) + 1 = k
      BY <1>0, <2>1, <2>3
    <3>2. Alike(Last(before), s[k - 1])
      BY <2>3, <3>1
    <3>3. SameMessage(s[k - 1], s[k])
      BY <3>2 DEF Alike, SameMessage
    <3>4. s[k - 1].streaming /\ s[k].streaming
      BY <3>1, <3>3 DEF Mergeable, n
    <3>5. s[k - 1].type = "message-sent"
      BY <3>3 DEF SameMessage
    <3> QED BY <3>2, <3>4, <3>5 DEF Alike
  <2> HIDE DEF before, e
  <2>5. /\ ApplyEvents(T, CoalesceInto(before, e)) = ApplyEvent(ApplyEvents(T, before), e)
        /\ CoalesceInto(before, e) # <<>> /\ Alike(Last(CoalesceInto(before, e)), e)
    BY <2>1, <2>2, <2>4, CoalesceStep
  <2> QED BY <2>1, <2>2, <2>3, <2>5 DEF e
<1>6. 0..n \subseteq G
  <2> HIDE DEF G
  <2>1. \A k \in 1..n : k - 1 \in G => k \in G
    BY <1>5
  <2> QED BY ONLY <1>0, <1>4, <2>1, StepByStep
<1>7. n \in G
  BY <1>0, <1>6
<1> QED BY <1>1, <1>2, <1>7
-----------------------------------------------------------------------------
(* The chain of reconciles *)

LEMMA LeastIn ==
    ASSUME NEW n \in Nat, NEW S \in SUBSET (1..n), S # {}
    PROVE  Min(S) \in S
<1>1. \E x \in S : \A y \in S : x <= y
  <2> SUFFICES ASSUME \A x \in S : \E y \in S : y < x
               PROVE  FALSE
    <3>1. \A x, y \in S : x <= y \/ y < x
      OBVIOUS
    <3> QED BY <3>1
  <2> DEFINE Below == {k \in 0..n : \A x \in S : k < x}
  <2>1. 0 \in Below
    OBVIOUS
  <2>2. ASSUME NEW k \in 1..n, k - 1 \in Below PROVE k \in Below
    <3>1. \A x \in S : k <= x
      BY <2>2
    <3>2. k \notin S
      BY <3>1
    <3> QED BY <3>1, <3>2
  <2> HIDE DEF Below
  <2>3. 0..n \subseteq Below
    <3>1. \A k \in 1..n : k - 1 \in Below => k \in Below
      BY <2>2
    <3> QED BY ONLY <2>1, <3>1, n \in Nat, StepByStep
  <2>4. PICK x \in S : TRUE
    OBVIOUS
  <2>5. x \in Nat /\ x \in Below
    BY <2>3
  <2>6. x < x
    BY <2>5 DEF Below
  <2> QED BY <2>5, <2>6
<1> QED BY <1>1 DEF Min

(* What the subscription will be once the chain has run. *)
Target(r) == IF r.chain # <<>> THEN Last(r.chain) ELSE r.tracked

Rested(r, result) ==
    /\ r.job = "idle"
    /\ result = [router |-> [r EXCEPT !.chain = <<>>], asks |-> <<>>]

Started(r, result) ==
    /\ r.job = "idle"
    /\ result.router.tracked # r.tracked
    /\ ~result.router.hydrated /\ ~result.router.asking
    /\ IF result.router.tracked
       THEN result.router.job = "opening" /\ result.asks = <<"open">>
       ELSE result.router.job = "closing" /\ result.asks = <<"close">>

LEMMA RouterFields ==
    ASSUME NEW r \in Routers
    PROVE  /\ r.tracked \in BOOLEAN /\ r.hydrated \in BOOLEAN /\ r.asking \in BOOLEAN
           /\ r.job \in Jobs /\ r.chain \in Seq(BOOLEAN)
BY DEF Routers

LEMMA ChainRuns ==
    ASSUME NEW r \in Routers
    PROVE  /\ RunChain(r).router \in Routers /\ RunChain(r).asks \in Seq(Requests)
           /\ Target(RunChain(r).router) = Target(r)
           /\ \/ r.job # "idle" /\ RunChain(r) = [router |-> r, asks |-> <<>>]
              \/ Rested(r, RunChain(r))
              \/ Started(r, RunChain(r))
<1> DEFINE chain == r.chain
           n == Len(chain)
           changing == {i \in DOMAIN chain : chain[i] # r.tracked}
<1>1. /\ chain \in Seq(BOOLEAN) /\ n \in Nat /\ DOMAIN chain = 1..n /\ r.tracked \in BOOLEAN
      /\ \A i \in 1..n : chain[i] \in BOOLEAN
  BY RouterFields
<1>2. CASE r.job # "idle"
  <2>1. RunChain(r) = [router |-> r, asks |-> <<>>]
    BY <1>2 DEF RunChain
  <2>2. <<>> \in Seq(Requests)
    OBVIOUS
  <2> QED BY <1>2, <2>1, <2>2
<1>3. CASE r.job = "idle" /\ changing = {}
  <2>1. RunChain(r) = [router |-> [r EXCEPT !.chain = <<>>], asks |-> <<>>]
    BY <1>3 DEF RunChain
  <2>2. <<>> \in Seq(Requests) /\ <<>> \in Seq(BOOLEAN)
    OBVIOUS
  <2>3. [r EXCEPT !.chain = <<>>] \in Routers
    BY <2>2 DEF Routers
  <2>4. chain # <<>> => Last(chain) = r.tracked
    <3>1. chain # <<>> => n \in 1..n
      BY <1>1
    <3> QED BY <1>1, <1>3, <3>1 DEF Last
  <2>5. Target([r EXCEPT !.chain = <<>>]) = r.tracked /\ Target(r) = r.tracked
    <3>1. [r EXCEPT !.chain = <<>>].chain = <<>> /\ [r EXCEPT !.chain = <<>>].tracked = r.tracked
      BY DEF Routers
    <3> QED BY <2>4, <3>1 DEF Target
  <2> QED BY <1>3, <2>1, <2>2, <2>3, <2>5 DEF Rested
<1>4. CASE r.job = "idle" /\ changing # {}
  <2> DEFINE i == Min(changing)
             rest == SubSeq(chain, i, n)
             want == Head(rest)
             after == [tracked |-> want, hydrated |-> FALSE, asking |-> FALSE,
                       job |-> IF want THEN "opening" ELSE "closing", chain |-> Tail(rest)]
             asked == <<IF want THEN "open" ELSE "close">>
  <2>1. i \in 1..n /\ chain[i] # r.tracked
    <3>1. changing \in SUBSET (1..n)
      BY <1>1
    <3>2. Min(changing) \in changing
      <4> HIDE DEF changing
      <4> QED BY <1>1, <1>4, <3>1, LeastIn
    <3> QED BY <1>1, <3>2
  <2>2. /\ rest \in Seq(BOOLEAN) /\ Len(rest) = n - i + 1
        /\ \A k \in 1..(n - i + 1) : rest[k] = chain[i + k - 1]
    <3> HIDE DEF i, chain, n
    <3>1. \A s \in Seq(BOOLEAN) : \A a \in 1..Len(s) :
            /\ SubSeq(s, a, Len(s)) \in Seq(BOOLEAN) /\ Len(SubSeq(s, a, Len(s))) = Len(s) - a + 1
            /\ \A k \in 1..(Len(s) - a + 1) : SubSeq(s, a, Len(s))[k] = s[a + k - 1]
      OBVIOUS
    <3> QED BY <1>1, <2>1, <3>1 DEF n
  <2>3. /\ rest # <<>> /\ want = chain[i] /\ want \in BOOLEAN
        /\ Tail(rest) \in Seq(BOOLEAN) /\ Len(Tail(rest)) = n - i
        /\ \A k \in 1..(n - i) : Tail(rest)[k] = chain[i + k]
    <3> HIDE DEF i, chain, n, rest
    <3>1. n - i + 1 \in Nat \ {0} /\ i \in Nat /\ n \in Nat /\ i + 1 - 1 = i
      BY <1>1, <2>1
    <3>2. rest # <<>> /\ Head(rest) = rest[1] /\ rest[1] = chain[i]
      BY <2>2, <3>1
    <3>3. /\ Tail(rest) \in Seq(BOOLEAN) /\ Len(Tail(rest)) = Len(rest) - 1
          /\ \A k \in 1..(Len(rest) - 1) : Tail(rest)[k] = rest[k + 1]
      BY <2>2, <3>2
    <3>4. \A k \in 1..(n - i) : k + 1 \in 1..(n - i + 1) /\ i + (k + 1) - 1 = i + k
      BY <3>1
    <3>5. Len(rest) - 1 = n - i
      BY <2>2, <3>1
    <3> QED BY <1>1, <2>1, <2>2, <3>2, <3>3, <3>4, <3>5
  <2>4. RunChain(r) = [router |-> after, asks |-> asked]
    <3>1. r = [tracked |-> r.tracked, hydrated |-> r.hydrated, asking |-> r.asking,
               job |-> r.job, chain |-> r.chain]
      BY DEF Routers
    <3>2. RunChain(r) = Reconcile([r EXCEPT !.chain = rest])
      BY <1>4 DEF RunChain
    <3>3. [r EXCEPT !.chain = rest].chain = rest
      BY <3>1
    <3> HIDE DEF rest
    <3> QED BY <3>2, <3>3 DEF Reconcile
  <2>5. after \in Routers /\ asked \in Seq(Requests)
    <3>1. (IF want THEN "opening" ELSE "closing") \in Jobs
      BY DEF Jobs
    <3>2. (IF want THEN "open" ELSE "close") \in Requests
      BY DEF Requests
    <3> HIDE DEF want, rest
    <3> QED BY <2>3, <3>1, <3>2 DEF Routers
  <2>6. Target(after) = Target(r)
    <3>1. chain # <<>> /\ Target(r) = chain[n]
      BY <1>1, <2>1 DEF Target, Last
    <3>2. CASE i = n
      <4>1. Tail(rest) = <<>>
        <5>1. Len(Tail(rest)) = 0
          BY <1>1, <2>3, <3>2
        <5>2. \A s \in Seq(BOOLEAN) : Len(s) = 0 => s = <<>>
          OBVIOUS
        <5> HIDE DEF rest
        <5> QED BY <2>3, <5>1, <5>2
      <4>2. Target(after) = want
        BY <4>1 DEF Target
      <4> QED BY <2>3, <3>1, <3>2, <4>2
    <3>3. CASE i # n
      <4>1. n - i \in 1..(n - i) /\ i + (n - i) = n
        BY <1>1, <2>1, <3>3
      <4>2. Tail(rest) # <<>> /\ Last(Tail(rest)) = chain[n]
        <5> HIDE DEF rest, i, chain, n
        <5> QED BY <2>3, <4>1 DEF Last
      <4> QED BY <3>1, <4>2 DEF Target
    <3> QED BY <3>2, <3>3
  <2>7. Started(r, RunChain(r))
    <3> HIDE DEF want, rest, i
    <3>1. want # r.tracked
      BY <2>1, <2>3
    <3> QED BY <1>4, <2>4, <3>1 DEF Started
  <2> HIDE DEF after, asked
  <2>8. RunChain(r).router = after /\ RunChain(r).asks = asked
    BY <2>4
  <2> QED BY <2>5, <2>6, <2>7, <2>8
<1> QED BY <1>2, <1>3, <1>4
-----------------------------------------------------------------------------
(* Types *)

LEMMA ConcatType ==
    ASSUME NEW S, NEW a \in Seq(S), NEW b \in Seq(S)
    PROVE  a \o b \in Seq(S)
OBVIOUS

LEMMA HeadAndTail ==
    ASSUME NEW S, NEW s \in Seq(S), s # <<>>
    PROVE  /\ Head(s) \in S /\ Head(s) = s[1] /\ 1 \in DOMAIN s
           /\ Tail(s) \in Seq(S) /\ Len(Tail(s)) = Len(s) - 1 /\ Len(s) \in Nat \ {0}
           /\ \A i \in DOMAIN Tail(s) : i \in Nat \ {0} /\ i + 1 \in DOMAIN s
                                        /\ Tail(s)[i] = s[i + 1]
OBVIOUS

LEMMA SingleType ==
    ASSUME NEW S, NEW x \in S
    PROVE  <<x>> \in Seq(S)
OBVIOUS

LEMMA ThreadSnapshotType ==
    ASSUME TypeOK
    PROVE  ThreadSnapshot \in Snapshots
<1>1. \A t \in Turns :
        (IF output[t] = <<>> THEN NoMessage ELSE Message(output[t], TRUE)) \in Messages
  BY NothingType, MessageType DEF TypeOK
<1> QED BY <1>1 DEF ThreadSnapshot, Snapshots

LEMMA SnapshotFields ==
    ASSUME NEW s \in Snapshots
    PROVE  /\ s.latest \in Latest /\ s.latest.state \in {"none", "unknown"}
           /\ s.answers \in [Turns -> Messages]
<1>1. NoLatest \in Latest /\ [NoLatest EXCEPT !.state = "unknown"] \in Latest
  BY DEF NoLatest, Latest, NoTurn
<1>2. s.latest \in {NoLatest, [NoLatest EXCEPT !.state = "unknown"]}
  BY DEF Snapshots
<1>3. NoLatest.state = "none" /\ [NoLatest EXCEPT !.state = "unknown"].state = "unknown"
  BY DEF NoLatest
<1>4. s.answers \in [Turns -> Messages]
  BY DEF Snapshots
<1> QED BY <1>1, <1>2, <1>3, <1>4

LEMMA ShellSyncType ==
    ASSUME NEW T \in Threads
    PROVE  SyncShellSnapshot(T) \in Threads
<1>1. (IF T.known THEN T.answers ELSE [t \in Turns |-> NoMessage]) \in [Turns -> Messages]
  BY NothingType, KnownFields
<1>2. "idle" \in SessionStatuses
  BY DEF SessionStatuses
<1> QED BY <1>1, <1>2, NothingType, KnownType DEF SyncShellSnapshot

LEMMA ThreadSyncType ==
    ASSUME NEW T \in Threads, NEW s \in Snapshots
    PROVE  SyncThreadSnapshot(T, s) \in Threads
<1>1. "idle" \in SessionStatuses /\ s.latest \in Latest /\ s.answers \in [Turns -> Messages]
  BY SnapshotFields DEF SessionStatuses
<1>2. CASE ~T.known
  BY <1>1, <1>2, KnownType DEF SyncThreadSnapshot
<1>3. CASE T.known
  <2> DEFINE preserve == ShouldPreserveRunningTurn(T)
             session == IF preserve THEN T.session ELSE "idle"
             latest == IF preserve /\ s.latest = NoLatest THEN T.latest ELSE s.latest
             answers == [t \in Turns |-> MergeMessage(T, t, s.answers[t])]
  <2>1. /\ T.session \in SessionStatuses /\ T.latest \in Latest
        /\ T.answers \in [Turns -> Messages]
    BY <1>3, KnownFields
  <2>2. session \in SessionStatuses /\ latest \in Latest
    <3> HIDE DEF preserve
    <3> QED BY <1>1, <2>1
  <2>3. \A t \in Turns : MergeMessage(T, t, s.answers[t]) \in Messages
    BY <1>1, <2>1, NothingType DEF MergeMessage
  <2>4. answers \in [Turns -> Messages]
    BY <2>3
  <2>5. SyncThreadSnapshot(T, s)
          = [known |-> TRUE, session |-> session, latest |-> latest, answers |-> answers]
    BY <1>3 DEF SyncThreadSnapshot
  <2> HIDE DEF session, latest, answers
  <2> QED BY <2>2, <2>4, <2>5, KnownType
<1> QED BY <1>2, <1>3

LEMMA EventFields ==
    ASSUME NEW e \in Events
    PROVE  /\ e.turn \in Turns
           /\ \/ e.type \in {"TurnStarted", "TurnCompleted", "TurnFailed", "TurnCancelled"}
              \/ e.type = "MessageDeltaAppended" /\ e.text \in Texts
BY DEF Events

LEMMA UiType ==
    /\ \A t \in Turns \cup {NoTurn} : \A s \in SessionStatuses : SessionSet(t, s) \in UiEvents
    /\ \A t \in Turns : \A text \in Texts : \A b \in BOOLEAN : MessageSent(t, text, b) \in UiEvents
BY DEF SessionSet, MessageSent, UiEvents

(* The push adapter: one event, two, or none. *)
LEMMA AdaptCases ==
    ASSUME NEW e \in Events
    PROVE  \/ Adapt(e) = <<>>
           \/ e.type = "TurnStarted" /\ Adapt(e) = <<SessionSet(e.turn, "running")>>
           \/ /\ e.type = "MessageDeltaAppended" /\ e.turn \in seeded
              /\ Adapt(e) = <<MessageSent(e.turn, e.text, TRUE)>>
           \/ /\ e.type = "TurnCompleted" /\ e.turn \in seeded
              /\ Adapt(e) = <<SessionSet(NoTurn, "ready"), MessageSent(e.turn, Answer, FALSE)>>
           \/ /\ e.type = "TurnFailed" /\ e.turn \in seeded
              /\ Adapt(e) = <<SessionSet(NoTurn, "error")>>
BY EventFields DEF Adapt

LEMMA AdaptType ==
    ASSUME NEW e \in Events
    PROVE  Adapt(e) \in Seq(UiEvents)
<1>1. {"running", "ready", "error"} \subseteq SessionStatuses
  BY DEF SessionStatuses
<1>2. e.turn \in Turns
  BY EventFields
<1>3. /\ SessionSet(e.turn, "running") \in UiEvents
      /\ SessionSet(NoTurn, "ready") \in UiEvents /\ SessionSet(NoTurn, "error") \in UiEvents
      /\ MessageSent(e.turn, Answer, FALSE) \in UiEvents
      /\ e.type = "MessageDeltaAppended" => MessageSent(e.turn, e.text, TRUE) \in UiEvents
  BY <1>1, <1>2, UiType, EventFields, AnswerType
<1>4. /\ <<>> \in Seq(UiEvents)
      /\ \A a \in UiEvents : <<a>> \in Seq(UiEvents)
      /\ \A a, b \in UiEvents : <<a, b>> \in Seq(UiEvents)
  OBVIOUS
<1> QED BY <1>3, <1>4, AdaptCases

LEMMA QueueType ==
    ASSUME TypeOK, NEW events \in Seq(UiEvents), Queue(events)
    PROVE  /\ pending' \in Seq(UiEvents) /\ thread' \in Threads
           /\ flushed' \subseteq Turns \cup {NoTurn}
<1>1. pending \in Seq(UiEvents) /\ thread \in Threads /\ flushed \subseteq Turns \cup {NoTurn}
  BY DEF TypeOK
<1>2. pending \o events \in Seq(UiEvents) /\ <<>> \in Seq(UiEvents)
  BY <1>1
<1>3. Coalesce(pending \o events) \in Seq(UiEvents)
  BY <1>2, CoalesceType
<1>4. ApplyEvents(thread, Coalesce(pending \o events)) \in Threads
  BY <1>1, <1>3, ApplyEventsType
<1>5. {events[i].turn : i \in DOMAIN events} \subseteq Turns \cup {NoTurn}
  <2>1. \A i \in DOMAIN events : events[i] \in UiEvents
    OBVIOUS
  <2> QED BY <2>1, UiFields
<1> QED BY <1>1, <1>2, <1>4, <1>5 DEF Queue

LEMMA FrameFields ==
    ASSUME NEW f \in Frames
    PROVE  /\ f.kind = "event" => f.event \in Events
           /\ f.kind = "thread" => f.snapshot \in Snapshots
           /\ f.kind = "response" => f.request \in Requests
BY DEF Frames

LEMMA FrameType ==
    /\ [kind |-> "welcome"] \in Frames /\ [kind |-> "shell"] \in Frames
    /\ \A e \in Events : [kind |-> "event", event |-> e] \in Frames
    /\ \A s \in Snapshots : [kind |-> "thread", snapshot |-> s] \in Frames
    /\ \A r \in Requests : [kind |-> "response", request |-> r] \in Frames
BY DEF Frames

LEMMA ServingFields ==
    ASSUME NEW s \in Servings, s.request # "none"
    PROVE  /\ s.request \in Requests
           /\ s.request \in {"open", "poll"} => s.snapshot \in Snapshots
BY DEF Servings, NoRequest, Requests

LEMMA TypeInit == Init => TypeOK
<1> SUFFICES ASSUME Init PROVE TypeOK
  OBVIOUS
<1>1. /\ <<>> \in Texts /\ <<>> \in Seq(Events) /\ <<>> \in Seq(Frames)
      /\ <<>> \in Seq(UiEvents) /\ <<>> \in Seq(BOOLEAN) /\ Len(<<>>) = 0
  BY DEF Texts
<1>2. <<"shell">> \in Seq(Requests)
  BY SingleType DEF Requests
<1>3. NoRequest \in Servings /\ FreshRouter \in Routers
  BY <1>1 DEF Servings, FreshRouter, Routers, Jobs
<1>4. /\ status \in [Turns -> Statuses] /\ output \in [Turns -> Texts]
      /\ streams \in [Turns -> BOOLEAN]
  BY <1>1, ClientSyncAssumption DEF Init, Statuses
<1>5. wanted \in BOOLEAN
  BY ClientSyncAssumption DEF Init
<1>6. /\ worker \in Seq(Events) /\ stream \in Seq(Events) /\ Len(stream) <= 1
      /\ bus \in Seq(Events) /\ up \in Seq(Requests) /\ down \in Seq(Frames)
      /\ serving \in Servings /\ pending \in Seq(UiEvents) /\ router \in Routers
      /\ delivery \in Deliveries
  BY <1>1, <1>2, <1>3 DEF Init, Deliveries
<1>7. /\ online \in BOOLEAN /\ subscribed \in BOOLEAN /\ thread \in Threads
      /\ drops \in Nat /\ reloads \in Nat /\ moves \in Nat
      /\ seeded \subseteq Turns /\ flushed \subseteq Turns \cup {NoTurn}
  BY NothingType DEF Init
<1> QED BY <1>4, <1>5, <1>6, <1>7 DEF TypeOK
LEMMA ArrivesType ==
    ASSUME TypeOK, NEW kind, Arrives(kind)
    PROVE  /\ Head(down) \in Frames /\ Head(down).kind = kind
           /\ down' = Tail(down) /\ down' \in Seq(Frames)
BY HeadAndTail DEF TypeOK, Arrives

(* The router's bookkeeping and what it asks for. *)
LEMMA SettleType ==
    ASSUME TypeOK, NEW r \in Routers, Settle(r)
    PROVE  router' \in Routers /\ up' \in Seq(Requests)
<1>1. RunChain(r).router \in Routers /\ RunChain(r).asks \in Seq(Requests)
  BY ChainRuns
<1>2. up \in Seq(Requests)
  BY DEF TypeOK
<1> QED BY <1>1, <1>2, ConcatType DEF Settle

LEMMA ChainGrows ==
    ASSUME NEW r \in Routers, NEW b \in BOOLEAN
    PROVE  [r EXCEPT !.chain = Append(@, b)] \in Routers
<1>1. Append(r.chain, b) \in Seq(BOOLEAN)
  BY RouterFields, AppendHas
<1> QED BY <1>1 DEF Routers

(* A delivery task that ends leaves at most the broadcast it has in hand. *)
LEMMA LeftInHand ==
    ASSUME TypeOK, DeliveryEnds
    PROVE  /\ Receiving /\ delivery' = "ended" /\ delivery' \in Deliveries
           /\ \/ bus' = <<>>
              \/ bus # <<>> /\ bus' = <<Head(bus)>>
           /\ bus' \in Seq(Events)
<1>1. bus \in Seq(Events) /\ Len(bus) \in Nat
  BY DEF TypeOK
<1>5. Receiving /\ delivery' = "ended" /\ delivery' \in Deliveries /\ <<>> \in Seq(Events)
  BY DEF DeliveryEnds, Deliveries
<1>2. PICK k \in {0, 1} : k <= Len(bus) /\ bus' = SubSeq(bus, 1, k)
  BY DEF DeliveryEnds
<1>3. CASE k = 0
  <2>2. SubSeq(bus, 1, 0) \in Seq(Events) /\ Len(SubSeq(bus, 1, 0)) = 0
    BY <1>1
  <2>3. \A s \in Seq(Events) : Len(s) = 0 => s = <<>>
    OBVIOUS
  <2>1. bus' = <<>>
    BY <1>2, <1>3, <2>2, <2>3
  <2> QED BY <1>5, <2>1
<1>4. CASE k = 1
  <2>1. bus # <<>> /\ Head(bus) = bus[1]
    BY <1>1, <1>2, <1>4
  <2>5. /\ SubSeq(bus, 1, 1) \in Seq(Events) /\ Len(SubSeq(bus, 1, 1)) = 1
        /\ SubSeq(bus, 1, 1)[1] = bus[1]
    BY <1>1, <1>2, <1>4
  <2>6. \A s \in Seq(Events) : Len(s) = 1 => s = <<s[1]>>
    OBVIOUS
  <2>2. bus' = <<bus[1]>>
    BY <1>2, <1>4, <2>5, <2>6
  <2>3. Head(bus) \in Events
    BY <1>1, <2>1, HeadAndTail
  <2>4. bus' \in Seq(Events)
    BY <2>1, <2>2, <2>3, SingleType
  <2> QED BY <1>5, <2>1, <2>2, <2>4
<1> QED BY <1>2, <1>3, <1>4

(* A broadcast is received, or not, or has the delivery task overtaken. *)
LEMMA BroadcastCases ==
    ASSUME TypeOK, NEW e \in Events, Broadcast(e)
    PROVE  /\ bus' \in Seq(Events) /\ delivery' \in Deliveries
           /\ \/ Receiving /\ bus' = Append(bus, e) /\ delivery' = delivery
              \/ ~Receiving /\ bus' = bus /\ delivery' = delivery
              \/ DeliveryEnds
<1>1. bus \in Seq(Events) /\ delivery \in Deliveries
  BY DEF TypeOK
<1>2. DeliveryEnds => bus' \in Seq(Events) /\ delivery' \in Deliveries
  BY LeftInHand
<1>3. Append(bus, e) \in Seq(Events)
  BY <1>1
<1> QED BY <1>1, <1>2, <1>3 DEF Broadcast

LEMMA ServerTypes ==
    ASSUME TypeOK, ServerStep
    PROVE  TypeOK'
<1> USE DEF server, link, limits, client
<1>1. ASSUME NEW t \in Turns, StartTurn(t) \/ CancelTurn(t) PROVE TypeOK'
  <2>1. /\ [type |-> "TurnStarted", turn |-> t] \in Events
        /\ [type |-> "TurnCancelled", turn |-> t] \in Events
    BY DEF Events
  <2>2. \A s \in Statuses : [status EXCEPT ![t] = s] \in [Turns -> Statuses]
    BY DEF TypeOK
  <2>3. {"running", "cancelled"} \subseteq Statuses
    BY DEF Statuses
  <2>4. status' \in [Turns -> Statuses]
    BY <1>1, <2>2, <2>3 DEF StartTurn, CancelTurn
  <2>5. worker' \in Seq(Events)
    <3>1. \A e \in Events : Append(worker, e) \in Seq(Events)
      BY DEF TypeOK
    <3> QED BY <1>1, <2>1, <3>1 DEF StartTurn, CancelTurn
  <2> QED BY <1>1, <2>4, <2>5 DEF TypeOK, StartTurn, CancelTurn
<1>2. ASSUME NEW t \in Turns, ProviderDelta(t) PROVE TypeOK'
  <2> DEFINE piece == <<Len(output[t]) + 1>>
  <2>1. output[t] \in Texts /\ Chunks \in Nat /\ Len(output[t]) \in Nat /\ stream = <<>>
    BY <1>2, ClientSyncAssumption DEF TypeOK, Texts, ProviderDelta, ProviderMayEmit
  <2>2. Len(output[t]) + 1 \in 1..Chunks
    BY <1>2, <2>1 DEF ProviderDelta
  <2>3. piece \in Texts /\ output[t] \o piece \in Texts
    BY <2>1, <2>2 DEF Texts
  <2> HIDE DEF piece
  <2>4. [type |-> "MessageDeltaAppended", turn |-> t, text |-> piece] \in Events
    BY <2>3 DEF Events
  <2>5. output' = [output EXCEPT ![t] = output[t] \o piece] /\ output \in [Turns -> Texts]
    BY <1>2 DEF ProviderDelta, piece, TypeOK
  <2>6. output' \in [Turns -> Texts]
    BY <2>3, <2>5
  <2>7. stream' = Append(<<>>, [type |-> "MessageDeltaAppended", turn |-> t, text |-> piece])
    BY <1>2, <2>1 DEF ProviderDelta, piece
  <2>8. stream' \in Seq(Events) /\ Len(stream') <= 1
    BY <2>4, <2>7
  <2> QED BY <1>2, <2>6, <2>8 DEF TypeOK, ProviderDelta
<1>3. ASSUME NEW t \in Turns, ProviderCompletes(t) \/ ProviderFails(t) PROVE TypeOK'
  <2>1. /\ [type |-> "TurnCompleted", turn |-> t] \in Events
        /\ [type |-> "TurnFailed", turn |-> t] \in Events
    BY DEF Events
  <2>2. \A s \in Statuses : [status EXCEPT ![t] = s] \in [Turns -> Statuses]
    BY DEF TypeOK
  <2>3. {"completed", "failed"} \subseteq Statuses
    BY DEF Statuses
  <2>4. stream = <<>>
    BY <1>3 DEF ProviderCompletes, ProviderFails, ProviderMayEmit
  <2>5. \A e \in Events : Append(<<>>, e) \in Seq(Events) /\ Len(Append(<<>>, e)) <= 1
    OBVIOUS
  <2>6. stream' \in Seq(Events) /\ Len(stream') <= 1
    BY <1>3, <2>1, <2>4, <2>5 DEF ProviderCompletes, ProviderFails
  <2> QED BY <1>3, <2>2, <2>3, <2>6 DEF TypeOK, ProviderCompletes, ProviderFails
<1>4. CASE PublishCommandEvent
  <2>1. worker \in Seq(Events) /\ bus \in Seq(Events) /\ worker # <<>>
    BY <1>4 DEF TypeOK, PublishCommandEvent
  <2>2. Head(worker) \in Events /\ Tail(worker) \in Seq(Events)
    BY <2>1, HeadAndTail
  <2>3. bus' \in Seq(Events) /\ delivery' \in Deliveries
    BY <1>4, <2>2, BroadcastCases DEF PublishCommandEvent
  <2> QED BY <1>4, <2>2, <2>3 DEF TypeOK, PublishCommandEvent
<1>5. CASE PublishProviderEvent
  <2>1. /\ stream \in Seq(Events) /\ bus \in Seq(Events) /\ stream # <<>> /\ Len(stream) <= 1
    BY <1>5 DEF TypeOK, PublishProviderEvent
  <2>2. /\ Head(stream) \in Events /\ Tail(stream) \in Seq(Events)
        /\ Len(Tail(stream)) = Len(stream) - 1 /\ Len(stream) \in Nat
    BY <2>1, HeadAndTail
  <2>3. bus' \in Seq(Events) /\ delivery' \in Deliveries
    BY <1>5, <2>2, BroadcastCases DEF PublishProviderEvent
  <2>4. stream' = Tail(stream) /\ Len(Tail(stream)) <= 1
    BY <1>5, <2>1, <2>2 DEF PublishProviderEvent
  <2> QED BY <1>5, <2>2, <2>3, <2>4 DEF TypeOK, PublishProviderEvent
<1>6. CASE DeliverPush
  <2>1. bus \in Seq(Events) /\ down \in Seq(Frames) /\ bus # <<>>
    BY <1>6 DEF TypeOK, DeliverPush
  <2>2. Head(bus) \in Events /\ Tail(bus) \in Seq(Events)
    BY <2>1, HeadAndTail
  <2>3. down' \in Seq(Frames)
    BY <1>6, <2>1, <2>2, FrameType, AppendHas DEF DeliverPush
  <2> QED BY <1>6, <2>2, <2>3 DEF TypeOK, DeliverPush
<1>7. CASE ServeRequest
  <2>1. up \in Seq(Requests) /\ up # <<>>
    BY <1>7 DEF TypeOK, ServeRequest
  <2>2. Head(up) \in Requests /\ Tail(up) \in Seq(Requests)
    BY <2>1, HeadAndTail
  <2>3. serving' \in Servings
    <3>1. CASE Head(up) \in {"open", "poll"}
      BY <1>7, <3>1, ThreadSnapshotType DEF ServeRequest, Servings
    <3>2. CASE Head(up) \notin {"open", "poll"}
      <4>1. Head(up) \in {"shell", "close"}
        BY <2>2, <3>2 DEF Requests
      <4> QED BY <1>7, <3>2, <4>1 DEF ServeRequest, Servings
    <3> QED BY <3>1, <3>2
  <2>4. subscribed' \in BOOLEAN
    BY <1>7 DEF ServeRequest, TypeOK
  <2> QED BY <1>7, <2>2, <2>3, <2>4 DEF TypeOK, ServeRequest
<1>8. CASE SendResponse
  <2> DEFINE r == serving.request
             told == CASE r = "shell" -> <<[kind |-> "shell"]>>
                       [] r = "close" -> <<>>
                       [] OTHER -> <<[kind |-> "thread", snapshot |-> serving.snapshot]>>
             answer == <<[kind |-> "response", request |-> r]>>
  <2>1. r \in Requests /\ (r \in {"open", "poll"} => serving.snapshot \in Snapshots)
    BY <1>8, ServingFields DEF TypeOK, SendResponse
  <2>2. told \in Seq(Frames)
    <3>1. <<>> \in Seq(Frames)
      OBVIOUS
    <3> QED BY <2>1, <3>1, FrameType, SingleType DEF Requests
  <2>3. answer \in Seq(Frames)
    BY <2>1, FrameType, SingleType
  <2>4. down' = down \o told \o answer /\ serving' = NoRequest /\ down \in Seq(Frames)
    BY <1>8 DEF SendResponse, TypeOK
  <2> HIDE DEF told, answer, r
  <2>5. down' \in Seq(Frames)
    BY <2>2, <2>3, <2>4, ConcatType
  <2>6. NoRequest \in Servings
    BY DEF Servings
  <2> QED BY <1>8, <2>4, <2>5, <2>6 DEF TypeOK, SendResponse
<1>9. CASE OtherPushesOvertake
  BY <1>9, LeftInHand DEF OtherPushesOvertake, TypeOK
<1>10. CASE DeliveryStarts
  BY <1>10 DEF DeliveryStarts, TypeOK, Deliveries
<1> QED BY <1>1, <1>2, <1>3, <1>4, <1>5, <1>6, <1>7, <1>8, <1>9, <1>10 DEF ServerStep

LEMMA ClientTypes ==
    ASSUME TypeOK, ClientStep \/ Drop
    PROVE  TypeOK'
<1> USE DEF server, link, limits, client
<1>0. /\ \A x \in Nat : x + 1 \in Nat
      /\ <<>> \in Seq(Events) /\ <<>> \in Seq(Frames) /\ <<>> \in Seq(Requests)
      /\ <<>> \in Seq(UiEvents) /\ <<>> \in Seq(BOOLEAN) /\ NoRequest \in Servings
  BY DEF Servings
<1>1. CASE ReceiveEvent
  <2>1. Head(down) \in Frames /\ Head(down).kind = "event" /\ down' \in Seq(Frames)
    BY <1>1, ArrivesType DEF ReceiveEvent
  <2>2. Head(down).event \in Events
    BY <2>1, FrameFields
  <2>3. Adapt(Head(down).event) \in Seq(UiEvents) /\ Queue(Adapt(Head(down).event))
    BY <1>1, <2>2, AdaptType DEF ReceiveEvent
  <2>4. /\ pending' \in Seq(UiEvents) /\ thread' \in Threads
        /\ flushed' \subseteq Turns \cup {NoTurn}
    BY <2>3, QueueType
  <2>5. seeded' \subseteq Turns
    BY <1>1, <2>2, EventFields DEF ReceiveEvent, TypeOK
  <2> QED BY <1>1, <2>1, <2>4, <2>5 DEF TypeOK, ReceiveEvent
<1>2. CASE ReceiveShellSnapshot
  <2>1. down' \in Seq(Frames)
    BY <1>2, ArrivesType DEF ReceiveShellSnapshot
  <2>2. thread' \in Threads
    BY <1>2, ShellSyncType DEF ReceiveShellSnapshot, TypeOK
  <2> QED BY <1>2, <2>1, <2>2 DEF TypeOK, ReceiveShellSnapshot
<1>3. CASE ReceiveThreadSnapshot
  <2>1. Head(down) \in Frames /\ Head(down).kind = "thread" /\ down' \in Seq(Frames)
    BY <1>3, ArrivesType DEF ReceiveThreadSnapshot
  <2>2. Head(down).snapshot \in Snapshots
    BY <2>1, FrameFields
  <2>3. thread' \in Threads
    BY <1>3, <2>2, ThreadSyncType DEF ReceiveThreadSnapshot, TypeOK
  <2>4. router' \in Routers
    BY <1>3 DEF ReceiveThreadSnapshot, TypeOK, Routers
  <2> QED BY <1>3, <2>1, <2>3, <2>4 DEF TypeOK, ReceiveThreadSnapshot
<1>4. CASE ReceiveWelcome
  <2>1. down' \in Seq(Frames)
    BY <1>4, ArrivesType DEF ReceiveWelcome
  <2>2. up' \in Seq(Requests)
    BY <1>4, AppendHas DEF ReceiveWelcome, EnsureScopedSubscriptions, TypeOK, Requests
  <2>3. router' \in Routers
    BY <1>4 DEF ReceiveWelcome, EnsureScopedSubscriptions, TypeOK, Routers
  <2> QED BY <1>4, <2>1, <2>2, <2>3 DEF TypeOK, ReceiveWelcome
<1>5. CASE ReceiveResponse
  <2> DEFINE r == Head(down).request
             settled == CASE r = "shell" -> [router EXCEPT !.chain = Append(@, wanted)]
                          [] r = "poll" -> [router EXCEPT !.asking = FALSE]
                          [] OTHER -> [router EXCEPT !.job = "idle"]
  <2>1. down' \in Seq(Frames)
    BY <1>5, ArrivesType DEF ReceiveResponse
  <2>2. router \in Routers /\ wanted \in BOOLEAN
    BY DEF TypeOK
  <2>3. /\ [router EXCEPT !.asking = FALSE] \in Routers
        /\ [router EXCEPT !.job = "idle"] \in Routers
    BY <2>2 DEF Routers, Jobs
  <2>4. settled \in Routers
    BY <2>2, <2>3, ChainGrows
  <2>5. Settle(settled)
    BY <1>5 DEF ReceiveResponse
  <2> HIDE DEF settled
  <2>6. router' \in Routers /\ up' \in Seq(Requests)
    BY <2>4, <2>5, SettleType
  <2> QED BY <1>5, <2>1, <2>6 DEF TypeOK, ReceiveResponse
<1>6. CASE Flush
  <2>1. Coalesce(pending) \in Seq(UiEvents) /\ thread \in Threads
    BY CoalesceType DEF TypeOK
  <2>2. thread' \in Threads
    BY <1>6, <2>1, ApplyEventsType DEF Flush
  <2> QED BY <1>0, <1>6, <2>2 DEF TypeOK, Flush
<1>7. CASE Poll
  <2>1. up' \in Seq(Requests)
    BY <1>7, AppendHas DEF Poll, TypeOK, Requests
  <2>2. router' \in Routers
    BY <1>7 DEF Poll, TypeOK, Routers
  <2> QED BY <1>7, <2>1, <2>2 DEF TypeOK, Poll
<1>8. CASE Move
  <2>1. wanted' \in BOOLEAN /\ moves' \in Nat /\ router \in Routers
    BY <1>0, <1>8 DEF Move, TypeOK
  <2>2. router' \in Routers /\ up' \in Seq(Requests)
    BY <1>8, <2>1, ChainGrows, SettleType DEF Move
  <2> QED BY <1>8, <2>1, <2>2 DEF TypeOK, Move
<1>9. CASE Connect
  <2>1. down' \in Seq(Frames)
    BY <1>9, FrameType, SingleType DEF Connect
  <2> QED BY <1>9, <2>1 DEF TypeOK, Connect, Deliveries
<1>10. CASE Drop
  <2>1. router' \in Routers
    BY <1>10 DEF Drop, TypeOK, Routers, Jobs
  <2> QED BY <1>0, <1>10, <2>1 DEF TypeOK, Drop, Deliveries
<1>11. CASE Reload
  <2>1. FreshRouter \in Routers
    BY <1>0 DEF FreshRouter, Routers, Jobs
  <2>2. <<"shell">> \in Seq(Requests)
    BY SingleType DEF Requests
  <2> QED BY <1>0, <1>11, <2>1, <2>2, NothingType DEF TypeOK, Reload, Deliveries
<1> QED BY <1>1, <1>2, <1>3, <1>4, <1>5, <1>6, <1>7, <1>8, <1>9, <1>10, <1>11 DEF ClientStep

LEMMA TypeStep == TypeOK /\ [Next]_vars => TypeOK'
<1>1. ASSUME TypeOK, UNCHANGED vars PROVE TypeOK'
  BY <1>1 DEF vars, server, link, limits, client, TypeOK
<1> QED BY <1>1, ServerTypes, ClientTypes DEF Next

(* Every frame, request and event is of the protocol, the store keeps the  *)
(* shapes that store.ts declares, whatever is lost with a connection, and  *)
(* the consumer has at most one event that it has not pushed.              *)
THEOREM ClientTyped == Spec => []TypeOK
BY TypeInit, TypeStep, PTL DEF Spec
-----------------------------------------------------------------------------
(* Texts only grow *)

TextLength(T, t) == Len(T.answers[t].text)

LEMMA TextLengthType ==
    ASSUME NEW T \in Threads, T.known, NEW t \in Turns
    PROVE  T.answers[t] \in Messages /\ TextLength(T, t) \in Nat
<1>1. T.answers[t] \in Messages
  BY KnownFields
<1>2. \A text \in Texts : Len(text) \in Nat
  BY DEF Texts
<1> QED BY <1>1, <1>2, MessageFields DEF TextLength

LEMMA NoTextIsEmpty == Len(NoMessage.text) = 0
<1>1. NoMessage.text = <<>> /\ Len(<<>>) = 0
  BY DEF NoMessage
<1> QED BY <1>1

LEMMA ReceivedIsLonger ==
    ASSUME NEW m \in Messages, NEW e \in UiEvents, e.type = "message-sent"
    PROVE  Len(Received(m, e).text) >= Len(m.text)
<1> DEFINE incoming == Message(e.text, e.streaming)
<1>1. incoming \in Messages /\ Received(m, e) \in Messages
  BY UiFields, MessageType, ReceivedType
<1>2. \A x \in Messages : x.text \in Seq(1..Chunks) /\ Len(x.text) \in Nat
  BY MessageFields DEF Texts
<1>3. CASE m.shown
  <2>1. Received(m, e) = MergeStreamingMessage(m, incoming)
    BY <1>3 DEF Received
  <2> HIDE DEF incoming
  <2>2. IsPrefix(m.text, MergeStreamingMessage(m, incoming).text)
    BY <1>1, MessageFields, StreamingMergeExtends
  <2>3. Len(m.text) <= Len(Received(m, e).text)
    BY <2>1, <2>2 DEF IsPrefix
  <2> QED BY <1>1, <1>2, <2>3
<1>4. CASE ~m.shown
  <2>1. Len(m.text) = 0
    BY <1>4, MessageFields, NoTextIsEmpty
  <2> HIDE DEF incoming
  <2> QED BY <1>1, <1>2, <2>1
<1> QED BY <1>3, <1>4

LEMMA EventKeepsText ==
    ASSUME NEW T \in Threads, T.known, NEW e \in UiEvents, NEW t \in Turns
    PROVE  TextLength(ApplyEvent(T, e), t) >= TextLength(T, t)
<1>1. T.answers \in [Turns -> Messages] /\ TextLength(T, t) \in Nat
  BY KnownFields, TextLengthType
<1>2. CASE e.type = "session-set"
  <2>1. ApplyEvent(T, e).answers = T.answers
    BY <1>2, AppliedSession
  <2> QED BY <1>1, <2>1 DEF TextLength
<1>3. CASE e.type = "message-sent"
  <2>1. ApplyEvent(T, e).answers
          = [T.answers EXCEPT ![e.turn] = Received(T.answers[e.turn], e)]
    BY <1>3, AppliedMessage
  <2>2. CASE t = e.turn
    <3>1. ApplyEvent(T, e).answers[t] = Received(T.answers[t], e)
      BY <1>1, <2>1, <2>2
    <3>2. Len(Received(T.answers[t], e).text) >= Len(T.answers[t].text)
      BY <1>1, <1>3, ReceivedIsLonger
    <3> QED BY <3>1, <3>2 DEF TextLength
  <2>3. CASE t # e.turn
    <3>1. ApplyEvent(T, e).answers[t] = T.answers[t]
      BY <1>1, <2>1, <2>3
    <3> QED BY <1>1, <3>1 DEF TextLength
  <2> QED BY <2>2, <2>3
<1> QED BY <1>2, <1>3, UiFields

LEMMA BatchKeepsText ==
    ASSUME NEW T \in Threads, T.known, NEW s \in Seq(UiEvents), NEW t \in Turns
    PROVE  TextLength(ApplyEvents(T, s), t) >= TextLength(T, t)
<1> DEFINE least == TextLength(T, t)
           X == {x \in Threads : x.known /\ TextLength(x, t) >= least}
<1>1. least \in Nat
  BY TextLengthType
<1>2. X \in SUBSET Threads /\ T \in X
  BY <1>1
<1>3. ASSUME NEW x \in X, NEW k \in 1..Len(s) PROVE ApplyEvent(x, s[k]) \in X
  <2>1. x \in Threads /\ x.known /\ TextLength(x, t) >= least /\ s[k] \in UiEvents
    OBVIOUS
  <2>2. ApplyEvent(x, s[k]) \in Threads /\ ApplyEvent(x, s[k]).known
    BY <2>1, ApplyEventType
  <2>3. TextLength(x, t) \in Nat /\ TextLength(ApplyEvent(x, s[k]), t) \in Nat
    BY <2>1, <2>2, TextLengthType
  <2>4. TextLength(ApplyEvent(x, s[k]), t) >= TextLength(x, t)
    BY <2>1, EventKeepsText
  <2> HIDE DEF least
  <2>5. TextLength(ApplyEvent(x, s[k]), t) >= least
    BY <1>1, <2>1, <2>3, <2>4
  <2> QED BY <2>2, <2>5
<1> HIDE DEF X
<1>4. ApplyEvents(T, s) \in X
  BY <1>2, <1>3, BatchStaysIn
<1> QED BY <1>4 DEF X

LEMMA SnapshotKeepsText ==
    ASSUME NEW T \in Threads, T.known, NEW s \in Snapshots, NEW t \in Turns, s.answers[t].shown
    PROVE  TextLength(SyncThreadSnapshot(T, s), t) >= TextLength(T, t)
<1> DEFINE live == T.answers[t]
           incoming == s.answers[t]
<1>1. live \in Messages /\ incoming \in Messages /\ Len(live.text) \in Nat
  BY TextLengthType, SnapshotFields DEF TextLength
<1>2. SyncThreadSnapshot(T, s).answers[t] = MergeMessage(T, t, incoming)
  BY DEF SyncThreadSnapshot
<1>3. CASE live.shown
  <2>1. live \in MessagesOf(1..Chunks) /\ incoming \in MessagesOf(1..Chunks)
    BY <1>1, MessageFields
  <2> HIDE DEF incoming
  <2>2. Len(MergeMessage(T, t, incoming).text) >= Len(T.answers[t].text)
    BY <1>3, <2>1, SnapshotMergeNeverShortens DEF incoming
  <2> QED BY <1>2, <2>2 DEF TextLength
<1>4. CASE ~live.shown
  <2>1. Len(live.text) = 0
    BY <1>1, <1>4, MessageFields, NoTextIsEmpty
  <2>2. MergeMessage(T, t, incoming) = incoming
    BY <1>4 DEF MergeMessage
  <2>3. Len(incoming.text) \in Nat
    BY <1>1, MessageFields DEF Texts
  <2> HIDE DEF incoming
  <2> QED BY <1>2, <2>1, <2>2, <2>3 DEF TextLength
<1> QED BY <1>3, <1>4

(* What is done to the thread by each step that does anything to it. *)
LEMMA ThreadChanges ==
    ASSUME TypeOK, [Next]_vars
    PROVE  \/ thread' = thread
           \/ reloads' # reloads
           \/ /\ ReceiveEvent /\ Head(down).event \in Events
              /\ Adapt(Head(down).event) \in Seq(UiEvents)
              /\ thread' = ApplyEvents(thread, Coalesce(pending \o Adapt(Head(down).event)))
              /\ pending' = <<>>
           \/ Flush
           \/ ReceiveShellSnapshot
           \/ ReceiveThreadSnapshot /\ down # <<>> /\ Head(down).snapshot \in Snapshots
<1>1. CASE ReceiveEvent
  <2>1. Head(down) \in Frames /\ Head(down).kind = "event"
    BY <1>1, ArrivesType DEF ReceiveEvent
  <2>2. Head(down).event \in Events
    BY <2>1, FrameFields
  <2>3. Adapt(Head(down).event) \in Seq(UiEvents)
    BY <2>2, AdaptType
  <2>4. Queue(Adapt(Head(down).event))
    BY <1>1 DEF ReceiveEvent
  <2> QED BY <1>1, <2>2, <2>3, <2>4 DEF Queue
<1>2. CASE ReceiveThreadSnapshot
  <2>1. Head(down) \in Frames /\ Head(down).kind = "thread" /\ down # <<>>
    BY <1>2, ArrivesType DEF ReceiveThreadSnapshot, Arrives
  <2> QED BY <1>2, <2>1, FrameFields
<1>3. CASE Reload
  BY <1>3 DEF Reload, TypeOK
<1>4. CASE ServerStep \/ ReceiveWelcome \/ ReceiveResponse \/ Poll \/ Move \/ Connect \/ Drop
             \/ UNCHANGED vars
  <2>1. ServerStep => thread' = thread
    BY DEF ServerStep, StartTurn, CancelTurn, ProviderDelta, ProviderCompletes, ProviderFails,
           PublishCommandEvent, PublishProviderEvent, DeliverPush, ServeRequest, SendResponse,
           OtherPushesOvertake, DeliveryStarts, client
  <2>2. ReceiveWelcome \/ ReceiveResponse \/ Poll \/ Move \/ Connect \/ Drop
          => thread' = thread
    BY DEF ReceiveWelcome, ReceiveResponse, Poll, Move, Connect, Drop, client
  <2> QED BY <1>4, <2>1, <2>2 DEF vars, client
<1> QED BY <1>1, <1>2, <1>3, <1>4 DEF Next, ClientStep

LEMMA TextStep ==
    ASSUME TypeOK, [Next]_vars, NEW t \in Turns, thread.known, reloads' = reloads,
           ~(down # <<>> /\ Lacks(Head(down), t))
    PROVE  TextLength(thread', t) >= TextLength(thread, t)
<1>1. thread \in Threads /\ pending \in Seq(UiEvents)
  BY DEF TypeOK
<1>2. TextLength(thread, t) \in Nat
  BY <1>1, TextLengthType
<1>3. ASSUME NEW s \in Seq(UiEvents), thread' = ApplyEvents(thread, Coalesce(s))
      PROVE  TextLength(thread', t) >= TextLength(thread, t)
  BY <1>1, <1>3, CoalesceType, BatchKeepsText
<1>4. CASE ReceiveShellSnapshot
  <2>1. thread'.answers = thread.answers
    BY <1>4 DEF ReceiveShellSnapshot, SyncShellSnapshot
  <2> QED BY <1>2, <2>1 DEF TextLength
<1>5. CASE ReceiveThreadSnapshot /\ down # <<>> /\ Head(down).snapshot \in Snapshots
  <2>1. Head(down).kind = "thread" /\ thread' = SyncThreadSnapshot(thread, Head(down).snapshot)
    BY <1>5 DEF ReceiveThreadSnapshot, Arrives
  <2>2. Head(down).snapshot.answers[t].shown
    BY <1>5, <2>1 DEF Lacks
  <2> QED BY <1>1, <1>5, <2>1, <2>2, SnapshotKeepsText
<1>6. ASSUME NEW s \in Seq(UiEvents) PROVE pending \o s \in Seq(UiEvents)
  BY <1>1, ConcatType
<1>7. CASE thread' = thread
  BY <1>2, <1>7
<1>8. Flush => thread' = ApplyEvents(thread, Coalesce(pending))
  BY DEF Flush
<1> QED BY <1>1, <1>3, <1>4, <1>5, <1>6, <1>7, <1>8, ThreadChanges

(* A streamed delta, a finished message, an old snapshot and a batch       *)
(* however coalesced leave every text at least as long as it was, for any  *)
(* number of turns, connections and pieces.                                *)
THEOREM TextsOnlyGrow == Spec => AnswerNeverShrinks
<1> DEFINE A == \A t \in Turns :
                  \/ ~thread.known \/ reloads' # reloads
                  \/ down # <<>> /\ Lacks(Head(down), t)
                  \/ Len(thread'.answers[t].text) >= Len(thread.answers[t].text)
<1>1. TypeOK /\ [Next]_vars => [A]_vars
  BY TextStep DEF TextLength
<1> QED BY <1>1, ClientTyped, PTL DEF Spec, AnswerNeverShrinks
-----------------------------------------------------------------------------
(* Subscriptions.  What is in flight, up or down. *)

Has(s, S) == \E i \in DOMAIN s : s[i] \in S
HasOne(s, S) == \A i, j \in DOMAIN s : s[i] \in S /\ s[j] \in S => i = j

LEMMA HasAppend ==
    ASSUME NEW T, NEW s \in Seq(T), NEW x \in T, NEW S
    PROVE  /\ Has(Append(s, x), S) <=> Has(s, S) \/ x \in S
           /\ HasOne(s, S) /\ (x \in S => ~Has(s, S)) => HasOne(Append(s, x), S)
<1> DEFINE n == Len(s)
           a == Append(s, x)
<1>1. /\ n \in Nat /\ DOMAIN s = 1..n /\ DOMAIN a = 1..(n + 1) /\ a[n + 1] = x
      /\ \A i \in 1..n : a[i] = s[i]
  OBVIOUS
<1> HIDE DEF n, a
<1>2. \A i \in 1..(n + 1) : i \in 1..n \/ i = n + 1
  BY <1>1
<1>3. (\E i \in DOMAIN a : a[i] \in S) <=> (\E i \in DOMAIN s : s[i] \in S) \/ x \in S
  <2>1. ASSUME NEW i \in DOMAIN a, a[i] \in S PROVE (\E k \in DOMAIN s : s[k] \in S) \/ x \in S
    BY <1>1, <1>2, <2>1
  <2>2. ASSUME NEW i \in DOMAIN s, s[i] \in S PROVE i \in DOMAIN a /\ a[i] \in S
    BY <1>1, <2>2
  <2>3. n + 1 \in DOMAIN a
    BY <1>1
  <2> QED BY <1>1, <2>1, <2>2, <2>3
<1>4. HasOne(s, S) /\ (x \in S => ~Has(s, S)) => HasOne(a, S)
  BY <1>1, <1>2 DEF Has, HasOne
<1> QED BY <1>3, <1>4 DEF Has, a

LEMMA HasTail ==
    ASSUME NEW T, NEW s \in Seq(T), s # <<>>, NEW S
    PROVE  /\ Has(s, S) <=> Has(Tail(s), S) \/ Head(s) \in S
           /\ HasOne(s, S) => HasOne(Tail(s), S)
           /\ HasOne(s, S) /\ Head(s) \in S => ~Has(Tail(s), S)
<1> DEFINE n == Len(s)
           t == Tail(s)
<1>1. /\ n \in Nat \ {0} /\ DOMAIN s = 1..n /\ DOMAIN t = 1..(n - 1) /\ Head(s) = s[1]
      /\ \A i \in 1..(n - 1) : t[i] = s[i + 1]
  OBVIOUS
<1> HIDE DEF n, t
<1>2. /\ 1 \in 1..n
      /\ \A i \in 1..(n - 1) : i + 1 \in 1..n /\ i + 1 # 1
      /\ \A i \in 1..n : i = 1 \/ (i - 1 \in 1..(n - 1) /\ (i - 1) + 1 = i)
      /\ \A i, j \in 1..(n - 1) : i + 1 = j + 1 => i = j
  BY <1>1
<1>3. Has(s, S) <=> Has(t, S) \/ Head(s) \in S
  <2>1. ASSUME NEW i \in DOMAIN s, s[i] \in S PROVE Has(t, S) \/ Head(s) \in S
    <3>1. CASE i = 1
      BY <1>1, <2>1, <3>1
    <3>2. CASE i # 1
      <4>1. i - 1 \in DOMAIN t /\ t[i - 1] = s[i]
        BY <1>1, <1>2, <3>2
      <4> QED BY <2>1, <4>1 DEF Has
    <3> QED BY <3>1, <3>2
  <2>2. ASSUME NEW i \in DOMAIN t, t[i] \in S PROVE Has(s, S)
    BY <1>1, <1>2, <2>2 DEF Has
  <2>3. Head(s) \in S => Has(s, S)
    BY <1>1, <1>2 DEF Has
  <2> QED BY <2>1, <2>2, <2>3 DEF Has
<1>4. HasOne(s, S) => HasOne(t, S)
  BY <1>1, <1>2 DEF HasOne
<1>5. HasOne(s, S) /\ Head(s) \in S => ~Has(t, S)
  BY <1>1, <1>2 DEF HasOne, Has
<1> QED BY <1>3, <1>4, <1>5 DEF t

LEMMA HasNone == \A S : ~Has(<<>>, S) /\ HasOne(<<>>, S)
BY DEF Has, HasOne

LEMMA HasSingle == \A x, S : (Has(<<x>>, S) <=> x \in S) /\ HasOne(<<x>>, S)
<1>1. \A x : DOMAIN <<x>> = 1..1 /\ <<x>>[1] = x
  OBVIOUS
<1>2. \A i \in 1..1 : i = 1
  OBVIOUS
<1> QED BY <1>1, <1>2 DEF Has, HasOne

Response(r) == [kind |-> "response", request |-> r]
JobRequests == {"open", "close"}
JobResponses == {Response("open"), Response("close")}
Welcome == [kind |-> "welcome"]
ShellFrames == {Welcome, Response("shell")}

(* A snapshot with the response to a subscription right behind it. *)
Answered(d) ==
    \E i \in DOMAIN d : i + 1 \in DOMAIN d /\ d[i].kind = "thread" /\ d[i + 1] = Response("open")

(* A job of the chain waits for one answer, and has asked for it once. *)
OneJob(job, u, served, d) ==
    /\ job \in {"idle", "stuck"} =>
         ~Has(u, JobRequests) /\ served.request \notin JobRequests /\ ~Has(d, JobResponses)
    /\ job \in {"opening", "closing"} =>
         Has(u, JobRequests) \/ served.request \in JobRequests \/ Has(d, JobResponses)
    /\ HasOne(u, JobRequests) /\ HasOne(d, JobResponses)
    /\ Has(u, JobRequests) => served.request \notin JobRequests /\ ~Has(d, JobResponses)
    /\ served.request \in JobRequests => ~Has(d, JobResponses)

(* subscribeShell is yet to be asked for, or its answer to come. *)
ShellComing(u, served, d) ==
    Has(u, {"shell"}) \/ served.request = "shell" \/ Has(d, ShellFrames)

(* The snapshot that follows a subscription precedes its response. *)
SnapshotComing(u, served, d) ==
    \/ Has(u, {"open"})
    \/ served.request = "open"
    \/ Answered(d)

OfflineIsEmpty == ~online => down = <<>> /\ serving = NoRequest /\ ~subscribed

OnTarget(r, u, served, d) ==
    online /\ r.job # "stuck" /\ ~ShellComing(u, served, d) => Target(r) = wanted

Hydrates(r, u, served, d) ==
    r.tracked /\ ~r.hydrated /\ r.job # "stuck" =>
      r.job = "opening" /\ SnapshotComing(u, served, d)

HydrationInv ==
    /\ OfflineIsEmpty
    /\ OneJob(router.job, up, serving, down)
    /\ router.job = "idle" => router.chain = <<>>
    /\ OnTarget(router, up, serving, down)
    /\ Hydrates(router, up, serving, down)

LEMMA RequestsDiffer ==
    /\ {"shell", "poll"} \cap JobRequests = {}
    /\ \A r, s : Response(r) = Response(s) => r = s
    /\ \A r : Response(r) # Welcome
    /\ \A r : Response(r) \in JobResponses <=> r \in JobRequests
    /\ NoRequest.request \notin JobRequests /\ NoRequest.request # "shell"
    /\ NoRequest.request # "open"
<1>1. \A r : Response(r).request = r /\ Response(r).kind = "response" /\ Welcome.kind = "welcome"
  BY DEF Response, Welcome
<1>2. NoRequest.request = "none"
  BY DEF NoRequest
<1>3. \A r, s : Response(r) = Response(s) => r = s
  BY <1>1
<1> QED BY <1>1, <1>2, <1>3 DEF JobRequests, JobResponses

(* A frame that is neither a welcome nor a response is none of these. *)
LEMMA FrameShape ==
    ASSUME NEW f \in Frames
    PROVE  /\ f.kind = "response" => f = Response(f.request)
           /\ f.kind = "welcome" => f = Welcome
           /\ f.kind \notin {"response", "welcome"} =>
                f \notin JobResponses /\ f \notin ShellFrames
BY DEF Frames, Response, Welcome, JobResponses, ShellFrames

LEMMA HydrationInit == Init => HydrationInv
<1> SUFFICES ASSUME Init PROVE HydrationInv
  OBVIOUS
<1>1. /\ ~online /\ ~subscribed /\ up = <<"shell">> /\ down = <<>> /\ serving = NoRequest
      /\ router.job = "idle" /\ router.chain = <<>> /\ ~router.tracked
  BY DEF Init, FreshRouter
<1>2. ~Has(up, JobRequests) /\ HasOne(up, JobRequests)
  BY <1>1, HasSingle, RequestsDiffer
<1> QED BY <1>1, <1>2, HasNone, RequestsDiffer
        DEF HydrationInv, OfflineIsEmpty, OneJob, OnTarget, Hydrates

LEMMA AnsweredAppend ==
    ASSUME NEW d \in Seq(Frames), NEW x \in Frames
    PROVE  Answered(d) => Answered(Append(d, x))
<1>1. /\ DOMAIN d = 1..Len(d) /\ DOMAIN Append(d, x) = 1..(Len(d) + 1) /\ Len(d) \in Nat
      /\ \A i \in 1..Len(d) : Append(d, x)[i] = d[i]
  OBVIOUS
<1>2. \A i \in 1..Len(d) : i \in 1..(Len(d) + 1)
  BY <1>1
<1> QED BY <1>1, <1>2 DEF Answered

LEMMA AnsweredNow ==
    ASSUME NEW d \in Seq(Frames), NEW x \in Frames, x.kind = "thread",
           Response("open") \in Frames
    PROVE  Answered(Append(Append(d, x), Response("open")))
<1> DEFINE n == Len(d)
           a == Append(Append(d, x), Response("open"))
<1>1. /\ n \in Nat /\ DOMAIN a = 1..(n + 2) /\ a[n + 1] = x /\ a[n + 2] = Response("open")
  OBVIOUS
<1> HIDE DEF a, n
<1>2. n + 1 \in DOMAIN a /\ (n + 1) + 1 \in DOMAIN a /\ a[(n + 1) + 1] = Response("open")
  <2>1. (n + 1) + 1 = n + 2 /\ n + 1 \in 1..(n + 2) /\ n + 2 \in 1..(n + 2)
    BY <1>1
  <2> QED BY <1>1, <2>1
<1>3. Answered(a)
  BY <1>1, <1>2 DEF Answered
<1> QED BY <1>3 DEF a

LEMMA AnsweredTail ==
    ASSUME NEW d \in Seq(Frames), d # <<>>, Head(d).kind # "thread"
    PROVE  Answered(d) => Answered(Tail(d))
<1> DEFINE n == Len(d)
           t == Tail(d)
<1>1. /\ n \in Nat \ {0} /\ DOMAIN d = 1..n /\ DOMAIN t = 1..(n - 1) /\ Head(d) = d[1]
      /\ \A i \in 1..(n - 1) : t[i] = d[i + 1]
  OBVIOUS
<1> HIDE DEF n, t
<1> SUFFICES ASSUME NEW i \in 1..n, i + 1 \in 1..n, d[i].kind = "thread",
                    d[i + 1] = Response("open")
             PROVE  Answered(t)
  BY <1>1 DEF Answered, t
<1>2. i # 1
  BY <1>1
<1>3. i - 1 \in 1..(n - 1) /\ (i - 1) + 1 \in 1..(n - 1) /\ (i - 1) + 1 = i
  BY <1>1, <1>2
<1>4. t[i - 1] = d[i] /\ t[(i - 1) + 1] = d[i + 1]
  BY <1>1, <1>3
<1> QED BY <1>1, <1>3, <1>4 DEF Answered

(* What a frame taken from the connection leaves in flight. *)
LEMMA FrameTaken ==
    ASSUME NEW d \in Seq(Frames), d # <<>>
    PROVE  LET f == Head(d) IN
           /\ f \in Frames /\ Tail(d) \in Seq(Frames)
           /\ Has(d, JobResponses) <=> Has(Tail(d), JobResponses) \/ f \in JobResponses
           /\ HasOne(d, JobResponses) => HasOne(Tail(d), JobResponses)
           /\ HasOne(d, JobResponses) /\ f \in JobResponses => ~Has(Tail(d), JobResponses)
           /\ Has(d, ShellFrames) <=> Has(Tail(d), ShellFrames) \/ f \in ShellFrames
           /\ f.kind # "thread" /\ Answered(d) => Answered(Tail(d))
BY HeadAndTail, HasTail, AnsweredTail

(* What a frame put on the connection adds. *)
LEMMA FramePut ==
    ASSUME NEW d \in Seq(Frames), NEW f \in Frames
    PROVE  /\ Append(d, f) \in Seq(Frames)
           /\ Has(Append(d, f), JobResponses) <=> Has(d, JobResponses) \/ f \in JobResponses
           /\ HasOne(d, JobResponses) /\ (f \in JobResponses => ~Has(d, JobResponses))
                => HasOne(Append(d, f), JobResponses)
           /\ Has(Append(d, f), ShellFrames) <=> Has(d, ShellFrames) \/ f \in ShellFrames
           /\ Answered(d) => Answered(Append(d, f))
BY HasAppend, AnsweredAppend, AppendHas

(* The requests. *)
LEMMA RequestTaken ==
    ASSUME NEW u \in Seq(Requests), u # <<>>
    PROVE  LET q == Head(u) IN
           /\ q \in Requests /\ Tail(u) \in Seq(Requests)
           /\ Has(u, JobRequests) <=> Has(Tail(u), JobRequests) \/ q \in JobRequests
           /\ HasOne(u, JobRequests) => HasOne(Tail(u), JobRequests)
           /\ HasOne(u, JobRequests) /\ q \in JobRequests => ~Has(Tail(u), JobRequests)
           /\ Has(u, {"shell"}) <=> Has(Tail(u), {"shell"}) \/ q = "shell"
           /\ Has(u, {"open"}) <=> Has(Tail(u), {"open"}) \/ q = "open"
BY HeadAndTail, HasTail

LEMMA RequestPut ==
    ASSUME NEW u \in Seq(Requests), NEW q \in Requests
    PROVE  /\ Append(u, q) \in Seq(Requests)
           /\ Has(Append(u, q), JobRequests) <=> Has(u, JobRequests) \/ q \in JobRequests
           /\ HasOne(u, JobRequests) /\ (q \in JobRequests => ~Has(u, JobRequests))
                => HasOne(Append(u, q), JobRequests)
           /\ Has(Append(u, q), {"shell"}) <=> Has(u, {"shell"}) \/ q = "shell"
           /\ Has(Append(u, q), {"open"}) <=> Has(u, {"open"}) \/ q = "open"
BY HasAppend, AppendHas

(* The chain runs in a state where the job, if any, has its one answer     *)
(* coming: the same is true of the job it starts.                          *)
LEMMA SettleHydrates ==
    ASSUME TypeOK, NEW r \in Routers, Settle(r), serving' = serving,
           OneJob(r.job, up, serving, down'), Hydrates(r, up, serving, down'),
           online' /\ r.job # "stuck" /\ ~ShellComing(up, serving, down') => Target(r) = wanted'
    PROVE  /\ OneJob(router'.job, up', serving', down')
           /\ router'.job = "idle" => router'.chain = <<>>
           /\ OnTarget(router, up, serving, down)'
           /\ Hydrates(router', up', serving', down')
<1> DEFINE result == RunChain(r)
<1>1. /\ result.router \in Routers /\ result.asks \in Seq(Requests)
      /\ Target(result.router) = Target(r)
      /\ \/ r.job # "idle" /\ result = [router |-> r, asks |-> <<>>]
         \/ Rested(r, result)
         \/ Started(r, result)
  BY ChainRuns
<1>2. router' = result.router /\ up' = up \o result.asks /\ up \in Seq(Requests)
  BY DEF Settle, TypeOK
<1>3. up \o <<>> = up /\ \A x \in Requests : up \o <<x>> = Append(up, x)
  BY <1>2
<1> HIDE DEF result
<1>4. CASE r.job # "idle" /\ result = [router |-> r, asks |-> <<>>]
  BY <1>2, <1>3, <1>4 DEF OnTarget
<1>5. CASE Rested(r, result)
  <2>1. /\ router' = [r EXCEPT !.chain = <<>>] /\ up' = up
    BY <1>2, <1>3, <1>5 DEF Rested
  <2>2. /\ router'.chain = <<>> /\ router'.job = r.job /\ router'.tracked = r.tracked
        /\ router'.hydrated = r.hydrated /\ Target(router') = Target(r)
    BY <1>1, <1>2, <2>1 DEF Routers
  <2> QED BY <2>1, <2>2 DEF OnTarget, Hydrates
<1>6. CASE Started(r, result)
  <2> DEFINE x == IF result.router.tracked THEN "open" ELSE "close"
  <2>1. /\ x \in Requests /\ x \in JobRequests /\ x # "shell" /\ result.asks = <<x>>
        /\ result.router.tracked => x = "open"
    BY <1>6 DEF Started, Requests, JobRequests
  <2> HIDE DEF x
  <2>2. up' = Append(up, x)
    BY <1>2, <1>3, <2>1
  <2>3. /\ ~Has(up, JobRequests) /\ serving.request \notin JobRequests
        /\ ~Has(down', JobResponses) /\ HasOne(down', JobResponses) /\ HasOne(up, JobRequests)
    BY <1>6 DEF Started, OneJob
  <2>4. /\ Has(up', JobRequests) /\ HasOne(up', JobRequests)
        /\ Has(up', {"shell"}) <=> Has(up, {"shell"})
        /\ x = "open" => Has(up', {"open"})
    <3>1. /\ Has(Append(up, x), JobRequests) <=> Has(up, JobRequests) \/ x \in JobRequests
          /\ HasOne(up, JobRequests) /\ (x \in JobRequests => ~Has(up, JobRequests))
               => HasOne(Append(up, x), JobRequests)
          /\ Has(Append(up, x), {"shell"}) <=> Has(up, {"shell"}) \/ x = "shell"
          /\ Has(Append(up, x), {"open"}) <=> Has(up, {"open"}) \/ x = "open"
      BY <1>2, <2>1, RequestPut
    <3> QED BY <2>1, <2>2, <2>3, <3>1
  <2>5. /\ router'.job = IF router'.tracked THEN "opening" ELSE "closing"
        /\ router'.tracked => x = "open"
    BY <1>2, <1>6, <2>1 DEF Started
  <2>6. OneJob(router'.job, up', serving', down')
    BY <2>3, <2>4, <2>5 DEF OneJob
  <2>7. OnTarget(router, up, serving, down)'
    BY <1>1, <1>2, <1>6, <2>4 DEF OnTarget, ShellComing, Started
  <2>8. Hydrates(router', up', serving', down')
    BY <2>4, <2>5 DEF Hydrates, SnapshotComing
  <2> QED BY <2>5, <2>6, <2>7, <2>8
<1> QED BY <1>1, <1>4, <1>5, <1>6

(* The server's side of the connection. *)
LEMMA ServerHydrates ==
    ASSUME TypeOK, HydrationInv, ServerStep
    PROVE  HydrationInv'
<1> USE DEF server, link, limits, client
<1>0. /\ down \in Seq(Frames) /\ up \in Seq(Requests) /\ serving \in Servings
      /\ bus \in Seq(Events)
  BY DEF TypeOK
<1>1. CASE UNCHANGED <<online, subscribed, up, down, serving, router, wanted>>
  BY <1>1 DEF HydrationInv, OfflineIsEmpty, OnTarget
<1>2. ASSUME NEW t \in Turns,
             \/ StartTurn(t) \/ CancelTurn(t)
             \/ ProviderDelta(t) \/ ProviderCompletes(t) \/ ProviderFails(t)
      PROVE  HydrationInv'
  BY <1>1, <1>2 DEF StartTurn, CancelTurn, ProviderDelta, ProviderCompletes, ProviderFails
<1>3. CASE PublishCommandEvent \/ PublishProviderEvent
  BY <1>1, <1>3 DEF PublishCommandEvent, PublishProviderEvent
<1>7. CASE OtherPushesOvertake \/ DeliveryStarts
  BY <1>1, <1>7 DEF OtherPushesOvertake, DeliveryStarts
<1>4. CASE DeliverPush
  <2>1. UNCHANGED <<online, subscribed, up, serving, router, wanted>>
    BY <1>4 DEF DeliverPush
  <2>2. CASE ~subscribed
    BY <1>1, <1>4, <2>1, <2>2 DEF DeliverPush
  <2>3. CASE subscribed
    <3> DEFINE f == [kind |-> "event", event |-> Head(bus)]
    <3>1. bus # <<>> /\ down' = Append(down, f)
      BY <1>4, <2>3 DEF DeliverPush
    <3>2. f \in Frames /\ f.kind = "event"
      BY <1>0, <3>1, HeadAndTail, FrameType
    <3>3. f \notin JobResponses /\ f \notin ShellFrames
      BY <3>2, FrameShape
    <3> HIDE DEF f
    <3>4. /\ Has(down', JobResponses) <=> Has(down, JobResponses)
          /\ HasOne(down, JobResponses) => HasOne(down', JobResponses)
          /\ Has(down', ShellFrames) <=> Has(down, ShellFrames)
          /\ Answered(down) => Answered(down')
      BY <1>0, <3>1, <3>2, <3>3, FramePut
    <3> QED BY <2>1, <2>3, <3>4
            DEF HydrationInv, OfflineIsEmpty, OneJob, OnTarget, ShellComing, Hydrates,
                SnapshotComing
  <2> QED BY <2>2, <2>3
<1>5. CASE ServeRequest
  <2> DEFINE q == Head(up)
  <2>1. /\ online /\ serving.request = "none" /\ up # <<>> /\ up' = Tail(up)
        /\ UNCHANGED <<online, down, router, wanted>>
    BY <1>5 DEF ServeRequest
  <2>2. serving'.request = q
    BY <1>5 DEF ServeRequest
  <2>3. /\ q \in Requests
        /\ Has(up, JobRequests) <=> Has(up', JobRequests) \/ q \in JobRequests
        /\ HasOne(up, JobRequests) => HasOne(up', JobRequests)
        /\ HasOne(up, JobRequests) /\ q \in JobRequests => ~Has(up', JobRequests)
        /\ Has(up, {"shell"}) <=> Has(up', {"shell"}) \/ q = "shell"
        /\ Has(up, {"open"}) <=> Has(up', {"open"}) \/ q = "open"
    BY <1>0, <2>1, RequestTaken
  <2> HIDE DEF q
  <2>4. OneJob(router.job, up', serving', down)
    <3>1. OneJob(router.job, up, serving, down) /\ serving.request \notin JobRequests
      BY <2>1 DEF HydrationInv, JobRequests
    <3> QED BY <2>2, <2>3, <3>1 DEF OneJob
  <2>5. OnTarget(router, up, serving, down)'
    <3>1. ShellComing(up, serving, down) => ShellComing(up', serving', down)
      BY <2>1, <2>2, <2>3 DEF ShellComing
    <3> QED BY <2>1, <3>1 DEF HydrationInv, OnTarget
  <2>6. Hydrates(router, up', serving', down)
    <3>1. SnapshotComing(up, serving, down) => SnapshotComing(up', serving', down)
      BY <2>1, <2>2, <2>3 DEF SnapshotComing
    <3> QED BY <3>1 DEF HydrationInv, Hydrates
  <2> QED BY <2>1, <2>4, <2>5, <2>6 DEF HydrationInv, OfflineIsEmpty
<1>6. CASE SendResponse
  <2> DEFINE r == serving.request
             told == CASE r = "shell" -> <<[kind |-> "shell"]>>
                       [] r = "close" -> <<>>
                       [] OTHER -> <<[kind |-> "thread", snapshot |-> serving.snapshot]>>
             mid == down \o told
             a == Response(r)
             Told == /\ mid \in Seq(Frames)
                     /\ Has(mid, JobResponses) <=> Has(down, JobResponses)
                     /\ HasOne(down, JobResponses) => HasOne(mid, JobResponses)
                     /\ Has(mid, ShellFrames) <=> Has(down, ShellFrames)
                     /\ Answered(down) => Answered(mid)
                     /\ r = "open" => Answered(Append(mid, Response("open")))
  <2>1. /\ r # "none" /\ serving' = NoRequest /\ down' = mid \o <<a>>
        /\ UNCHANGED <<online, subscribed, up, router, wanted>>
    BY <1>6 DEF SendResponse, Response
  <2>2. online
    BY <2>1 DEF HydrationInv, OfflineIsEmpty, NoRequest
  <2>3. r \in Requests /\ (r \in {"open", "poll"} => serving.snapshot \in Snapshots)
    BY <1>0, <2>1, ServingFields
  <2>4. a \in Frames /\ Response("open") \in Frames
    <3>1. "open" \in Requests
      BY DEF Requests
    <3> QED BY <2>3, <3>1, FrameType DEF Response
  <2>5. Told
    <3>1. CASE r = "close"
      <4>1. mid = down
        BY <1>0, <3>1
      <4> QED BY <1>0, <3>1, <4>1
    <3>2. ASSUME NEW f \in Frames, f.kind \in {"shell", "thread"}, mid = Append(down, f),
                 r = "open" => f.kind = "thread"
          PROVE  Told
      <4>1. f \notin JobResponses /\ f \notin ShellFrames
        BY <3>2, FrameShape
      <4> HIDE DEF mid
      <4>2. r = "open" => Answered(Append(mid, Response("open")))
        BY <1>0, <2>4, <3>2, AnsweredNow
      <4>3. /\ mid \in Seq(Frames)
            /\ Has(mid, JobResponses) <=> Has(down, JobResponses) \/ f \in JobResponses
            /\ HasOne(down, JobResponses) /\ (f \in JobResponses => ~Has(down, JobResponses))
                 => HasOne(mid, JobResponses)
            /\ Has(mid, ShellFrames) <=> Has(down, ShellFrames) \/ f \in ShellFrames
            /\ Answered(down) => Answered(mid)
        BY <1>0, <3>2, FramePut
      <4> QED BY <4>1, <4>2, <4>3
    <3>3. \A f \in Frames : down \o <<f>> = Append(down, f)
      BY <1>0
    <3>4. CASE r = "shell"
      <4>1. [kind |-> "shell"] \in Frames /\ mid = Append(down, [kind |-> "shell"])
        BY <3>3, <3>4, FrameType
      <4> QED BY <3>2, <3>4, <4>1
    <3>5. CASE r \in {"open", "poll"}
      <4> DEFINE f == [kind |-> "thread", snapshot |-> serving.snapshot]
      <4>1. f \in Frames /\ f.kind = "thread" /\ mid = Append(down, f)
        BY <2>3, <3>3, <3>5, FrameType
      <4> HIDE DEF f, mid
      <4> QED BY <3>2, <4>1
    <3> QED BY <2>3, <3>1, <3>4, <3>5 DEF Requests
  <2> HIDE DEF mid, told
  <2>6. down' = Append(mid, a)
    BY <2>1, <2>4, <2>5
  <2>7. /\ Has(down', JobResponses) <=> Has(down, JobResponses) \/ r \in JobRequests
        /\ HasOne(mid, JobResponses) /\ (r \in JobRequests => ~Has(mid, JobResponses))
             => HasOne(down', JobResponses)
        /\ Has(down', ShellFrames) <=> Has(down, ShellFrames) \/ r = "shell"
        /\ Answered(mid) => Answered(down')
    <3>1. /\ a \in JobResponses <=> r \in JobRequests
          /\ a \in ShellFrames <=> r = "shell"
      BY RequestsDiffer DEF ShellFrames
    <3> HIDE DEF a
    <3>2. /\ Has(Append(mid, a), JobResponses) <=> Has(mid, JobResponses) \/ a \in JobResponses
          /\ HasOne(mid, JobResponses) /\ (a \in JobResponses => ~Has(mid, JobResponses))
               => HasOne(Append(mid, a), JobResponses)
          /\ Has(Append(mid, a), ShellFrames) <=> Has(mid, ShellFrames) \/ a \in ShellFrames
          /\ Answered(mid) => Answered(Append(mid, a))
      BY <2>4, <2>5, FramePut
    <3> QED BY <2>5, <2>6, <3>1, <3>2
  <2>8. serving'.request \notin JobRequests /\ serving'.request # "shell"
    BY <2>1, RequestsDiffer
  <2>9. r = "open" => Answered(down')
    BY <2>5, <2>6
  <2> HIDE DEF a
  <2>10. OneJob(router.job, up, serving', down')
    <3>1. OneJob(router.job, up, serving, down)
      BY DEF HydrationInv
    <3> QED BY <2>5, <2>7, <2>8, <3>1 DEF OneJob
  <2>11. OnTarget(router, up, serving, down)'
    <3>1. ShellComing(up, serving, down) => ShellComing(up, serving', down')
      BY <2>7 DEF ShellComing
    <3> QED BY <2>1, <3>1 DEF HydrationInv, OnTarget
  <2>12. Hydrates(router, up, serving', down')
    <3>1. SnapshotComing(up, serving, down) => SnapshotComing(up, serving', down')
      BY <2>5, <2>7, <2>9 DEF SnapshotComing
    <3> QED BY <3>1 DEF HydrationInv, Hydrates
  <2> QED BY <2>1, <2>2, <2>10, <2>11, <2>12 DEF HydrationInv, OfflineIsEmpty
<1> QED BY <1>2, <1>3, <1>4, <1>5, <1>6, <1>7 DEF ServerStep

LEMMA AnsweredLater ==
    ASSUME NEW d \in Seq(Frames), d # <<>>, Answered(d)
    PROVE  Has(Tail(d), JobResponses)
<1>1. PICK i \in DOMAIN d : i + 1 \in DOMAIN d /\ d[i + 1] = Response("open")
  BY DEF Answered
<1>2. /\ i \in Nat \ {0} /\ i \in 1..(Len(d) - 1)
      /\ DOMAIN Tail(d) = 1..(Len(d) - 1) /\ Tail(d)[i] = d[i + 1]
  <2>1. DOMAIN d = 1..Len(d) /\ Len(d) \in Nat
    OBVIOUS
  <2>2. i \in 1..(Len(d) - 1)
    BY <1>1, <2>1
  <2>3. \A s \in Seq(Frames) : s # <<>> =>
          DOMAIN Tail(s) = 1..(Len(s) - 1) /\ \A k \in 1..(Len(s) - 1) : Tail(s)[k] = s[k + 1]
    OBVIOUS
  <2> QED BY <2>1, <2>2, <2>3
<1> QED BY <1>1, <1>2 DEF Has, JobResponses

(* A frame that is no answer, and changes at most what is hydrated. *)
LEMMA OtherFrameHydrates ==
    ASSUME TypeOK, HydrationInv, NEW kind \in {"event", "shell", "thread"}, Arrives(kind),
           UNCHANGED <<online, subscribed, up, serving, wanted>>,
           \/ router' = router /\ kind # "thread"
           \/ router' = [router EXCEPT !.hydrated = TRUE, !.asking = FALSE]
    PROVE  HydrationInv'
<1>1. /\ online /\ down # <<>> /\ Head(down).kind = kind /\ down' = Tail(down)
      /\ down \in Seq(Frames) /\ router \in Routers
  BY DEF Arrives, TypeOK
<1>2. Head(down) \in Frames /\ Head(down) \notin JobResponses /\ Head(down) \notin ShellFrames
  BY <1>1, HeadAndTail, FrameShape
<1>3. /\ Has(down', JobResponses) <=> Has(down, JobResponses)
      /\ HasOne(down, JobResponses) => HasOne(down', JobResponses)
      /\ Has(down', ShellFrames) <=> Has(down, ShellFrames)
      /\ kind # "thread" /\ Answered(down) => Answered(down')
  BY <1>1, <1>2, FrameTaken
<1>4. /\ router'.job = router.job /\ router'.chain = router.chain
      /\ router'.tracked = router.tracked /\ Target(router') = Target(router)
      /\ router'.hydrated \/ (router' = router /\ kind # "thread")
  BY <1>1 DEF Routers, Target
<1>5. OneJob(router'.job, up, serving, down')
  BY <1>3, <1>4 DEF HydrationInv, OneJob
<1>6. OnTarget(router, up, serving, down)'
  BY <1>3, <1>4 DEF HydrationInv, OnTarget, ShellComing
<1>7. Hydrates(router', up, serving, down')
  BY <1>3, <1>4 DEF HydrationInv, Hydrates, SnapshotComing
<1> QED BY <1>1, <1>4, <1>5, <1>6, <1>7 DEF HydrationInv, OfflineIsEmpty

(* What a chain that is longer by one will come to. *)
LEMMA ChainTarget ==
    ASSUME NEW r \in Routers, NEW b \in BOOLEAN
    PROVE  LET longer == [r EXCEPT !.chain = Append(@, b)] IN
           /\ longer \in Routers /\ Target(longer) = b
           /\ longer.job = r.job /\ longer.tracked = r.tracked /\ longer.hydrated = r.hydrated
<1> DEFINE longer == [r EXCEPT !.chain = Append(@, b)]
<1>1. longer \in Routers
  BY ChainGrows
<1>2. /\ longer.chain = Append(r.chain, b) /\ longer.job = r.job
      /\ longer.tracked = r.tracked /\ longer.hydrated = r.hydrated
  BY DEF Routers
<1>3. Append(r.chain, b) # <<>> /\ Last(Append(r.chain, b)) = b
  BY RouterFields, AppendHas
<1> QED BY <1>1, <1>2, <1>3 DEF Target

LEMMA ResponseHydrates ==
    ASSUME TypeOK, HydrationInv, ReceiveResponse
    PROVE  HydrationInv'
<1> DEFINE r == Head(down).request
           settled == CASE r = "shell" -> [router EXCEPT !.chain = Append(@, wanted)]
                        [] r = "poll" -> [router EXCEPT !.asking = FALSE]
                        [] OTHER -> [router EXCEPT !.job = "idle"]
<1>1. /\ online /\ down # <<>> /\ Head(down).kind = "response" /\ down' = Tail(down)
      /\ down \in Seq(Frames) /\ router \in Routers /\ wanted \in BOOLEAN
      /\ UNCHANGED <<online, subscribed, serving, wanted>> /\ Settle(settled)
  BY DEF ReceiveResponse, Arrives, TypeOK
<1>2. r \in Requests /\ Head(down) = Response(r)
  BY <1>1, HeadAndTail, FrameFields, FrameShape
<1>3. /\ Has(down, JobResponses) <=> Has(down', JobResponses) \/ r \in JobRequests
      /\ HasOne(down, JobResponses) => HasOne(down', JobResponses)
      /\ HasOne(down, JobResponses) /\ r \in JobRequests => ~Has(down', JobResponses)
      /\ Has(down, ShellFrames) <=> Has(down', ShellFrames) \/ r = "shell"
      /\ Answered(down) => Answered(down')
      /\ Answered(down) => Has(down', JobResponses)
  <2>1. /\ Head(down) \in JobResponses <=> r \in JobRequests
        /\ Head(down) \in ShellFrames <=> r = "shell"
    BY <1>2, RequestsDiffer DEF ShellFrames
  <2> QED BY <1>1, <2>1, FrameTaken, AnsweredLater
<1>4. /\ OneJob(router.job, up, serving, down) /\ OnTarget(router, up, serving, down)
      /\ Hydrates(router, up, serving, down)
  BY DEF HydrationInv
<1> DEFINE Ready == /\ settled \in Routers
                    /\ OneJob(settled.job, up, serving, down')
                    /\ Hydrates(settled, up, serving, down')
                    /\ settled.job # "stuck" /\ ~ShellComing(up, serving, down')
                         => Target(settled) = wanted
<1>5. ASSUME r = "shell" PROVE Ready
  <2>1. /\ settled \in Routers /\ Target(settled) = wanted
        /\ settled.job = router.job /\ settled.tracked = router.tracked
        /\ settled.hydrated = router.hydrated
    BY <1>1, <1>5, ChainTarget
  <2>2. r \notin JobRequests
    BY <1>5, RequestsDiffer
  <2> HIDE DEF settled, r
  <2>3. OneJob(settled.job, up, serving, down')
    BY <1>3, <1>4, <2>1, <2>2 DEF OneJob
  <2>4. Hydrates(settled, up, serving, down')
    BY <1>3, <1>4, <2>1 DEF Hydrates, SnapshotComing
  <2> QED BY <2>1, <2>3, <2>4
<1>6. ASSUME r = "poll" PROVE Ready
  <2>1. settled = [router EXCEPT !.asking = FALSE]
    BY <1>6
  <2>2. r \notin JobRequests /\ r # "shell"
    BY <1>6, RequestsDiffer
  <2> HIDE DEF settled, r
  <2>3. /\ settled \in Routers /\ Target(settled) = Target(router)
        /\ settled.job = router.job /\ settled.tracked = router.tracked
        /\ settled.hydrated = router.hydrated
    BY <1>1, <2>1 DEF Target, Routers
  <2>4. OneJob(settled.job, up, serving, down')
    BY <1>3, <1>4, <2>2, <2>3 DEF OneJob
  <2>5. Hydrates(settled, up, serving, down')
    BY <1>3, <1>4, <2>3 DEF Hydrates, SnapshotComing
  <2>6. settled.job # "stuck" /\ ~ShellComing(up, serving, down') => Target(settled) = wanted
    BY <1>1, <1>3, <1>4, <2>2, <2>3 DEF OnTarget, ShellComing
  <2> QED BY <2>3, <2>4, <2>5, <2>6
<1>7. ASSUME r \notin {"shell", "poll"} PROVE Ready
  <2>1. settled = [router EXCEPT !.job = "idle"] /\ r # "shell"
    BY <1>7
  <2>2. r \in JobRequests
    BY <1>2, <1>7 DEF Requests, JobRequests
  <2> HIDE DEF settled, r
  <2>3. /\ settled \in Routers /\ Target(settled) = Target(router)
        /\ settled.job = "idle" /\ settled.tracked = router.tracked
        /\ settled.hydrated = router.hydrated
    BY <1>1, <2>1 DEF Target, Routers, Jobs
  <2>4. /\ router.job \notin {"idle", "stuck"}
        /\ ~Has(up, JobRequests) /\ serving.request \notin JobRequests
        /\ ~Has(down', JobResponses) /\ HasOne(up, JobRequests) /\ HasOne(down', JobResponses)
    BY <1>3, <1>4, <2>2 DEF OneJob
  <2>5. OneJob(settled.job, up, serving, down')
    BY <2>3, <2>4 DEF OneJob
  <2>6. ~SnapshotComing(up, serving, down)
    <3>1. Has(up, {"open"}) => Has(up, JobRequests)
      BY DEF Has, JobRequests
    <3>2. "open" \in JobRequests
      BY DEF JobRequests
    <3> QED BY <1>3, <2>4, <3>1, <3>2 DEF SnapshotComing
  <2>7. Hydrates(settled, up, serving, down')
    BY <1>4, <2>3, <2>4, <2>6 DEF Hydrates
  <2>8. settled.job # "stuck" /\ ~ShellComing(up, serving, down') => Target(settled) = wanted
    BY <1>1, <1>3, <1>4, <2>1, <2>3, <2>4 DEF OnTarget, ShellComing
  <2> QED BY <2>3, <2>5, <2>7, <2>8
<1>8. Ready
  BY <1>5, <1>6, <1>7
<1> HIDE DEF settled, r
<1>9. /\ OneJob(router'.job, up', serving', down')
      /\ router'.job = "idle" => router'.chain = <<>>
      /\ OnTarget(router, up, serving, down)'
      /\ Hydrates(router', up', serving', down')
  BY <1>1, <1>8, SettleHydrates
<1> QED BY <1>1, <1>9 DEF HydrationInv, OfflineIsEmpty

LEMMA ClientHydrates ==
    ASSUME TypeOK, HydrationInv, ClientStep \/ Drop
    PROVE  HydrationInv'
<1> USE DEF server, link, limits, client
<1>0. /\ down \in Seq(Frames) /\ up \in Seq(Requests) /\ serving \in Servings
      /\ router \in Routers /\ wanted \in BOOLEAN
      /\ OneJob(router.job, up, serving, down) /\ OnTarget(router, up, serving, down)
      /\ Hydrates(router, up, serving, down) /\ OfflineIsEmpty
      /\ router.job = "idle" => router.chain = <<>>
  BY DEF TypeOK, HydrationInv
<1>1. CASE ReceiveEvent
  BY <1>1, OtherFrameHydrates DEF ReceiveEvent
<1>2. CASE ReceiveShellSnapshot
  BY <1>2, OtherFrameHydrates DEF ReceiveShellSnapshot
<1>3. CASE ReceiveThreadSnapshot
  BY <1>3, OtherFrameHydrates DEF ReceiveThreadSnapshot
<1>4. CASE ReceiveWelcome
  <2>1. /\ online /\ down # <<>> /\ Head(down).kind = "welcome" /\ down' = Tail(down)
        /\ router' = [router EXCEPT !.tracked = FALSE, !.hydrated = FALSE]
        /\ up' = Append(up, "shell") /\ UNCHANGED <<online, subscribed, serving, wanted>>
    BY <1>4 DEF ReceiveWelcome, Arrives, EnsureScopedSubscriptions
  <2>2. Head(down) = Welcome /\ Welcome \notin JobResponses
    BY <1>0, <2>1, HeadAndTail, FrameShape, RequestsDiffer DEF JobResponses
  <2>3. /\ Has(down', JobResponses) <=> Has(down, JobResponses)
        /\ HasOne(down, JobResponses) => HasOne(down', JobResponses)
    BY <1>0, <2>1, <2>2, FrameTaken
  <2>4. "shell" \in Requests /\ "shell" \notin JobRequests
    BY DEF Requests, JobRequests
  <2>5. /\ Has(up', JobRequests) <=> Has(up, JobRequests)
        /\ HasOne(up, JobRequests) => HasOne(up', JobRequests)
        /\ Has(up', {"shell"})
    BY <1>0, <2>1, <2>4, RequestPut
  <2>6. router'.job = router.job /\ router'.chain = router.chain /\ ~router'.tracked
    BY <1>0, <2>1 DEF Routers
  <2>7. OneJob(router'.job, up', serving', down')
    BY <1>0, <2>1, <2>3, <2>5, <2>6 DEF OneJob
  <2>8. OnTarget(router, up, serving, down)' /\ Hydrates(router', up', serving', down')
    BY <2>5, <2>6 DEF OnTarget, ShellComing, Hydrates
  <2> QED BY <1>0, <2>1, <2>6, <2>7, <2>8 DEF HydrationInv, OfflineIsEmpty
<1>5. CASE ReceiveResponse
  BY <1>5, ResponseHydrates
<1>6. CASE Flush
  BY <1>6 DEF Flush, HydrationInv, OfflineIsEmpty, OnTarget
<1>7. CASE Poll
  <2>1. /\ router' = [router EXCEPT !.asking = TRUE] /\ up' = Append(up, "poll")
        /\ UNCHANGED <<online, subscribed, down, serving, wanted>>
    BY <1>7 DEF Poll
  <2>2. "poll" \in Requests /\ "poll" \notin JobRequests /\ "poll" # "shell" /\ "poll" # "open"
    BY DEF Requests, JobRequests
  <2>3. /\ Has(up', JobRequests) <=> Has(up, JobRequests)
        /\ HasOne(up, JobRequests) => HasOne(up', JobRequests)
        /\ Has(up', {"shell"}) <=> Has(up, {"shell"})
        /\ Has(up', {"open"}) <=> Has(up, {"open"})
    BY <1>0, <2>1, <2>2, RequestPut
  <2>4. /\ router'.job = router.job /\ router'.chain = router.chain
        /\ router'.tracked = router.tracked /\ router'.hydrated = router.hydrated
        /\ Target(router') = Target(router)
    BY <1>0, <2>1 DEF Routers, Target
  <2>5. OneJob(router'.job, up', serving', down')
    BY <1>0, <2>1, <2>3, <2>4 DEF OneJob
  <2>6. OnTarget(router, up, serving, down)'
    BY <1>0, <2>1, <2>3, <2>4 DEF OnTarget, ShellComing
  <2>7. Hydrates(router', up', serving', down')
    BY <1>0, <2>1, <2>3, <2>4 DEF Hydrates, SnapshotComing
  <2> QED BY <1>0, <2>1, <2>4, <2>5, <2>6, <2>7 DEF HydrationInv, OfflineIsEmpty
<1>8. CASE Move
  <2> DEFINE longer == [router EXCEPT !.chain = Append(@, wanted')]
  <2>1. /\ wanted' \in BOOLEAN /\ Settle(longer)
        /\ UNCHANGED <<online, subscribed, down, serving>>
    BY <1>0, <1>8 DEF Move
  <2>2. /\ longer \in Routers /\ Target(longer) = wanted' /\ longer.job = router.job
        /\ longer.tracked = router.tracked /\ longer.hydrated = router.hydrated
    BY <1>0, <2>1, ChainTarget
  <2> HIDE DEF longer
  <2>3. /\ OneJob(longer.job, up, serving, down') /\ Hydrates(longer, up, serving, down')
    BY <1>0, <2>1, <2>2 DEF Hydrates
  <2>4. /\ OneJob(router'.job, up', serving', down')
        /\ router'.job = "idle" => router'.chain = <<>>
        /\ OnTarget(router, up, serving, down)'
        /\ Hydrates(router', up', serving', down')
    BY <2>1, <2>2, <2>3, SettleHydrates
  <2> QED BY <1>0, <2>1, <2>4 DEF HydrationInv, OfflineIsEmpty
<1>9. CASE Connect
  <2>1. /\ ~online /\ online' /\ down' = <<Welcome>> /\ UNCHANGED <<up, serving, router, wanted>>
    BY <1>9 DEF Connect, Welcome
  <2>2. down = <<>>
    BY <1>0, <2>1 DEF OfflineIsEmpty
  <2>3. /\ ~Has(down', JobResponses) /\ HasOne(down', JobResponses)
        /\ Has(down', ShellFrames)
    <3>1. Welcome \notin JobResponses /\ Welcome \in ShellFrames
      BY RequestsDiffer DEF JobResponses, ShellFrames
    <3> QED BY <2>1, <3>1, HasSingle
  <2>4. ~Has(down, JobResponses) /\ ~Answered(down)
    BY <2>2, HasNone DEF Answered
  <2>5. OneJob(router'.job, up', serving', down')
    BY <1>0, <2>1, <2>3, <2>4 DEF OneJob
  <2>6. OnTarget(router, up, serving, down)'
    BY <2>3 DEF OnTarget, ShellComing
  <2>7. Hydrates(router', up', serving', down')
    BY <1>0, <2>1, <2>4 DEF Hydrates, SnapshotComing
  <2> QED BY <1>0, <2>1, <2>5, <2>6, <2>7 DEF HydrationInv, OfflineIsEmpty
<1>10. CASE Drop
  <2>1. /\ ~online' /\ ~subscribed' /\ up' = <<>> /\ down' = <<>> /\ serving' = NoRequest
        /\ router' = [router EXCEPT !.job = IF @ = "idle" THEN @ ELSE "stuck"]
    BY <1>10 DEF Drop
  <2>2. /\ router'.job \in {"idle", "stuck"} /\ router'.job = "idle" => router.job = "idle"
        /\ router'.chain = router.chain /\ router'.tracked = router.tracked
        /\ router'.hydrated = router.hydrated
    BY <1>0, <2>1 DEF Routers
  <2>3. OneJob(router'.job, up', serving', down')
    BY <2>1, <2>2, HasNone, RequestsDiffer DEF OneJob
  <2>4. OnTarget(router, up, serving, down)' /\ Hydrates(router', up', serving', down')
    BY <1>0, <2>1, <2>2 DEF OnTarget, Hydrates
  <2> QED BY <1>0, <2>1, <2>2, <2>3, <2>4 DEF HydrationInv, OfflineIsEmpty
<1>11. CASE Reload
  <2>1. /\ ~online' /\ ~subscribed' /\ up' = <<"shell">> /\ down' = <<>> /\ serving' = NoRequest
        /\ router'.job = "idle" /\ router'.chain = <<>> /\ ~router'.tracked
    BY <1>11 DEF Reload, FreshRouter
  <2>2. ~Has(up', JobRequests) /\ HasOne(up', JobRequests)
    BY <2>1, HasSingle, RequestsDiffer
  <2> QED BY <2>1, <2>2, HasNone, RequestsDiffer
          DEF HydrationInv, OfflineIsEmpty, OneJob, OnTarget, Hydrates
<1> QED BY <1>1, <1>2, <1>3, <1>4, <1>5, <1>6, <1>7, <1>8, <1>9, <1>10, <1>11 DEF ClientStep

LEMMA HydrationStep == TypeOK /\ HydrationInv /\ [Next]_vars => HydrationInv'
<1>1. ASSUME HydrationInv, UNCHANGED vars PROVE HydrationInv'
  BY <1>1 DEF vars, server, link, limits, client, HydrationInv, OfflineIsEmpty, OnTarget
<1> QED BY <1>1, ServerHydrates, ClientHydrates DEF Next

(* Nothing in flight leaves nothing to wait for. *)
LEMMA QuietIsHydrated == TypeOK /\ HydrationInv => QuietThreadHydrated
<1> SUFFICES ASSUME TypeOK, HydrationInv, Quiet, router.job # "stuck"
             PROVE  router.tracked = wanted /\ (wanted => router.hydrated)
  BY DEF QuietThreadHydrated
<1>1. /\ online /\ up = <<>> /\ down = <<>> /\ serving = NoRequest /\ router.job \in Jobs
  BY RouterFields DEF Quiet, TypeOK
<1>2. router.job = "idle" /\ router.chain = <<>>
  BY <1>1, HasNone, RequestsDiffer DEF HydrationInv, OneJob, Jobs
<1>3. Target(router) = wanted
  BY <1>1, <1>2, HasNone, RequestsDiffer DEF HydrationInv, OnTarget, ShellComing
<1>4. router.tracked => router.hydrated
  BY <1>2 DEF HydrationInv, Hydrates
<1> QED BY <1>2, <1>3, <1>4 DEF Target

(* The user's view decides what the client subscribes to, and a thread it  *)
(* wants is hydrated once nothing is in flight, for any number of          *)
(* reconnects, reloads and moves, and however the chain queues them up: a  *)
(* job has its one answer coming, the snapshot of an opening precedes its  *)
(* answer, and the last link of the chain is what the user wanted last.    *)
THEOREM QuietThreadsAreHydrated == Spec => []QuietThreadHydrated
<1>1. Init => TypeOK /\ HydrationInv
  BY TypeInit, HydrationInit
<1>2. TypeOK /\ HydrationInv /\ [Next]_vars => (TypeOK /\ HydrationInv)'
  BY TypeStep, HydrationStep
<1> QED BY <1>1, <1>2, QuietIsHydrated, PTL DEF Spec
-----------------------------------------------------------------------------
(* A turn's last word.  After what closes a turn nothing else of it comes. *)

Closed(s, D, S) == \A i, j \in DOMAIN s : i < j /\ s[i] \in D => s[j] \notin S

LEMMA ClosedAppend ==
    ASSUME NEW T, NEW s \in Seq(T), NEW x \in T, NEW D, NEW S,
           Closed(s, D, S), x \in S => ~Has(s, D)
    PROVE  Closed(Append(s, x), D, S)
<1> DEFINE n == Len(s)
           a == Append(s, x)
<1>1. /\ n \in Nat /\ DOMAIN s = 1..n /\ DOMAIN a = 1..(n + 1) /\ a[n + 1] = x
      /\ \A i \in 1..n : a[i] = s[i]
  OBVIOUS
<1> HIDE DEF n, a
<1> SUFFICES ASSUME NEW i \in 1..(n + 1), NEW j \in 1..(n + 1), i < j, a[i] \in D
             PROVE  a[j] \notin S
  BY <1>1 DEF Closed, a
<1>2. i \in 1..n /\ a[i] = s[i]
  BY <1>1
<1>3. CASE j = n + 1
  BY <1>1, <1>2, <1>3 DEF Has
<1>4. CASE j # n + 1
  <2>1. j \in 1..n /\ a[j] = s[j]
    BY <1>1, <1>4
  <2> QED BY <1>1, <1>2, <2>1 DEF Closed
<1> QED BY <1>3, <1>4

LEMMA ClosedTail ==
    ASSUME NEW T, NEW s \in Seq(T), s # <<>>, NEW D, NEW S, Closed(s, D, S)
    PROVE  /\ Closed(Tail(s), D, S)
           /\ Head(s) \in D => ~Has(Tail(s), S)
<1> DEFINE n == Len(s)
           t == Tail(s)
<1>1. /\ n \in Nat \ {0} /\ DOMAIN s = 1..n /\ DOMAIN t = 1..(n - 1) /\ Head(s) = s[1]
      /\ \A i \in 1..(n - 1) : t[i] = s[i + 1]
  OBVIOUS
<1> HIDE DEF n, t
<1>2. /\ 1 \in 1..n
      /\ \A i \in 1..(n - 1) : i + 1 \in 1..n /\ 1 < i + 1
      /\ \A i, j \in 1..(n - 1) : i < j => i + 1 < j + 1
  BY <1>1
<1>3. Closed(t, D, S)
  BY <1>1, <1>2 DEF Closed
<1>4. Head(s) \in D => ~Has(t, S)
  BY <1>1, <1>2 DEF Closed, Has
<1> QED BY <1>3, <1>4 DEF t

LEMMA ClosedNone == \A D, S : Closed(<<>>, D, S)
BY DEF Closed

LEMMA ClosedSingle == \A x, D, S : Closed(<<x>>, D, S)
<1>1. \A x : DOMAIN <<x>> = 1..1
  OBVIOUS
<1>2. \A i, j \in 1..1 : ~(i < j)
  OBVIOUS
<1> QED BY <1>1, <1>2 DEF Closed

LEMMA HasSubset ==
    ASSUME NEW s, NEW A, NEW B, A \subseteq B
    PROVE  Has(s, A) => Has(s, B)
BY DEF Has

(* The completion of turn t, and what is said of its answer: on the        *)
(* server, in a frame, and in the client's queue.                          *)
Completions(t) == {e \in Events : e.type = "TurnCompleted" /\ e.turn = t}
Words(t) == {e \in Events : e.type \in {"TurnCompleted", "MessageDeltaAppended"} /\ e.turn = t}
CompletionFrames(t) == {f \in Frames : f.kind = "event" /\ f.event \in Completions(t)}
WordFrames(t) == {f \in Frames : f.kind = "event" /\ f.event \in Words(t)}
Finals(t) == {e \in UiEvents : e.type = "message-sent" /\ e.turn = t /\ ~e.streaming}
Parts(t) == {e \in UiEvents : e.type = "message-sent" /\ e.turn = t}

(* Nothing follows the last word, wherever on the way to the store it is;  *)
(* and it is said by a turn that has completed.                            *)
LastWord(t) ==
    /\ Closed(pending, Finals(t), Parts(t))
    /\ Closed(down, CompletionFrames(t), WordFrames(t))
    /\ Closed(bus, Completions(t), Words(t))
    /\ Has(pending, Finals(t)) => ~Has(down, WordFrames(t))
    /\ Has(pending, Finals(t)) \/ Has(down, CompletionFrames(t)) => ~Has(bus, Words(t))
    /\ Has(pending, Finals(t)) \/ Has(down, CompletionFrames(t)) \/ Has(bus, Completions(t))
         => ~Has(stream, Words(t))
    /\ Has(pending, Finals(t)) => status[t] = "completed"
    /\ Has(down, CompletionFrames(t)) => status[t] = "completed"
    /\ Has(bus, Completions(t)) \/ Has(stream, Completions(t)) => status[t] = "completed"
    /\ ~Has(worker, Words(t))

(* A finished message waits behind the session that the completion sets.   *)
Rests(e) == e.type = "session-set" /\ e.status # "running"
Announced(s) ==
    \A i \in DOMAIN s : s[i].type = "message-sent" /\ ~s[i].streaming =>
      i > 1 /\ Rests(s[i - 1])

WordInv == (\A t \in Turns : LastWord(t)) /\ Announced(pending)

LEMMA CompletionIsWord ==
    ASSUME NEW t \in Turns
    PROVE  /\ Completions(t) \subseteq Words(t) /\ CompletionFrames(t) \subseteq WordFrames(t)
           /\ Finals(t) \subseteq Parts(t)
BY DEF Completions, Words, CompletionFrames, WordFrames, Finals, Parts

LEMMA WordInit == Init => WordInv
<1> SUFFICES ASSUME Init PROVE WordInv
  OBVIOUS
<1>1. pending = <<>> /\ down = <<>> /\ bus = <<>> /\ stream = <<>> /\ worker = <<>>
  BY DEF Init
<1>2. \A i \in DOMAIN <<>> : FALSE
  OBVIOUS
<1> QED BY <1>1, <1>2, HasNone, ClosedNone DEF WordInv, LastWord, Announced

(* Nothing new on any leg of the way. *)
LEMMA WordsShrink ==
    ASSUME WordInv, NEW t \in Turns, UNCHANGED <<status, worker, stream>>,
           Has(bus', Words(t)) => Has(bus, Words(t)),
           Has(bus', Completions(t)) => Has(bus, Completions(t)),
           Has(down', WordFrames(t)) => Has(down, WordFrames(t)),
           Has(down', CompletionFrames(t)) => Has(down, CompletionFrames(t)),
           Has(pending', Finals(t)) => Has(pending, Finals(t)),
           Closed(pending', Finals(t), Parts(t)),
           Closed(down', CompletionFrames(t), WordFrames(t)),
           Closed(bus', Completions(t), Words(t))
    PROVE  LastWord(t)'
<1>1. LastWord(t) /\ status' = status /\ worker' = worker /\ stream' = stream
  BY DEF WordInv
<1>2. Has(worker', Words(t)) <=> Has(worker, Words(t))
  BY <1>1
<1>3. /\ Has(stream', Words(t)) <=> Has(stream, Words(t))
      /\ Has(stream', Completions(t)) <=> Has(stream, Completions(t))
  BY <1>1
<1> QED BY <1>1, <1>2, <1>3 DEF LastWord

LEMMA TurnWords ==
    ASSUME TypeOK, WordInv, NEW u \in Turns,
           \/ StartTurn(u) \/ CancelTurn(u)
           \/ ProviderDelta(u) \/ ProviderCompletes(u) \/ ProviderFails(u)
    PROVE  WordInv'
<1> USE DEF server, link, limits, client
<1>0. /\ worker \in Seq(Events) /\ stream \in Seq(Events) /\ status \in [Turns -> Statuses]
      /\ UNCHANGED <<pending, down, bus>>
  BY DEF TypeOK, StartTurn, CancelTurn, ProviderDelta, ProviderCompletes, ProviderFails
<1> SUFFICES ASSUME NEW t \in Turns PROVE LastWord(t)'
  BY <1>0 DEF WordInv, Announced
<1>1. LastWord(t)
  BY DEF WordInv
<1>2. CASE StartTurn(u) \/ CancelTurn(u)
  <2>1. PICK e \in Events : /\ worker' = Append(worker, e)
                            /\ e.type \in {"TurnStarted", "TurnCancelled"}
    <3>1. /\ [type |-> "TurnStarted", turn |-> u] \in Events
          /\ [type |-> "TurnCancelled", turn |-> u] \in Events
      BY DEF Events
    <3> QED BY <1>2, <3>1 DEF StartTurn, CancelTurn
  <2>2. ~Has(worker', Words(t))
    <3>1. e \notin Words(t)
      BY <2>1 DEF Words
    <3> QED BY <1>0, <1>1, <2>1, <3>1, HasAppend DEF LastWord
  <2>3. stream' = stream /\ (status[t] = "completed" => status'[t] = "completed")
    BY <1>0, <1>2 DEF StartTurn, CancelTurn
  <2> QED BY <1>0, <1>1, <2>2, <2>3 DEF LastWord
<1>3. ASSUME NEW e \in Events, stream' = Append(stream, e), stream = <<>>, e.turn = u,
             worker' = worker, status[u] \in {"running", "cancelled"},
             \A v \in Turns \ {u} : status'[v] = status[v],
             e.type = "TurnCompleted" => status'[u] = "completed"
      PROVE  LastWord(t)'
  <2>1. /\ Has(stream', Words(t)) => t = u
        /\ Has(stream', Completions(t)) => t = u /\ e.type = "TurnCompleted"
    <3>1. stream' = <<e>>
      BY <1>3
    <3> QED BY <1>3, <3>1, HasSingle DEF Words, Completions
  <2>2. CASE t = u
    <3>1. /\ ~Has(pending, Finals(t)) /\ ~Has(down, CompletionFrames(t))
          /\ ~Has(bus, Completions(t))
      BY <1>1, <1>3, <2>2 DEF LastWord
    <3>2. Has(stream', Completions(t)) => status'[t] = "completed"
      BY <1>3, <2>1, <2>2
    <3>3. pending' = pending /\ down' = down /\ bus' = bus /\ worker' = worker
      BY <1>0, <1>3
    <3> QED BY <1>1, <3>1, <3>2, <3>3 DEF LastWord
  <2>3. CASE t # u
    BY <1>0, <1>1, <1>3, <2>1, <2>3 DEF LastWord
  <2> QED BY <2>2, <2>3
<1>4. CASE ProviderDelta(u)
  <2> DEFINE piece == <<Len(output[u]) + 1>>
             e == [type |-> "MessageDeltaAppended", turn |-> u, text |-> piece]
  <2>1. /\ stream' = Append(stream, e) /\ stream = <<>> /\ worker' = worker /\ status' = status
        /\ status[u] \in {"running", "cancelled"}
    BY <1>4 DEF ProviderDelta, ProviderMayEmit
  <2>2. e \in Events
    <3>1. output[u] \in Seq(1..Chunks) /\ Len(output[u]) < Chunks /\ Chunks \in Nat
      BY <1>4, ClientSyncAssumption DEF ProviderDelta, TypeOK, Texts
    <3>2. piece \in Texts
      BY <3>1 DEF Texts
    <3> QED BY <3>2 DEF Events
  <2>3. e.turn = u /\ e.type # "TurnCompleted"
    OBVIOUS
  <2> HIDE DEF e
  <2> QED BY <1>3, <2>1, <2>2, <2>3
<1>5. CASE ProviderCompletes(u) \/ ProviderFails(u)
  <2>1. PICK e \in Events : /\ stream' = Append(stream, e) /\ e.turn = u
                            /\ status' = [status EXCEPT ![u] = IF e.type = "TurnCompleted"
                                                               THEN "completed" ELSE "failed"]
    <3>1. /\ [type |-> "TurnCompleted", turn |-> u] \in Events
          /\ [type |-> "TurnFailed", turn |-> u] \in Events
      BY DEF Events
    <3> QED BY <1>5, <3>1 DEF ProviderCompletes, ProviderFails
  <2>2. stream = <<>> /\ worker' = worker /\ status[u] \in {"running", "cancelled"}
    BY <1>5 DEF ProviderCompletes, ProviderFails, ProviderMayEmit
  <2> QED BY <1>0, <1>3, <2>1, <2>2
<1> QED BY <1>2, <1>4, <1>5

(* A frame that is no event leaves the words in flight as they are. *)
LEMMA OtherFrameWords ==
    ASSUME NEW t \in Turns, NEW f \in Frames, f.kind # "event"
    PROVE  f \notin CompletionFrames(t) /\ f \notin WordFrames(t)
BY DEF CompletionFrames, WordFrames

LEMMA EventFrameWords ==
    ASSUME NEW t \in Turns, NEW f \in Frames, f.kind = "event"
    PROVE  /\ f.event \in Events
           /\ f \in CompletionFrames(t) <=> f.event \in Completions(t)
           /\ f \in WordFrames(t) <=> f.event \in Words(t)
BY FrameFields DEF CompletionFrames, WordFrames

LEMMA WordsPut ==
    ASSUME NEW T, NEW s \in Seq(T), NEW x \in T, NEW D, NEW S, Closed(s, D, S)
    PROVE  /\ Has(Append(s, x), S) <=> Has(s, S) \/ x \in S
           /\ Has(Append(s, x), D) <=> Has(s, D) \/ x \in D
           /\ (x \in S => ~Has(s, D)) => Closed(Append(s, x), D, S)
BY HasAppend, ClosedAppend

LEMMA WordsTaken ==
    ASSUME NEW T, NEW s \in Seq(T), s # <<>>, NEW D, NEW S, Closed(s, D, S)
    PROVE  /\ Head(s) \in T
           /\ Has(s, S) <=> Has(Tail(s), S) \/ Head(s) \in S
           /\ Has(s, D) <=> Has(Tail(s), D) \/ Head(s) \in D
           /\ Closed(Tail(s), D, S)
           /\ Head(s) \in D => ~Has(Tail(s), S)
BY HasTail, ClosedTail, HeadAndTail

(* What is left in hand of a bus was there, and is in order. *)
LEMMA InHandHas ==
    ASSUME TypeOK, DeliveryEnds, NEW D, NEW S
    PROVE  (Has(bus', S) => Has(bus, S)) /\ Closed(bus', D, S)
<1>1. bus \in Seq(Events)
  BY DEF TypeOK
<1>2. CASE bus' = <<>>
  BY <1>2, HasNone, ClosedNone
<1>3. CASE bus # <<>> /\ bus' = <<Head(bus)>>
  <2>1. Has(bus', S) <=> Head(bus) \in S
    BY <1>3, HasSingle
  <2>2. Head(bus) \in S => Has(bus, S)
    BY <1>1, <1>3, HasTail
  <2>3. Closed(bus', D, S)
    BY <1>3, ClosedSingle
  <2> QED BY <2>1, <2>2, <2>3
<1> QED BY <1>2, <1>3, LeftInHand

LEMMA LinkWords ==
    ASSUME TypeOK, WordInv,
           \/ PublishCommandEvent \/ PublishProviderEvent \/ OtherPushesOvertake
           \/ DeliveryStarts \/ DeliverPush \/ ServeRequest \/ SendResponse
    PROVE  WordInv'
<1> USE DEF server, link, limits, client
<1>0. /\ worker \in Seq(Events) /\ stream \in Seq(Events) /\ Len(stream) <= 1
      /\ bus \in Seq(Events) /\ down \in Seq(Frames) /\ serving \in Servings
      /\ UNCHANGED <<pending, status>>
  BY DEF TypeOK, PublishCommandEvent, PublishProviderEvent, DeliverPush, ServeRequest,
         SendResponse, OtherPushesOvertake, DeliveryStarts
<1> SUFFICES ASSUME NEW t \in Turns PROVE LastWord(t)'
  BY <1>0 DEF WordInv, Announced
<1>1. /\ LastWord(t) /\ Completions(t) \subseteq Words(t)
      /\ Has(bus, Completions(t)) => Has(bus, Words(t))
      /\ Has(stream, Completions(t)) => Has(stream, Words(t))
      /\ Has(down, CompletionFrames(t)) => Has(down, WordFrames(t))
  BY CompletionIsWord, HasSubset DEF WordInv
<1>2. CASE PublishCommandEvent
  <2> DEFINE e == Head(worker)
  <2>1. /\ worker # <<>> /\ worker' = Tail(worker) /\ UNCHANGED <<stream, down>>
        /\ Broadcast(e)
    BY <1>2 DEF PublishCommandEvent
  <2>2. e \in Events /\ e \notin Words(t) /\ ~Has(worker', Words(t)) /\ e \notin Completions(t)
    BY <1>0, <1>1, <2>1, HasTail, HeadAndTail DEF LastWord
  <2> HIDE DEF e
  <2>3. /\ Has(bus', Words(t)) => Has(bus, Words(t))
        /\ Has(bus', Completions(t)) => Has(bus, Completions(t))
        /\ Closed(bus', Completions(t), Words(t))
    <3>1. Closed(bus, Completions(t), Words(t))
      BY <1>1 DEF LastWord
    <3>2. /\ Has(Append(bus, e), Words(t)) <=> Has(bus, Words(t)) \/ e \in Words(t)
          /\ Has(Append(bus, e), Completions(t))
               <=> Has(bus, Completions(t)) \/ e \in Completions(t)
          /\ (e \in Words(t) => ~Has(bus, Completions(t)))
               => Closed(Append(bus, e), Completions(t), Words(t))
      BY <1>0, <2>2, <3>1, WordsPut
    <3>3. DeliveryEnds => /\ Has(bus', Words(t)) => Has(bus, Words(t))
                          /\ Has(bus', Completions(t)) => Has(bus, Completions(t))
                          /\ Closed(bus', Completions(t), Words(t))
      BY InHandHas
    <3>4. bus' = bus \/ bus' = Append(bus, e) \/ DeliveryEnds
      BY <2>1, <2>2, BroadcastCases
    <3>5. CASE bus' = bus
      BY <3>1, <3>5
    <3>6. CASE bus' = Append(bus, e)
      BY <2>2, <3>2, <3>6
    <3> QED BY <3>3, <3>4, <3>5, <3>6
  <2> QED BY <1>0, <1>1, <2>1, <2>2, <2>3 DEF LastWord
<1>3. CASE PublishProviderEvent
  <2> DEFINE e == Head(stream)
  <2>1. /\ stream # <<>> /\ stream' = Tail(stream) /\ UNCHANGED <<worker, down>>
        /\ Broadcast(e)
    BY <1>3 DEF PublishProviderEvent
  <2>2. e \in Events /\ stream' = <<>>
    <3>1. \A s \in Seq(Events) : s # <<>> /\ Len(s) <= 1 => Tail(s) = <<>>
      OBVIOUS
    <3> QED BY <1>0, <2>1, <3>1, HeadAndTail
  <2>3. /\ ~Has(stream', Words(t)) /\ ~Has(stream', Completions(t))
        /\ Has(stream, Words(t)) <=> e \in Words(t)
        /\ Has(stream, Completions(t)) <=> e \in Completions(t)
    BY ZenonT(30), <1>0, <2>1, <2>2, HasTail, HasNone
  <2> HIDE DEF e
  <2>4. /\ Has(bus', Words(t)) => Has(bus, Words(t)) \/ e \in Words(t)
        /\ Has(bus', Completions(t)) => Has(bus, Completions(t)) \/ e \in Completions(t)
        /\ Closed(bus', Completions(t), Words(t))
    <3>1. Closed(bus, Completions(t), Words(t))
      BY <1>1 DEF LastWord
    <3>2. /\ Has(Append(bus, e), Words(t)) <=> Has(bus, Words(t)) \/ e \in Words(t)
          /\ Has(Append(bus, e), Completions(t))
               <=> Has(bus, Completions(t)) \/ e \in Completions(t)
          /\ (e \in Words(t) => ~Has(bus, Completions(t)))
               => Closed(Append(bus, e), Completions(t), Words(t))
      BY <1>0, <2>2, <3>1, WordsPut
    <3>3. e \in Words(t) => ~Has(bus, Completions(t))
      BY <1>1, <2>3 DEF LastWord
    <3>4. DeliveryEnds => /\ Has(bus', Words(t)) => Has(bus, Words(t))
                          /\ Has(bus', Completions(t)) => Has(bus, Completions(t))
                          /\ Closed(bus', Completions(t), Words(t))
      BY InHandHas
    <3>5. bus' = bus \/ bus' = Append(bus, e) \/ DeliveryEnds
      BY <2>1, <2>2, BroadcastCases
    <3>6. CASE bus' = bus
      BY <3>1, <3>6
    <3>7. CASE bus' = Append(bus, e)
      BY <3>2, <3>3, <3>7
    <3> QED BY <3>4, <3>5, <3>6, <3>7
  <2> QED BY <1>0, <1>1, <2>1, <2>3, <2>4 DEF LastWord
<1>4. CASE DeliverPush
  <2> DEFINE e == Head(bus)
             f == [kind |-> "event", event |-> e]
  <2>1. /\ bus # <<>> /\ bus' = Tail(bus) /\ UNCHANGED <<worker, stream>>
        /\ down' = down \/ down' = Append(down, f)
    BY <1>4 DEF DeliverPush
  <2>2. /\ e \in Events
        /\ Has(bus, Words(t)) <=> Has(bus', Words(t)) \/ e \in Words(t)
        /\ Has(bus, Completions(t)) <=> Has(bus', Completions(t)) \/ e \in Completions(t)
        /\ Closed(bus', Completions(t), Words(t))
        /\ e \in Completions(t) => ~Has(bus', Words(t))
    BY <1>0, <1>1, <2>1, WordsTaken DEF LastWord
  <2>3. /\ f \in Frames
        /\ f \in CompletionFrames(t) <=> e \in Completions(t)
        /\ f \in WordFrames(t) <=> e \in Words(t)
    BY <2>2, FrameType, EventFrameWords
  <2> HIDE DEF e, f
  <2>4. /\ Has(down', WordFrames(t)) => Has(down, WordFrames(t)) \/ e \in Words(t)
        /\ Has(down', CompletionFrames(t)) => Has(down, CompletionFrames(t)) \/ e \in Completions(t)
        /\ Closed(down', CompletionFrames(t), WordFrames(t))
    <3>1. Closed(down, CompletionFrames(t), WordFrames(t))
      BY <1>1 DEF LastWord
    <3>2. /\ Has(Append(down, f), WordFrames(t)) <=> Has(down, WordFrames(t)) \/ f \in WordFrames(t)
          /\ Has(Append(down, f), CompletionFrames(t))
               <=> Has(down, CompletionFrames(t)) \/ f \in CompletionFrames(t)
          /\ (f \in WordFrames(t) => ~Has(down, CompletionFrames(t)))
               => Closed(Append(down, f), CompletionFrames(t), WordFrames(t))
      BY <1>0, <2>3, <3>1, WordsPut
    <3>3. e \in Words(t) => ~Has(down, CompletionFrames(t))
      BY <1>1, <2>2 DEF LastWord
    <3> QED BY <2>1, <2>3, <3>3, <3>1, <3>2
  <2> QED BY <1>0, <1>1, <2>1, <2>2, <2>4 DEF LastWord
<1>5. CASE ServeRequest
  <2>1. UNCHANGED <<worker, stream, bus, down>>
    BY <1>5 DEF ServeRequest
  <2> QED BY <1>0, <1>1, <2>1, WordsShrink DEF LastWord
<1>6. CASE SendResponse
  <2> DEFINE r == serving.request
             told == CASE r = "shell" -> <<[kind |-> "shell"]>>
                       [] r = "close" -> <<>>
                       [] OTHER -> <<[kind |-> "thread", snapshot |-> serving.snapshot]>>
             a == [kind |-> "response", request |-> r]
  <2>1. /\ r # "none" /\ down' = down \o told \o <<a>> /\ UNCHANGED <<worker, stream, bus>>
    BY <1>6 DEF SendResponse
  <2>2. r \in Requests /\ (r \in {"open", "poll"} => serving.snapshot \in Snapshots)
    BY <1>0, <2>1, ServingFields
  <2>3. a \in Frames /\ a.kind # "event"
    BY <2>2, FrameType
  <2>4. told = <<>> \/ \E f \in Frames : f.kind # "event" /\ told = <<f>>
    <3>1. CASE r = "shell"
      BY <3>1, FrameType
    <3>2. CASE r = "close"
      BY <3>2
    <3>3. CASE r \in {"open", "poll"}
      BY <2>2, <3>3, FrameType
    <3> QED BY <2>2, <3>1, <3>2, <3>3 DEF Requests
  <2> HIDE DEF told, a
  <2>5. \A s \in Seq(Frames) : \A f \in Frames : s \o <<f>> = Append(s, f) /\ s \o <<>> = s
    OBVIOUS
  <2>6. ASSUME NEW s \in Seq(Frames), Closed(s, CompletionFrames(t), WordFrames(t)),
               NEW f \in Frames, f.kind # "event"
        PROVE  /\ s \o <<f>> \in Seq(Frames)
               /\ Has(s \o <<f>>, WordFrames(t)) <=> Has(s, WordFrames(t))
               /\ Has(s \o <<f>>, CompletionFrames(t)) <=> Has(s, CompletionFrames(t))
               /\ Closed(s \o <<f>>, CompletionFrames(t), WordFrames(t))
    <3>1. f \notin CompletionFrames(t) /\ f \notin WordFrames(t) /\ s \o <<f>> = Append(s, f)
      BY <2>5, <2>6, OtherFrameWords
    <3>2. /\ Has(Append(s, f), WordFrames(t)) <=> Has(s, WordFrames(t)) \/ f \in WordFrames(t)
          /\ Has(Append(s, f), CompletionFrames(t))
               <=> Has(s, CompletionFrames(t)) \/ f \in CompletionFrames(t)
          /\ (f \in WordFrames(t) => ~Has(s, CompletionFrames(t)))
               => Closed(Append(s, f), CompletionFrames(t), WordFrames(t))
      BY <2>6, WordsPut
    <3>3. Append(s, f) \in Seq(Frames)
      OBVIOUS
    <3> DEFINE longer == Append(s, f)
    <3>4. s \o <<f>> = longer
      BY <3>1
    <3> HIDE DEF longer
    <3> QED BY <2>6, <3>1, <3>2, <3>3, <3>4 DEF longer
  <2> DEFINE mid == down \o told
  <2>7. /\ mid \in Seq(Frames)
        /\ Has(mid, WordFrames(t)) <=> Has(down, WordFrames(t))
        /\ Has(mid, CompletionFrames(t)) <=> Has(down, CompletionFrames(t))
        /\ Closed(mid, CompletionFrames(t), WordFrames(t))
    <3>1. Closed(down, CompletionFrames(t), WordFrames(t))
      BY <1>1 DEF LastWord
    <3>2. CASE told = <<>>
      <4>1. mid = down
        BY <1>0, <3>2
      <4> HIDE DEF mid
      <4> QED BY <1>0, <3>1, <4>1
    <3>3. ASSUME NEW f \in Frames, f.kind # "event", told = <<f>>
          PROVE  /\ mid \in Seq(Frames)
                 /\ Has(mid, WordFrames(t)) <=> Has(down, WordFrames(t))
                 /\ Has(mid, CompletionFrames(t)) <=> Has(down, CompletionFrames(t))
                 /\ Closed(mid, CompletionFrames(t), WordFrames(t))
      BY <1>0, <2>6, <3>1, <3>3
    <3> HIDE DEF mid
    <3> QED BY <2>4, <3>2, <3>3
  <2>8. down' = mid \o <<a>>
    BY <2>1
  <2> HIDE DEF mid
  <2>9. /\ Has(down', WordFrames(t)) <=> Has(down, WordFrames(t))
        /\ Has(down', CompletionFrames(t)) <=> Has(down, CompletionFrames(t))
        /\ Closed(down', CompletionFrames(t), WordFrames(t))
    BY <2>3, <2>6, <2>7, <2>8
  <2> QED BY <1>0, <1>1, <2>1, <2>9, WordsShrink DEF LastWord
<1>7. CASE OtherPushesOvertake
  <2>1. DeliveryEnds /\ UNCHANGED <<worker, stream, down>>
    BY <1>7 DEF OtherPushesOvertake
  <2>2. /\ Has(bus', Words(t)) => Has(bus, Words(t))
        /\ Has(bus', Completions(t)) => Has(bus, Completions(t))
        /\ Closed(bus', Completions(t), Words(t))
    BY <2>1, InHandHas
  <2> QED BY <1>0, <1>1, <2>1, <2>2, WordsShrink DEF LastWord
<1>8. CASE DeliveryStarts
  <2>1. UNCHANGED <<worker, stream, bus, down>>
    BY <1>8 DEF DeliveryStarts
  <2> QED BY <1>0, <1>1, <2>1, WordsShrink DEF LastWord
<1> QED BY <1>2, <1>3, <1>4, <1>5, <1>6, <1>7, <1>8

LEMMA AnnouncedAppend ==
    ASSUME NEW s \in Seq(UiEvents), NEW x \in UiEvents, Announced(s),
           x.type = "message-sent" /\ ~x.streaming => s # <<>> /\ Rests(Last(s))
    PROVE  Announced(Append(s, x))
<1> DEFINE n == Len(s)
           a == Append(s, x)
<1>1. /\ n \in Nat /\ DOMAIN s = 1..n /\ DOMAIN a = 1..(n + 1) /\ a[n + 1] = x
      /\ \A i \in 1..n : a[i] = s[i]
      /\ s # <<>> => n # 0
  OBVIOUS
<1>2. Last(s) = s[n]
  BY DEF Last
<1> HIDE DEF n, a
<1> SUFFICES ASSUME NEW i \in 1..(n + 1), a[i].type = "message-sent", ~a[i].streaming
             PROVE  i > 1 /\ Rests(a[i - 1])
  BY <1>1 DEF Announced, a
<1>3. CASE i = n + 1
  <2>1. n # 0 /\ Rests(s[n])
    BY <1>1, <1>2, <1>3
  <2>2. n \in 1..n /\ i > 1 /\ i - 1 = n
    BY <1>1, <1>3, <2>1
  <2> QED BY <1>1, <2>1, <2>2
<1>4. CASE i # n + 1
  <2>1. i \in 1..n
    BY <1>1, <1>4
  <2>2. i > 1 /\ Rests(s[i - 1])
    BY <1>1, <2>1 DEF Announced
  <2>3. i - 1 \in 1..n
    BY <1>1, <2>1, <2>2
  <2> QED BY <1>1, <2>2, <2>3
<1> QED BY <1>3, <1>4

(* What the adapter makes of an event says of turn t what the event says.  *)
LEMMA AdaptedWords ==
    ASSUME NEW e \in Events, NEW t \in Turns, NEW s \in Seq(UiEvents),
           Closed(s, Finals(t), Parts(t)), Announced(s),
           e \in Words(t) => ~Has(s, Finals(t))
    PROVE  LET longer == s \o Adapt(e) IN
           /\ longer \in Seq(UiEvents)
           /\ Has(longer, Finals(t)) => Has(s, Finals(t)) \/ e \in Completions(t)
           /\ Closed(longer, Finals(t), Parts(t))
           /\ Announced(longer)
<1> DEFINE Good(longer) ==
             /\ longer \in Seq(UiEvents)
             /\ Has(longer, Finals(t)) => Has(s, Finals(t)) \/ e \in Completions(t)
             /\ Closed(longer, Finals(t), Parts(t))
             /\ Announced(longer)
<1> SUFFICES Good(s \o Adapt(e))
  OBVIOUS
<1>1. /\ \A x \in UiEvents : s \o <<x>> = Append(s, x)
      /\ \A x, y \in UiEvents : s \o <<x, y>> = Append(Append(s, x), y)
      /\ s \o <<>> = s
  OBVIOUS
<1>2. /\ e.turn \in Turns /\ {"running", "ready", "error"} \subseteq SessionStatuses
      /\ SessionSet(e.turn, "running") \in UiEvents
      /\ SessionSet(NoTurn, "ready") \in UiEvents /\ SessionSet(NoTurn, "error") \in UiEvents
  <2>1. {"running", "ready", "error"} \subseteq SessionStatuses
    BY DEF SessionStatuses
  <2> QED BY <2>1, EventFields, UiType
<1>3. ASSUME NEW x \in UiEvents, x.type = "session-set"
      PROVE  Good(Append(s, x)) /\ (Has(Append(s, x), Finals(t)) <=> Has(s, Finals(t)))
  <2>1. x \notin Finals(t) /\ x \notin Parts(t)
    BY <1>3 DEF Finals, Parts
  <2>2. Append(s, x) \in Seq(UiEvents) /\ Announced(Append(s, x))
    BY <1>3, AnnouncedAppend, AppendHas
  <2>3. Closed(Append(s, x), Finals(t), Parts(t))
    BY <2>1, ClosedAppend
  <2>4. Has(Append(s, x), Finals(t)) <=> Has(s, Finals(t)) \/ x \in Finals(t)
    BY HasAppend
  <2> QED BY <2>1, <2>2, <2>3, <2>4
<1>4. CASE Adapt(e) = <<>>
  BY <1>1, <1>4
<1>5. ASSUME NEW turn \in Turns \cup {NoTurn}, NEW st \in SessionStatuses,
             Adapt(e) = <<SessionSet(turn, st)>>
      PROVE  Good(s \o Adapt(e))
  <2>1. SessionSet(turn, st) \in UiEvents /\ SessionSet(turn, st).type = "session-set"
    BY UiType DEF SessionSet
  <2>2. s \o Adapt(e) = Append(s, SessionSet(turn, st))
    BY <1>1, <1>5, <2>1
  <2> QED BY <1>3, <2>1, <2>2
<1>6. CASE e.type = "MessageDeltaAppended" /\ Adapt(e) = <<MessageSent(e.turn, e.text, TRUE)>>
  <2> DEFINE x == MessageSent(e.turn, e.text, TRUE)
  <2>1. /\ x \in UiEvents /\ x.type = "message-sent" /\ x.streaming /\ x.turn = e.turn
    BY <1>2, <1>6, UiType, EventFields DEF MessageSent
  <2>2. s \o Adapt(e) = Append(s, x)
    BY <1>1, <1>6, <2>1
  <2>3. x \notin Finals(t) /\ (x \in Parts(t) => e \in Words(t))
    BY <1>6, <2>1 DEF Finals, Parts, Words
  <2> HIDE DEF x
  <2>4. Append(s, x) \in Seq(UiEvents) /\ Announced(Append(s, x))
    BY <2>1, AnnouncedAppend, AppendHas
  <2>5. Closed(Append(s, x), Finals(t), Parts(t))
    <3>1. x \in Parts(t) => ~Has(s, Finals(t))
      BY <2>3
    <3> QED BY <2>1, <3>1, ClosedAppend
  <2>6. Has(Append(s, x), Finals(t)) <=> Has(s, Finals(t)) \/ x \in Finals(t)
    BY <2>1, HasAppend
  <2> QED BY <2>2, <2>3, <2>4, <2>5, <2>6
<1>7. CASE /\ e.type = "TurnCompleted"
           /\ Adapt(e) = <<SessionSet(NoTurn, "ready"), MessageSent(e.turn, Answer, FALSE)>>
  <2> DEFINE y == SessionSet(NoTurn, "ready")
             x == MessageSent(e.turn, Answer, FALSE)
             mid == Append(s, y)
  <2>1. /\ x \in UiEvents /\ x.type = "message-sent" /\ x.turn = e.turn
        /\ y \in UiEvents /\ y.type = "session-set" /\ Rests(y)
    BY <1>2, UiType, AnswerType DEF MessageSent, SessionSet, Rests
  <2>2. s \o Adapt(e) = Append(mid, x)
    BY <1>1, <1>7, <2>1
  <2>3. x \in Parts(t) => e \in Words(t) /\ e \in Completions(t)
    BY <1>7, <2>1 DEF Parts, Words, Completions
  <2>4. x \in Finals(t) => x \in Parts(t)
    BY DEF Finals, Parts
  <2> HIDE DEF x, y
  <2>5. /\ mid \in Seq(UiEvents) /\ Closed(mid, Finals(t), Parts(t)) /\ Announced(mid)
        /\ Has(mid, Finals(t)) <=> Has(s, Finals(t))
    BY <1>3, <2>1
  <2>6. mid # <<>> /\ Last(mid) = y
    BY <2>1, AppendHas
  <2> HIDE DEF mid
  <2>7. Append(mid, x) \in Seq(UiEvents) /\ Announced(Append(mid, x))
    BY <2>1, <2>5, <2>6, AnnouncedAppend, AppendHas
  <2>8. Closed(Append(mid, x), Finals(t), Parts(t))
    <3>1. x \in Parts(t) => ~Has(mid, Finals(t))
      BY <2>3, <2>5
    <3> QED BY <2>1, <2>5, <3>1, ClosedAppend
  <2>9. Has(Append(mid, x), Finals(t)) <=> Has(mid, Finals(t)) \/ x \in Finals(t)
    BY <2>1, <2>5, HasAppend
  <2> QED BY <2>2, <2>3, <2>4, <2>5, <2>7, <2>8, <2>9
<1> HIDE DEF Good
<1> QED BY <1>2, <1>4, <1>5, <1>6, <1>7, AdaptCases

LEMMA ClientWords ==
    ASSUME TypeOK, WordInv, ClientStep \/ Drop
    PROVE  WordInv'
<1> USE DEF server, link, limits, client
<1>0. /\ bus \in Seq(Events) /\ down \in Seq(Frames) /\ pending \in Seq(UiEvents)
      /\ UNCHANGED <<status, worker, stream>>
  BY DEF TypeOK, ClientStep, Drop, ReceiveEvent, ReceiveShellSnapshot, ReceiveThreadSnapshot,
         ReceiveWelcome, ReceiveResponse, Flush, Poll, Move, Connect, Reload
<1>1. /\ Announced(pending) /\ Announced(<<>>)
      /\ \A t \in Turns : LastWord(t)
  BY DEF WordInv, Announced
<1>2. \A t \in Turns : /\ Closed(pending, Finals(t), Parts(t))
                       /\ Closed(down, CompletionFrames(t), WordFrames(t))
                       /\ Closed(bus, Completions(t), Words(t))
  BY <1>1 DEF LastWord
<1>3. CASE ReceiveEvent
  <2> DEFINE f == Head(down)
             e == f.event
             longer == pending \o Adapt(e)
  <2>1. /\ down # <<>> /\ f \in Frames /\ f.kind = "event" /\ down' = Tail(down) /\ bus' = bus
        /\ pending' = <<>> \/ pending' = longer
    BY <1>0, <1>3, HeadAndTail DEF ReceiveEvent, Arrives, Queue
  <2>2. e \in Events
    BY <2>1, FrameFields
  <2> HIDE DEF f, e
  <2>3. ASSUME NEW t \in Turns
        PROVE  /\ LastWord(t)'
               /\ longer \in Seq(UiEvents) /\ Announced(longer)
    <3>1. /\ Has(down, WordFrames(t)) <=> Has(down', WordFrames(t)) \/ f \in WordFrames(t)
          /\ Has(down, CompletionFrames(t))
               <=> Has(down', CompletionFrames(t)) \/ f \in CompletionFrames(t)
          /\ Closed(down', CompletionFrames(t), WordFrames(t))
          /\ f \in CompletionFrames(t) => ~Has(down', WordFrames(t))
      BY <1>0, <1>2, <2>1, WordsTaken DEF f
    <3>2. /\ f \in CompletionFrames(t) <=> e \in Completions(t)
          /\ f \in WordFrames(t) <=> e \in Words(t)
      BY <2>1, EventFrameWords DEF e
    <3>3. LastWord(t) /\ (e \in Words(t) => ~Has(pending, Finals(t)))
      BY <1>1, <3>1, <3>2 DEF LastWord
    <3>4. /\ longer \in Seq(UiEvents) /\ Announced(longer)
          /\ Has(longer, Finals(t)) => Has(pending, Finals(t)) \/ e \in Completions(t)
          /\ Closed(longer, Finals(t), Parts(t))
      BY <1>0, <1>1, <1>2, <2>2, <3>3, AdaptedWords
    <3> HIDE DEF longer
    <3>5. /\ Has(pending', Finals(t)) => Has(pending, Finals(t)) \/ e \in Completions(t)
          /\ Closed(pending', Finals(t), Parts(t))
      BY <2>1, <3>4, HasNone, ClosedNone
    <3> QED BY <1>0, <2>1, <3>1, <3>2, <3>3, <3>4, <3>5 DEF LastWord
  <2> HIDE DEF longer
  <2>4. Announced(pending')
    <3>1. CASE pending' = <<>>
      BY <1>1, <3>1
    <3>2. CASE pending' = longer
      BY <2>2, <2>3, <3>2, EventFields
    <3> QED BY <2>1, <3>1, <3>2
  <2> QED BY <2>3, <2>4 DEF WordInv
<1>4. ASSUME NEW kind \in {"shell", "thread", "welcome", "response"}, Arrives(kind),
             UNCHANGED <<pending, bus>>
      PROVE  WordInv'
  <2>1. /\ down # <<>> /\ Head(down) \in Frames /\ Head(down).kind # "event"
        /\ down' = Tail(down)
    BY <1>0, <1>4, HeadAndTail DEF Arrives
  <2>2. ASSUME NEW t \in Turns PROVE LastWord(t)'
    <3>1. /\ Has(down, WordFrames(t)) <=> Has(down', WordFrames(t))
          /\ Has(down, CompletionFrames(t)) <=> Has(down', CompletionFrames(t))
          /\ Closed(down', CompletionFrames(t), WordFrames(t))
      BY <1>0, <1>2, <2>1, WordsTaken, OtherFrameWords
    <3> QED BY <1>0, <1>2, <1>4, <3>1, WordsShrink
  <2> QED BY <1>1, <1>4, <2>2 DEF WordInv, Announced
<1>5. CASE ReceiveShellSnapshot \/ ReceiveThreadSnapshot \/ ReceiveWelcome \/ ReceiveResponse
  BY <1>4, <1>5 DEF ReceiveShellSnapshot, ReceiveThreadSnapshot, ReceiveWelcome,
                    ReceiveResponse
<1>6. ASSUME pending' = pending \/ pending' = <<>>,
             bus' = bus \/ bus' = <<>>,
             down' = down \/ down' = <<>> \/ down' = <<[kind |-> "welcome"]>>
      PROVE  WordInv'
  <2>1. ASSUME NEW t \in Turns PROVE LastWord(t)'
    <3>1. /\ [kind |-> "welcome"] \notin CompletionFrames(t)
          /\ [kind |-> "welcome"] \notin WordFrames(t)
      BY FrameType, OtherFrameWords
    <3>2. /\ Has(down', WordFrames(t)) => Has(down, WordFrames(t))
          /\ Has(down', CompletionFrames(t)) => Has(down, CompletionFrames(t))
          /\ Closed(down', CompletionFrames(t), WordFrames(t))
      BY <1>2, <1>6, <3>1, HasNone, HasSingle, ClosedNone, ClosedSingle
    <3>3. /\ Has(bus', Words(t)) => Has(bus, Words(t))
          /\ Has(bus', Completions(t)) => Has(bus, Completions(t))
          /\ Closed(bus', Completions(t), Words(t))
      BY <1>2, <1>6, HasNone, ClosedNone
    <3>4. /\ Has(pending', Finals(t)) => Has(pending, Finals(t))
          /\ Closed(pending', Finals(t), Parts(t))
      BY <1>2, <1>6, HasNone, ClosedNone
    <3> QED BY <1>0, <3>2, <3>3, <3>4, WordsShrink
  <2>2. Announced(pending')
    BY <1>1, <1>6
  <2> QED BY <2>1, <2>2 DEF WordInv
<1>7. CASE Flush \/ Poll \/ Move \/ Connect \/ Reload \/ Drop
  BY <1>6, <1>7 DEF Flush, Poll, Move, Connect, Reload, Drop
<1> QED BY <1>3, <1>5, <1>7 DEF ClientStep

LEMMA WordStep == TypeOK /\ WordInv /\ [Next]_vars => WordInv'
<1>1. ASSUME WordInv, UNCHANGED vars PROVE WordInv'
  BY <1>1 DEF vars, server, link, limits, client, WordInv, LastWord, Announced
<1>2. ASSUME TypeOK, WordInv, ServerStep PROVE WordInv'
  BY <1>2, TurnWords, LinkWords DEF ServerStep
<1> QED BY <1>1, <1>2, ClientWords DEF Next

(* A finished message has a session before it, and no part of itself behind. *)
LEMMA WordsAreMergeable ==
    ASSUME NEW s \in Seq(UiEvents), Announced(s),
           \A t \in Turns : Closed(s, Finals(t), Parts(t))
    PROVE  Mergeable(s)
<1> SUFFICES ASSUME NEW i \in 1..(Len(s) - 1), SameMessage(s[i], s[i + 1])
             PROVE  s[i].streaming /\ s[i + 1].streaming
  BY DEF Mergeable
<1>1. /\ Len(s) \in Nat /\ DOMAIN s = 1..Len(s) /\ i \in DOMAIN s /\ i + 1 \in DOMAIN s
      /\ i < i + 1 /\ (i + 1) - 1 = i /\ s[i] \in UiEvents /\ s[i + 1] \in UiEvents
  OBVIOUS
<1> DEFINE x == s[i]
           y == s[i + 1]
<1>2. x.type = "message-sent" /\ y.type = "message-sent" /\ x.turn = y.turn
  BY DEF SameMessage
<1>3. x.turn \in Turns
  BY <1>1, <1>2, UiFields
<1>4. y.streaming
  <2> SUFFICES ASSUME ~y.streaming PROVE FALSE
    OBVIOUS
  <2>1. x.type = "session-set"
    BY <1>1, <1>2 DEF Announced, Rests
  <2> QED BY <1>2, <2>1
<1>5. x.streaming
  <2> SUFFICES ASSUME ~x.streaming PROVE FALSE
    OBVIOUS
  <2>1. x \in Finals(x.turn) /\ y \in Parts(x.turn)
    BY <1>1, <1>2 DEF Finals, Parts
  <2> QED BY <1>1, <1>3, <2>1 DEF Closed
<1> QED BY <1>4, <1>5

(* Whatever has queued up, flushing it coalesced leaves the store as       *)
(* flushing it event by event would: what merges are streamed parts alone, *)
(* since a finished message waits behind a session and no part of it comes *)
(* after, on any interleaving of turns, deliveries, snapshots and outages. *)
THEOREM FlushesAreTransparent == Spec => []CoalescingTransparent
<1>1. Init => TypeOK /\ WordInv
  BY TypeInit, WordInit
<1>2. TypeOK /\ WordInv /\ [Next]_vars => (TypeOK /\ WordInv)'
  BY TypeStep, WordStep
<1>3. TypeOK /\ WordInv => CoalescingTransparent
  <2> SUFFICES ASSUME TypeOK, WordInv PROVE CoalescingTransparent
    OBVIOUS
  <2>1. pending \in Seq(UiEvents) /\ thread \in Threads
    BY DEF TypeOK
  <2>2. Announced(pending) /\ \A t \in Turns : Closed(pending, Finals(t), Parts(t))
    BY DEF WordInv, LastWord
  <2>3. Mergeable(pending)
    BY <2>1, <2>2, WordsAreMergeable
  <2> QED BY <2>1, <2>3, CoalesceIsTransparent DEF CoalescingTransparent
<1> QED BY <1>1, <1>2, <1>3, PTL DEF Spec
-----------------------------------------------------------------------------
(* The spinner.  A turn that the client shows as running ends: its end is  *)
(* on the way, or a shell snapshot is that will reset the thread.          *)

(* Each of R has one of E behind it. *)
Followed(s, R, E) == \A i \in DOMAIN s : s[i] \in R => \E j \in DOMAIN s : i < j /\ s[j] \in E

(* The events that show turn t as running, and those that end it: on the   *)
(* server, in a frame, and in the client's queue.                          *)
Runs(t) == {e \in Events : e.type \in {"TurnStarted", "MessageDeltaAppended"} /\ e.turn = t}
Ends(t) == {e \in Events : e.type \in {"TurnCompleted", "TurnFailed"} /\ e.turn = t}
FramesOf(E) == {f \in Frames : f.kind = "event" /\ f.event \in E}
UiRuns(t) ==
    {e \in UiEvents : /\ e.turn = t
                      /\ \/ e.type = "session-set" /\ e.status = "running"
                         \/ e.type = "message-sent" /\ e.streaming}
UiErrors == {e \in UiEvents : e.type = "session-set" /\ e.status = "error"}
UiEnds(t) == Finals(t) \cup UiErrors
UiRests == {e \in UiEvents : Rests(e)}
Shell == [kind |-> "shell"]

Running(t) == status[t] \in {"running", "cancelled"}
EndsUp(t) == delivery = "ended" \/ Running(t) \/ Has(stream, Ends(t))
EndsBus(t) == EndsUp(t) \/ Has(bus, Ends(t))
EndsDown(t) == EndsBus(t) \/ Has(down, FramesOf(Ends(t)))

Resetting ==
    \/ ~online \/ Has(up, {"shell"}) \/ serving.request = "shell"
    \/ Has(down, {Welcome, Shell})

(* On the way: nothing that shows a turn as running is its last.  (A       *)
(* delivery task that the bus has overtaken counts as if every end were    *)
(* still to come.)                                                         *)
EndFollows(t) ==
    /\ Has(worker, Runs(t)) => Running(t)
    /\ ~Has(worker, Ends(t))
    /\ Has(stream, Runs(t)) => Running(t)
    /\ EndsUp(t) \/ Followed(bus, Runs(t), Ends(t))
    /\ EndsBus(t) \/ Followed(down, FramesOf(Runs(t)), FramesOf(Ends(t)))

(* In the queue: the client knows the turns it shows, and D have ends that *)
(* are still to arrive.                                                    *)
QueueEnds(s, known, D) ==
    /\ \A t \in Turns \cup {NoTurn} : Has(s, UiRuns(t)) => t \in known
    /\ \A t \in Turns : t \in D \/ Followed(s, UiRuns(t), UiEnds(t))

(* On the screen. *)
ShownEnds(T, s, known, D) ==
    T.known =>
      /\ T.latest.state = "running" =>
           T.latest.turn \in known /\ (T.latest.turn \in D \/ Has(s, UiEnds(T.latest.turn)))
      /\ T.session = "running" => known \cap D # {} \/ Has(s, UiRests)

Ending == {t \in Turns : EndsDown(t)}

(* A connection that is not subscribed has shown nothing yet. *)
Unsubscribed ==
    online /\ ~subscribed =>
      /\ Has(up, {"shell"}) \/ Has(down, {Welcome})
      /\ serving.request # "shell"
      /\ ~Has(down, FramesOf(Events) \cup {Shell})
      /\ pending = <<>>

SpinnerInv ==
    /\ ~online => bus = <<>> /\ down = <<>> /\ serving = NoRequest
    /\ Unsubscribed
    /\ \A t \in Turns : EndFollows(t)
    /\ online => QueueEnds(pending, seeded, Ending)
    /\ ~Resetting => ShownEnds(thread, pending, seeded, Ending)

(* Until its delivery task starts, a connection hears of no event, and     *)
(* shows no turn as running but for one that a shell snapshot will reset.  *)
Unheard ==
    /\ delivery = "none" <=> ~online
    /\ delivery \in {"none", "starting"} => bus = <<>>
    /\ delivery = "starting" =>
         /\ pending = <<>>
         /\ ~Has(down, FramesOf(Events))
         /\ Resetting \/ ~Busy

LEMMA FollowedAppend ==
    ASSUME NEW T, NEW s \in Seq(T), NEW x \in T, NEW R, NEW E, R \cap E = {}
    PROVE  /\ Followed(s, R, E) /\ x \notin R => Followed(Append(s, x), R, E)
           /\ x \in E => Followed(Append(s, x), R, E)
<1> DEFINE n == Len(s)
           a == Append(s, x)
<1>1. /\ n \in Nat /\ DOMAIN s = 1..n /\ DOMAIN a = 1..(n + 1) /\ a[n + 1] = x
      /\ \A i \in 1..n : a[i] = s[i]
  OBVIOUS
<1> HIDE DEF n, a
<1>2. \A i \in 1..(n + 1) : i = n + 1 \/ (i \in 1..n /\ i < n + 1)
  BY <1>1
<1>3. \A i \in 1..n : i \in 1..(n + 1) /\ n + 1 \in 1..(n + 1)
  BY <1>1
<1>4. ASSUME Followed(s, R, E), x \notin R PROVE Followed(a, R, E)
  <2> SUFFICES ASSUME NEW i \in 1..(n + 1), a[i] \in R
               PROVE  \E j \in 1..(n + 1) : i < j /\ a[j] \in E
    BY <1>1 DEF Followed
  <2>1. i \in 1..n /\ s[i] \in R
    BY <1>1, <1>2, <1>4
  <2>2. PICK j \in 1..n : i < j /\ s[j] \in E
    BY <1>1, <1>4, <2>1 DEF Followed
  <2> QED BY <1>1, <1>3, <2>2
<1>5. ASSUME x \in E PROVE Followed(a, R, E)
  <2> SUFFICES ASSUME NEW i \in 1..(n + 1), a[i] \in R
               PROVE  \E j \in 1..(n + 1) : i < j /\ a[j] \in E
    BY <1>1 DEF Followed
  <2>1. i \in 1..n /\ i < n + 1
    BY <1>1, <1>2, <1>5
  <2> QED BY <1>1, <1>3, <1>5, <2>1
<1> QED BY <1>4, <1>5 DEF a

LEMMA FollowedTail ==
    ASSUME NEW T, NEW s \in Seq(T), s # <<>>, NEW R, NEW E, Followed(s, R, E)
    PROVE  /\ Followed(Tail(s), R, E)
           /\ Head(s) \in R => Has(Tail(s), E)
<1> DEFINE n == Len(s)
           t == Tail(s)
<1>1. /\ n \in Nat \ {0} /\ DOMAIN s = 1..n /\ DOMAIN t = 1..(n - 1) /\ Head(s) = s[1]
      /\ \A i \in 1..(n - 1) : t[i] = s[i + 1]
  OBVIOUS
<1> HIDE DEF n, t
<1>2. \A j \in 1..n : j > 1 => j - 1 \in 1..(n - 1) /\ (j - 1) + 1 = j /\ t[j - 1] = s[j]
  <2>1. \A j \in 1..n : j > 1 => j - 1 \in 1..(n - 1) /\ (j - 1) + 1 = j
    BY <1>1
  <2> QED BY <1>1, <2>1
<1>3. Head(s) \in R => Has(t, E)
  <2> SUFFICES ASSUME s[1] \in R PROVE \E k \in 1..(n - 1) : t[k] \in E
    BY <1>1 DEF Has
  <2>1. PICK j \in 1..n : 1 < j /\ s[j] \in E
    <3>1. 1 \in 1..n
      BY <1>1
    <3> QED BY <1>1, <3>1 DEF Followed
  <2> QED BY <1>2, <2>1
<1>4. Followed(t, R, E)
  <2> SUFFICES ASSUME NEW i \in 1..(n - 1), t[i] \in R
               PROVE  \E k \in 1..(n - 1) : i < k /\ t[k] \in E
    BY <1>1 DEF Followed
  <2>1. i + 1 \in 1..n /\ s[i + 1] \in R
    BY <1>1
  <2>2. PICK j \in 1..n : i + 1 < j /\ s[j] \in E
    BY <1>1, <2>1 DEF Followed
  <2>3. j > 1 /\ i < j - 1
    BY <1>1, <2>2
  <2> QED BY <1>2, <2>2, <2>3
<1> QED BY <1>3, <1>4 DEF t

LEMMA FollowedNone == \A R, E : Followed(<<>>, R, E)
BY DEF Followed

LEMMA UnlessHas ==
    ASSUME NEW s, NEW R, NEW E, ~Has(s, R)
    PROVE  Followed(s, R, E)
BY DEF Has, Followed

(* What runs does not end. *)
LEMMA RunsOrEnds ==
    ASSUME NEW t \in Turns
    PROVE  /\ Runs(t) \cap Ends(t) = {}
           /\ FramesOf(Runs(t)) \cap FramesOf(Ends(t)) = {}
           /\ UiRuns(t) \cap UiEnds(t) = {}
           /\ \A e \in Events : e \in Runs(t) \/ e \in Ends(t) => e.turn = t
<1>1. \A e \in UiEvents : e \in UiRuns(t) => e \notin UiEnds(t)
  BY DEF UiRuns, UiEnds, Finals, UiErrors
<1>2. UiRuns(t) \subseteq UiEvents /\ UiEnds(t) \subseteq UiEvents
  BY DEF UiRuns, UiEnds, Finals, UiErrors
<1>3. Runs(t) \cap Ends(t) = {}
  BY DEF Runs, Ends
<1>4. FramesOf(Runs(t)) \cap FramesOf(Ends(t)) = {}
  BY <1>3 DEF FramesOf
<1> QED BY <1>1, <1>2, <1>3, <1>4 DEF Runs, Ends

HasAfter(s, k, S) == \E j \in DOMAIN s : k < j /\ s[j] \in S

LEMMA HasAfterOne ==
    ASSUME NEW s \in Seq(UiEvents), NEW S, NEW k \in 1..Len(s)
    PROVE  HasAfter(s, k - 1, S) <=> s[k] \in S \/ HasAfter(s, k, S)
<1>1. /\ Len(s) \in Nat /\ DOMAIN s = 1..Len(s) /\ k \in 1..Len(s)
      /\ \A j \in 1..Len(s) : k - 1 < j <=> (j = k \/ k < j)
  OBVIOUS
<1> QED BY <1>1 DEF HasAfter

LEMMA HasAfterEnds ==
    ASSUME NEW s \in Seq(UiEvents), NEW S
    PROVE  (HasAfter(s, 0, S) <=> Has(s, S)) /\ ~HasAfter(s, Len(s), S)
<1>1. /\ Len(s) \in Nat /\ DOMAIN s = 1..Len(s)
      /\ \A j \in 1..Len(s) : 0 < j /\ ~(Len(s) < j)
  OBVIOUS
<1> QED BY <1>1 DEF HasAfter, Has

(* What ends a turn behind its session rests the session. *)
LEMMA RestFollows ==
    ASSUME NEW s \in Seq(UiEvents), Announced(s), NEW k \in 1..Len(s), NEW t \in Turns,
           s[k].type = "session-set", s[k].status = "running", HasAfter(s, k, UiEnds(t))
    PROVE  HasAfter(s, k, UiRests)
<1>1. /\ Len(s) \in Nat /\ DOMAIN s = 1..Len(s) /\ k \in Nat
      /\ \A j \in 1..Len(s) : s[j] \in UiEvents /\ j \in Nat
  OBVIOUS
<1>2. PICK j \in 1..Len(s) : k < j /\ s[j] \in UiEnds(t)
  BY <1>1 DEF HasAfter
<1>3. CASE s[j] \in UiErrors
  <2>1. s[j] \in UiRests
    BY <1>1, <1>3 DEF UiErrors, UiRests, Rests
  <2> QED BY <1>1, <1>2, <2>1 DEF HasAfter
<1>4. CASE s[j] \in Finals(t)
  <2>1. j > 1 /\ Rests(s[j - 1])
    BY <1>1, <1>4 DEF Finals, Announced
  <2>2. j - 1 \in 1..Len(s) /\ k <= j - 1
    BY <1>1, <1>2, <2>1
  <2>3. j - 1 # k
    BY <2>1 DEF Rests
  <2>4. k < j - 1 /\ s[j - 1] \in UiRests
    BY <1>1, <2>1, <2>2, <2>3 DEF UiRests
  <2> QED BY <1>1, <2>2, <2>4 DEF HasAfter
<1> QED BY <1>2, <1>3, <1>4 DEF UiEnds

(* The screen after k events of the queue. *)
ShownAfter(T, s, k, known, D) ==
    T.known =>
      /\ T.latest.state = "running" =>
           T.latest.turn \in known
           /\ (T.latest.turn \in D \/ HasAfter(s, k, UiEnds(T.latest.turn)))
      /\ T.session = "running" => known \cap D # {} \/ HasAfter(s, k, UiRests)

LEMMA EventEnds ==
    ASSUME NEW T \in Threads, NEW s \in Seq(UiEvents), NEW k \in 1..Len(s),
           NEW known \in SUBSET Turns, NEW D \in SUBSET Turns,
           Announced(s), QueueEnds(s, known, D), ShownAfter(T, s, k - 1, known, D)
    PROVE  ShownAfter(ApplyEvent(T, s[k]), s, k, known, D)
<1> DEFINE e == s[k]
           after == ApplyEvent(T, e)
<1>1. e \in UiEvents /\ after \in Threads /\ after.known = T.known /\ T.known \in BOOLEAN
  BY ApplyEventType, KnownOrNot
<1>2. \A S : HasAfter(s, k - 1, S) <=> e \in S \/ HasAfter(s, k, S)
  BY HasAfterOne
<1>3. ASSUME NEW t \in Turns \cup {NoTurn}, e \in UiRuns(t)
      PROVE  t \in known /\ (t \in D \/ HasAfter(s, k, UiEnds(t)))
  <2>1. k \in DOMAIN s
    OBVIOUS
  <2>2. t \in known /\ t \in Turns
    BY <1>3, <2>1 DEF QueueEnds, Has
  <2>3. t \in D \/ Followed(s, UiRuns(t), UiEnds(t))
    BY <2>2 DEF QueueEnds
  <2>4. Followed(s, UiRuns(t), UiEnds(t)) => HasAfter(s, k, UiEnds(t))
    BY <1>3, <2>1 DEF Followed, HasAfter
  <2> QED BY <2>2, <2>3, <2>4
<1> SUFFICES ASSUME T.known PROVE ShownAfter(after, s, k, known, D)
  BY <1>1 DEF ShownAfter
<1>4. /\ T.latest \in Latest /\ T.session \in SessionStatuses
      /\ T.latest.state = "running" =>
           T.latest.turn \in known
           /\ (T.latest.turn \in D \/ e \in UiEnds(T.latest.turn)
               \/ HasAfter(s, k, UiEnds(T.latest.turn)))
      /\ T.session = "running" =>
           known \cap D # {} \/ e \in UiRests \/ HasAfter(s, k, UiRests)
  BY <1>2, KnownFields DEF ShownAfter
<1>5. CASE e.type = "session-set"
  <2>1. after = [known |-> TRUE, session |-> e.status,
                 latest |-> LatestFromSession(T.latest, e), answers |-> T.answers]
    BY <1>1, <1>5, AppliedSession
  <2>2. after.session = e.status /\ after.latest = LatestFromSession(T.latest, e)
    BY <2>1
  <2> HIDE DEF after, e
  <2>3. CASE e.status = "running"
    <3>1. /\ after.latest.state = "running" /\ after.latest.turn = e.turn
      BY <2>2, <2>3 DEF LatestFromSession
    <3>2. e.turn \in Turns \cup {NoTurn}
      BY <1>1, <1>5, UiFields
    <3>3. e \in UiRuns(e.turn)
      BY <1>1, <1>5, <2>3 DEF UiRuns
    <3>4. e.turn \in known /\ (e.turn \in D \/ HasAfter(s, k, UiEnds(e.turn)))
      BY <1>3, <3>2, <3>3
    <3>5. e.turn \in D \/ HasAfter(s, k, UiRests)
      BY <1>5, <2>3, <3>4, RestFollows DEF e
    <3> QED BY <3>1, <3>4, <3>5 DEF ShownAfter
  <2>4. CASE e.status # "running"
    <3>1. after.latest.state = "running" =>
            T.latest.state = "running" /\ after.latest = T.latest /\ e.status # "error"
      BY <1>4, <2>2, <2>4 DEF LatestFromSession, Latest
    <3>2. T.latest.state = "running" /\ e.status # "error" => e \notin UiEnds(T.latest.turn)
      BY <1>5 DEF UiEnds, Finals, UiErrors
    <3> QED BY <1>4, <2>2, <2>4, <3>1, <3>2 DEF ShownAfter
  <2> QED BY <2>3, <2>4
<1>6. CASE e.type = "message-sent"
  <2>1. /\ after.session = T.session /\ after.latest = LatestFromMessage(T.latest, e)
    BY <1>1, <1>6, AppliedMessage
  <2>2. e.turn \in Turns /\ e.streaming \in BOOLEAN
    BY <1>1, <1>6, UiFields
  <2> HIDE DEF after, e
  <2>3. e \notin UiRests
    BY <1>6 DEF UiRests, Rests
  <2>4. after.latest.state = "running" =>
          after.latest.turn \in known
          /\ (after.latest.turn \in D \/ HasAfter(s, k, UiEnds(after.latest.turn)))
    <3>1. CASE T.latest.state = "none" \/ T.latest.turn = e.turn
      <4>1. /\ after.latest.turn = e.turn
            /\ after.latest.state = "running" => e.streaming
        BY <2>1, <3>1 DEF LatestFromMessage
      <4>2. e.streaming => e \in UiRuns(e.turn)
        BY <1>1, <1>6 DEF UiRuns
      <4> QED BY <1>3, <2>2, <4>1, <4>2
    <3>2. CASE ~(T.latest.state = "none" \/ T.latest.turn = e.turn)
      <4>1. after.latest = T.latest
        BY <2>1, <3>2 DEF LatestFromMessage
      <4>2. e \notin UiEnds(T.latest.turn)
        BY <1>6, <3>2 DEF UiEnds, Finals, UiErrors
      <4> QED BY <1>4, <4>1, <4>2
    <3> QED BY <3>1, <3>2
  <2> QED BY <1>4, <2>1, <2>3, <2>4 DEF ShownAfter
<1> QED BY <1>1, <1>5, <1>6, UiFields

(* A flush leaves on the screen what the queue's last words say. *)
LEMMA BatchEnds ==
    ASSUME NEW T \in Threads, NEW s \in Seq(UiEvents),
           NEW known \in SUBSET Turns, NEW D \in SUBSET Turns,
           Announced(s), QueueEnds(s, known, D), ShownEnds(T, s, known, D)
    PROVE  ShownEnds(ApplyEvents(T, s), <<>>, known, D)
<1> DEFINE n == Len(s)
<1>1. PICK f : Applied1By1(f, T, s) /\ ApplyEvents(T, s) = f[n]
  BY ApplyRuns
<1> DEFINE G == {k \in 0..n : ShownAfter(f[k], s, k, known, D)}
<1>2. /\ n \in Nat /\ f[0] = T /\ \A k \in 0..n : f[k] \in Threads
      /\ \A k \in 1..n : f[k] = ApplyEvent(f[k - 1], s[k]) /\ k - 1 \in 0..n /\ k \in 0..n
  <2>1. n \in Nat /\ \A k \in 1..n : k - 1 \in 0..n /\ k \in 0..n
    OBVIOUS
  <2> QED BY <1>1, <2>1 DEF Applied1By1
<1>3. 0 \in G
  <2>1. \A S : HasAfter(s, 0, S) <=> Has(s, S)
    BY HasAfterEnds
  <2>2. ShownAfter(T, s, 0, known, D)
    BY <2>1 DEF ShownAfter, ShownEnds
  <2> QED BY <1>2, <2>2
<1>4. ASSUME NEW k \in 1..n, k - 1 \in G PROVE k \in G
  <2>1. ShownAfter(f[k - 1], s, k - 1, known, D) /\ f[k - 1] \in Threads
    BY <1>2, <1>4
  <2>2. ShownAfter(ApplyEvent(f[k - 1], s[k]), s, k, known, D)
    BY <2>1, EventEnds
  <2> QED BY <1>2, <2>2
<1> HIDE DEF G
<1>5. 0..n \subseteq G
  <2>1. \A k \in 1..n : k - 1 \in G => k \in G
    BY <1>4
  <2>2. n \in Nat
    BY <1>2
  <2> QED BY ONLY <1>3, <2>1, <2>2, StepByStep
<1>6. ShownAfter(f[n], s, n, known, D)
  BY <1>2, <1>5 DEF G
<1>7. \A S : ~HasAfter(s, n, S)
  BY HasAfterEnds
<1> QED BY <1>1, <1>6, <1>7 DEF ShownAfter, ShownEnds

(* What one more event of the queue adds. *)
LEMMA UiPut ==
    ASSUME NEW s \in Seq(UiEvents), NEW x \in UiEvents, NEW t \in Turns
    PROVE  /\ Append(s, x) \in Seq(UiEvents)
           /\ \A S : Has(Append(s, x), S) <=> Has(s, S) \/ x \in S
           /\ Followed(s, UiRuns(t), UiEnds(t)) /\ x \notin UiRuns(t)
                => Followed(Append(s, x), UiRuns(t), UiEnds(t))
           /\ x \in UiEnds(t) => Followed(Append(s, x), UiRuns(t), UiEnds(t))
<1>1. UiRuns(t) \cap UiEnds(t) = {}
  BY RunsOrEnds
<1>2. \A S : Has(Append(s, x), S) <=> Has(s, S) \/ x \in S
  BY HasAppend
<1>3. Append(s, x) \in Seq(UiEvents)
  BY AppendHas
<1>4. /\ Followed(s, UiRuns(t), UiEnds(t)) /\ x \notin UiRuns(t)
           => Followed(Append(s, x), UiRuns(t), UiEnds(t))
      /\ x \in UiEnds(t) => Followed(Append(s, x), UiRuns(t), UiEnds(t))
  BY <1>1, FollowedAppend
<1> QED BY <1>2, <1>3, <1>4

(* What the adapter's events show. *)
LEMMA AdaptedShows ==
    ASSUME NEW u \in Turns, NEW t \in Turns \cup {NoTurn}, NEW text \in Texts
    PROVE  LET started == SessionSet(u, "running")
               delta == MessageSent(u, text, TRUE)
               ready == SessionSet(NoTurn, "ready")
               final == MessageSent(u, Answer, FALSE)
               error == SessionSet(NoTurn, "error") IN
           /\ started \in UiEvents /\ delta \in UiEvents /\ ready \in UiEvents
           /\ final \in UiEvents /\ error \in UiEvents
           /\ started \in UiRuns(t) \/ delta \in UiRuns(t) => t = u
           /\ ready \notin UiRuns(t) /\ final \notin UiRuns(t) /\ error \notin UiRuns(t)
           /\ final \in UiEnds(u) /\ error \in UiEnds(t)
           /\ ready \in UiRests /\ error \in UiRests
<1>1. {"running", "ready", "error"} \subseteq SessionStatuses /\ Answer \in Texts
  BY AnswerType DEF SessionStatuses
<1>2. /\ SessionSet(u, "running") \in UiEvents /\ SessionSet(NoTurn, "ready") \in UiEvents
      /\ SessionSet(NoTurn, "error") \in UiEvents
  BY <1>1, UiType
<1>3. MessageSent(u, text, TRUE) \in UiEvents /\ MessageSent(u, Answer, FALSE) \in UiEvents
  BY <1>1, UiType
<1>4. /\ SessionSet(u, "running") \in UiRuns(t) => t = u
      /\ MessageSent(u, text, TRUE) \in UiRuns(t) => t = u
      /\ SessionSet(NoTurn, "ready") \notin UiRuns(t)
      /\ SessionSet(NoTurn, "error") \notin UiRuns(t)
      /\ MessageSent(u, Answer, FALSE) \notin UiRuns(t)
  BY DEF UiRuns, SessionSet, MessageSent
<1>5. /\ MessageSent(u, Answer, FALSE) \in UiEnds(u)
      /\ SessionSet(NoTurn, "error") \in UiEnds(t)
  BY <1>2, <1>3 DEF UiEnds, Finals, UiErrors, MessageSent, SessionSet
<1>6. SessionSet(NoTurn, "ready") \in UiRests /\ SessionSet(NoTurn, "error") \in UiRests
  BY <1>2 DEF UiRests, Rests, SessionSet
<1> QED BY <1>2, <1>3, <1>4, <1>5, <1>6

(* A push of a turn that runs, as the client understands it. *)
Shows(e, t) == e \in Runs(t) /\ (e.type = "TurnStarted" \/ t \in seeded)

(* What a push adds to the queue. *)
LEMMA AdaptedPut ==
    ASSUME NEW e \in Events, NEW s \in Seq(UiEvents), NEW t \in Turns
    PROVE  LET longer == s \o Adapt(e) IN
           /\ longer \in Seq(UiEvents)
           /\ Has(s, UiEnds(t)) => Has(longer, UiEnds(t))
           /\ Has(s, UiRests) => Has(longer, UiRests)
           /\ Has(longer, UiRuns(t)) => Has(s, UiRuns(t)) \/ Shows(e, t)
           /\ Has(longer, UiRuns(NoTurn)) => Has(s, UiRuns(NoTurn))
           /\ e \in Ends(t) /\ t \in seeded =>
                /\ Has(longer, UiEnds(t)) /\ Has(longer, UiRests)
                /\ Followed(longer, UiRuns(t), UiEnds(t))
           /\ e \notin Runs(t) /\ Followed(s, UiRuns(t), UiEnds(t)) =>
                Followed(longer, UiRuns(t), UiEnds(t))
<1> DEFINE Good(longer) ==
             /\ longer \in Seq(UiEvents)
             /\ Has(s, UiEnds(t)) => Has(longer, UiEnds(t))
             /\ Has(s, UiRests) => Has(longer, UiRests)
             /\ Has(longer, UiRuns(t)) => Has(s, UiRuns(t)) \/ Shows(e, t)
             /\ Has(longer, UiRuns(NoTurn)) => Has(s, UiRuns(NoTurn))
             /\ e \in Ends(t) /\ t \in seeded =>
                  /\ Has(longer, UiEnds(t)) /\ Has(longer, UiRests)
                  /\ Followed(longer, UiRuns(t), UiEnds(t))
             /\ e \notin Runs(t) /\ Followed(s, UiRuns(t), UiEnds(t)) =>
                  Followed(longer, UiRuns(t), UiEnds(t))
<1> SUFFICES Good(s \o Adapt(e))
  OBVIOUS
<1>1. /\ \A x \in UiEvents : s \o <<x>> = Append(s, x)
      /\ \A x, y \in UiEvents : s \o <<x, y>> = Append(Append(s, x), y)
      /\ s \o <<>> = s
  OBVIOUS
<1>2. e.turn \in Turns /\ <<>> \in Texts /\ NoTurn \notin Turns
  BY EventFields, ClientSyncAssumption DEF Texts, NoTurn
<1>3. /\ e.type = "TurnStarted" => e \notin Ends(t) /\ (t = e.turn => e \in Runs(t))
      /\ e.type = "MessageDeltaAppended" => e \notin Ends(t) /\ (t = e.turn => e \in Runs(t))
      /\ e \in Ends(t) => t = e.turn
  BY DEF Runs, Ends
<1>4. CASE Adapt(e) = <<>>
  <2>1. ~(e \in Ends(t) /\ t \in seeded)
    <3> SUFFICES ASSUME e \in Ends(t), t \in seeded PROVE FALSE
      OBVIOUS
    <3>1. e.type \in {"TurnCompleted", "TurnFailed"} /\ e.turn \in seeded
      BY DEF Ends
    <3>2. Adapt(e) \in {<<SessionSet(NoTurn, "ready"), MessageSent(e.turn, Answer, FALSE)>>,
                        <<SessionSet(NoTurn, "error")>>}
      BY <3>1 DEF Adapt
    <3> QED BY <1>4, <3>2
  <2> QED BY <1>1, <1>4, <2>1
<1>5. ASSUME NEW x \in UiEvents, Adapt(e) = <<x>>,
             x \in UiRuns(t) => Shows(e, t), x \notin UiRuns(NoTurn),
             e \in Ends(t) => x \in UiEnds(t) /\ x \in UiRests
      PROVE  Good(s \o Adapt(e))
  <2>1. s \o Adapt(e) = Append(s, x)
    BY <1>1, <1>5
  <2>2. /\ Append(s, x) \in Seq(UiEvents)
        /\ \A S : Has(Append(s, x), S) <=> Has(s, S) \/ x \in S
        /\ Followed(s, UiRuns(t), UiEnds(t)) /\ x \notin UiRuns(t)
             => Followed(Append(s, x), UiRuns(t), UiEnds(t))
        /\ x \in UiEnds(t) => Followed(Append(s, x), UiRuns(t), UiEnds(t))
    BY UiPut
  <2> DEFINE longer == Append(s, x)
  <2> HIDE DEF longer
  <2>3. Shows(e, t) => e \in Runs(t)
    BY DEF Shows
  <2> QED BY <1>5, <2>1, <2>2, <2>3 DEF longer
<1>6. CASE e.type = "TurnStarted" /\ Adapt(e) = <<SessionSet(e.turn, "running")>>
  <2>1. /\ SessionSet(e.turn, "running") \in UiEvents
        /\ SessionSet(e.turn, "running") \in UiRuns(t) => Shows(e, t)
        /\ SessionSet(e.turn, "running") \notin UiRuns(NoTurn) /\ e \notin Ends(t)
    BY <1>2, <1>3, <1>6, AdaptedShows DEF Shows
  <2> QED BY <1>5, <1>6, <2>1
<1>7. CASE /\ e.type = "MessageDeltaAppended" /\ e.turn \in seeded
           /\ Adapt(e) = <<MessageSent(e.turn, e.text, TRUE)>>
  <2>0. e.text \in Texts
    BY <1>7, EventFields
  <2>1. /\ MessageSent(e.turn, e.text, TRUE) \in UiEvents
        /\ MessageSent(e.turn, e.text, TRUE) \in UiRuns(t) => Shows(e, t)
        /\ MessageSent(e.turn, e.text, TRUE) \notin UiRuns(NoTurn) /\ e \notin Ends(t)
    BY <1>2, <1>3, <1>7, <2>0, AdaptedShows DEF Shows
  <2> QED BY <1>5, <1>7, <2>1
<1>8. CASE e.type = "TurnFailed" /\ Adapt(e) = <<SessionSet(NoTurn, "error")>>
  <2>1. /\ SessionSet(NoTurn, "error") \in UiEvents /\ SessionSet(NoTurn, "error") \notin UiRuns(t)
        /\ SessionSet(NoTurn, "error") \notin UiRuns(NoTurn)
        /\ SessionSet(NoTurn, "error") \in UiEnds(t) /\ SessionSet(NoTurn, "error") \in UiRests
    BY <1>2, AdaptedShows
  <2> QED BY <1>5, <1>8, <2>1
<1>9. CASE /\ e.type = "TurnCompleted"
           /\ Adapt(e) = <<SessionSet(NoTurn, "ready"), MessageSent(e.turn, Answer, FALSE)>>
  <2> DEFINE x == SessionSet(NoTurn, "ready")
             y == MessageSent(e.turn, Answer, FALSE)
             between == Append(s, x)
             longer == Append(between, y)
  <2>1. /\ x \in UiEvents /\ y \in UiEvents /\ x \notin UiRuns(t) /\ y \notin UiRuns(t)
        /\ x \notin UiRuns(NoTurn) /\ y \notin UiRuns(NoTurn)
        /\ x \in UiRests /\ y \in UiEnds(e.turn)
    BY <1>2, AdaptedShows
  <2>2. s \o Adapt(e) = longer
    BY <1>1, <1>9, <2>1
  <2> HIDE DEF x, y
  <2>3. /\ between \in Seq(UiEvents)
        /\ \A S : Has(between, S) <=> Has(s, S) \/ x \in S
        /\ Followed(s, UiRuns(t), UiEnds(t)) => Followed(between, UiRuns(t), UiEnds(t))
    BY <2>1, UiPut
  <2> HIDE DEF between
  <2>4. /\ longer \in Seq(UiEvents)
        /\ \A S : Has(longer, S) <=> Has(between, S) \/ y \in S
        /\ Followed(between, UiRuns(t), UiEnds(t)) => Followed(longer, UiRuns(t), UiEnds(t))
        /\ y \in UiEnds(t) => Followed(longer, UiRuns(t), UiEnds(t))
    BY <2>1, <2>3, UiPut
  <2> HIDE DEF longer
  <2>5. e \in Ends(t) => y \in UiEnds(t)
    BY <1>3, <2>1
  <2> QED BY <2>1, <2>2, <2>3, <2>4, <2>5
<1> QED BY <1>4, <1>6, <1>7, <1>8, <1>9, AdaptCases

(* A push takes its turn's end off the way, and puts it in the queue. *)
LEMMA AdaptedEnds ==
    ASSUME seeded \in SUBSET Turns, NEW e \in Events, NEW s \in Seq(UiEvents),
           NEW T \in Threads, NEW D, NEW D2 \in SUBSET Turns, NEW known,
           known = IF e.type = "TurnStarted" THEN seeded \cup {e.turn} ELSE seeded,
           \A t \in Turns : t \in D => t \in D2 \/ e \in Ends(t),
           \A t \in Turns : e \in Runs(t) => t \in D2,
           QueueEnds(s, seeded, D)
    PROVE  LET longer == s \o Adapt(e) IN
           /\ QueueEnds(longer, known, D2)
           /\ ShownEnds(T, s, seeded, D) => ShownEnds(T, longer, known, D2)
<1> DEFINE longer == s \o Adapt(e)
<1>1. \A t \in Turns :
        /\ Has(s, UiEnds(t)) => Has(longer, UiEnds(t))
        /\ Has(s, UiRests) => Has(longer, UiRests)
        /\ Has(longer, UiRuns(t)) => Has(s, UiRuns(t)) \/ Shows(e, t)
        /\ Has(longer, UiRuns(NoTurn)) => Has(s, UiRuns(NoTurn))
        /\ e \in Ends(t) /\ t \in seeded =>
             /\ Has(longer, UiEnds(t)) /\ Has(longer, UiRests)
             /\ Followed(longer, UiRuns(t), UiEnds(t))
        /\ e \notin Runs(t) /\ Followed(s, UiRuns(t), UiEnds(t)) =>
             Followed(longer, UiRuns(t), UiEnds(t))
  BY AdaptedPut
<1> HIDE DEF longer
<1>2. seeded \subseteq known /\ e.turn \in Turns
  BY EventFields
<1>3. \A t \in Turns \cup {NoTurn} : Has(longer, UiRuns(t)) => t \in known
  <2>1. Has(longer, UiRuns(NoTurn)) => NoTurn \in known
    BY <1>1, <1>2 DEF QueueEnds
  <2>2. ASSUME NEW t \in Turns, Has(longer, UiRuns(t)) PROVE t \in known
    <3>1. Has(s, UiRuns(t)) => t \in known
      BY <1>2 DEF QueueEnds
    <3>2. Shows(e, t) => t \in known
      BY <1>2 DEF Shows, Runs
    <3> QED BY <1>1, <2>2, <3>1, <3>2
  <2> QED BY <2>1, <2>2
<1>4. ASSUME NEW t \in Turns
      PROVE  t \in D2 \/ Followed(longer, UiRuns(t), UiEnds(t))
  <2>1. CASE e \in Runs(t)
    BY <2>1
  <2>2. CASE e \notin Runs(t) /\ e \in Ends(t)
    <3>1. CASE t \in seeded
      BY <1>1, <2>2, <3>1
    <3>2. CASE t \notin seeded
      <4>1. ~Has(longer, UiRuns(t))
        BY <1>1, <2>2, <3>2 DEF QueueEnds, Shows
      <4> QED BY <4>1, UnlessHas
    <3> QED BY <3>1, <3>2
  <2>3. CASE e \notin Runs(t) /\ e \notin Ends(t)
    BY <1>1, <2>3 DEF QueueEnds
  <2> QED BY <2>1, <2>2, <2>3
<1>5. ASSUME ShownEnds(T, s, seeded, D) PROVE ShownEnds(T, longer, known, D2)
  <2> SUFFICES ASSUME T.known PROVE ShownEnds(T, longer, known, D2)
    BY DEF ShownEnds
  <2>1. \A t \in seeded : t \in Turns
    OBVIOUS
  <2>2. ASSUME T.latest.state = "running"
        PROVE  /\ T.latest.turn \in known
               /\ T.latest.turn \in D2 \/ Has(longer, UiEnds(T.latest.turn))
    <3> DEFINE t == T.latest.turn
    <3>1. t \in seeded /\ (t \in D \/ Has(s, UiEnds(t)))
      BY <1>5, <2>2 DEF ShownEnds
    <3> HIDE DEF t
    <3>2. t \in D2 \/ Has(longer, UiEnds(t))
      BY <1>1, <2>1, <3>1
    <3> QED BY <1>2, <3>1, <3>2 DEF t
  <2>3. ASSUME T.session = "running" PROVE known \cap D2 # {} \/ Has(longer, UiRests)
    <3>1. CASE Has(s, UiRests)
      BY <1>1, <1>2, <3>1
    <3>2. CASE ~Has(s, UiRests)
      <4>1. PICK t \in seeded : t \in D
        BY <1>5, <2>3, <3>2 DEF ShownEnds
      <4>2. t \in D2 \/ e \in Ends(t)
        BY <2>1, <4>1
      <4> QED BY <1>1, <1>2, <2>1, <4>1, <4>2
    <3> QED BY <3>1, <3>2
  <2> QED BY <2>2, <2>3 DEF ShownEnds
<1>6. QueueEnds(longer, known, D2)
  BY <1>3, <1>4 DEF QueueEnds
<1> QED BY <1>5, <1>6 DEF longer

(* More ends to come do no harm. *)
LEMMA MoreEnds ==
    ASSUME NEW T, NEW s, NEW known, NEW D, NEW D2, D \subseteq D2
    PROVE  /\ QueueEnds(s, known, D) => QueueEnds(s, known, D2)
           /\ ShownEnds(T, s, known, D) => ShownEnds(T, s, known, D2)
<1>1. known \cap D # {} => known \cap D2 # {}
  OBVIOUS
<1> QED BY <1>1 DEF QueueEnds, ShownEnds

LEMMA NothingQueued ==
    ASSUME NEW T, NEW known, NEW D
    PROVE  QueueEnds(<<>>, known, D)
BY HasNone, FollowedNone DEF QueueEnds

(* The client hears nothing, and what is on the way stays on the way. *)
LEMMA OnTheWay ==
    ASSUME TypeOK, SpinnerInv, UNCHANGED <<online, seeded, pending, thread>>,
           ~online => bus' = <<>> /\ down' = <<>> /\ serving' = NoRequest,
           Unsubscribed', \A t \in Turns : EndFollows(t)',
           online => pending = <<>> \/ (\A t \in Turns : EndsDown(t) => EndsDown(t)'),
           ~Resetting' => ~Resetting /\ (\A t \in Turns : EndsDown(t) => EndsDown(t)')
    PROVE  SpinnerInv'
<1>1. /\ online => (pending = <<>> \/ Ending \subseteq Ending')
      /\ ~Resetting' => ~Resetting /\ Ending \subseteq Ending'
  BY DEF Ending
<1>2. (online => QueueEnds(pending, seeded, Ending))'
  <2> SUFFICES ASSUME online PROVE QueueEnds(pending, seeded, Ending')
    OBVIOUS
  <2>1. QueueEnds(pending, seeded, Ending)
    BY DEF SpinnerInv
  <2>2. CASE pending = <<>>
    BY <2>2, NothingQueued
  <2>3. CASE Ending \subseteq Ending'
    BY <2>1, <2>3, MoreEnds
  <2> QED BY <1>1, <2>2, <2>3
<1>3. (~Resetting => ShownEnds(thread, pending, seeded, Ending))'
  <2> SUFFICES ASSUME ~Resetting' PROVE ShownEnds(thread, pending, seeded, Ending')
    OBVIOUS
  <2>1. ShownEnds(thread, pending, seeded, Ending) /\ Ending \subseteq Ending'
    BY <1>1 DEF SpinnerInv
  <2> QED BY <2>1, MoreEnds
<1> QED BY <1>2, <1>3 DEF SpinnerInv

LEMMA SpinnerInit == Init => SpinnerInv
<1> SUFFICES ASSUME Init PROVE SpinnerInv
  OBVIOUS
<1>1. /\ ~online /\ bus = <<>> /\ down = <<>> /\ worker = <<>> /\ stream = <<>>
      /\ serving = NoRequest
  BY DEF Init
<1>2. \A t \in Turns : EndFollows(t)
  BY <1>1, HasNone, FollowedNone DEF EndFollows
<1> QED BY <1>1, <1>2 DEF SpinnerInv, Unsubscribed, Resetting

(* The turns: a turn stops running only with its end in the stream. *)
LEMMA TurnSpins ==
    ASSUME TypeOK, WordInv, SpinnerInv, NEW u \in Turns,
           \/ StartTurn(u) \/ CancelTurn(u)
           \/ ProviderDelta(u) \/ ProviderCompletes(u) \/ ProviderFails(u)
    PROVE  SpinnerInv'
<1> USE DEF server, link, limits, client
<1>0. /\ worker \in Seq(Events) /\ stream \in Seq(Events) /\ status \in [Turns -> Statuses]
      /\ UNCHANGED <<online, subscribed, delivery, seeded, pending, thread, bus, up, down,
                     serving>>
  BY DEF TypeOK, StartTurn, CancelTurn, ProviderDelta, ProviderCompletes, ProviderFails
<1> DEFINE Kept(t) == /\ Has(worker', Runs(t)) => Running(t)'
                      /\ ~Has(worker', Ends(t))
                      /\ Has(stream', Runs(t)) => Running(t)'
                      /\ EndsUp(t) => EndsUp(t)'
<1>1. \A t \in Turns : EndFollows(t)
  BY DEF SpinnerInv
<1>2. ASSUME \A t \in Turns : Kept(t) PROVE SpinnerInv'
  <2>1. \A t \in Turns : (EndsBus(t) => EndsBus(t)') /\ (EndsDown(t) => EndsDown(t)')
    BY <1>0, <1>2 DEF EndsBus, EndsDown
  <2>2. ASSUME NEW t \in Turns PROVE EndFollows(t)'
    <3>1. EndFollows(t) /\ Kept(t) /\ (EndsBus(t) => EndsBus(t)') /\ bus' = bus /\ down' = down
      BY <1>0, <1>1, <1>2, <2>1
    <3> QED BY <3>1 DEF EndFollows
  <2>3. Unsubscribed' /\ (Resetting <=> Resetting')
    BY <1>0 DEF SpinnerInv, Unsubscribed, Resetting
  <2>4. ~online => bus' = <<>> /\ down' = <<>> /\ serving' = NoRequest
    BY <1>0 DEF SpinnerInv
  <2> QED BY <1>0, <2>1, <2>2, <2>3, <2>4, OnTheWay
<1> SUFFICES ASSUME NEW t \in Turns PROVE Kept(t)
  BY <1>2
<1>3. EndFollows(t)
  BY <1>1
<1>4. CASE StartTurn(u) \/ CancelTurn(u)
  <2>1. PICK e \in Events : /\ worker' = Append(worker, e) /\ e.turn = u
                            /\ e.type \in {"TurnStarted", "TurnCancelled"}
    <3>1. /\ [type |-> "TurnStarted", turn |-> u] \in Events
          /\ [type |-> "TurnCancelled", turn |-> u] \in Events
      BY DEF Events
    <3> QED BY <1>4, <3>1 DEF StartTurn, CancelTurn
  <2>2. stream' = stream /\ Running(u)' /\ (Running(t) => Running(t)')
    BY <1>0, <1>4 DEF StartTurn, CancelTurn, Running
  <2>3. e \notin Ends(t) /\ (e \in Runs(t) => t = u)
    BY <2>1 DEF Ends, Runs
  <2>4. \A S : Has(worker', S) <=> Has(worker, S) \/ e \in S
    BY <1>0, <2>1, HasAppend
  <2> QED BY <1>0, <1>3, <2>2, <2>3, <2>4 DEF EndFollows, EndsUp
<1>5. ASSUME NEW e \in Events, stream' = Append(stream, e), stream = <<>>, e.turn = u,
             worker' = worker, \A v \in Turns \ {u} : status'[v] = status[v],
             Running(u),
             Running(u)' \/ (e \in Ends(u) /\ e \notin Runs(u) /\ ~Has(worker, Runs(u)))
      PROVE  Kept(t)
  <2>1. \A S : ~Has(stream, S) /\ (Has(stream', S) <=> e \in S)
    <3>1. stream' = <<e>>
      BY <1>5
    <3> QED BY <1>5, <3>1, HasSingle, HasNone
  <2>2. CASE t = u
    BY <1>0, <1>3, <1>5, <2>1, <2>2 DEF EndFollows, EndsUp
  <2>3. CASE t # u
    <3>1. e \notin Runs(t) /\ (Running(t) <=> Running(t)')
      BY <1>5, <2>3 DEF Runs, Running
    <3> QED BY <1>0, <1>3, <1>5, <2>1, <3>1 DEF EndFollows, EndsUp
  <2> QED BY <2>2, <2>3
<1>6. CASE ProviderDelta(u)
  <2> DEFINE piece == <<Len(output[u]) + 1>>
             e == [type |-> "MessageDeltaAppended", turn |-> u, text |-> piece]
  <2>1. /\ stream' = Append(stream, e) /\ stream = <<>> /\ worker' = worker /\ status' = status
        /\ status[u] \in {"running", "cancelled"}
    BY <1>6 DEF ProviderDelta, ProviderMayEmit
  <2>2. e \in Events
    <3>1. output[u] \in Seq(1..Chunks) /\ Len(output[u]) < Chunks /\ Chunks \in Nat
      BY <1>6, ClientSyncAssumption DEF ProviderDelta, TypeOK, Texts
    <3>2. piece \in Texts
      BY <3>1 DEF Texts
    <3> QED BY <3>2 DEF Events
  <2>3. e.turn = u
    OBVIOUS
  <2>4. Running(u) /\ Running(u)'
    BY <2>1 DEF Running
  <2> HIDE DEF e
  <2> QED BY <1>5, <2>1, <2>2, <2>3, <2>4
<1>7. CASE ProviderCompletes(u) \/ ProviderFails(u)
  <2>1. PICK e \in Events : /\ stream' = Append(stream, e) /\ e.turn = u
                            /\ e.type \in {"TurnCompleted", "TurnFailed"}
    <3>1. /\ [type |-> "TurnCompleted", turn |-> u] \in Events
          /\ [type |-> "TurnFailed", turn |-> u] \in Events
      BY DEF Events
    <3> QED BY <1>7, <3>1 DEF ProviderCompletes, ProviderFails
  <2>2. /\ stream = <<>> /\ worker' = worker /\ Running(u)
        /\ [type |-> "TurnStarted", turn |-> u] \notin Range(worker)
        /\ \A v \in Turns \ {u} : status'[v] = status[v]
    BY <1>0, <1>7 DEF ProviderCompletes, ProviderFails, ProviderMayEmit, Running
  <2>3. e \in Ends(u) /\ e \notin Runs(u)
    BY <2>1 DEF Ends, Runs
  <2>4. ~Has(worker, Runs(u))
    <3> SUFFICES ASSUME NEW i \in DOMAIN worker, worker[i] \in Runs(u) PROVE FALSE
      BY DEF Has
    <3> DEFINE w == worker[i]
    <3>1. w \in Events /\ w \in Range(worker) /\ w.turn = u
      BY <1>0 DEF Range, Runs
    <3>2. CASE w.type = "TurnStarted"
      <4>1. w = [type |-> "TurnStarted", turn |-> u]
        BY <3>1, <3>2 DEF Events
      <4> QED BY <2>2, <3>1, <4>1
    <3>3. CASE w.type = "MessageDeltaAppended"
      <4>1. w \in Words(u)
        BY <3>1, <3>3 DEF Words
      <4> QED BY <4>1 DEF WordInv, LastWord, Has
    <3> QED BY <3>2, <3>3 DEF Runs
  <2> QED BY <1>5, <2>1, <2>2, <2>3, <2>4
<1> QED BY <1>4, <1>6, <1>7

(* The events and the frames that stay on the way. *)
LEMMA WayPut ==
    ASSUME NEW t \in Turns
    PROVE  /\ \A s \in Seq(Events), x \in Events :
                /\ Has(Append(s, x), Ends(t)) <=> Has(s, Ends(t)) \/ x \in Ends(t)
                /\ Followed(s, Runs(t), Ends(t)) /\ x \notin Runs(t)
                     => Followed(Append(s, x), Runs(t), Ends(t))
                /\ x \in Ends(t) => Followed(Append(s, x), Runs(t), Ends(t))
           /\ \A s \in Seq(Frames), x \in Frames :
                LET R == FramesOf(Runs(t))
                    E == FramesOf(Ends(t)) IN
                /\ Has(Append(s, x), E) <=> Has(s, E) \/ x \in E
                /\ Followed(s, R, E) /\ x \notin R => Followed(Append(s, x), R, E)
                /\ x \in E => Followed(Append(s, x), R, E)
<1>1. Runs(t) \cap Ends(t) = {} /\ FramesOf(Runs(t)) \cap FramesOf(Ends(t)) = {}
  BY RunsOrEnds
<1>2. \A s \in Seq(Events), x \in Events :
        /\ Has(Append(s, x), Ends(t)) <=> Has(s, Ends(t)) \/ x \in Ends(t)
        /\ Followed(s, Runs(t), Ends(t)) /\ x \notin Runs(t)
             => Followed(Append(s, x), Runs(t), Ends(t))
        /\ x \in Ends(t) => Followed(Append(s, x), Runs(t), Ends(t))
  BY <1>1, HasAppend, FollowedAppend
<1> DEFINE R == FramesOf(Runs(t))
           E == FramesOf(Ends(t))
<1>3. R \cap E = {}
  BY <1>1
<1> HIDE DEF R, E
<1>4. \A s \in Seq(Frames), x \in Frames :
        /\ Has(Append(s, x), E) <=> Has(s, E) \/ x \in E
        /\ Followed(s, R, E) /\ x \notin R => Followed(Append(s, x), R, E)
        /\ x \in E => Followed(Append(s, x), R, E)
  BY <1>3, HasAppend, FollowedAppend
<1> QED BY <1>2, <1>4 DEF R, E

LEMMA WayTaken ==
    ASSUME NEW t \in Turns
    PROVE  /\ \A s \in Seq(Events) \ {<<>>} :
                /\ Has(s, Ends(t)) <=> Has(Tail(s), Ends(t)) \/ Head(s) \in Ends(t)
                /\ Followed(s, Runs(t), Ends(t)) =>
                     /\ Followed(Tail(s), Runs(t), Ends(t))
                     /\ Head(s) \in Runs(t) => Has(Tail(s), Ends(t))
           /\ \A s \in Seq(Frames) \ {<<>>} :
                LET R == FramesOf(Runs(t))
                    E == FramesOf(Ends(t)) IN
                /\ Has(s, E) <=> Has(Tail(s), E) \/ Head(s) \in E
                /\ Followed(s, R, E) =>
                     /\ Followed(Tail(s), R, E)
                     /\ Head(s) \in R => Has(Tail(s), E)
<1>1. \A s \in Seq(Events) \ {<<>>} : \A S :
        Has(s, S) <=> Has(Tail(s), S) \/ Head(s) \in S
  BY HasTail
<1>2. \A s \in Seq(Events) \ {<<>>} : \A R, E :
        Followed(s, R, E) => Followed(Tail(s), R, E) /\ (Head(s) \in R => Has(Tail(s), E))
  BY FollowedTail
<1>3. \A s \in Seq(Frames) \ {<<>>} : \A S :
        Has(s, S) <=> Has(Tail(s), S) \/ Head(s) \in S
  BY HasTail
<1>4. \A s \in Seq(Frames) \ {<<>>} : \A R, E :
        Followed(s, R, E) => Followed(Tail(s), R, E) /\ (Head(s) \in R => Has(Tail(s), E))
  BY FollowedTail
<1> QED BY <1>1, <1>2, <1>3, <1>4

(* The frames of an event, and those of none. *)
LEMMA FrameShows ==
    ASSUME NEW f \in Frames
    PROVE  /\ \A S : f \in FramesOf(S) <=> f.kind = "event" /\ f.event \in S
           /\ f = Welcome <=> f.kind = "welcome"
           /\ f = Shell <=> f.kind = "shell"
<1>1. \A S : f \in FramesOf(S) <=> f.kind = "event" /\ f.event \in S
  BY DEF FramesOf
<1>2. f = Welcome <=> f.kind = "welcome"
  BY FrameShape DEF Welcome
<1>3. f = Shell <=> f.kind = "shell"
  BY DEF Shell, Frames
<1> QED BY <1>1, <1>2, <1>3

(* The bus overtakes the delivery task. *)
LEMMA OvertakenSpins ==
    ASSUME TypeOK, SpinnerInv, Unheard, DeliveryEnds,
           UNCHANGED <<status, online, subscribed, seeded, pending, thread, up, down, serving>>,
           \A t \in Turns : /\ Has(worker', Runs(t)) => Running(t)
                            /\ ~Has(worker', Ends(t))
                            /\ Has(stream', Runs(t)) => Running(t)
    PROVE  SpinnerInv'
<1>1. delivery' = "ended" /\ online
  BY DEF DeliveryEnds, Receiving, Unheard, TypeOK
<1>2. \A t \in Turns : EndsUp(t)' /\ EndsBus(t)' /\ EndsDown(t)' /\ (Running(t) <=> Running(t)')
  BY <1>1 DEF EndsUp, EndsBus, EndsDown, Running
<1>3. \A t \in Turns : EndFollows(t)'
  BY <1>2 DEF EndFollows
<1>4. Unsubscribed' /\ (Resetting <=> Resetting')
  BY DEF SpinnerInv, Unsubscribed, Resetting
<1> QED BY <1>1, <1>2, <1>3, <1>4, OnTheWay

(* A published event moves from the turns to the broadcasts, or is lost on *)
(* a connection that has shown nothing yet.                                *)
LEMMA PublishSpins ==
    ASSUME TypeOK, SpinnerInv, Unheard, NEW e \in Events, Broadcast(e),
           UNCHANGED <<status, online, subscribed, seeded, pending, thread, up, down, serving>>,
           \A t \in Turns : /\ Has(worker', Runs(t)) => Running(t)
                            /\ ~Has(worker', Ends(t))
                            /\ Has(stream', Runs(t)) => Running(t)
                            /\ e \in Runs(t) => Running(t)
                            /\ EndsUp(t) => EndsUp(t)' \/ delivery = "ended" \/ e \in Ends(t)
    PROVE  SpinnerInv'
<1>0. bus \in Seq(Events)
  BY DEF TypeOK
<1>1. \A t \in Turns : EndFollows(t) /\ (Running(t) <=> Running(t)')
  BY DEF SpinnerInv, Running
<1>2. Unsubscribed' /\ (Resetting <=> Resetting')
  BY DEF SpinnerInv, Unsubscribed, Resetting
<1>3. CASE Receiving /\ bus' = Append(bus, e) /\ delivery' = delivery
  <2>1. online /\ delivery # "ended"
    BY <1>3 DEF Receiving, Unheard, TypeOK
  <2>2. ASSUME NEW t \in Turns
        PROVE  EndFollows(t)' /\ (EndsDown(t) => EndsDown(t)')
    <3>1. /\ Has(bus', Ends(t)) <=> Has(bus, Ends(t)) \/ e \in Ends(t)
          /\ Followed(bus, Runs(t), Ends(t)) /\ e \notin Runs(t)
               => Followed(bus', Runs(t), Ends(t))
          /\ e \in Ends(t) => Followed(bus', Runs(t), Ends(t))
      BY <1>0, <1>3, WayPut
    <3>2. EndsBus(t) => EndsBus(t)'
      BY <2>1, <3>1 DEF EndsBus
    <3>3. EndsDown(t) => EndsDown(t)'
      BY <3>2 DEF EndsDown
    <3>4. EndsUp(t)' \/ Followed(bus', Runs(t), Ends(t))
      <4>1. Running(t) => EndsUp(t)'
        BY <1>1 DEF EndsUp
      <4> QED BY <1>1, <2>1, <3>1, <4>1 DEF EndFollows
    <3>5. EndsBus(t)' \/ Followed(down', FramesOf(Runs(t)), FramesOf(Ends(t)))
      BY <1>1, <3>2 DEF EndFollows
    <3> QED BY <1>1, <3>3, <3>4, <3>5 DEF EndFollows
  <2> QED BY <1>2, <2>1, <2>2, OnTheWay
<1>4. CASE ~Receiving /\ bus' = bus /\ delivery' = delivery
  <2>1. CASE delivery = "ended"
    <3>1. \A t \in Turns : EndsUp(t)' /\ EndsBus(t)' /\ EndsDown(t)'
      BY <1>4, <2>1 DEF EndsUp, EndsBus, EndsDown
    <3>2. (\A t \in Turns : EndFollows(t)') /\ online
      BY <1>1, <2>1, <3>1 DEF EndFollows, Unheard, TypeOK
    <3> QED BY <1>2, <3>1, <3>2, OnTheWay
  <2>2. CASE delivery \in {"none", "starting"}
    <3>1. /\ bus' = <<>> /\ ~Has(down', FramesOf(Events))
          /\ online => pending' = <<>>
          /\ ~Resetting' => ~Busy'
      <4>1. (Busy <=> Busy') /\ bus' = <<>>
        BY <1>4, <2>2 DEF Busy, Unheard
      <4>2. CASE online
        BY <1>2, <2>2, <4>1, <4>2 DEF Unheard
      <4>3. CASE ~online
        BY <1>2, <4>1, <4>3, HasNone DEF SpinnerInv, Resetting
      <4> QED BY <4>2, <4>3 DEF TypeOK
    <3>2. ASSUME NEW t \in Turns PROVE EndFollows(t)'
      <4>1. FramesOf(Runs(t)) \subseteq FramesOf(Events)
        BY DEF FramesOf, Runs
      <4>2. Followed(down', FramesOf(Runs(t)), FramesOf(Ends(t)))
        BY <3>1, <4>1, HasSubset, UnlessHas
      <4>3. Followed(bus', Runs(t), Ends(t))
        BY <3>1, FollowedNone
      <4> QED BY <1>1, <4>2, <4>3 DEF EndFollows
    <3>3. (online => QueueEnds(pending, seeded, Ending))'
      BY <3>1, NothingQueued
    <3>4. ~Resetting' => ShownEnds(thread', pending', seeded', Ending')
      BY <3>1 DEF ShownEnds, Busy
    <3>5. ~online => bus' = <<>> /\ down' = <<>> /\ serving' = NoRequest
      BY <3>1 DEF SpinnerInv
    <3> QED BY <1>2, <3>2, <3>3, <3>4, <3>5 DEF SpinnerInv
  <2> QED BY <1>4, <2>1, <2>2 DEF Receiving, TypeOK, Deliveries
<1>5. CASE DeliveryEnds
  BY <1>5, OvertakenSpins
<1> QED BY <1>3, <1>4, <1>5, BroadcastCases

LEMMA LinkSpins ==
    ASSUME TypeOK, SpinnerInv, Unheard,
           \/ PublishCommandEvent \/ PublishProviderEvent \/ OtherPushesOvertake
           \/ DeliveryStarts \/ DeliverPush
    PROVE  SpinnerInv'
<1> USE DEF server, link, limits, client
<1>0. /\ worker \in Seq(Events) /\ stream \in Seq(Events) /\ bus \in Seq(Events)
      /\ down \in Seq(Frames)
  BY DEF TypeOK
<1>1. \A t \in Turns : EndFollows(t)
  BY DEF SpinnerInv
<1>2. CASE PublishCommandEvent
  <2> DEFINE e == Head(worker)
  <2>1. /\ worker # <<>> /\ e \in Events /\ Broadcast(e) /\ worker' = Tail(worker)
        /\ stream' = stream
        /\ UNCHANGED <<status, online, subscribed, seeded, pending, thread, up, down, serving>>
    BY <1>0, <1>2, HeadAndTail DEF PublishCommandEvent
  <2>2. ASSUME NEW t \in Turns
        PROVE  /\ Has(worker', Runs(t)) => Running(t)
               /\ ~Has(worker', Ends(t))
               /\ Has(stream', Runs(t)) => Running(t)
               /\ e \in Runs(t) => Running(t)
               /\ EndsUp(t) => EndsUp(t)' \/ delivery = "ended" \/ e \in Ends(t)
    <3>1. \A S : Has(worker, S) <=> Has(worker', S) \/ e \in S
      BY <1>0, <2>1, HasTail
    <3>2. EndsUp(t) => EndsUp(t)' \/ delivery = "ended"
      BY <2>1 DEF EndsUp, Running
    <3> HIDE DEF e
    <3> QED BY <1>1, <2>1, <3>1, <3>2 DEF EndFollows
  <2> HIDE DEF e
  <2> QED BY <2>1, <2>2, PublishSpins
<1>3. CASE PublishProviderEvent
  <2> DEFINE e == Head(stream)
  <2>1. /\ stream # <<>> /\ e \in Events /\ Broadcast(e) /\ stream' = Tail(stream)
        /\ worker' = worker
        /\ UNCHANGED <<status, online, subscribed, seeded, pending, thread, up, down, serving>>
    BY <1>0, <1>3, HeadAndTail DEF PublishProviderEvent
  <2>2. ASSUME NEW t \in Turns
        PROVE  /\ Has(worker', Runs(t)) => Running(t)
               /\ ~Has(worker', Ends(t))
               /\ Has(stream', Runs(t)) => Running(t)
               /\ e \in Runs(t) => Running(t)
               /\ EndsUp(t) => EndsUp(t)' \/ delivery = "ended" \/ e \in Ends(t)
    <3>1. \A S : Has(stream, S) <=> Has(stream', S) \/ e \in S
      BY <1>0, <2>1, HasTail
    <3>2. Running(t) <=> Running(t)'
      BY <2>1 DEF Running
    <3> HIDE DEF e
    <3> QED BY <1>1, <2>1, <3>1, <3>2 DEF EndFollows, EndsUp
  <2> HIDE DEF e
  <2> QED BY <2>1, <2>2, PublishSpins
<1>4. CASE DeliverPush
  <2> DEFINE e == Head(bus)
             f == [kind |-> "event", event |-> e]
  <2>1. /\ bus # <<>> /\ e \in Events /\ bus' = Tail(bus)
        /\ down' = IF subscribed THEN Append(down, f) ELSE down
        /\ UNCHANGED <<status, worker, stream, online, subscribed, delivery, seeded, pending,
                       thread, up, serving>>
    BY <1>0, <1>4, HeadAndTail DEF DeliverPush
  <2>2. f \in Frames /\ f.kind = "event" /\ f.event = e
    BY <2>1, FrameType
  <2>3. online /\ (~subscribed => ~Has(down, FramesOf(Events) \cup {Shell}) /\ pending = <<>>)
    BY <2>1 DEF SpinnerInv, Unsubscribed, TypeOK
  <2> HIDE DEF e, f
  <2>4. ASSUME NEW t \in Turns
        PROVE  /\ EndFollows(t)'
               /\ subscribed /\ EndsDown(t) => EndsDown(t)'
    <3>1. /\ Has(bus, Ends(t)) <=> Has(bus', Ends(t)) \/ e \in Ends(t)
          /\ Followed(bus, Runs(t), Ends(t)) =>
               /\ Followed(bus', Runs(t), Ends(t))
               /\ e \in Runs(t) => Has(bus', Ends(t))
      BY <1>0, <2>1, WayTaken DEF e
    <3>2. (EndsUp(t) <=> EndsUp(t)') /\ (Running(t) <=> Running(t)')
      BY <2>1 DEF EndsUp, Running
    <3>3. EndsUp(t)' \/ Followed(bus', Runs(t), Ends(t))
      BY <1>1, <3>1, <3>2 DEF EndFollows
    <3>4. e \in Runs(t) => EndsBus(t)'
      BY <1>1, <3>1, <3>2 DEF EndFollows, EndsBus
    <3>5. EndsBus(t) => EndsBus(t)' \/ e \in Ends(t)
      BY <3>1, <3>2 DEF EndsBus
    <3>6. CASE subscribed
      <4>1. /\ f \in FramesOf(Runs(t)) <=> e \in Runs(t)
            /\ f \in FramesOf(Ends(t)) <=> e \in Ends(t)
        BY <2>2, FrameShows
      <4>2. /\ Has(down', FramesOf(Ends(t))) <=> Has(down, FramesOf(Ends(t))) \/ e \in Ends(t)
            /\ Followed(down, FramesOf(Runs(t)), FramesOf(Ends(t))) /\ e \notin Runs(t)
                 => Followed(down', FramesOf(Runs(t)), FramesOf(Ends(t)))
            /\ e \in Ends(t) => Followed(down', FramesOf(Runs(t)), FramesOf(Ends(t)))
        <5>1. down' = Append(down, f)
          BY <2>1, <3>6
        <5> QED BY <1>0, <2>2, <4>1, <5>1, WayPut
      <4>3. EndsBus(t)' \/ Followed(down', FramesOf(Runs(t)), FramesOf(Ends(t)))
        BY <1>1, <3>4, <3>5, <4>2 DEF EndFollows
      <4>4. EndsDown(t) => EndsDown(t)'
        BY <3>5, <4>2 DEF EndsDown
      <4> QED BY <1>1, <2>1, <3>2, <3>3, <4>3, <4>4 DEF EndFollows
    <3>7. CASE ~subscribed
      <4>1. ~Has(down', FramesOf(Runs(t)))
        <5>1. FramesOf(Runs(t)) \subseteq FramesOf(Events) \cup {Shell}
          BY DEF FramesOf, Runs
        <5> QED BY <2>1, <2>3, <3>7, <5>1, HasSubset
      <4>2. Followed(down', FramesOf(Runs(t)), FramesOf(Ends(t)))
        BY <4>1, UnlessHas
      <4> QED BY <1>1, <2>1, <3>2, <3>3, <3>7, <4>2 DEF EndFollows
    <3> QED BY <3>6, <3>7 DEF TypeOK
  <2>5. Resetting => Resetting'
    <3>1. \A S : Has(down, S) => Has(down', S)
      BY <1>0, <2>1, <2>2, HasAppend
    <3> QED BY <2>1, <3>1 DEF Resetting
  <2>6. Unsubscribed'
    BY <2>1 DEF SpinnerInv, Unsubscribed
  <2>7. ~subscribed => pending = <<>> /\ Resetting'
    <3>1. ~subscribed => Resetting
      <4>1. {Welcome} \subseteq {Welcome, Shell}
        OBVIOUS
      <4> QED BY <2>3, <4>1, HasSubset DEF SpinnerInv, Unsubscribed, Resetting
    <3> QED BY <2>3, <2>5, <3>1
  <2> QED BY <2>1, <2>3, <2>4, <2>5, <2>6, <2>7, OnTheWay DEF TypeOK
<1>5. CASE OtherPushesOvertake
  <2>1. /\ DeliveryEnds
        /\ UNCHANGED <<status, worker, stream, online, subscribed, seeded, pending, thread, up,
                       down, serving>>
    BY <1>5 DEF OtherPushesOvertake
  <2> QED BY <1>1, <2>1, OvertakenSpins DEF EndFollows
<1>6. CASE DeliveryStarts
  <2>1. /\ delivery = "starting" /\ delivery' # "ended"
        /\ UNCHANGED <<status, worker, stream, online, subscribed, seeded, pending, thread, bus,
                       up, down, serving>>
    BY <1>6 DEF DeliveryStarts
  <2>2. \A t \in Turns : /\ Running(t) <=> Running(t)'
                         /\ EndsUp(t) <=> EndsUp(t)'
                         /\ EndsBus(t) <=> EndsBus(t)'
                         /\ EndsDown(t) <=> EndsDown(t)'
    BY <2>1 DEF Running, EndsUp, EndsBus, EndsDown
  <2>3. \A t \in Turns : EndFollows(t)'
    BY <1>1, <2>1, <2>2 DEF EndFollows
  <2>4. Unsubscribed' /\ (Resetting <=> Resetting')
    BY <2>1 DEF SpinnerInv, Unsubscribed, Resetting
  <2>5. online
    BY <2>1 DEF Unheard, TypeOK
  <2> QED BY <2>1, <2>2, <2>3, <2>4, <2>5, OnTheWay
<1> QED BY <1>2, <1>3, <1>4, <1>5, <1>6

(* A frame that is no event. *)
LEMMA OtherPut ==
    ASSUME NEW d \in Seq(Frames), NEW f \in Frames, f.kind # "event"
    PROVE  /\ Append(d, f) \in Seq(Frames)
           /\ \A t \in Turns :
                /\ Has(Append(d, f), FramesOf(Ends(t))) <=> Has(d, FramesOf(Ends(t)))
                /\ Followed(d, FramesOf(Runs(t)), FramesOf(Ends(t))) =>
                     Followed(Append(d, f), FramesOf(Runs(t)), FramesOf(Ends(t)))
           /\ \A S : Has(Append(d, f), S) <=> Has(d, S) \/ f \in S
<1>1. \A S : f \notin FramesOf(S)
  BY FrameShows
<1>2. \A S : Has(Append(d, f), S) <=> Has(d, S) \/ f \in S
  BY HasAppend
<1>3. Append(d, f) \in Seq(Frames)
  BY AppendHas
<1>4. \A t \in Turns :
        Followed(d, FramesOf(Runs(t)), FramesOf(Ends(t))) /\ f \notin FramesOf(Runs(t)) =>
          Followed(Append(d, f), FramesOf(Runs(t)), FramesOf(Ends(t)))
  BY WayPut
<1> QED BY <1>1, <1>2, <1>3, <1>4

LEMMA OtherTaken ==
    ASSUME NEW d \in Seq(Frames), d # <<>>, Head(d).kind # "event"
    PROVE  /\ \A t \in Turns :
                /\ Has(Tail(d), FramesOf(Ends(t))) <=> Has(d, FramesOf(Ends(t)))
                /\ Followed(d, FramesOf(Runs(t)), FramesOf(Ends(t))) =>
                     Followed(Tail(d), FramesOf(Runs(t)), FramesOf(Ends(t)))
           /\ \A S : Has(d, S) <=> Has(Tail(d), S) \/ Head(d) \in S
<1>0. Head(d) \in Frames
  BY HeadAndTail
<1>1. \A S : Head(d) \notin FramesOf(S)
  BY <1>0, FrameShows
<1>2. \A S : Has(d, S) <=> Has(Tail(d), S) \/ Head(d) \in S
  BY HasTail
<1>3. \A t \in Turns :
        Followed(d, FramesOf(Runs(t)), FramesOf(Ends(t))) =>
          Followed(Tail(d), FramesOf(Runs(t)), FramesOf(Ends(t)))
  BY WayTaken
<1> QED BY <1>1, <1>2, <1>3

(* What neither a turn nor an event's delivery does leaves the ends where  *)
(* they are.                                                               *)
SameEvents ==
    /\ UNCHANGED <<status, worker, stream, delivery, bus>>
    /\ \A t \in Turns :
         /\ Has(down', FramesOf(Ends(t))) <=> Has(down, FramesOf(Ends(t)))
         /\ Followed(down, FramesOf(Runs(t)), FramesOf(Ends(t))) =>
              Followed(down', FramesOf(Runs(t)), FramesOf(Ends(t)))

LEMMA SameWay ==
    ASSUME SpinnerInv, SameEvents
    PROVE  \A t \in Turns : EndFollows(t)' /\ (EndsDown(t) <=> EndsDown(t)')
<1> SUFFICES ASSUME NEW t \in Turns PROVE EndFollows(t)' /\ (EndsDown(t) <=> EndsDown(t)')
  OBVIOUS
<1>1. EndFollows(t)
  BY DEF SpinnerInv
<1>2. /\ UNCHANGED <<status, worker, stream, delivery, bus>>
      /\ Has(down', FramesOf(Ends(t))) <=> Has(down, FramesOf(Ends(t)))
      /\ Followed(down, FramesOf(Runs(t)), FramesOf(Ends(t))) =>
           Followed(down', FramesOf(Runs(t)), FramesOf(Ends(t)))
  BY DEF SameEvents
<1>3. /\ Running(t) <=> Running(t)'
      /\ EndsUp(t) <=> EndsUp(t)'
      /\ EndsBus(t) <=> EndsBus(t)'
  BY <1>2 DEF Running, EndsUp, EndsBus
<1>4. EndsDown(t) <=> EndsDown(t)'
  BY <1>2, <1>3 DEF EndsDown
<1> QED BY <1>1, <1>2, <1>3, <1>4 DEF EndFollows

(* Requests and frames of no consequence for the spinner. *)
LEMMA NothingLost ==
    ASSUME TypeOK, SpinnerInv, SameEvents,
           UNCHANGED <<online, subscribed, serving, seeded, pending, thread>>,
           ~online => down' = <<>>,
           Has(up, {"shell"}) => Has(up', {"shell"}),
           Has(down, {Welcome}) => Has(down', {Welcome}),
           Has(down, {Welcome, Shell}) => Has(down', {Welcome, Shell}),
           Has(down', FramesOf(Events) \cup {Shell}) => Has(down, FramesOf(Events) \cup {Shell})
    PROVE  SpinnerInv'
<1>1. \A t \in Turns : EndFollows(t)' /\ (EndsDown(t) <=> EndsDown(t)')
  BY SameWay
<1>2. ~online => bus' = <<>> /\ down' = <<>> /\ serving' = NoRequest
  BY DEF SpinnerInv, SameEvents
<1>3. Unsubscribed'
  BY DEF SpinnerInv, Unsubscribed
<1>4. Resetting => Resetting'
  BY DEF Resetting
<1> QED BY <1>1, <1>2, <1>3, <1>4, OnTheWay

LEMMA SettleKeeps ==
    ASSUME TypeOK, NEW r \in Routers, Settle(r), NEW S
    PROVE  Has(up, S) => Has(up', S)
<1>1. \/ RunChain(r).asks = <<>>
      \/ RunChain(r).asks = <<"open">>
      \/ RunChain(r).asks = <<"close">>
  BY ChainRuns DEF Rested, Started
<1>2. up \in Seq(Requests) /\ up' = up \o RunChain(r).asks /\ {"open", "close"} \subseteq Requests
  BY DEF TypeOK, Settle, Requests
<1>3. up \o <<>> = up /\ \A x \in Requests : up \o <<x>> = Append(up, x)
  BY <1>2
<1>4. \A x \in Requests : Has(up, S) => Has(Append(up, x), S)
  BY <1>2, HasAppend
<1> QED BY <1>1, <1>2, <1>3, <1>4

LEMMA RequestSpins ==
    ASSUME TypeOK, SpinnerInv, ServeRequest \/ SendResponse
    PROVE  SpinnerInv'
<1> USE DEF server, link, limits, client
<1>0. /\ up \in Seq(Requests) /\ down \in Seq(Frames) /\ serving \in Servings
      /\ online \in BOOLEAN /\ subscribed \in BOOLEAN
  BY DEF TypeOK
<1>1. CASE ServeRequest
  <2> DEFINE q == Head(up)
  <2>1. /\ online /\ up # <<>> /\ up' = Tail(up) /\ serving.request = "none"
        /\ subscribed' = (subscribed \/ q # "close")
        /\ serving'.request = q
        /\ UNCHANGED <<status, worker, stream, delivery, bus, down, online, seeded, pending,
                       thread>>
    BY <1>1 DEF ServeRequest
  <2>2. \A S : Has(up, S) <=> Has(up', S) \/ q \in S
    BY <1>0, <2>1, HasTail
  <2> HIDE DEF q
  <2>3. SameEvents
    BY <2>1 DEF SameEvents
  <2>4. \A t \in Turns : EndFollows(t)' /\ (EndsDown(t) <=> EndsDown(t)')
    BY <2>3, SameWay
  <2>5. Unsubscribed'
    BY <2>1, <2>2 DEF SpinnerInv, Unsubscribed
  <2>6. Resetting => Resetting'
    BY <2>1, <2>2 DEF Resetting
  <2> QED BY <2>1, <2>4, <2>5, <2>6, OnTheWay
<1>2. CASE SendResponse
  <2> DEFINE r == serving.request
             last == [kind |-> "response", request |-> r]
             first == CASE r = "shell" -> <<[kind |-> "shell"]>>
                        [] r = "close" -> <<>>
                        [] OTHER -> <<[kind |-> "thread", snapshot |-> serving.snapshot]>>
             between == down \o first
  <2>1. /\ r # "none" /\ serving' = NoRequest
        /\ down' = between \o <<last>>
        /\ UNCHANGED <<status, worker, stream, delivery, bus, up, online, subscribed, seeded,
                       pending, thread>>
    BY <1>2 DEF SendResponse
  <2>2. online
    BY <1>0, <2>1 DEF SpinnerInv, NoRequest
  <2>3. /\ r \in Requests
        /\ r \in {"open", "poll"} => serving.snapshot \in Snapshots
        /\ last \in Frames /\ last.kind = "response"
    BY <1>0, <2>1, ServingFields, FrameType
  <2> DEFINE Good(d) ==
        /\ d \in Seq(Frames)
        /\ \A t \in Turns :
             /\ Has(d, FramesOf(Ends(t))) <=> Has(down, FramesOf(Ends(t)))
             /\ Followed(down, FramesOf(Runs(t)), FramesOf(Ends(t))) =>
                  Followed(d, FramesOf(Runs(t)), FramesOf(Ends(t)))
        /\ \A S : Has(down, S) => Has(d, S)
        /\ r = "shell" => Has(d, {Welcome, Shell})
        /\ r # "shell" /\ Has(d, FramesOf(Events) \cup {Shell})
             => Has(down, FramesOf(Events) \cup {Shell})
  <2>4. /\ \A x \in Frames : down \o <<x>> = Append(down, x)
        /\ down \o <<>> = down
    BY <1>0
  <2>5. Good(between)
    <3>1. CASE r = "shell"
      <4>1. between = Append(down, Shell) /\ Shell \in Frames /\ Shell.kind # "event"
        BY <2>4, <3>1, FrameType DEF Shell
      <4>2. Shell \in {Welcome, Shell}
        OBVIOUS
      <4> HIDE DEF between
      <4> QED BY <1>0, <3>1, <4>1, <4>2, OtherPut
    <3>2. CASE r = "close"
      <4>1. between = down
        BY <2>4, <3>2
      <4> QED BY <1>0, <3>2, <4>1
    <3>3. CASE r \in {"open", "poll"}
      <4> DEFINE f == [kind |-> "thread", snapshot |-> serving.snapshot]
      <4>1. f \in Frames /\ f.kind = "thread"
        BY <2>3, <3>3, FrameType
      <4>2. between = Append(down, f)
        BY <2>4, <3>3, <4>1
      <4>3. f \notin FramesOf(Events) \cup {Shell}
        BY <4>1, FrameShows
      <4> HIDE DEF between, f
      <4> QED BY <1>0, <3>3, <4>1, <4>2, <4>3, OtherPut
    <3> QED BY <2>3, <3>1, <3>2, <3>3 DEF Requests
  <2> HIDE DEF between
  <2>6. down' = Append(between, last)
    BY <2>1, <2>3, <2>5
  <2>7. last \notin FramesOf(Events) \cup {Shell}
    BY <2>3, FrameShows
  <2> HIDE DEF last
  <2>8. /\ \A t \in Turns :
             /\ Has(down', FramesOf(Ends(t))) <=> Has(between, FramesOf(Ends(t)))
             /\ Followed(between, FramesOf(Runs(t)), FramesOf(Ends(t))) =>
                  Followed(down', FramesOf(Runs(t)), FramesOf(Ends(t)))
        /\ \A S : Has(down', S) <=> Has(between, S) \/ last \in S
    BY <2>3, <2>5, <2>6, OtherPut
  <2>9. SameEvents
    BY <2>1, <2>5, <2>8 DEF SameEvents
  <2>10. \A t \in Turns : EndFollows(t)' /\ (EndsDown(t) <=> EndsDown(t)')
    BY <2>9, SameWay
  <2>11. Unsubscribed'
    BY <2>1, <2>5, <2>7, <2>8 DEF SpinnerInv, Unsubscribed, NoRequest
  <2>12. Resetting => Resetting'
    BY <2>1, <2>5, <2>8 DEF Resetting
  <2> QED BY <2>1, <2>2, <2>10, <2>11, <2>12, OnTheWay
<1> QED BY <1>1, <1>2

(* The queue with one more push in it can still be flushed coalesced. *)
LEMMA QueuedWords ==
    ASSUME TypeOK, WordInv, NEW e \in Events, down # <<>>,
           Head(down).kind = "event", Head(down).event = e
    PROVE  LET longer == pending \o Adapt(e) IN
           longer \in Seq(UiEvents) /\ Announced(longer) /\ Mergeable(longer)
<1> DEFINE longer == pending \o Adapt(e)
<1>1. /\ down \in Seq(Frames) /\ pending \in Seq(UiEvents) /\ Announced(pending)
      /\ Head(down) \in Frames /\ e.turn \in Turns
  BY HeadAndTail, EventFields DEF TypeOK, WordInv
<1>2. longer \in Seq(UiEvents)
  BY <1>1, AdaptType, ConcatType
<1>3. ASSUME NEW t \in Turns
      PROVE  Announced(longer) /\ Closed(longer, Finals(t), Parts(t))
  <2>1. Closed(pending, Finals(t), Parts(t)) /\ LastWord(t)
    BY DEF WordInv, LastWord
  <2>2. e \in Words(t) => Has(down, WordFrames(t))
    <3>1. Head(down) \in WordFrames(t) <=> e \in Words(t)
      BY <1>1, EventFrameWords
    <3>2. Head(down) \in WordFrames(t) => Has(down, WordFrames(t))
      BY <1>1, HasTail
    <3> QED BY <3>1, <3>2
  <2>3. e \in Words(t) => ~Has(pending, Finals(t))
    BY <2>1, <2>2 DEF LastWord
  <2> QED BY <1>1, <2>1, <2>3, AdaptedWords
<1> HIDE DEF longer
<1>4. Announced(longer)
  BY <1>1, <1>3
<1>5. Mergeable(longer)
  BY <1>2, <1>3, <1>4, WordsAreMergeable
<1> QED BY <1>2, <1>4, <1>5 DEF longer

(* A flush of the queue, coalesced. *)
LEMMA FlushEnds ==
    ASSUME NEW T \in Threads, NEW s \in Seq(UiEvents), Announced(s), Mergeable(s),
           NEW known \in SUBSET Turns, NEW D \in SUBSET Turns,
           QueueEnds(s, known, D), ShownEnds(T, s, known, D)
    PROVE  ShownEnds(ApplyEvents(T, Coalesce(s)), <<>>, known, D)
<1>1. ApplyEvents(T, Coalesce(s)) = ApplyEvents(T, s)
  BY CoalesceIsTransparent
<1> QED BY <1>1, BatchEnds

LEMMA EventSpins ==
    ASSUME TypeOK, WordInv, SpinnerInv, ReceiveEvent
    PROVE  SpinnerInv'
<1> USE DEF server, link, limits, client
<1> DEFINE f == Head(down)
           e == f.event
           longer == pending \o Adapt(e)
<1>0. /\ down \in Seq(Frames) /\ pending \in Seq(UiEvents) /\ thread \in Threads
      /\ seeded \in SUBSET Turns
  BY DEF TypeOK
<1>1. /\ online /\ down # <<>> /\ f \in Frames /\ f.kind = "event" /\ down' = Tail(down)
      /\ Queue(Adapt(e))
      /\ seeded' = IF e.type = "TurnStarted" THEN seeded \cup {e.turn} ELSE seeded
      /\ UNCHANGED <<status, worker, stream, online, subscribed, delivery, bus, up, serving>>
  BY <1>0, HeadAndTail DEF ReceiveEvent, Arrives
<1>2. e \in Events
  BY <1>1, FrameFields
<1>3. /\ longer \in Seq(UiEvents) /\ Announced(longer) /\ Mergeable(longer)
  BY <1>1, <1>2, QueuedWords
<1>4. \/ pending' = longer /\ thread' = thread
      \/ pending' = <<>> /\ thread' = ApplyEvents(thread, Coalesce(longer))
  BY <1>1 DEF Queue
<1>5. \A S : /\ f \in FramesOf(S) <=> e \in S
             /\ Has(down, S) <=> Has(down', S) \/ f \in S
  <2>1. \A S : f \in FramesOf(S) <=> e \in S
    BY <1>1, FrameShows
  <2>2. \A S : Has(down, S) <=> Has(Tail(down), S) \/ f \in S
    BY <1>0, <1>1, HasTail
  <2> QED BY <1>1, <2>1, <2>2
<1>6. subscribed
  <2> SUFFICES ASSUME ~subscribed PROVE FALSE
    OBVIOUS
  <2>1. f \in FramesOf(Events) \cup {Shell}
    BY <1>2, <1>5
  <2> HIDE DEF f
  <2> QED BY <1>1, <1>5, <2>1 DEF SpinnerInv, Unsubscribed
<1>7. Resetting <=> Resetting'
  <2>1. f \notin {Welcome, Shell}
    BY <1>1, FrameShows
  <2> HIDE DEF f
  <2> QED BY <1>1, <1>5, <2>1 DEF Resetting
<1>8. ASSUME NEW t \in Turns
      PROVE  /\ EndFollows(t)'
             /\ EndsDown(t) => EndsDown(t)' \/ e \in Ends(t)
             /\ e \in Runs(t) => EndsDown(t)'
  <2>1. Followed(down, FramesOf(Runs(t)), FramesOf(Ends(t))) =>
          /\ Followed(down', FramesOf(Runs(t)), FramesOf(Ends(t)))
          /\ e \in Runs(t) => Has(down', FramesOf(Ends(t)))
    <3>1. down \in Seq(Frames) \ {<<>>}
      BY <1>0, <1>1
    <3> QED BY <1>1, <1>5, <3>1, WayTaken
  <2>2. /\ Running(t) <=> Running(t)'
        /\ EndsUp(t) <=> EndsUp(t)'
        /\ EndsBus(t) <=> EndsBus(t)'
    BY <1>1 DEF Running, EndsUp, EndsBus
  <2>3. EndFollows(t)
    BY DEF SpinnerInv
  <2>4. Has(down, FramesOf(Ends(t))) => Has(down', FramesOf(Ends(t))) \/ e \in Ends(t)
    BY <1>5
  <2> HIDE DEF f, e
  <2>5. EndFollows(t)'
    BY <1>1, <2>1, <2>2, <2>3 DEF EndFollows
  <2>6. (EndsDown(t) => EndsDown(t)' \/ e \in Ends(t)) /\ (e \in Runs(t) => EndsDown(t)')
    BY <2>1, <2>2, <2>3, <2>4 DEF EndsDown, EndFollows
  <2> QED BY <2>5, <2>6
<1> HIDE DEF f, e
<1>9. /\ \A t \in Turns : t \in Ending => t \in Ending' \/ e \in Ends(t)
      /\ \A t \in Turns : e \in Runs(t) => t \in Ending'
      /\ Ending' \in SUBSET Turns
  BY <1>8 DEF Ending
<1>10. QueueEnds(pending, seeded, Ending) /\ seeded' \in SUBSET Turns
  BY <1>0, <1>1, <1>2, EventFields DEF SpinnerInv
<1>11. /\ QueueEnds(longer, seeded', Ending')
       /\ ShownEnds(thread, pending, seeded, Ending) => ShownEnds(thread, longer, seeded', Ending')
  BY <1>0, <1>1, <1>2, <1>9, <1>10, AdaptedEnds
<1> HIDE DEF longer
<1>12. QueueEnds(pending', seeded', Ending')
  BY <1>4, <1>11, NothingQueued
<1>13. ASSUME ~Resetting' PROVE ShownEnds(thread', pending', seeded', Ending')
  <2>1. ShownEnds(thread, longer, seeded', Ending')
    BY <1>7, <1>11, <1>13 DEF SpinnerInv
  <2>2. ShownEnds(ApplyEvents(thread, Coalesce(longer)), <<>>, seeded', Ending')
    BY <1>0, <1>3, <1>9, <1>10, <1>11, <2>1, FlushEnds
  <2> QED BY <1>4, <2>1, <2>2
<1> QED BY <1>1, <1>6, <1>8, <1>12, <1>13 DEF SpinnerInv, Unsubscribed

LEMMA FlushSpins ==
    ASSUME TypeOK, WordInv, SpinnerInv, Flush
    PROVE  SpinnerInv'
<1> USE DEF server, link, limits, client
<1>0. /\ pending \in Seq(UiEvents) /\ thread \in Threads /\ seeded \in SUBSET Turns
      /\ Ending \in SUBSET Turns /\ online \in BOOLEAN
  BY DEF TypeOK, Ending
<1>1. /\ pending # <<>> /\ pending' = <<>> /\ thread' = ApplyEvents(thread, Coalesce(pending))
      /\ UNCHANGED <<status, worker, stream, online, subscribed, delivery, bus, up, down, serving,
                     seeded>>
  BY DEF Flush
<1>2. Announced(pending) /\ Mergeable(pending)
  BY <1>0, WordsAreMergeable DEF WordInv, LastWord
<1>3. SameEvents
  BY <1>1 DEF SameEvents
<1>4. \A t \in Turns : EndFollows(t)' /\ (EndsDown(t) <=> EndsDown(t)')
  BY <1>3, SameWay
<1>5. Ending' = Ending
  BY <1>4 DEF Ending
<1>6. Resetting <=> Resetting'
  BY <1>1 DEF Resetting
<1>7. ASSUME ~Resetting' PROVE ShownEnds(thread', pending', seeded', Ending')
  <2>1. online /\ ShownEnds(thread, pending, seeded, Ending)
    BY <1>0, <1>6, <1>7 DEF SpinnerInv, Resetting
  <2>2. QueueEnds(pending, seeded, Ending)
    BY <2>1 DEF SpinnerInv
  <2>3. ShownEnds(ApplyEvents(thread, Coalesce(pending)), <<>>, seeded, Ending)
    BY <1>0, <1>2, <2>1, <2>2, FlushEnds
  <2> QED BY <1>1, <1>5, <2>3
<1>8. QueueEnds(pending', seeded', Ending')
  BY <1>1, NothingQueued
<1>9. (~online => bus = <<>> /\ down = <<>> /\ serving = NoRequest)' /\ Unsubscribed'
  BY <1>1 DEF SpinnerInv, Unsubscribed
<1> QED BY <1>4, <1>7, <1>8, <1>9 DEF SpinnerInv

(* A frame that is neither an event, the shell nor a welcome. *)
LEMMA FrameSpins ==
    ASSUME TypeOK, NEW kind \in {"shell", "thread", "response", "welcome"}, Arrives(kind),
           UNCHANGED <<status, worker, stream, delivery, bus>>
    PROVE  /\ SameEvents
           /\ \A S : Has(down', S) => Has(down, S)
           /\ kind \in {"thread", "response"} =>
                /\ Has(down, {Welcome}) => Has(down', {Welcome})
                /\ Has(down, {Welcome, Shell}) => Has(down', {Welcome, Shell})
           /\ kind = "shell" => Has(down, FramesOf(Events) \cup {Shell})
<1>1. /\ down \in Seq(Frames) /\ down # <<>> /\ Head(down) \in Frames
      /\ Head(down).kind = kind /\ down' = Tail(down)
  BY ArrivesType DEF TypeOK, Arrives
<1>2. /\ \A t \in Turns :
           /\ Has(down', FramesOf(Ends(t))) <=> Has(down, FramesOf(Ends(t)))
           /\ Followed(down, FramesOf(Runs(t)), FramesOf(Ends(t))) =>
                Followed(down', FramesOf(Runs(t)), FramesOf(Ends(t)))
      /\ \A S : Has(down, S) <=> Has(down', S) \/ Head(down) \in S
  BY <1>1, OtherTaken
<1>3. (Head(down) = Welcome <=> kind = "welcome") /\ (Head(down) = Shell <=> kind = "shell")
  BY <1>1, FrameShows
<1>4. SameEvents
  BY <1>2 DEF SameEvents
<1> QED BY <1>2, <1>3, <1>4

(* The snapshots leave no turn running, but for one that the thread's      *)
(* snapshot finds running and has nothing to say about.                    *)
LEMMA SnapshotSpins ==
    ASSUME TypeOK, SpinnerInv, ReceiveShellSnapshot \/ ReceiveThreadSnapshot
    PROVE  SpinnerInv'
<1> USE DEF server, link, limits, client
<1>0. /\ thread \in Threads /\ online
      /\ UNCHANGED <<status, worker, stream, online, subscribed, delivery, bus, up, serving, seeded,
                     pending>>
  BY DEF TypeOK, ReceiveShellSnapshot, ReceiveThreadSnapshot, Arrives
<1>1. PICK kind \in {"shell", "thread"} :
        /\ Arrives(kind)
        /\ kind = "shell" => thread' = SyncShellSnapshot(thread)
        /\ kind = "thread" => thread' = SyncThreadSnapshot(thread, Head(down).snapshot)
  BY DEF ReceiveShellSnapshot, ReceiveThreadSnapshot
<1>2. /\ SameEvents
      /\ \A S : Has(down', S) => Has(down, S)
      /\ kind = "thread" => /\ Has(down, {Welcome}) => Has(down', {Welcome})
                            /\ Has(down, {Welcome, Shell}) => Has(down', {Welcome, Shell})
      /\ kind = "shell" => Has(down, FramesOf(Events) \cup {Shell})
  BY <1>0, <1>1, FrameSpins
<1>3. \A t \in Turns : EndFollows(t)' /\ (EndsDown(t) <=> EndsDown(t)')
  BY <1>2, SameWay
<1>4. Ending' = Ending
  BY <1>3 DEF Ending
<1>5. QueueEnds(pending', seeded', Ending')
  BY <1>0, <1>4 DEF SpinnerInv
<1>6. Unsubscribed'
  <2> SUFFICES ASSUME ~subscribed PROVE Unsubscribed'
    BY <1>0 DEF Unsubscribed
  <2>1. /\ Has(up, {"shell"}) \/ Has(down, {Welcome})
        /\ serving.request # "shell" /\ pending = <<>>
        /\ ~Has(down, FramesOf(Events) \cup {Shell})
    BY <1>0 DEF SpinnerInv, Unsubscribed
  <2>2. kind = "thread"
    BY <1>2, <2>1
  <2> QED BY <1>0, <1>2, <2>1, <2>2 DEF Unsubscribed
<1>7. ASSUME ~Resetting' PROVE ShownEnds(thread', pending', seeded', Ending')
  <2>1. CASE kind = "shell"
    <3>1. thread'.session = "idle" /\ thread'.latest.state = "none"
      BY <1>1, <2>1 DEF SyncShellSnapshot, NoLatest
    <3> QED BY <3>1 DEF ShownEnds
  <2>2. CASE kind = "thread"
    <3> DEFINE snapshot == Head(down).snapshot
    <3>1. snapshot \in Snapshots /\ snapshot.latest.state # "running"
      <4>1. Head(down) \in Frames /\ Head(down).kind = "thread"
        BY <1>1, <2>2, ArrivesType
      <4>2. snapshot \in Snapshots
        BY <4>1, FrameFields
      <4> QED BY <4>2, SnapshotFields
    <3>2. thread' = SyncThreadSnapshot(thread, snapshot)
      BY <1>1, <2>2
    <3> HIDE DEF snapshot
    <3>3. ShownEnds(thread, pending, seeded, Ending)
      BY <1>0, <1>2, <1>7, <2>2 DEF SpinnerInv, Resetting
    <3>4. CASE ~thread.known
      <4>1. thread'.session = "idle" /\ thread'.latest = snapshot.latest
        BY <3>2, <3>4 DEF SyncThreadSnapshot
      <4> QED BY <3>1, <4>1 DEF ShownEnds
    <3>5. CASE thread.known
      <4> DEFINE preserve == ShouldPreserveRunningTurn(thread)
      <4>1. /\ thread'.session = IF preserve THEN thread.session ELSE "idle"
            /\ thread'.latest = IF preserve /\ snapshot.latest = NoLatest THEN thread.latest
                                ELSE snapshot.latest
        BY <3>2, <3>5 DEF SyncThreadSnapshot
      <4> HIDE DEF preserve
      <4>2. /\ thread'.session = "running" => thread.session = "running"
            /\ thread'.latest.state = "running" => thread'.latest = thread.latest
        BY <3>1, <4>1
      <4> QED BY <1>0, <1>4, <3>3, <3>5, <4>2 DEF ShownEnds
    <3> QED BY <3>4, <3>5, <1>0, KnownOrNot
  <2> QED BY <2>1, <2>2
<1> QED BY <1>0, <1>3, <1>5, <1>6, <1>7 DEF SpinnerInv

(* The router's own steps ask for more, and forget nothing. *)
LEMMA RouterSpins ==
    ASSUME TypeOK, SpinnerInv, ReceiveWelcome \/ ReceiveResponse \/ Poll \/ Move
    PROVE  SpinnerInv'
<1> USE DEF server, link, limits, client
<1>0. /\ UNCHANGED <<status, worker, stream, online, subscribed, delivery, bus, serving, seeded,
                     pending, thread>>
      /\ up \in Seq(Requests) /\ router \in Routers /\ wanted \in BOOLEAN
      /\ {"shell", "poll"} \subseteq Requests
  BY DEF TypeOK, ReceiveWelcome, ReceiveResponse, Poll, Move, Requests
<1>1. CASE ReceiveWelcome
  <2>1. Arrives("welcome") /\ online /\ up' = Append(up, "shell")
    BY <1>1 DEF ReceiveWelcome, EnsureScopedSubscriptions, Arrives
  <2>2. SameEvents /\ \A S : Has(down', S) => Has(down, S)
    BY <1>0, <2>1, FrameSpins
  <2>3. \A t \in Turns : EndFollows(t)' /\ (EndsDown(t) <=> EndsDown(t)')
    BY <2>2, SameWay
  <2>4. Has(up', {"shell"})
    BY <1>0, <2>1, HasAppend
  <2>5. Unsubscribed'
    BY <1>0, <2>2, <2>4 DEF SpinnerInv, Unsubscribed
  <2>6. Resetting'
    BY <2>4 DEF Resetting
  <2> QED BY <1>0, <2>1, <2>3, <2>5, <2>6, OnTheWay
<1>2. CASE ReceiveResponse
  <2>1. Arrives("response") /\ online
    BY <1>2 DEF ReceiveResponse, Arrives
  <2>2. /\ SameEvents
        /\ \A S : Has(down', S) => Has(down, S)
        /\ Has(down, {Welcome}) => Has(down', {Welcome})
        /\ Has(down, {Welcome, Shell}) => Has(down', {Welcome, Shell})
    BY <1>0, <2>1, FrameSpins
  <2>3. PICK r \in Routers : Settle(r)
    <3>1. /\ [router EXCEPT !.chain = Append(@, wanted)] \in Routers
          /\ [router EXCEPT !.asking = FALSE] \in Routers
          /\ [router EXCEPT !.job = "idle"] \in Routers
      BY <1>0, ChainGrows DEF Routers, Jobs
    <3> QED BY <1>2, <3>1 DEF ReceiveResponse
  <2>4. Has(up, {"shell"}) => Has(up', {"shell"})
    BY <2>3, SettleKeeps
  <2> QED BY <1>0, <2>1, <2>2, <2>4, NothingLost
<1>3. CASE Poll \/ Move
  <2>1. down' = down
    BY <1>3 DEF Poll, Move
  <2>2. SameEvents
    BY <1>0, <2>1 DEF SameEvents
  <2>3. Has(up, {"shell"}) => Has(up', {"shell"})
    <3>1. CASE Poll
      <4>1. up' = Append(up, "poll")
        BY <3>1 DEF Poll
      <4> QED BY <1>0, <4>1, HasAppend
    <3>2. CASE Move
      <4>1. PICK r \in Routers : Settle(r)
        <5>1. [router EXCEPT !.chain = Append(@, ~wanted)] \in Routers
          BY <1>0, ChainGrows
        <5> QED BY <3>2, <5>1 DEF Move
      <4> QED BY <4>1, SettleKeeps
    <3> QED BY <1>3, <3>1, <3>2
  <2>4. ~online => down' = <<>>
    BY <2>1 DEF SpinnerInv
  <2> QED BY <1>0, <2>1, <2>2, <2>3, <2>4, NothingLost
<1> QED BY <1>1, <1>2, <1>3

(* Connections: a new one begins with a welcome, and nothing outlives one. *)
LEMMA OutageSpins ==
    ASSUME TypeOK, SpinnerInv, Connect \/ Drop \/ Reload
    PROVE  SpinnerInv'
<1> USE DEF server, link, limits, client
<1>0. UNCHANGED <<status, worker, stream>>
  BY DEF Connect, Drop, Reload
<1>1. \A t \in Turns : EndFollows(t) /\ (Running(t) <=> Running(t)')
  BY <1>0 DEF SpinnerInv, Running
<1>2. CASE Connect
  <2>1. /\ ~online /\ pending = <<>> /\ pending' = <<>> /\ online' /\ ~subscribed'
        /\ down' = <<Welcome>> /\ up' = up /\ bus = <<>> /\ bus' = <<>>
        /\ serving.request = "none" /\ serving' = serving
    BY <1>2 DEF Connect, SpinnerInv, NoRequest, Welcome
  <2>2. \A S : Has(down', S) <=> Welcome \in S
    BY <2>1, HasSingle
  <2>3. Welcome \notin FramesOf(Events) \cup {Shell} /\ \A S : Welcome \notin FramesOf(S)
    <3>1. Welcome \in Frames /\ Welcome.kind = "welcome"
      BY FrameType DEF Welcome
    <3> QED BY <3>1, FrameShows
  <2>4. Unsubscribed' /\ Resetting'
    BY <2>1, <2>2, <2>3 DEF Unsubscribed, Resetting
  <2>5. ASSUME NEW t \in Turns PROVE EndFollows(t)'
    <3>1. Followed(down', FramesOf(Runs(t)), FramesOf(Ends(t)))
      BY <2>2, <2>3, UnlessHas
    <3> QED BY <1>0, <1>1, <2>1, <3>1, FollowedNone DEF EndFollows
  <2>6. QueueEnds(pending', seeded', Ending')
    BY <2>1, NothingQueued
  <2> QED BY <2>1, <2>4, <2>5, <2>6 DEF SpinnerInv
<1>3. CASE Drop \/ Reload
  <2>1. ~online' /\ bus' = <<>> /\ down' = <<>> /\ serving' = NoRequest
    BY <1>3 DEF Drop, Reload
  <2>2. \A t \in Turns : EndFollows(t)'
    BY <1>0, <1>1, <2>1, FollowedNone DEF EndFollows
  <2>3. Unsubscribed' /\ Resetting'
    BY <2>1 DEF Unsubscribed, Resetting
  <2> QED BY <2>1, <2>2, <2>3 DEF SpinnerInv
<1> QED BY <1>2, <1>3

ThreadFrame(s) == [kind |-> "thread", snapshot |-> s]

(* The response to a request, and the snapshot before it. *)
LEMMA Sent ==
    ASSUME TypeOK, SendResponse
    PROVE  \E between \in Seq(Frames) :
             LET r == serving.request IN
             /\ r \in Requests /\ Response(r) \in Frames
             /\ serving' = NoRequest /\ down' = Append(between, Response(r))
             /\ \/ r = "shell" /\ Shell \in Frames /\ between = Append(down, Shell)
                \/ r = "close" /\ between = down
                \/ /\ r \in {"open", "poll"} /\ serving.snapshot \in Snapshots
                   /\ ThreadFrame(serving.snapshot) \in Frames
                   /\ between = Append(down, ThreadFrame(serving.snapshot))
<1> DEFINE r == serving.request
           first == CASE r = "shell" -> <<[kind |-> "shell"]>>
                      [] r = "close" -> <<>>
                      [] OTHER -> <<[kind |-> "thread", snapshot |-> serving.snapshot]>>
           between == down \o first
<1>1. /\ r # "none" /\ serving' = NoRequest /\ down' = between \o <<Response(r)>>
      /\ down \in Seq(Frames) /\ serving \in Servings
  BY DEF SendResponse, Response, TypeOK
<1>2. /\ r \in Requests /\ Response(r) \in Frames /\ Shell \in Frames
      /\ r \in {"open", "poll"} => serving.snapshot \in Snapshots
                                   /\ ThreadFrame(serving.snapshot) \in Frames
  BY <1>1, ServingFields, FrameType DEF Response, Shell, ThreadFrame
<1>3. \A d \in Seq(Frames) : d \o <<>> = d /\ \A x \in Frames : d \o <<x>> = Append(d, x)
  OBVIOUS
<1>4. \/ r = "shell" /\ between = Append(down, Shell)
      \/ r = "close" /\ between = down
      \/ r \in {"open", "poll"} /\ between = Append(down, ThreadFrame(serving.snapshot))
  <2>1. CASE r = "shell"
    BY <1>1, <1>2, <1>3, <2>1 DEF Shell
  <2>2. CASE r = "close"
    BY <1>1, <1>3, <2>2
  <2>3. CASE r \in {"open", "poll"}
    <3>1. first = <<ThreadFrame(serving.snapshot)>>
      BY <2>3 DEF ThreadFrame
    <3> QED BY <1>1, <1>2, <1>3, <2>3, <3>1
  <2> QED BY <1>2, <2>1, <2>2, <2>3 DEF Requests
<1> HIDE DEF between, r
<1>5. between \in Seq(Frames)
  <2>1. \A x \in Frames : Append(down, x) \in Seq(Frames)
    BY <1>1
  <2> QED BY <1>1, <1>2, <1>4, <2>1
<1>6. down' = Append(between, Response(r))
  BY <1>1, <1>2, <1>3, <1>5
<1> QED BY <1>1, <1>2, <1>4, <1>5, <1>6 DEF r

LEMMA UnheardInit == Init => Unheard
BY DEF Init, Unheard

LEMMA UnheardStep ==
    ASSUME TypeOK, Unheard, [Next]_vars
    PROVE  Unheard'
<1> USE DEF server, link, limits, client
<1>0. /\ bus \in Seq(Events) /\ down \in Seq(Frames) /\ up \in Seq(Requests)
      /\ serving \in Servings /\ delivery \in Deliveries /\ online \in BOOLEAN
  BY DEF TypeOK
(* A step that leaves alone what the connection has and shows. *)
<1>1. ASSUME UNCHANGED <<online, delivery, bus, pending, thread>>,
             Has(down', FramesOf(Events)) => Has(down, FramesOf(Events)),
             Resetting => Resetting'
      PROVE  Unheard'
  BY <1>1 DEF Unheard, Busy
(* A step of a connection whose task has started. *)
<1>2. ASSUME online, online', delivery' \notin {"none", "starting"}
      PROVE  Unheard'
  BY <1>2 DEF Unheard
<1>3. ASSUME NEW t \in Turns,
             \/ StartTurn(t) \/ CancelTurn(t)
             \/ ProviderDelta(t) \/ ProviderCompletes(t) \/ ProviderFails(t)
      PROVE  Unheard'
  BY <1>1, <1>3 DEF StartTurn, CancelTurn, ProviderDelta, ProviderCompletes, ProviderFails, Resetting
<1>4. CASE PublishCommandEvent \/ PublishProviderEvent
  <2>1. /\ \E e \in Events : Broadcast(e)
        /\ UNCHANGED <<online, up, down, serving, pending, thread>>
    BY <1>4, HeadAndTail DEF PublishCommandEvent, PublishProviderEvent, TypeOK
  <2>2. \/ Receiving /\ delivery' = delivery
        \/ bus' = bus /\ delivery' = delivery
        \/ DeliveryEnds
    BY <2>1, BroadcastCases
  <2>3. CASE bus' = bus /\ delivery' = delivery
    BY <1>1, <2>1, <2>3 DEF Resetting
  <2>4. CASE Receiving /\ delivery' \in {delivery, "ended"}
    BY <1>0, <1>2, <2>1, <2>4 DEF Receiving, Unheard
  <2> QED BY <2>2, <2>3, <2>4 DEF DeliveryEnds
<1>5. CASE OtherPushesOvertake \/ DeliveryStarts
  BY <1>0, <1>2, <1>5 DEF OtherPushesOvertake, DeliveryStarts, DeliveryEnds, Receiving, Unheard
<1>6. CASE DeliverPush
  BY <1>0, <1>2, <1>6 DEF DeliverPush, Unheard, Deliveries
<1>7. CASE ServeRequest
  <2>1. /\ up # <<>> /\ up' = Tail(up) /\ serving'.request = Head(up)
        /\ serving.request = "none"
        /\ UNCHANGED <<online, delivery, bus, down, pending, thread>>
    BY <1>7 DEF ServeRequest
  <2>2. \A S : Has(up, S) <=> Has(up', S) \/ Head(up) \in S
    BY <1>0, <2>1, HasTail
  <2>3. Resetting => Resetting'
    BY <2>1, <2>2 DEF Resetting
  <2> QED BY <1>1, <2>1, <2>3
<1>8. CASE SendResponse
  <2>1. PICK between \in Seq(Frames) :
          LET r == serving.request IN
          /\ r \in Requests /\ Response(r) \in Frames
          /\ serving' = NoRequest /\ down' = Append(between, Response(r))
          /\ \/ r = "shell" /\ Shell \in Frames /\ between = Append(down, Shell)
             \/ r = "close" /\ between = down
             \/ /\ r \in {"open", "poll"} /\ serving.snapshot \in Snapshots
                /\ ThreadFrame(serving.snapshot) \in Frames
                /\ between = Append(down, ThreadFrame(serving.snapshot))
    BY <1>8, Sent
  <2>2. /\ \A S : Response(serving.request) \notin FramesOf(S) /\ Shell \notin FramesOf(S)
        /\ \A s, S : ThreadFrame(s) \notin FramesOf(S)
    BY DEF FramesOf, Response, Shell, ThreadFrame
  <2>3. \A x \in Frames : \A S : Has(Append(down, x), S) <=> Has(down, S) \/ x \in S
    BY <1>0, HasAppend
  <2>4. \A S : Has(down', S) <=> Has(between, S) \/ Response(serving.request) \in S
    BY <2>1, HasAppend
  <2>5. UNCHANGED <<online, delivery, bus, up, pending, thread>>
    BY <1>8 DEF SendResponse
  <2>6. ASSUME NEW x \in Frames, between = Append(down, x), x \notin FramesOf(Events)
        PROVE  /\ Has(between, FramesOf(Events)) => Has(down, FramesOf(Events))
               /\ Has(down, {Welcome, Shell}) => Has(between, {Welcome, Shell})
               /\ x = Shell => Has(between, {Welcome, Shell})
    BY <2>3, <2>6
  <2>7. /\ Has(between, FramesOf(Events)) => Has(down, FramesOf(Events))
        /\ Has(down, {Welcome, Shell}) => Has(between, {Welcome, Shell})
        /\ serving.request = "shell" => Has(between, {Welcome, Shell})
    <3>1. CASE serving.request = "shell"
      <4>1. Shell \in Frames /\ between = Append(down, Shell)
        BY <2>1, <3>1
      <4> QED BY <2>2, <2>6, <4>1
    <3>2. CASE serving.request = "close"
      <4>1. between = down
        BY <2>1, <3>2
      <4> QED BY <3>2, <4>1
    <3>3. CASE serving.request \in {"open", "poll"}
      <4>1. /\ ThreadFrame(serving.snapshot) \in Frames
            /\ between = Append(down, ThreadFrame(serving.snapshot))
        BY <2>1, <3>3
      <4> QED BY <2>2, <2>6, <3>3, <4>1
    <3> QED BY <2>1, <3>1, <3>2, <3>3
  <2>8. /\ Has(down', FramesOf(Events)) => Has(down, FramesOf(Events))
        /\ Has(down, {Welcome, Shell}) => Has(down', {Welcome, Shell})
        /\ serving.request = "shell" => Has(down', {Welcome, Shell})
    BY <2>2, <2>4, <2>7
  <2> QED BY <1>1, <2>5, <2>8 DEF Resetting
<1>9. CASE ReceiveEvent
  <2>1. /\ online /\ down # <<>> /\ Head(down) \in Frames /\ Head(down).kind = "event"
        /\ UNCHANGED <<online, delivery, bus>>
    BY <1>9, ArrivesType DEF ReceiveEvent, Arrives
  <2>2. Head(down) \in FramesOf(Events)
    BY <2>1, FrameFields DEF FramesOf
  <2>3. Has(down, FramesOf(Events))
    BY <1>0, <2>1, <2>2, HasTail
  <2> QED BY <1>2, <2>1, <2>3 DEF Unheard
<1>10. CASE Flush
  BY <1>10 DEF Flush, Unheard
<1>11. CASE ReceiveShellSnapshot
  <2>1. /\ Arrives("shell") /\ UNCHANGED <<status, worker, stream, online, delivery, bus, pending>>
        /\ thread' = SyncShellSnapshot(thread)
    BY <1>11 DEF ReceiveShellSnapshot
  <2>2. \A S : Has(down', S) => Has(down, S)
    BY <2>1, FrameSpins
  <2>3. ~Busy'
    BY <2>1 DEF Busy, SyncShellSnapshot, NoLatest
  <2> QED BY <2>1, <2>2, <2>3 DEF Unheard
<1>12. CASE ReceiveThreadSnapshot
  <2> DEFINE snapshot == Head(down).snapshot
             preserve == ShouldPreserveRunningTurn(thread)
  <2>1. /\ Arrives("thread")
        /\ UNCHANGED <<status, worker, stream, online, delivery, bus, pending, up, serving>>
        /\ thread' = SyncThreadSnapshot(thread, snapshot)
    BY <1>12 DEF ReceiveThreadSnapshot
  <2>2. /\ \A S : Has(down', S) => Has(down, S)
        /\ Has(down, {Welcome, Shell}) => Has(down', {Welcome, Shell})
    BY <2>1, FrameSpins
  <2>3. snapshot.latest.state # "running"
    BY <2>1, ArrivesType, FrameFields, SnapshotFields
  <2>4. Busy' => Busy
    <3> SUFFICES ASSUME Busy' PROVE Busy
      OBVIOUS
    <3>1. thread \in Threads
      BY DEF TypeOK
    <3> HIDE DEF snapshot
    <3>2. CASE ~thread.known
      <4>1. thread'.session = "idle" /\ thread'.latest = snapshot.latest
        BY <2>1, <3>2 DEF SyncThreadSnapshot
      <4> QED BY <2>3, <4>1 DEF Busy
    <3>3. CASE thread.known
      <4>1. /\ thread'.session = IF preserve THEN thread.session ELSE "idle"
            /\ thread'.latest = IF preserve /\ snapshot.latest = NoLatest THEN thread.latest
                                ELSE snapshot.latest
        BY <2>1, <3>3 DEF SyncThreadSnapshot
      <4> HIDE DEF preserve
      <4> QED BY <2>3, <3>3, <4>1 DEF Busy
    <3> QED BY <3>1, <3>2, <3>3, KnownOrNot
  <2>5. Resetting => Resetting'
    BY <2>1, <2>2 DEF Resetting
  <2> QED BY <2>1, <2>2, <2>4, <2>5 DEF Unheard
<1>13. CASE ReceiveWelcome
  <2>1. /\ Arrives("welcome") /\ up' = Append(up, "shell")
        /\ UNCHANGED <<status, worker, stream, online, delivery, bus, pending, thread>>
    BY <1>13 DEF ReceiveWelcome, EnsureScopedSubscriptions
  <2>2. \A S : Has(down', S) => Has(down, S)
    BY <2>1, FrameSpins
  <2>3. Has(up', {"shell"})
    BY <1>0, <2>1, HasAppend DEF Requests
  <2> QED BY <1>1, <2>1, <2>2, <2>3 DEF Resetting
<1>14. CASE ReceiveResponse
  <2>1. /\ Arrives("response")
        /\ UNCHANGED <<status, worker, stream, online, delivery, bus, pending, thread, serving>>
    BY <1>14 DEF ReceiveResponse
  <2>2. /\ \A S : Has(down', S) => Has(down, S)
        /\ Has(down, {Welcome, Shell}) => Has(down', {Welcome, Shell})
    BY <2>1, FrameSpins
  <2>3. Has(up, {"shell"}) => Has(up', {"shell"})
    <3>1. router \in Routers /\ wanted \in BOOLEAN
      BY DEF TypeOK
    <3>2. /\ [router EXCEPT !.chain = Append(@, wanted)] \in Routers
          /\ [router EXCEPT !.asking = FALSE] \in Routers
          /\ [router EXCEPT !.job = "idle"] \in Routers
      BY <3>1, ChainGrows DEF Routers, Jobs
    <3>3. PICK r \in Routers : Settle(r)
      BY <1>14, <3>2 DEF ReceiveResponse
    <3> QED BY <3>3, SettleKeeps
  <2> QED BY <1>1, <2>1, <2>2, <2>3 DEF Resetting
<1>15. CASE Move \/ Poll
  <2>1. Has(up, {"shell"}) => Has(up', {"shell"})
    <3>1. CASE Poll
      <4>1. up' = Append(up, "poll") /\ "poll" \in Requests
        BY <3>1 DEF Poll, Requests
      <4> QED BY <1>0, <4>1, HasAppend
    <3>2. CASE Move
      <4>1. PICK r \in Routers : Settle(r)
        <5>1. [router EXCEPT !.chain = Append(@, ~wanted)] \in Routers
          BY ChainGrows DEF TypeOK
        <5> QED BY <3>2, <5>1 DEF Move
      <4> QED BY <4>1, SettleKeeps
    <3> QED BY <1>15, <3>1, <3>2
  <2>2. UNCHANGED <<online, delivery, bus, pending, thread, down, serving>>
    BY <1>15 DEF Move, Poll
  <2> QED BY <1>1, <2>1, <2>2 DEF Resetting
<1>16. CASE Connect
  <2>1. /\ ~online /\ online' /\ pending' = <<>> /\ delivery' = "starting" /\ bus' = <<>>
        /\ down' = <<Welcome>>
    BY <1>16 DEF Connect, Unheard, Welcome
  <2>2. \A S : Has(down', S) <=> Welcome \in S
    BY <2>1, HasSingle
  <2>3. Welcome \notin FramesOf(Events)
    BY DEF FramesOf, Welcome
  <2> QED BY <2>1, <2>2, <2>3 DEF Unheard, Resetting
<1>17. CASE Drop \/ Reload
  BY <1>17 DEF Drop, Reload, Unheard
<1>18. CASE UNCHANGED vars
  BY <1>1, <1>18 DEF vars, Resetting
<1> QED BY <1>3, <1>4, <1>5, <1>6, <1>7, <1>8, <1>9, <1>10, <1>11, <1>12, <1>13, <1>14, <1>15,
           <1>16, <1>17, <1>18 DEF Next, ServerStep, ClientStep

LEMMA SpinnerStep == TypeOK /\ WordInv /\ Unheard /\ SpinnerInv /\ [Next]_vars => SpinnerInv'
<1>1. ASSUME TypeOK, SpinnerInv, UNCHANGED vars PROVE SpinnerInv'
  <2>1. /\ UNCHANGED <<online, subscribed, serving, seeded, pending, thread, up, down>>
        /\ SameEvents
    BY <1>1 DEF vars, server, link, limits, client, SameEvents
  <2>2. ~online => down' = <<>>
    BY <1>1, <2>1 DEF SpinnerInv
  <2> QED BY <1>1, <2>1, <2>2, NothingLost
<1>2. ASSUME TypeOK, WordInv, Unheard, SpinnerInv, ServerStep PROVE SpinnerInv'
  BY <1>2, TurnSpins, LinkSpins, RequestSpins DEF ServerStep
<1>3. ASSUME TypeOK, WordInv, SpinnerInv, ClientStep \/ Drop PROVE SpinnerInv'
  BY <1>3, EventSpins, FlushSpins, SnapshotSpins, RouterSpins, OutageSpins DEF ClientStep
<1> QED BY <1>1, <1>2, <1>3 DEF Next

(* A client that hears nothing more, of turns that have all ended, does    *)
(* not spin: what showed a turn as running had the turn's end behind it on *)
(* the way, or a connection was lost with that end, and then the shell's   *)
(* snapshot, which a new connection always asks for, has reset the thread. *)
(* The bus may lose what the connection has not subscribed to yet, start   *)
(* and end alike; it may not have overtaken the delivery task, which then  *)
(* tells no more.  (A cancelled turn counts as running here: the adapter   *)
(* drops the event.)                                                       *)
THEOREM SpinnersStop == Spec => []QuietSpinnerOff
<1> DEFINE IInv == TypeOK /\ WordInv /\ Unheard /\ SpinnerInv
<1>1. Init => IInv
  BY TypeInit, WordInit, UnheardInit, SpinnerInit
<1>2. IInv /\ [Next]_vars => IInv'
  BY TypeStep, WordStep, UnheardStep, SpinnerStep
<1>3. IInv => QuietSpinnerOff
  <2> SUFFICES ASSUME SpinnerInv, Quiet, delivery # "ended",
                      \A t \in Turns : status[t] \in {"none", "completed", "failed"}
               PROVE  ~Busy
    BY DEF QuietSpinnerOff
  <2>1. Ending = {}
    BY HasNone DEF Ending, EndsDown, EndsBus, EndsUp, Running, Quiet
  <2>2. ~Resetting
    BY HasNone DEF Resetting, Quiet, NoRequest
  <2>3. ShownEnds(thread, <<>>, seeded, {})
    BY <2>1, <2>2 DEF SpinnerInv, Quiet
  <2> QED BY <2>3, HasNone DEF ShownEnds, Busy
<1> HIDE DEF IInv
<1> QED BY <1>1, <1>2, <1>3, PTL DEF Spec

-----------------------------------------------------------------------------
(* The answers.  What is pushed and what a snapshot shows is what the      *)
(* server has, and what the client has finished is complete.               *)

(* An event the server does not push: a piece of an answer that is not     *)
(* streamed, a failure of a turn that has not failed.                      *)
Wrong ==
    {e \in Events : \/ e.type = "MessageDeltaAppended" /\ ~streams[e.turn]
                    \/ e.type = "TurnFailed" /\ status[e.turn] # "failed"}

(* A snapshot's answers are of turns that stream. *)
Sound(snapshot) ==
    \A t \in Turns : LET m == snapshot.answers[t] IN m.shown => m.streaming /\ streams[t]

Unsound == {f \in Frames : f.kind = "thread" /\ ~Sound(f.snapshot)}

(* In the client's queue, and on the screen: a piece is of a turn that     *)
(* streams, and a finished message has every piece.                        *)
WrongParts ==
    {e \in UiEvents : /\ e.type = "message-sent"
                      /\ IF e.streaming THEN ~streams[e.turn] ELSE e.text # Answer}

Right(m, t) == m.shown => IF m.streaming THEN streams[t] ELSE Complete(m.text)

ShownRight(T) == T.known => \A t \in Turns : Right(T.answers[t], t)

ServesThread == serving.request \in {"open", "poll"}

TruthInv ==
    /\ \A t \in Turns : /\ streams[t] /\ status[t] = "completed" => output[t] = Answer
                        /\ ~streams[t] => output[t] = <<>>
    /\ ~Has(worker, Wrong) /\ ~Has(stream, Wrong) /\ ~Has(bus, Wrong)
    /\ ~Has(down, FramesOf(Wrong) \cup Unsound)
    /\ ServesThread => Sound(serving.snapshot)
    /\ ~Has(pending, WrongParts)
    /\ ShownRight(thread)

LEMMA TruthInit == Init => TruthInv
<1> SUFFICES ASSUME Init PROVE TruthInv
  OBVIOUS
<1>1. /\ output = [t \in Turns |-> <<>>] /\ status = [t \in Turns |-> "none"]
      /\ worker = <<>> /\ stream = <<>> /\ bus = <<>> /\ down = <<>> /\ pending = <<>>
      /\ ~ServesThread /\ ~thread.known
  BY DEF Init, ServesThread, NoRequest, NoThread
<1> QED BY <1>1, HasNone DEF TruthInv, ShownRight

(* An answer's pieces, or more behind them, are complete. *)
LEMMA AnswerIsComplete ==
    /\ Complete(Answer)
    /\ \A text \in Texts : Complete(text \o Answer)
    /\ \A text \in Texts : IsPrefix(Answer, text) => Complete(text)
<1>0. Chunks \in Nat \ {0}
  BY ClientSyncAssumption
<1>1. Len(Answer) = Chunks /\ Answer \in Texts /\ \A k \in 1..Chunks : Answer[k] = k
  BY <1>0, AnswerType DEF Answer
<1>2. ASSUME NEW text \in Texts, NEW n \in Nat, n + Chunks <= Len(text),
             \A k \in 1..Chunks : text[n + k] = k
      PROVE  Complete(text)
  <2> SUFFICES ASSUME NEW k \in 1..Chunks
               PROVE  \E i \in DOMAIN text :
                        text[i] = k /\ 1..(k - 1) \subseteq {text[j] : j \in 1..(i - 1)}
    BY DEF Complete
  <2>1. n + k \in DOMAIN text /\ text[n + k] = k
    BY <1>0, <1>2 DEF Texts
  <2>2. ASSUME NEW l \in 1..(k - 1) PROVE l \in {text[j] : j \in 1..(n + k - 1)}
    <3>1. l \in 1..Chunks /\ n + l \in 1..(n + k - 1)
      BY <1>0, <1>2
    <3>2. text[n + l] = l
      BY <1>2, <3>1
    <3> QED BY <3>1, <3>2
  <2> QED BY <2>1, <2>2
<1>3. Complete(Answer)
  <2>1. \A k \in 1..Chunks : Answer[0 + k] = k
    BY <1>0, <1>1
  <2> QED BY <1>0, <1>1, <1>2, <2>1
<1>4. ASSUME NEW text \in Texts PROVE Complete(text \o Answer)
  <2>1. /\ text \o Answer \in Texts /\ Len(text) \in Nat
        /\ Len(text \o Answer) = Len(text) + Chunks
        /\ \A k \in 1..Chunks : (text \o Answer)[Len(text) + k] = Answer[k]
    BY <1>0, <1>1 DEF Texts
  <2> DEFINE longer == text \o Answer
  <2> HIDE DEF longer
  <2>2. longer \in Texts /\ Len(text) + Chunks <= Len(longer)
    BY <1>0, <2>1 DEF longer
  <2>3. \A k \in 1..Chunks : longer[Len(text) + k] = k
    BY <1>1, <2>1 DEF longer
  <2>4. Complete(longer)
    BY <1>2, <2>1, <2>2, <2>3
  <2> QED BY <2>4 DEF longer
<1>5. ASSUME NEW text \in Texts, IsPrefix(Answer, text) PROVE Complete(text)
  <2>1. Len(Answer) <= Len(text) /\ SubSeq(Answer, 1, Len(Answer)) = SubSeq(text, 1, Len(Answer))
    BY <1>5 DEF IsPrefix
  <2>2. \A k \in 1..Chunks : text[0 + k] = k
    BY <1>0, <1>1, <2>1 DEF Texts
  <2>3. 0 + Chunks <= Len(text)
    BY <1>0, <1>1, <2>1
  <2> QED BY <1>2, <2>2, <2>3
<1> QED BY <1>3, <1>4, <1>5

(* A text longer than the answer has a piece twice. *)
LEMMA LongerIsDoubled ==
    ASSUME NEW text \in Texts, Len(text) > Chunks
    PROVE  Doubled(text)
<1>1. /\ Chunks \in Nat /\ Len(text) \in Nat /\ DOMAIN text = 1..Len(text)
      /\ text \in [1..Len(text) -> 1..Chunks]
  BY ClientSyncAssumption DEF Texts
<1>2. /\ IsFiniteSet(1..Len(text)) /\ Cardinality(1..Len(text)) = Len(text)
      /\ IsFiniteSet(1..Chunks) /\ Cardinality(1..Chunks) = Chunks
  <2>1. \A n \in Nat : 1 \in Int /\ n \in Int /\ (IF 1 > n THEN 0 ELSE n - 1 + 1) = n
    OBVIOUS
  <2>2. \A n \in Nat : IsFiniteSet(1..n) /\ Cardinality(1..n) = n
    BY <2>1, FS_Interval
  <2> QED BY <1>1, <2>2
<1>3. \E i, j \in 1..Len(text) : i # j /\ text[i] = text[j]
  BY <1>1, <1>2, FS_PigeonHole
<1> QED BY <1>1, <1>3 DEF Doubled

(* Where a frame in flight can come from. *)
LEMMA DownHas ==
    ASSUME TypeOK, [Next]_vars, NEW S, Has(down', S)
    PROVE  \/ Has(down, S)
           \/ /\ DeliverPush /\ bus # <<>>
              /\ \E f \in S \cap Frames : f.kind = "event" /\ f.event = Head(bus)
           \/ /\ SendResponse /\ ServesThread /\ serving.snapshot \in Snapshots
              /\ ThreadFrame(serving.snapshot) \in S \cap Frames
           \/ Has(<<Welcome>>, S) \/ Has(<<Shell>>, S)
           \/ \E r \in Requests : Response(r) \in S
<1> USE DEF server, link, limits, client
<1>0. down \in Seq(Frames) /\ bus \in Seq(Events)
  BY DEF TypeOK
<1>1. CASE down' = down
  BY <1>1
<1>2. CASE DeliverPush
  <2> DEFINE f == [kind |-> "event", event |-> Head(bus)]
  <2>1. bus # <<>> /\ Head(bus) \in Events /\ (down' = down \/ down' = Append(down, f))
    BY <1>0, <1>2, HeadAndTail DEF DeliverPush
  <2>2. f \in Frames /\ f.kind = "event" /\ f.event = Head(bus)
    BY <2>1, FrameType
  <2> HIDE DEF f
  <2>3. Has(Append(down, f), S) <=> Has(down, S) \/ f \in S
    BY <1>0, <2>2, HasAppend
  <2> QED BY <1>2, <2>1, <2>2, <2>3
<1>3. CASE SendResponse
  <2>1. PICK between \in Seq(Frames) :
             LET r == serving.request IN
             /\ r \in Requests /\ Response(r) \in Frames
             /\ serving' = NoRequest /\ down' = Append(between, Response(r))
             /\ \/ r = "shell" /\ Shell \in Frames /\ between = Append(down, Shell)
                \/ r = "close" /\ between = down
                \/ /\ r \in {"open", "poll"} /\ serving.snapshot \in Snapshots
                   /\ ThreadFrame(serving.snapshot) \in Frames
                   /\ between = Append(down, ThreadFrame(serving.snapshot))
    BY <1>3, Sent
  <2>2. Has(between, S) \/ Response(serving.request) \in S
    BY <2>1, HasAppend
  <2>3. Has(between, S) => \/ Has(down, S) \/ Has(<<Shell>>, S)
                           \/ /\ ServesThread /\ serving.snapshot \in Snapshots
                              /\ ThreadFrame(serving.snapshot) \in S \cap Frames
    <3>1. \A x \in Frames : Has(Append(down, x), S) <=> Has(down, S) \/ x \in S
      BY <1>0, HasAppend
    <3>2. Shell \in S => Has(<<Shell>>, S)
      BY HasSingle
    <3> QED BY <2>1, <3>1, <3>2 DEF ServesThread
  <2> QED BY <1>3, <2>1, <2>2, <2>3
<1>4. CASE down # <<>> /\ down' = Tail(down)
  BY <1>0, <1>4, HasTail
<1>5. CASE down' = <<>> \/ down' = <<Welcome>>
  BY <1>5, HasNone
<1>6. \/ down' = down \/ DeliverPush \/ SendResponse
      \/ down # <<>> /\ down' = Tail(down)
      \/ down' = <<>> \/ down' = <<Welcome>>
  <2>1. CASE ServerStep
    BY <2>1 DEF ServerStep, StartTurn, CancelTurn, ProviderDelta, ProviderCompletes, ProviderFails,
                PublishCommandEvent, PublishProviderEvent, OtherPushesOvertake, DeliveryStarts,
                ServeRequest
  <2>2. CASE ClientStep
    BY <2>2 DEF ClientStep, ReceiveEvent, ReceiveShellSnapshot, ReceiveThreadSnapshot,
                ReceiveWelcome, ReceiveResponse, Arrives, Flush, Poll, Move, Connect, Reload, Welcome
  <2>3. CASE Drop
    BY <2>3 DEF Drop
  <2>4. CASE UNCHANGED vars
    BY <2>4 DEF vars
  <2> QED BY <2>1, <2>2, <2>3, <2>4 DEF Next
<1> QED BY <1>1, <1>2, <1>3, <1>4, <1>5, <1>6

(* The turns: a failed turn stays failed, and a completed one completed    *)
(* with the text it has.                                                   *)
LEMMA TurnsLast ==
    ASSUME TypeOK, [Next]_vars
    PROVE  /\ streams' = streams
           /\ \A t \in Turns : status[t] \in {"failed", "completed"} =>
                                 status'[t] = status[t] /\ output'[t] = output[t]
           /\ Wrong' \subseteq Wrong /\ WrongParts' = WrongParts
           /\ FramesOf(Wrong') \cup Unsound' \subseteq FramesOf(Wrong) \cup Unsound
           /\ \A s \in Snapshots : Sound(s) => Sound(s)'
<1> USE DEF server, link, limits, client
<1>0. status \in [Turns -> Statuses] /\ output \in [Turns -> Texts]
  BY DEF TypeOK
<1>1. CASE UNCHANGED <<status, output, streams>>
  BY <1>1 DEF Wrong, WrongParts, FramesOf, Unsound, Sound
<1>2. ASSUME NEW u \in Turns,
             \/ StartTurn(u) \/ CancelTurn(u)
             \/ ProviderDelta(u) \/ ProviderCompletes(u) \/ ProviderFails(u)
      PROVE  /\ streams' = streams
             /\ \A t \in Turns : status[t] \in {"failed", "completed"} =>
                                   status'[t] = status[t] /\ output'[t] = output[t]
  BY <1>0, <1>2 DEF StartTurn, CancelTurn, ProviderDelta, ProviderCompletes, ProviderFails,
                    ProviderMayEmit
<1>3. CASE \E u \in Turns :
              \/ StartTurn(u) \/ CancelTurn(u)
              \/ ProviderDelta(u) \/ ProviderCompletes(u) \/ ProviderFails(u)
  <2>1. /\ streams' = streams
        /\ \A t \in Turns : status[t] \in {"failed", "completed"} =>
                              status'[t] = status[t] /\ output'[t] = output[t]
    BY <1>2, <1>3
  <2>2. \A e \in Events : e.turn \in Turns
    BY EventFields
  <2>3. Wrong' \subseteq Wrong
    BY <2>1, <2>2 DEF Wrong
  <2>4. WrongParts' = WrongParts
    BY <2>1 DEF WrongParts
  <2>5. \A s : Sound(s)' <=> Sound(s)
    BY <2>1 DEF Sound
  <2>6. Unsound' = Unsound
    BY <2>1 DEF Unsound, Sound
  <2>7. FramesOf(Wrong') \subseteq FramesOf(Wrong)
    BY <2>3 DEF FramesOf
  <2> QED BY <2>1, <2>3, <2>4, <2>5, <2>6, <2>7
<1>4. \/ UNCHANGED <<status, output, streams>>
      \/ \E u \in Turns :
              \/ StartTurn(u) \/ CancelTurn(u)
              \/ ProviderDelta(u) \/ ProviderCompletes(u) \/ ProviderFails(u)
  <2>1. CASE ServerStep
    BY <2>1 DEF ServerStep, PublishCommandEvent, PublishProviderEvent, OtherPushesOvertake,
                DeliveryStarts, DeliverPush, ServeRequest, SendResponse
  <2>2. CASE ClientStep
    BY <2>2 DEF ClientStep, ReceiveEvent, ReceiveShellSnapshot, ReceiveThreadSnapshot,
                ReceiveWelcome, ReceiveResponse, Flush, Poll, Move, Connect, Reload
  <2>3. CASE Drop
    BY <2>3 DEF Drop
  <2>4. CASE UNCHANGED vars
    BY <2>4 DEF vars
  <2> QED BY <2>1, <2>2, <2>3, <2>4 DEF Next
<1> QED BY <1>1, <1>3, <1>4

(* A thread snapshot is read off the read model. *)
LEMMA ReadsSound ==
    ASSUME TypeOK, TruthInv
    PROVE  /\ Sound(ThreadSnapshot)
           /\ \A t \in Turns : status[t] = "completed" =>
                LET m == ThreadSnapshot.answers[t] IN
                IF streams[t] THEN m = Message(Answer, TRUE) ELSE ~m.shown
<1>1. \A t \in Turns : ThreadSnapshot.answers[t]
                         = IF output[t] = <<>> THEN NoMessage ELSE Message(output[t], TRUE)
  BY DEF ThreadSnapshot
<1>2. \A text : Message(text, TRUE).shown /\ Message(text, TRUE).streaming
  BY DEF Message
<1>3. ~NoMessage.shown
  BY DEF NoMessage
<1>4. Answer # <<>>
  <2>1. Len(Answer) = Chunks /\ Chunks \in Nat \ {0}
    BY ClientSyncAssumption DEF Answer
  <2> QED BY <2>1
<1>5. streams \in [Turns -> BOOLEAN]
  BY DEF TypeOK
<1> QED BY <1>1, <1>2, <1>3, <1>4, <1>5 DEF TruthInv, Sound

(* What is pushed is true, on its way to the connection ... *)
LEMMA TrueEvents ==
    ASSUME TypeOK, TruthInv, [Next]_vars
    PROVE  /\ \A t \in Turns : /\ streams'[t] /\ status'[t] = "completed" => output'[t] = Answer
                               /\ ~streams'[t] => output'[t] = <<>>
           /\ ~Has(worker', Wrong') /\ ~Has(stream', Wrong') /\ ~Has(bus', Wrong')
<1> USE DEF server, link, limits, client
<1>0. /\ worker \in Seq(Events) /\ stream \in Seq(Events) /\ bus \in Seq(Events)
      /\ status \in [Turns -> Statuses] /\ output \in [Turns -> Texts]
  BY DEF TypeOK
<1>1. /\ ~Has(worker, Wrong) /\ ~Has(stream, Wrong) /\ ~Has(bus, Wrong)
      /\ \A t \in Turns : /\ streams[t] /\ status[t] = "completed" => output[t] = Answer
                          /\ ~streams[t] => output[t] = <<>>
  BY DEF TruthInv
<1>2. Wrong' \subseteq Wrong /\ streams' = streams
  BY TurnsLast
<1>3. /\ ~Has(worker, Wrong') /\ ~Has(stream, Wrong') /\ ~Has(bus, Wrong')
  BY <1>1, <1>2, HasSubset
<1>4. ASSUME NEW s \in Seq(Events), ~Has(s, Wrong')
      PROVE  /\ \A x \in Events : x \notin Wrong' => ~Has(Append(s, x), Wrong')
             /\ s # <<>> => ~Has(Tail(s), Wrong') /\ Head(s) \notin Wrong' /\ Head(s) \in Events
  BY <1>4, HasAppend, HasTail, HeadAndTail
<1>5. CASE UNCHANGED <<status, output, worker, stream>> /\ (bus' = bus \/ (bus' = Tail(bus) /\ bus # <<>>) \/ bus' = <<>>)
  BY <1>0, <1>1, <1>2, <1>3, <1>4, <1>5, HasNone
<1>6. ASSUME NEW u \in Turns,
             \/ StartTurn(u) \/ CancelTurn(u)
             \/ ProviderDelta(u) \/ ProviderCompletes(u) \/ ProviderFails(u)
      PROVE  /\ \A t \in Turns : /\ streams'[t] /\ status'[t] = "completed" => output'[t] = Answer
                                 /\ ~streams'[t] => output'[t] = <<>>
             /\ ~Has(worker', Wrong') /\ ~Has(stream', Wrong') /\ ~Has(bus', Wrong')
  <2>1. bus' = bus
    BY <1>6 DEF StartTurn, CancelTurn, ProviderDelta, ProviderCompletes, ProviderFails
  <2>2. CASE StartTurn(u) \/ CancelTurn(u)
    <3>1. PICK type \in {"TurnStarted", "TurnCancelled"} :
                 worker' = Append(worker, [type |-> type, turn |-> u])
      BY <2>2 DEF StartTurn, CancelTurn
    <3>2. [type |-> type, turn |-> u] \in Events /\ [type |-> type, turn |-> u] \notin Wrong'
      BY <3>1 DEF Events, Wrong
    <3>3. output' = output /\ stream' = stream /\ \A t \in Turns : status'[t] = "completed" => status[t] = "completed"
      BY <1>0, <2>2 DEF StartTurn, CancelTurn
    <3> QED BY <1>0, <1>1, <1>2, <1>3, <1>4, <2>1, <3>1, <3>2, <3>3
  <2>3. CASE ProviderDelta(u)
    <3> DEFINE e == [type |-> "MessageDeltaAppended", turn |-> u, text |-> <<Len(output[u]) + 1>>]
    <3>1. /\ streams[u] /\ stream' = Append(stream, e) /\ worker' = worker /\ status' = status
          /\ status[u] # "completed" /\ \A t \in Turns \ {u} : output'[t] = output[t]
      BY <1>0, <2>3 DEF ProviderDelta, ProviderMayEmit
    <3>2. e \in Events
      <4>1. Len(output[u]) + 1 \in 1..Chunks
        BY <1>0, <2>3, ClientSyncAssumption DEF ProviderDelta, Texts
      <4>2. <<Len(output[u]) + 1>> \in Texts
        BY <4>1, SingleType DEF Texts
      <4> QED BY <4>2 DEF Events
    <3>3. e \notin Wrong'
      BY <1>2, <3>1 DEF Wrong
    <3> HIDE DEF e
    <3>4. \A t \in Turns : /\ streams'[t] /\ status'[t] = "completed" => output'[t] = Answer
                           /\ ~streams'[t] => output'[t] = <<>>
      BY <1>1, <1>2, <3>1
    <3> QED BY <1>0, <1>3, <1>4, <2>1, <3>1, <3>2, <3>3, <3>4
  <2>4. CASE ProviderCompletes(u) \/ ProviderFails(u)
    <3>1. PICK type \in {"TurnCompleted", "TurnFailed"} :
            /\ stream' = Append(stream, [type |-> type, turn |-> u])
            /\ status' = [status EXCEPT ![u] = IF type = "TurnCompleted" THEN "completed" ELSE "failed"]
            /\ type = "TurnCompleted" => (streams[u] => output[u] = Answer)
      BY <2>4 DEF ProviderCompletes, ProviderFails
    <3>2. [type |-> type, turn |-> u] \in Events
      BY <3>1 DEF Events
    <3>3. [type |-> type, turn |-> u] \notin Wrong'
      BY <1>0, <3>1 DEF Wrong
    <3>4. output' = output /\ worker' = worker
      BY <2>4 DEF ProviderCompletes, ProviderFails
    <3>5. \A t \in Turns : /\ streams'[t] /\ status'[t] = "completed" => output'[t] = Answer
                           /\ ~streams'[t] => output'[t] = <<>>
      BY <1>0, <1>1, <1>2, <3>1, <3>4
    <3> QED BY <1>0, <1>3, <1>4, <2>1, <3>1, <3>2, <3>3, <3>4, <3>5
  <2> QED BY <1>6, <2>2, <2>3, <2>4
<1>7. ASSUME NEW e \in Events, e \notin Wrong', Broadcast(e), UNCHANGED <<status, output>>,
             ~Has(worker', Wrong'), ~Has(stream', Wrong')
      PROVE  /\ \A t \in Turns : /\ streams'[t] /\ status'[t] = "completed" => output'[t] = Answer
                                 /\ ~streams'[t] => output'[t] = <<>>
             /\ ~Has(worker', Wrong') /\ ~Has(stream', Wrong') /\ ~Has(bus', Wrong')
  <2>1. CASE bus' = Append(bus, e) \/ bus' = bus
    BY <1>0, <1>1, <1>2, <1>3, <1>4, <1>7, <2>1
  <2>2. CASE DeliveryEnds
    BY <1>1, <1>2, <1>3, <1>7, <2>2, InHandHas
  <2> QED BY <1>7, <2>1, <2>2, BroadcastCases
<1>8. CASE PublishCommandEvent
  <2>1. /\ worker # <<>> /\ Broadcast(Head(worker)) /\ worker' = Tail(worker)
        /\ UNCHANGED <<status, output, stream>>
    BY <1>8 DEF PublishCommandEvent
  <2>2. ~Has(worker', Wrong') /\ Head(worker) \notin Wrong' /\ Head(worker) \in Events /\ ~Has(stream', Wrong')
    BY <1>0, <1>3, <1>4, <2>1
  <2> QED BY <1>7, <2>1, <2>2
<1>9. CASE PublishProviderEvent
  <2>1. /\ stream # <<>> /\ Broadcast(Head(stream)) /\ stream' = Tail(stream)
        /\ UNCHANGED <<status, output, worker>>
    BY <1>9 DEF PublishProviderEvent
  <2>2. ~Has(stream', Wrong') /\ Head(stream) \notin Wrong' /\ Head(stream) \in Events /\ ~Has(worker', Wrong')
    BY <1>0, <1>3, <1>4, <2>1
  <2> QED BY <1>7, <2>1, <2>2
<1>10. CASE OtherPushesOvertake \/ DeliveryStarts \/ DeliverPush \/ ServeRequest \/ SendResponse \/ ClientStep \/ Drop \/ UNCHANGED vars
  <2>1. CASE DeliveryStarts \/ DeliverPush \/ ServeRequest \/ SendResponse
    BY <1>5, <2>1 DEF DeliveryStarts, DeliverPush, ServeRequest, SendResponse
  <2>5. CASE OtherPushesOvertake
    <3>1. DeliveryEnds /\ UNCHANGED <<status, output, worker, stream>>
      BY <2>5 DEF OtherPushesOvertake
    <3> QED BY <1>1, <1>2, <1>3, <3>1, InHandHas
  <2>2. CASE ClientStep
    BY <1>5, <2>2 DEF ClientStep, ReceiveEvent, ReceiveShellSnapshot, ReceiveThreadSnapshot,
                ReceiveWelcome, ReceiveResponse, Flush, Poll, Move, Connect, Reload
  <2>3. CASE Drop
    BY <1>5, <2>3 DEF Drop
  <2>4. CASE UNCHANGED vars
    BY <1>5, <2>4 DEF vars
  <2> QED BY <1>10, <2>1, <2>2, <2>3, <2>4, <2>5
<1> QED BY <1>6, <1>8, <1>9, <1>10 DEF Next, ServerStep

(* ... in its frames, and in a snapshot. *)
LEMMA TrueFrames ==
    ASSUME TypeOK, TruthInv, [Next]_vars
    PROVE  /\ ~Has(down', (FramesOf(Wrong) \cup Unsound)')
           /\ ServesThread' => Sound(serving.snapshot)'
<1> USE DEF server, link, limits, client
<1> DEFINE S == FramesOf(Wrong) \cup Unsound
<1>0. bus \in Seq(Events) /\ serving \in Servings
  BY DEF TypeOK
<1>1. /\ FramesOf(Wrong') \cup Unsound' \subseteq S
      /\ \A s \in Snapshots : Sound(s) => Sound(s)'
      /\ streams' = streams
  BY TurnsLast
<1>2. ~Has(down', S)
  <2> SUFFICES ASSUME Has(down', S) PROVE FALSE
    OBVIOUS
  <2>1. ~Has(down, S) /\ ~Has(bus, Wrong) /\ (ServesThread => Sound(serving.snapshot))
    BY DEF TruthInv
  <2>2. \A f \in S : f.kind \in {"event", "thread"}
    BY DEF FramesOf, Unsound
  <2>3. ~Has(<<Welcome>>, S) /\ ~Has(<<Shell>>, S) /\ \A r \in Requests : Response(r) \notin S
    BY <2>2, HasSingle DEF Welcome, Shell, Response
  <2>4. ASSUME bus # <<>>, NEW f \in S, f.kind = "event", f.event = Head(bus) PROVE FALSE
    <3>1. Head(bus) \in Wrong
      BY <2>4 DEF FramesOf, Unsound
    <3> QED BY <1>0, <2>1, <2>4, <3>1, HasTail
  <2>5. ASSUME ServesThread, ThreadFrame(serving.snapshot) \in S PROVE FALSE
    BY <2>1, <2>5 DEF FramesOf, Unsound, ThreadFrame
  <2> HIDE DEF S
  <2> QED BY <2>1, <2>3, <2>4, <2>5, DownHas
<1>3. ~Has(down', FramesOf(Wrong') \cup Unsound')
  BY <1>1, <1>2, HasSubset
<1>4. ServesThread' => Sound(serving.snapshot)'
  <2>1. CASE ServeRequest
    <3>1. ServesThread' => serving'.snapshot = ThreadSnapshot
      BY <2>1 DEF ServeRequest, ServesThread
    <3>2. Sound(ThreadSnapshot)
      BY ReadsSound
    <3> QED BY <1>1, <3>1, <3>2 DEF Sound
  <2>2. CASE serving' = serving \/ serving' = NoRequest
    <3>1. ServesThread' => serving' = serving /\ ServesThread
      BY <2>2 DEF ServesThread, NoRequest
    <3> QED BY <1>1, <3>1 DEF TruthInv, Sound
  <2>3. ServeRequest \/ serving' = serving \/ serving' = NoRequest
    <3>1. CASE ServerStep
      BY <3>1 DEF ServerStep, StartTurn, CancelTurn, ProviderDelta, ProviderCompletes, ProviderFails,
                PublishCommandEvent, PublishProviderEvent, OtherPushesOvertake, DeliveryStarts,
                DeliverPush, SendResponse
    <3>2. CASE ClientStep
      BY <3>2 DEF ClientStep, ReceiveEvent, ReceiveShellSnapshot, ReceiveThreadSnapshot,
                ReceiveWelcome, ReceiveResponse, Flush, Poll, Move, Connect, Reload
    <3>3. CASE Drop
      BY <3>3 DEF Drop
    <3>4. CASE UNCHANGED vars
      BY <3>4 DEF vars
    <3> QED BY <3>1, <3>2, <3>3, <3>4 DEF Next
  <2> QED BY <2>1, <2>2, <2>3
<1> QED BY <1>3, <1>4

LEMMA HasConcat ==
    ASSUME NEW T, NEW a \in Seq(T), NEW b \in Seq(T), NEW S
    PROVE  Has(a \o b, S) <=> Has(a, S) \/ Has(b, S)
<1>1. /\ Len(a) \in Nat /\ Len(b) \in Nat
      /\ DOMAIN a = 1..Len(a) /\ DOMAIN b = 1..Len(b) /\ DOMAIN (a \o b) = 1..(Len(a) + Len(b))
      /\ \A i \in 1..Len(a) : (a \o b)[i] = a[i]
      /\ \A i \in 1..Len(b) : (a \o b)[Len(a) + i] = b[i]
  OBVIOUS
<1>2. ASSUME Has(a \o b, S) PROVE Has(a, S) \/ Has(b, S)
  <2>1. PICK i \in 1..(Len(a) + Len(b)) : (a \o b)[i] \in S
    BY <1>1, <1>2 DEF Has
  <2>2. CASE i <= Len(a)
    BY <1>1, <2>1, <2>2 DEF Has
  <2>3. CASE i > Len(a)
    <3>1. i - Len(a) \in 1..Len(b) /\ Len(a) + (i - Len(a)) = i
      BY <1>1, <2>1, <2>3
    <3>2. b[i - Len(a)] \in S
      BY <1>1, <2>1, <3>1
    <3> QED BY <1>1, <3>1, <3>2 DEF Has
  <2> QED BY <1>1, <2>1, <2>2, <2>3
<1>3. Has(a, S) => Has(a \o b, S)
  BY <1>1 DEF Has
<1>4. ASSUME Has(b, S) PROVE Has(a \o b, S)
  <2>1. PICK i \in 1..Len(b) : b[i] \in S
    BY <1>1, <1>4 DEF Has
  <2>2. Len(a) + i \in 1..(Len(a) + Len(b)) /\ (a \o b)[Len(a) + i] \in S
    BY <1>1, <2>1
  <2> QED BY <1>1, <2>2 DEF Has
<1> QED BY <1>2, <1>3, <1>4

LEMMA HasPair == \A x, y, S : Has(<<x, y>>, S) <=> x \in S \/ y \in S
BY DEF Has

(* What a push brings to the queue. *)
LEMMA AdaptedHas ==
    ASSUME NEW e \in Events, NEW s \in Seq(UiEvents), NEW S
    PROVE  /\ s \o Adapt(e) \in Seq(UiEvents)
           /\ Has(s \o Adapt(e), S) <=> Has(s, S) \/ Has(Adapt(e), S)
           /\ Has(Adapt(e), S) =>
                \/ e.type = "TurnStarted" /\ SessionSet(e.turn, "running") \in S
                \/ /\ e.type = "MessageDeltaAppended" /\ e.turn \in seeded
                   /\ MessageSent(e.turn, e.text, TRUE) \in S
                \/ /\ e.type = "TurnCompleted" /\ e.turn \in seeded
                   /\ SessionSet(NoTurn, "ready") \in S \/ MessageSent(e.turn, Answer, FALSE) \in S
                \/ e.type = "TurnFailed" /\ SessionSet(NoTurn, "error") \in S
           /\ e.type = "TurnCompleted" /\ e.turn \in seeded /\ MessageSent(e.turn, Answer, FALSE) \in S
                => Has(Adapt(e), S)
<1> DEFINE delta == MessageSent(e.turn, e.text, TRUE)
           final == MessageSent(e.turn, Answer, FALSE)
           ready == SessionSet(NoTurn, "ready")
           What == \/ e.type = "TurnStarted" /\ SessionSet(e.turn, "running") \in S
                   \/ e.type = "MessageDeltaAppended" /\ e.turn \in seeded /\ delta \in S
                   \/ e.type = "TurnCompleted" /\ e.turn \in seeded /\ (ready \in S \/ final \in S)
                   \/ e.type = "TurnFailed" /\ SessionSet(NoTurn, "error") \in S
<1>1. s \o Adapt(e) \in Seq(UiEvents) /\ Adapt(e) \in Seq(UiEvents)
  BY AdaptType, ConcatType
<1>2. Has(s \o Adapt(e), S) <=> Has(s, S) \/ Has(Adapt(e), S)
  BY <1>1, HasConcat
<1>3. /\ \/ Adapt(e) = <<>>
         \/ e.type = "TurnStarted" /\ Adapt(e) = <<SessionSet(e.turn, "running")>>
         \/ e.type = "MessageDeltaAppended" /\ e.turn \in seeded /\ Adapt(e) = <<delta>>
         \/ e.type = "TurnCompleted" /\ e.turn \in seeded /\ Adapt(e) = <<ready, final>>
         \/ e.type = "TurnFailed" /\ e.turn \in seeded /\ Adapt(e) = <<SessionSet(NoTurn, "error")>>
      /\ e.type = "TurnCompleted" /\ e.turn \in seeded => Adapt(e) = <<ready, final>>
  BY DEF Adapt, Events
<1> HIDE DEF delta, final, ready
<1>4. /\ Has(Adapt(e), S) => What
      /\ e.type = "TurnCompleted" /\ e.turn \in seeded /\ final \in S => Has(Adapt(e), S)
  BY <1>3, HasNone, HasSingle, HasPair
<1> QED BY <1>1, <1>2, <1>4 DEF delta, final, ready

LEMMA AdaptedTruth ==
    ASSUME NEW e \in Events, NEW s \in Seq(UiEvents), ~Has(s, WrongParts), e \notin Wrong
    PROVE  ~Has(s \o Adapt(e), WrongParts)
<1>1. /\ \A t, st : SessionSet(t, st) \notin WrongParts
      /\ \A t : MessageSent(t, Answer, FALSE) \notin WrongParts
      /\ \A t, text : MessageSent(t, text, TRUE) \in WrongParts => ~streams[t]
  BY DEF SessionSet, MessageSent, WrongParts
<1>2. e.type = "MessageDeltaAppended" => streams[e.turn]
  BY DEF Wrong
<1> QED BY <1>1, <1>2, AdaptedHas

(* A message received as finished is complete. *)
LEMMA FinishedIsComplete ==
    ASSUME NEW m \in Messages, NEW e \in UiEvents, e.type = "message-sent"
    PROVE  /\ Received(m, e).shown /\ Received(m, e).streaming = e.streaming
           /\ ~e.streaming /\ e.text = Answer => Complete(Received(m, e).text)
<1>1. /\ Received(m, e).shown /\ Received(m, e).streaming = e.streaming
  BY DEF Received, MergeStreamingMessage, Message
<1>2. ASSUME ~e.streaming, e.text = Answer PROVE Complete(Received(m, e).text)
  <2>1. m.text \in Texts /\ Answer # <<>>
    <3>1. Len(Answer) = Chunks /\ Chunks \in Nat \ {0}
      BY ClientSyncAssumption DEF Answer
    <3> QED BY <3>1, MessageFields
  <2>2. \/ Received(m, e).text = Answer
        \/ Received(m, e).text = m.text \o Answer
        \/ Received(m, e).text = m.text /\ IsPrefix(Answer, m.text)
    BY <1>2, <2>1 DEF Received, MergeStreamingMessage, Message
  <2> QED BY <2>1, <2>2, AnswerIsComplete
<1> QED BY <1>1, <1>2

LEMMA RightApplied ==
    ASSUME NEW T \in Threads, NEW e \in UiEvents, e \notin WrongParts, ShownRight(T)
    PROVE  ShownRight(ApplyEvent(T, e))
<1> SUFFICES ASSUME ApplyEvent(T, e).known PROVE ShownRight(ApplyEvent(T, e))
  BY DEF ShownRight
<1>1. T.known /\ T.answers \in [Turns -> Messages] /\ \A t \in Turns : Right(T.answers[t], t)
  BY ApplyEventType, KnownFields DEF ShownRight
<1>2. CASE e.type = "session-set"
  <2>1. ApplyEvent(T, e).answers = T.answers
    BY <1>1, <1>2, AppliedSession
  <2> QED BY <1>1, <2>1 DEF ShownRight
<1>3. CASE e.type = "message-sent"
  <2>1. ApplyEvent(T, e).answers = [T.answers EXCEPT ![e.turn] = Received(T.answers[e.turn], e)]
    BY <1>1, <1>3, AppliedMessage
  <2>2. e.turn \in Turns /\ T.answers[e.turn] \in Messages /\ e.streaming \in BOOLEAN
    BY <1>1, <1>3, UiFields
  <2>3. IF e.streaming THEN streams[e.turn] ELSE e.text = Answer
    BY <1>3 DEF WrongParts
  <2>4. Right(Received(T.answers[e.turn], e), e.turn)
    BY <1>3, <2>2, <2>3, FinishedIsComplete DEF Right
  <2> QED BY <1>1, <2>1, <2>2, <2>4 DEF ShownRight
<1> QED BY <1>2, <1>3, UiFields

LEMMA RightBatch ==
    ASSUME NEW T \in Threads, NEW s \in Seq(UiEvents), ~Has(s, WrongParts), ShownRight(T)
    PROVE  ShownRight(ApplyEvents(T, s))
<1> DEFINE X == {x \in Threads : ShownRight(x)}
<1>1. \A k \in 1..Len(s) : s[k] \in UiEvents /\ s[k] \notin WrongParts
  BY DEF Has
<1>2. \A x \in X : \A k \in 1..Len(s) : ApplyEvent(x, s[k]) \in X
  BY <1>1, ApplyEventType, RightApplied
<1>3. X \in SUBSET Threads /\ T \in X
  OBVIOUS
<1> HIDE DEF X
<1>4. ApplyEvents(T, s) \in X
  BY <1>2, <1>3, BatchStaysIn
<1> QED BY <1>4 DEF X

LEMMA RightSnapshots ==
    ASSUME NEW T \in Threads, ShownRight(T)
    PROVE  /\ ShownRight(SyncShellSnapshot(T))
           /\ \A s \in Snapshots : Sound(s) => ShownRight(SyncThreadSnapshot(T, s))
<1>1. ~NoMessage.shown
  BY DEF NoMessage
<1>2. ShownRight(SyncShellSnapshot(T))
  BY <1>1 DEF ShownRight, SyncShellSnapshot, Right
<1>3. ASSUME NEW s \in Snapshots, Sound(s), NEW t \in Turns
      PROVE  Right(SyncThreadSnapshot(T, s).answers[t], t)
  <2>1. Right(s.answers[t], t)
    BY <1>3 DEF Sound, Right
  <2>2. CASE T.known
    <3>1. SyncThreadSnapshot(T, s).answers[t] = MergeMessage(T, t, s.answers[t])
      BY <2>2 DEF SyncThreadSnapshot
    <3>2. MergeMessage(T, t, s.answers[t]) \in {T.answers[t], NoMessage, s.answers[t]}
      BY DEF MergeMessage
    <3>3. Right(T.answers[t], t) /\ Right(NoMessage, t)
      BY <1>1, <2>2 DEF ShownRight, Right
    <3> QED BY <2>1, <3>1, <3>2, <3>3
  <2>3. CASE ~T.known
    BY <2>1, <2>3 DEF SyncThreadSnapshot
  <2> QED BY <2>2, <2>3
<1> QED BY <1>2, <1>3 DEF ShownRight

(* The queue and the screen. *)
LEMMA TrueScreen ==
    ASSUME TypeOK, WordInv, TruthInv, [Next]_vars
    PROVE  /\ ~Has(pending', WrongParts')
           /\ ShownRight(thread)'
<1> USE DEF server, link, limits, client
<1>0. /\ pending \in Seq(UiEvents) /\ thread \in Threads /\ down \in Seq(Frames)
      /\ streams' = streams /\ WrongParts' = WrongParts
  BY TurnsLast DEF TypeOK
<1>1. ~Has(pending, WrongParts) /\ ShownRight(thread) /\ ~Has(down, FramesOf(Wrong) \cup Unsound)
  BY DEF TruthInv
<1>2. SUFFICES ~Has(pending', WrongParts) /\ ShownRight(thread')
  BY <1>0 DEF ShownRight, Right
<1>3. CASE ReceiveEvent
  <2> DEFINE e == Head(down).event
             longer == pending \o Adapt(e)
  <2>1. /\ down # <<>> /\ Head(down) \in Frames /\ Head(down).kind = "event" /\ Queue(Adapt(e))
    BY <1>0, <1>3, HeadAndTail DEF ReceiveEvent, Arrives
  <2>2. e \in Events /\ e \notin Wrong
    <3>1. e \in Events
      BY <2>1, FrameFields
    <3>2. Head(down) \notin FramesOf(Wrong)
      BY <1>0, <1>1, <2>1, HasTail
    <3> QED BY <2>1, <3>1, <3>2, FrameShows
  <2>3. /\ longer \in Seq(UiEvents) /\ Mergeable(longer)
    BY <2>1, <2>2, QueuedWords
  <2>4. ~Has(longer, WrongParts)
    BY <1>0, <1>1, <2>2, AdaptedTruth
  <2>5. \/ pending' = longer /\ thread' = thread
        \/ pending' = <<>> /\ thread' = ApplyEvents(thread, Coalesce(longer))
    BY <2>1 DEF Queue
  <2> HIDE DEF longer
  <2>6. ShownRight(ApplyEvents(thread, Coalesce(longer)))
    BY <1>0, <1>1, <2>3, <2>4, CoalesceIsTransparent, RightBatch
  <2> QED BY <1>1, <2>4, <2>5, <2>6, HasNone
<1>4. CASE Flush
  <2>1. pending' = <<>> /\ thread' = ApplyEvents(thread, Coalesce(pending))
    BY <1>4 DEF Flush
  <2>2. Mergeable(pending)
    BY <1>0, WordsAreMergeable DEF WordInv, LastWord
  <2>3. ShownRight(ApplyEvents(thread, pending))
    BY <1>0, <1>1, RightBatch
  <2> QED BY <1>0, <2>1, <2>2, <2>3, CoalesceIsTransparent, HasNone
<1>5. CASE ReceiveShellSnapshot
  BY <1>0, <1>1, <1>5, RightSnapshots DEF ReceiveShellSnapshot
<1>6. CASE ReceiveThreadSnapshot
  <2>1. /\ down # <<>> /\ Head(down) \in Frames /\ Head(down).kind = "thread" /\ pending' = pending
        /\ thread' = SyncThreadSnapshot(thread, Head(down).snapshot)
    BY <1>0, <1>6, HeadAndTail DEF ReceiveThreadSnapshot, Arrives
  <2>2. Head(down).snapshot \in Snapshots /\ Sound(Head(down).snapshot)
    <3>1. Head(down) \notin Unsound
      BY <1>0, <1>1, <2>1, HasTail
    <3> QED BY <2>1, <3>1, FrameFields DEF Unsound
  <2> QED BY <1>0, <1>1, <2>1, <2>2, RightSnapshots
<1>7. CASE Reload
  BY <1>7, HasNone DEF Reload, NoThread, ShownRight
<1>8. CASE UNCHANGED <<pending, thread>>
  BY <1>1, <1>8
<1>9. \/ UNCHANGED <<pending, thread>> \/ ReceiveEvent \/ Flush \/ ReceiveShellSnapshot
      \/ ReceiveThreadSnapshot \/ Reload
  <2>1. CASE ServerStep
    BY <2>1 DEF ServerStep, StartTurn, CancelTurn, ProviderDelta, ProviderCompletes, ProviderFails,
                PublishCommandEvent, PublishProviderEvent, OtherPushesOvertake, DeliveryStarts,
                DeliverPush, ServeRequest, SendResponse
  <2>2. CASE ClientStep
    BY <2>2 DEF ClientStep, ReceiveWelcome, ReceiveResponse, Poll, Move, Connect
  <2>3. CASE Drop
    BY <2>3 DEF Drop
  <2>4. CASE UNCHANGED vars
    BY <2>4 DEF vars
  <2> QED BY <2>1, <2>2, <2>3, <2>4 DEF Next
<1> QED BY <1>3, <1>4, <1>5, <1>6, <1>7, <1>8, <1>9

LEMMA TruthStep == TypeOK /\ WordInv /\ TruthInv /\ [Next]_vars => TruthInv'
<1> SUFFICES ASSUME TypeOK, WordInv, TruthInv, [Next]_vars PROVE TruthInv'
  OBVIOUS
<1> QED BY TrueEvents, TrueFrames, TrueScreen DEF TruthInv

-----------------------------------------------------------------------------
(* The connection: what a client without the thread can still get *)

(* Each of P has one of L before it. *)
Led(s, P, L) == \A j \in DOMAIN s : s[j] \in P => \E i \in DOMAIN s : i < j /\ s[i] \in L

LEMMA LedAppend ==
    ASSUME NEW T, NEW s \in Seq(T), NEW x \in T, NEW P, NEW L,
           Led(s, P, L), x \in P => Has(s, L)
    PROVE  Led(Append(s, x), P, L)
<1> DEFINE longer == Append(s, x)
           n == Len(s)
<1>1. /\ n \in Nat /\ DOMAIN s = 1..n /\ DOMAIN longer = 1..(n + 1)
      /\ \A i \in 1..n : longer[i] = s[i]
      /\ longer[n + 1] = x
  OBVIOUS
<1> HIDE DEF longer, n
<1>2. ASSUME NEW j \in 1..(n + 1), longer[j] \in P
      PROVE  \E i \in 1..(n + 1) : i < j /\ longer[i] \in L
  <2>1. CASE j = n + 1
    <3>1. PICK i \in 1..n : s[i] \in L
      BY <1>1, <1>2, <2>1 DEF Has
    <3>2. i \in 1..(n + 1) /\ i < j
      BY <1>1, <2>1
    <3> QED BY <1>1, <3>1, <3>2
  <2>2. CASE j \in 1..n
    <3>1. PICK i \in 1..n : i < j /\ s[i] \in L
      BY <1>1, <1>2, <2>2 DEF Led
    <3>2. i \in 1..(n + 1)
      BY <1>1
    <3> QED BY <1>1, <3>1, <3>2
  <2> QED BY <1>1, <2>1, <2>2
<1> QED BY <1>1, <1>2 DEF Led, longer

LEMMA LedTail ==
    ASSUME NEW T, NEW s \in Seq(T), s # <<>>, NEW P, NEW L, Led(s, P, L)
    PROVE  /\ Head(s) \notin P
           /\ Head(s) \notin L => Led(Tail(s), P, L)
<1> DEFINE shorter == Tail(s)
           n == Len(s)
<1>1. /\ n \in Nat \ {0} /\ DOMAIN s = 1..n /\ DOMAIN shorter = 1..(n - 1)
      /\ \A i \in 1..(n - 1) : shorter[i] = s[i + 1]
      /\ Head(s) = s[1]
  OBVIOUS
<1> HIDE DEF shorter, n
<1>2. Head(s) \notin P
  <2>1. 1 \in 1..n /\ \A i \in 1..n : ~(i < 1)
    BY <1>1
  <2> QED BY <1>1, <2>1 DEF Led
<1>3. ASSUME Head(s) \notin L, NEW j \in 1..(n - 1), shorter[j] \in P
      PROVE  \E i \in 1..(n - 1) : i < j /\ shorter[i] \in L
  <2>1. j + 1 \in 1..n /\ s[j + 1] \in P
    BY <1>1, <1>3
  <2>2. PICK i \in 1..n : i < j + 1 /\ s[i] \in L
    BY <1>1, <2>1 DEF Led
  <2>3. i # 1
    BY <1>1, <1>3, <2>2
  <2>4. i - 1 \in 1..(n - 1) /\ i - 1 < j /\ (i - 1) + 1 = i
    BY <1>1, <2>1, <2>2, <2>3
  <2>5. shorter[i - 1] = s[i]
    BY <1>1, <2>4
  <2> QED BY <2>2, <2>4, <2>5
<1> QED BY <1>1, <1>2, <1>3 DEF Led, shorter

LEMMA LedUnlessHas ==
    ASSUME NEW s, NEW P, NEW L, ~Has(s, P)
    PROVE  Led(s, P, L)
BY DEF Led, Has

ThreadFrames == {f \in Frames : f.kind = "thread"}
SnapFrames == {f \in Frames : f.kind \in {"shell", "thread"}}
ThreadResponses == {Response("open"), Response("poll")}

Welcomed == online /\ ~Has(down, {Welcome})

(* Only a subscribed connection brings snapshots, and the first has seen   *)
(* no turn; a new one asks for the thread that is tracked.                 *)
Subscribes ==
    /\ ~subscribed => serving.request \in {"none", "close"} /\ ~Has(down, SnapFrames)
    /\ drops = 0 /\ ~subscribed => seeded = {}
    /\ Welcomed /\ router.tracked /\ ~subscribed => Has(up, {"open"})

(* A thread's snapshot has its response behind it, and a client without    *)
(* the thread does not poll.                                               *)
Responds ==
    /\ Followed(down, ThreadFrames, ThreadResponses)
    /\ ~thread.known => /\ ~Has(up, {"poll"}) /\ serving.request # "poll"
                        /\ ~Has(down, {Response("poll")})

(* To a client without the thread the shell's snapshot is still to come,   *)
(* and, for a thread it follows, before the thread's.                      *)
ShellAhead(u, served, d) == Has(u, {"shell"}) \/ served.request = "shell" \/ Has(d, {Shell})

ShellLeads(u, served, d) ==
    /\ Led(d, ThreadFrames, {Shell})
    /\ served.request \in {"open", "poll"} => Has(d, {Shell})
    /\ Has(d, {Shell}) \/ served.request = "shell" \/ Led(u, {"open", "poll"}, {"shell"})

LinkInv ==
    /\ Subscribes
    /\ Responds
    /\ ~thread.known /\ (drops = 0 \/ Welcomed) => ShellAhead(up, serving, down)
    /\ ~thread.known /\ (drops = 0 \/ (Welcomed /\ router.tracked)) =>
         ShellLeads(up, serving, down)

LEMMA LinkInit == Init => LinkInv
<1> SUFFICES ASSUME Init PROVE LinkInv
  OBVIOUS
<1>1. /\ down = <<>> /\ up = <<"shell">> /\ serving.request = "none" /\ ~online /\ seeded = {}
      /\ ~thread.known
  BY DEF Init, NoRequest, NoThread
<1>2. \A S : /\ ~Has(down, S) /\ (Has(up, S) <=> "shell" \in S)
             /\ \A R : Followed(down, S, R) /\ Led(down, S, R)
  BY <1>1, HasNone, HasSingle, FollowedNone, LedUnlessHas
<1>3. Led(up, {"open", "poll"}, {"shell"})
  BY <1>2, LedUnlessHas
<1> QED BY <1>1, <1>2, <1>3 DEF LinkInv, Subscribes, Responds, ShellAhead, ShellLeads, Welcomed

(* A frame is put, or taken. *)
LEMMA KindsOfFrames ==
    ASSUME NEW f \in Frames
    PROVE  /\ f \in ThreadFrames <=> f.kind = "thread"
           /\ f \in SnapFrames <=> f.kind \in {"shell", "thread"}
           /\ f \in {Shell} <=> f.kind = "shell"
           /\ f \in {Welcome} <=> f.kind = "welcome"
           /\ \A r : f \in {Response(r)} => f.kind = "response" /\ f.request = r
           /\ f \in ThreadResponses <=> f.kind = "response" /\ f.request \in {"open", "poll"}
<1>1. f.kind = "response" => f = Response(f.request)
  BY FrameShape
<1>2. f.kind = "shell" <=> f = Shell
  BY FrameShows
<1>3. f.kind = "welcome" <=> f = Welcome
  BY FrameShows
<1>4. \A r : Response(r).kind = "response" /\ Response(r).request = r
  BY DEF Response
<1> QED BY <1>1, <1>2, <1>3, <1>4 DEF ThreadFrames, SnapFrames, ThreadResponses

LEMMA LinkPut ==
    ASSUME NEW d \in Seq(Frames), NEW f \in Frames
    PROVE  /\ Append(d, f) \in Seq(Frames)
           /\ \A S : Has(Append(d, f), S) <=> Has(d, S) \/ f \in S
           /\ f.kind # "thread" /\ Followed(d, ThreadFrames, ThreadResponses)
                => Followed(Append(d, f), ThreadFrames, ThreadResponses)
           /\ f \in ThreadResponses => Followed(Append(d, f), ThreadFrames, ThreadResponses)
           /\ Led(d, ThreadFrames, {Shell}) /\ (f.kind = "thread" => Has(d, {Shell}))
                => Led(Append(d, f), ThreadFrames, {Shell})
<1>1. Append(d, f) \in Seq(Frames) /\ \A S : Has(Append(d, f), S) <=> Has(d, S) \/ f \in S
  BY AppendHas, HasAppend
<1>2. f \in ThreadFrames <=> f.kind = "thread"
  BY KindsOfFrames
<1>3. ThreadFrames \cap ThreadResponses = {}
  BY DEF ThreadFrames, ThreadResponses, Response
<1> QED BY <1>1, <1>2, <1>3, FollowedAppend, LedAppend

LEMMA LinkTaken ==
    ASSUME NEW d \in Seq(Frames), d # <<>>
    PROVE  /\ Head(d) \in Frames /\ Tail(d) \in Seq(Frames)
           /\ \A S : Has(d, S) <=> Has(Tail(d), S) \/ Head(d) \in S
           /\ Followed(d, ThreadFrames, ThreadResponses) =>
                Followed(Tail(d), ThreadFrames, ThreadResponses)
           /\ Led(d, ThreadFrames, {Shell}) =>
                /\ Head(d).kind # "thread"
                /\ Head(d).kind # "shell" => Led(Tail(d), ThreadFrames, {Shell})
<1>1. Head(d) \in Frames /\ Tail(d) \in Seq(Frames)
  BY HeadAndTail
<1>2. \A S : Has(d, S) <=> Has(Tail(d), S) \/ Head(d) \in S
  BY HasTail
<1>3. Head(d) \in ThreadFrames <=> Head(d).kind = "thread"
  BY <1>1, KindsOfFrames
<1>4. Head(d) \in {Shell} <=> Head(d).kind = "shell"
  BY <1>1, KindsOfFrames
<1> QED BY <1>1, <1>2, <1>3, <1>4, FollowedTail, LedTail

LEMMA LinkSame ==
    ASSUME LinkInv, UNCHANGED <<online, subscribed, up, down, serving, drops, seeded, router>>,
           thread'.known = thread.known
    PROVE  LinkInv'
BY DEF LinkInv, Subscribes, Responds, ShellAhead, ShellLeads, Welcomed

LEMMA PushLinks ==
    ASSUME TypeOK, LinkInv, DeliverPush
    PROVE  LinkInv'
<1> USE DEF server, link, limits, client
<1> DEFINE f == [kind |-> "event", event |-> Head(bus)]
<1>0. down \in Seq(Frames) /\ bus \in Seq(Events)
  BY DEF TypeOK
<1>1. /\ bus # <<>> /\ UNCHANGED <<online, subscribed, up, serving, drops, seeded, router, thread>>
      /\ down' = IF subscribed THEN Append(down, f) ELSE down
  BY DEF DeliverPush
<1>2. f \in Frames /\ f.kind = "event"
  <2>1. Head(bus) \in Events
    BY <1>0, <1>1, HeadAndTail
  <2> QED BY <2>1, FrameType
<1> HIDE DEF f
<1>3. CASE ~subscribed
  BY <1>1, <1>3, LinkSame
<1>4. CASE subscribed
  <2>1. down' = Append(down, f)
    BY <1>1, <1>4
  <2>2. /\ \A S : Has(down', S) <=> Has(down, S) \/ f \in S
        /\ Followed(down, ThreadFrames, ThreadResponses) =>
             Followed(down', ThreadFrames, ThreadResponses)
        /\ Led(down, ThreadFrames, {Shell}) => Led(down', ThreadFrames, {Shell})
    BY <1>0, <1>2, <2>1, LinkPut
  <2>3. f \notin {Shell} /\ f \notin {Welcome} /\ f \notin {Response("poll")}
    BY <1>2, KindsOfFrames
  <2>4. Subscribes' /\ Responds' /\ (Welcomed' <=> Welcomed)
    BY <1>1, <1>4, <2>2, <2>3 DEF LinkInv, Subscribes, Responds, Welcomed
  <2> QED BY <1>1, <2>2, <2>3, <2>4 DEF LinkInv, ShellAhead, ShellLeads
<1> QED BY <1>3, <1>4

LEMMA ServeLinks ==
    ASSUME TypeOK, LinkInv, ServeRequest
    PROVE  LinkInv'
<1> USE DEF server, link, limits, client
<1> DEFINE q == Head(up)
<1>0. up \in Seq(Requests) /\ subscribed \in BOOLEAN
  BY DEF TypeOK
<1>1. /\ online /\ up # <<>> /\ up' = Tail(up) /\ serving.request = "none" /\ serving'.request = q
      /\ subscribed' = (subscribed \/ q # "close")
      /\ UNCHANGED <<online, down, drops, seeded, router, thread>>
  BY DEF ServeRequest
<1>2. q \in Requests /\ \A S : Has(up, S) <=> Has(up', S) \/ q \in S
  BY <1>0, <1>1, HasTail, HeadAndTail
<1>3. Led(up, {"open", "poll"}, {"shell"}) =>
        /\ q \notin {"open", "poll"}
        /\ q # "shell" => Led(up', {"open", "poll"}, {"shell"})
  BY <1>0, <1>1, LedTail
<1> HIDE DEF q
<1>4. Subscribes'
  BY <1>1, <1>2 DEF LinkInv, Subscribes, Welcomed
<1>5. Responds'
  BY <1>1, <1>2 DEF LinkInv, Responds
<1>6. ShellAhead(up, serving, down) => ShellAhead(up', serving', down')
  BY <1>1, <1>2 DEF ShellAhead
<1>7. ShellLeads(up, serving, down) => ShellLeads(up', serving', down')
  BY <1>1, <1>2, <1>3 DEF ShellLeads
<1> QED BY <1>1, <1>4, <1>5, <1>6, <1>7 DEF LinkInv, Welcomed

LEMMA SendLinks ==
    ASSUME TypeOK, LinkInv, SendResponse
    PROVE  LinkInv'
<1> USE DEF server, link, limits, client
<1> DEFINE r == serving.request
<1>0. down \in Seq(Frames) /\ UNCHANGED <<online, subscribed, up, drops, seeded, router, thread>>
  BY DEF TypeOK, SendResponse
<1>1. PICK between \in Seq(Frames) :
             /\ r \in Requests /\ Response(r) \in Frames
             /\ serving' = NoRequest /\ down' = Append(between, Response(r))
             /\ \/ r = "shell" /\ Shell \in Frames /\ between = Append(down, Shell)
                \/ r = "close" /\ between = down
                \/ /\ r \in {"open", "poll"} /\ serving.snapshot \in Snapshots
                   /\ ThreadFrame(serving.snapshot) \in Frames
                   /\ between = Append(down, ThreadFrame(serving.snapshot))
  BY Sent
<1>2. Response(r).kind = "response" /\ Response(r).request = r
  BY DEF Response
<1>3. /\ Response(r) \notin SnapFrames /\ Response(r) \notin {Shell} /\ Response(r) \notin {Welcome}
      /\ Response(r) \in {Response("poll")} => r = "poll"
      /\ Response(r) \in ThreadResponses <=> r \in {"open", "poll"}
  BY <1>1, <1>2, KindsOfFrames
<1> HIDE DEF r
<1>4. /\ \A S : Has(down', S) <=> Has(between, S) \/ Response(r) \in S
      /\ Followed(between, ThreadFrames, ThreadResponses) =>
           Followed(down', ThreadFrames, ThreadResponses)
      /\ r \in {"open", "poll"} => Followed(down', ThreadFrames, ThreadResponses)
      /\ Led(between, ThreadFrames, {Shell}) => Led(down', ThreadFrames, {Shell})
  BY <1>1, <1>2, <1>3, LinkPut
<1>5. serving'.request = "none"
  BY <1>1 DEF NoRequest
<1>6. CASE r = "shell"
  <2>1. /\ Shell \in Frames /\ between = Append(down, Shell) /\ Shell.kind = "shell"
    BY <1>1, <1>6 DEF Shell
  <2>2. /\ \A S : Has(between, S) <=> Has(down, S) \/ Shell \in S
        /\ Followed(down, ThreadFrames, ThreadResponses) =>
             Followed(between, ThreadFrames, ThreadResponses)
        /\ Led(down, ThreadFrames, {Shell}) => Led(between, ThreadFrames, {Shell})
    BY <1>0, <2>1, LinkPut
  <2>3. Shell \in {Shell} /\ Shell \notin {Welcome} /\ Shell \notin {Response("poll")}
    BY <2>1, KindsOfFrames
  <2>4. Subscribes' /\ Responds' /\ (Welcomed' <=> Welcomed)
    BY <1>0, <1>3, <1>4, <1>5, <1>6, <2>2, <2>3 DEF LinkInv, Subscribes, Responds, Welcomed, r
  <2>5. ShellAhead(up', serving', down')
    BY <1>4, <2>2, <2>3 DEF ShellAhead
  <2>6. ShellLeads(up, serving, down) => ShellLeads(up', serving', down')
    BY <1>4, <1>5, <2>2, <2>3 DEF ShellLeads
  <2> QED BY <1>0, <2>4, <2>5, <2>6 DEF LinkInv
<1>7. CASE r = "close"
  <2>1. between = down
    BY <1>1, <1>7
  <2>2. Subscribes' /\ Responds' /\ (Welcomed' <=> Welcomed)
    BY <1>0, <1>3, <1>4, <1>5, <1>7, <2>1 DEF LinkInv, Subscribes, Responds, Welcomed
  <2>3. ShellAhead(up, serving, down) => ShellAhead(up', serving', down')
    BY <1>0, <1>4, <1>7, <2>1 DEF ShellAhead, r
  <2>4. ShellLeads(up, serving, down) => ShellLeads(up', serving', down')
    BY <1>0, <1>4, <1>5, <1>7, <2>1 DEF ShellLeads, r
  <2> QED BY <1>0, <2>2, <2>3, <2>4 DEF LinkInv
<1>8. CASE r \in {"open", "poll"}
  <2> DEFINE f == ThreadFrame(serving.snapshot)
  <2>1. f \in Frames /\ between = Append(down, f) /\ f.kind = "thread"
    BY <1>1, <1>8 DEF ThreadFrame
  <2> HIDE DEF f
  <2>2. /\ \A S : Has(between, S) <=> Has(down, S) \/ f \in S
        /\ Led(down, ThreadFrames, {Shell}) /\ Has(down, {Shell})
             => Led(between, ThreadFrames, {Shell})
    BY <1>0, <2>1, LinkPut
  <2>3. f \notin {Shell} /\ f \notin {Welcome} /\ f \notin {Response("poll")}
    BY <2>1, KindsOfFrames
  <2>4. subscribed
    BY <1>8 DEF LinkInv, Subscribes, r
  <2>5. Subscribes' /\ Responds' /\ (Welcomed' <=> Welcomed)
    BY <1>0, <1>3, <1>4, <1>5, <1>8, <2>2, <2>3, <2>4
       DEF LinkInv, Subscribes, Responds, Welcomed, r
  <2>6. ShellAhead(up, serving, down) => ShellAhead(up', serving', down')
    BY <1>0, <1>4, <1>8, <2>2 DEF ShellAhead, r
  <2>7. ShellLeads(up, serving, down) => ShellLeads(up', serving', down')
    BY <1>0, <1>4, <1>5, <1>8, <2>2 DEF ShellLeads, r
  <2> QED BY <1>0, <2>5, <2>6, <2>7 DEF LinkInv
<1> QED BY <1>1, <1>6, <1>7, <1>8 DEF Requests

(* Frames of which nothing is left to send: events and snapshots. *)
LEMMA ReceiveLinks ==
    ASSUME TypeOK, SpinnerInv, LinkInv, ReceiveEvent \/ ReceiveShellSnapshot \/ ReceiveThreadSnapshot
    PROVE  LinkInv'
<1> USE DEF server, link, limits, client
<1> DEFINE f == Head(down)
<1>0. down \in Seq(Frames) /\ thread \in Threads
  BY DEF TypeOK
<1>1. /\ down # <<>> /\ down' = Tail(down) /\ f.kind \in {"event", "shell", "thread"} /\ online
      /\ UNCHANGED <<online, subscribed, up, serving, drops>>
      /\ router'.tracked = router.tracked
  <2>1. router \in Routers
    BY DEF TypeOK
  <2>2. [router EXCEPT !.hydrated = TRUE, !.asking = FALSE].tracked = router.tracked
    BY <2>1 DEF Routers
  <2> QED BY <2>2 DEF ReceiveEvent, ReceiveShellSnapshot, ReceiveThreadSnapshot, Arrives
<1>2. /\ f \in Frames /\ \A S : Has(down, S) <=> Has(down', S) \/ f \in S
      /\ Followed(down, ThreadFrames, ThreadResponses) =>
           Followed(down', ThreadFrames, ThreadResponses)
      /\ Led(down, ThreadFrames, {Shell}) =>
            /\ f.kind # "thread"
            /\ f.kind # "shell" => Led(down', ThreadFrames, {Shell})
  BY <1>0, <1>1, LinkTaken
<1>3. f \notin {Welcome} /\ f \notin {Response("poll")} /\ (f \in {Shell} <=> f.kind = "shell")
  BY <1>1, <1>2, KindsOfFrames
<1>4. subscribed
  <2>1. f.kind = "event" => f \in FramesOf(Events)
    <3>1. f.kind = "event" => f.event \in Events
      BY <1>2, FrameFields
    <3> QED BY <1>2, <3>1, FrameShows
  <2>2. f.kind \in {"shell", "thread"} => f \in SnapFrames
    BY <1>2, KindsOfFrames
  <2> HIDE DEF f
  <2>3. ~subscribed => ~Has(down, FramesOf(Events) \cup {Shell}) /\ ~Has(down, SnapFrames)
    BY <1>1 DEF SpinnerInv, Unsubscribed, LinkInv, Subscribes
  <2> QED BY <1>1, <1>2, <2>1, <2>2, <2>3
<1>5. thread'.known = thread.known \/ thread'.known
  <2>1. CASE ReceiveEvent
    <3>1. f.event \in Events /\ Queue(Adapt(f.event)) /\ pending \in Seq(UiEvents)
      BY <1>1, <1>2, <2>1, FrameFields DEF ReceiveEvent, Arrives, TypeOK
    <3>2. Coalesce(pending \o Adapt(f.event)) \in Seq(UiEvents)
      BY <3>1, AdaptType, ConcatType, CoalesceType
    <3>3. thread' = thread \/ thread' = ApplyEvents(thread, Coalesce(pending \o Adapt(f.event)))
      BY <3>1 DEF Queue
    <3> QED BY <1>0, <3>2, <3>3, ApplyEventsType
  <2>2. CASE ReceiveShellSnapshot
    BY <2>2 DEF ReceiveShellSnapshot, SyncShellSnapshot
  <2>3. CASE ReceiveThreadSnapshot
    BY <2>3 DEF ReceiveThreadSnapshot, SyncThreadSnapshot
  <2> QED BY <2>1, <2>2, <2>3
<1>6. f.kind = "event" \/ thread'.known
  BY DEF ReceiveEvent, ReceiveShellSnapshot, SyncShellSnapshot, ReceiveThreadSnapshot,
         SyncThreadSnapshot, Arrives
<1> HIDE DEF f
<1>7. Subscribes' /\ Responds' /\ (Welcomed' <=> Welcomed)
  BY <1>1, <1>2, <1>3, <1>4, <1>5 DEF LinkInv, Subscribes, Responds, Welcomed
<1>8. f.kind = "event" =>
        /\ ShellAhead(up, serving, down) => ShellAhead(up', serving', down')
        /\ ShellLeads(up, serving, down) => ShellLeads(up', serving', down')
  BY <1>1, <1>2, <1>3 DEF ShellAhead, ShellLeads
<1> QED BY <1>1, <1>5, <1>6, <1>7, <1>8 DEF LinkInv

LEMMA WelcomeLinks ==
    ASSUME TypeOK, LinkInv, ReceiveWelcome
    PROVE  LinkInv'
<1> USE DEF server, link, limits, client
<1> DEFINE f == Head(down)
<1>0. down \in Seq(Frames) /\ up \in Seq(Requests) /\ router \in Routers /\ "shell" \in Requests
  BY DEF TypeOK, Requests
<1>1. /\ down # <<>> /\ down' = Tail(down) /\ f.kind = "welcome"
      /\ UNCHANGED <<online, subscribed, serving, drops, seeded, thread>>
      /\ ~router'.tracked /\ up' = Append(up, "shell")
  <2>1. ~[router EXCEPT !.tracked = FALSE, !.hydrated = FALSE].tracked
    BY <1>0 DEF Routers
  <2> QED BY <2>1 DEF ReceiveWelcome, Arrives, EnsureScopedSubscriptions
<1>2. /\ f \in Frames /\ \A S : Has(down, S) <=> Has(down', S) \/ f \in S
      /\ Followed(down, ThreadFrames, ThreadResponses) =>
           Followed(down', ThreadFrames, ThreadResponses)
      /\ Led(down, ThreadFrames, {Shell}) /\ f.kind # "shell" =>
            Led(down', ThreadFrames, {Shell})
  BY <1>0, <1>1, LinkTaken
<1>3. f \notin {Shell}
  BY <1>1, <1>2, KindsOfFrames
<1>4. /\ \A S : Has(up', S) <=> Has(up, S) \/ "shell" \in S
      /\ Led(up, {"open", "poll"}, {"shell"}) => Led(up', {"open", "poll"}, {"shell"})
  BY <1>0, <1>1, HasAppend, LedAppend
<1> HIDE DEF f
<1>5. Subscribes' /\ Responds'
  BY <1>1, <1>2, <1>4 DEF LinkInv, Subscribes, Responds, Welcomed
<1>6. ShellAhead(up', serving', down')
  BY <1>4 DEF ShellAhead
<1>7. ShellLeads(up, serving, down) => ShellLeads(up', serving', down')
  BY <1>1, <1>2, <1>3, <1>4 DEF ShellLeads
<1> QED BY <1>1, <1>5, <1>6, <1>7 DEF LinkInv

(* The chain: what a job that starts asks for. *)
LEMMA SettledAsks ==
    ASSUME TypeOK, NEW r \in Routers, r.tracked = router.tracked, Settle(r)
    PROVE  \/ router'.tracked = router.tracked /\ up' = up
           \/ ~router'.tracked /\ up' = Append(up, "close")
           \/ router'.tracked /\ ~router.tracked /\ up' = Append(up, "open")
<1>1. /\ up \in Seq(Requests) /\ up' = up \o RunChain(r).asks /\ router' = RunChain(r).router
      /\ {"open", "close"} \subseteq Requests /\ RunChain(r).router \in Routers
  BY ChainRuns DEF TypeOK, Settle, Requests
<1>2. up \o <<>> = up /\ \A x \in Requests : up \o <<x>> = Append(up, x)
  BY <1>1
<1>3. CASE r.job # "idle" /\ RunChain(r) = [router |-> r, asks |-> <<>>]
  BY <1>1, <1>2, <1>3
<1>4. CASE Rested(r, RunChain(r))
  <2>1. RunChain(r).asks = <<>> /\ RunChain(r).router.tracked = r.tracked
    BY <1>4 DEF Rested, Routers
  <2> QED BY <1>1, <1>2, <2>1
<1>5. CASE Started(r, RunChain(r))
  <2>1. RunChain(r).router.tracked \in BOOLEAN /\ r.tracked \in BOOLEAN
    BY <1>1, RouterFields
  <2> QED BY <1>1, <1>2, <1>5, <2>1 DEF Started
<1> QED BY <1>3, <1>4, <1>5, ChainRuns

(* A job that starts is alone: nothing of another one is in flight. *)
LEMMA JobAlone ==
    ASSUME TypeOK, HydrationInv', up' = Append(up, "open")
    PROVE  /\ ~Has(up, {"open"}) /\ serving'.request # "open"
           /\ ~Has(down', {Response("open")})
<1>1. OneJob(router'.job, up', serving', down')
  BY DEF HydrationInv
<1>2. "open" \in JobRequests /\ "open" \in Requests /\ up \in Seq(Requests)
  BY DEF JobRequests, Requests, TypeOK
<1>3. Has(up', JobRequests) /\ HasOne(up', JobRequests)
      /\ serving'.request \notin JobRequests /\ ~Has(down', JobResponses)
  BY <1>1, <1>2, HasAppend DEF OneJob
<1>4. ~Has(up, {"open"})
  <2>1. /\ Len(up) \in Nat /\ DOMAIN up = 1..Len(up) /\ DOMAIN up' = 1..(Len(up) + 1)
        /\ up'[Len(up) + 1] = "open" /\ \A i \in 1..Len(up) : up'[i] = up[i]
    BY <1>2
  <2>2. SUFFICES ASSUME NEW i \in 1..Len(up), up[i] = "open" PROVE FALSE
    BY <2>1 DEF Has
  <2>3. i \in DOMAIN up' /\ Len(up) + 1 \in DOMAIN up' /\ i # Len(up) + 1
    BY <2>1
  <2> QED BY <1>2, <1>3, <2>1, <2>2, <2>3 DEF HasOne
<1>5. {Response("open")} \subseteq JobResponses
  BY DEF JobResponses
<1> QED BY <1>2, <1>3, <1>4, <1>5, HasSubset

(* The router's requests, whatever frame it has taken. *)
LEMMA RouterLinks ==
    ASSUME TypeOK, LinkInv, HydrationInv', NEW r \in Routers, r.tracked = router.tracked, Settle(r),
           UNCHANGED <<online, subscribed, serving, drops, seeded, thread>>,
           Subscribes /\ Responds => ~Has(down', SnapFrames) \/ subscribed,
           down' \in Seq(Frames), \A S : Has(down', S) => Has(down, S),
           Has(down, {Welcome}) => Has(down', {Welcome}), Has(down, {Shell}) => Has(down', {Shell}),
           Followed(down', ThreadFrames, ThreadResponses),
           Led(down, ThreadFrames, {Shell}) => Led(down', ThreadFrames, {Shell})
    PROVE  LinkInv'
<1>0. /\ up \in Seq(Requests) /\ {"open", "close"} \subseteq Requests /\ down \in Seq(Frames)
      /\ drops \in Nat
  BY DEF TypeOK, Requests
<1>1. \/ router'.tracked = router.tracked /\ up' = up
      \/ ~router'.tracked /\ up' = Append(up, "close")
      \/ router'.tracked /\ ~router.tracked /\ up' = Append(up, "open")
  BY SettledAsks
<1>2. \A S : /\ Has(Append(up, "open"), S) <=> Has(up, S) \/ "open" \in S
             /\ Has(Append(up, "close"), S) <=> Has(up, S) \/ "close" \in S
  BY <1>0, HasAppend
<1>3. /\ Has(up, {"shell"}) => Has(up', {"shell"})
      /\ Has(up, {"open"}) => Has(up', {"open"})
      /\ Has(up', {"poll"}) => Has(up, {"poll"})
      /\ router'.tracked => router.tracked \/ Has(up', {"open"})
  BY <1>1, <1>2
<1>4. Welcomed' <=> Welcomed
  BY DEF Welcomed
<1>5. Subscribes' /\ Responds'
  <2>1. Subscribes'
    BY <1>3, <1>4 DEF LinkInv, Subscribes
  <2>2. Responds'
    BY <1>3 DEF LinkInv, Responds
  <2> QED BY <2>1, <2>2
<1>6. ShellAhead(up, serving, down) => ShellAhead(up', serving', down')
  BY <1>3 DEF ShellAhead
<1>7. ASSUME ShellLeads(up, serving, down), ShellAhead(up, serving, down)
      PROVE  ShellLeads(up', serving', down')
  <2>1. Led(up, {"open", "poll"}, {"shell"}) =>
          /\ Led(Append(up, "close"), {"open", "poll"}, {"shell"})
          /\ Has(up, {"shell"}) => Led(Append(up, "open"), {"open", "poll"}, {"shell"})
    BY <1>0, LedAppend
  <2> QED BY <1>1, <1>7, <2>1 DEF ShellLeads, ShellAhead
<1>8. ASSUME ~thread.known, ~router.tracked, router'.tracked, ShellAhead(up, serving, down)
      PROVE  ShellLeads(up', serving', down')
  <2>1. /\ up' = Append(up, "open") /\ ~Has(up, {"open"}) /\ serving'.request # "open"
        /\ ~Has(down', {Response("open")})
    BY <1>1, <1>8, JobAlone
  <2>2. ~Has(up, {"poll"}) /\ serving'.request # "poll" /\ ~Has(down', {Response("poll")})
    BY <1>8 DEF LinkInv, Responds
  <2>3. ~Has(down', ThreadFrames)
    BY <2>1, <2>2 DEF Has, Followed, ThreadResponses
  <2>4. Led(down', ThreadFrames, {Shell})
    BY <2>3, LedUnlessHas
  <2>5. Led(up, {"open", "poll"}, {"shell"})
    BY <2>1, <2>2 DEF Led, Has
  <2>6. Has(up, {"shell"}) => Led(up', {"open", "poll"}, {"shell"})
    BY <1>0, <2>1, <2>5, LedAppend
  <2> QED BY <1>8, <2>1, <2>2, <2>4, <2>6 DEF ShellLeads, ShellAhead
<1>9. router.tracked \in BOOLEAN /\ router'.tracked \in BOOLEAN
  BY RouterFields, SettleType DEF TypeOK
<1> QED BY <1>1, <1>4, <1>5, <1>6, <1>7, <1>8, <1>9 DEF LinkInv

(* An answer, or a move of the user's, sets the chain going. *)
LEMMA ChainSettles ==
    ASSUME TypeOK, ReceiveResponse \/ Move
    PROVE  \E r \in Routers : r.tracked = router.tracked /\ Settle(r)
<1> USE DEF server, link, limits, client
<1>0. router \in Routers /\ wanted \in BOOLEAN
  BY DEF TypeOK
<1>1. /\ [router EXCEPT !.asking = FALSE] \in Routers
      /\ [router EXCEPT !.job = "idle"] \in Routers
      /\ [router EXCEPT !.asking = FALSE].tracked = router.tracked
      /\ [router EXCEPT !.job = "idle"].tracked = router.tracked
  BY <1>0 DEF Routers, Jobs
<1>2. /\ [router EXCEPT !.chain = Append(@, wanted)] \in Routers
      /\ [router EXCEPT !.chain = Append(@, wanted)].tracked = router.tracked
  BY <1>0, ChainTarget
<1> QED
  <2>2. CASE Move
    <3>1. wanted' \in BOOLEAN /\ Settle([router EXCEPT !.chain = Append(@, wanted')])
      BY <1>0, <2>2 DEF Move
    <3>2. /\ [router EXCEPT !.chain = Append(@, wanted')] \in Routers
          /\ [router EXCEPT !.chain = Append(@, wanted')].tracked = router.tracked
      BY <1>0, <3>1, ChainTarget
    <3> QED BY <3>1, <3>2
  <2>3. CASE ReceiveResponse
    <3>1. CASE Head(down).request = "shell"
      BY <1>0, <1>2, <2>3, <3>1 DEF ReceiveResponse
    <3>2. CASE Head(down).request = "poll"
      BY <1>1, <2>3, <3>2 DEF ReceiveResponse
    <3>3. CASE Head(down).request \notin {"shell", "poll"}
      BY <1>1, <2>3, <3>3 DEF ReceiveResponse
    <3> QED BY <3>1, <3>2, <3>3
  <2> QED BY <2>2, <2>3

LEMMA ResponseLinks ==
    ASSUME TypeOK, LinkInv, HydrationInv', ReceiveResponse \/ Move
    PROVE  LinkInv'
<1> USE DEF server, link, limits, client
<1>0. /\ down \in Seq(Frames)
      /\ UNCHANGED <<online, subscribed, serving, drops, seeded, thread>>
  BY DEF TypeOK, ReceiveResponse, Move
<1>1. PICK r \in Routers : r.tracked = router.tracked /\ Settle(r)
  BY ChainSettles
<1>2. Subscribes => ~Has(down, SnapFrames) \/ subscribed
  BY DEF Subscribes
<1>3. CASE Move
  <2>1. down' = down
    BY <1>3 DEF Move
  <2>2. Followed(down', ThreadFrames, ThreadResponses)
    BY <2>1 DEF LinkInv, Responds
  <2> QED BY <1>0, <1>1, <1>2, <2>1, <2>2, RouterLinks
<1>4. CASE ReceiveResponse
  <2> DEFINE f == Head(down)
  <2>1. down # <<>> /\ down' = Tail(down) /\ f.kind = "response"
    BY <1>4 DEF ReceiveResponse, Arrives
  <2>2. /\ f \in Frames /\ down' \in Seq(Frames) /\ \A S : Has(down, S) <=> Has(down', S) \/ f \in S
        /\ Followed(down, ThreadFrames, ThreadResponses) =>
             Followed(down', ThreadFrames, ThreadResponses)
        /\ Led(down, ThreadFrames, {Shell}) /\ f.kind # "shell" =>
             Led(down', ThreadFrames, {Shell})
    BY <1>0, <2>1, LinkTaken
  <2>3. f \notin {Welcome} /\ f \notin {Shell}
    BY <2>1, <2>2, KindsOfFrames
  <2>4. Followed(down', ThreadFrames, ThreadResponses)
    BY <2>2 DEF LinkInv, Responds
  <2> HIDE DEF f
  <2> QED BY <1>0, <1>1, <1>2, <2>1, <2>2, <2>3, <2>4, RouterLinks
<1> QED BY <1>3, <1>4

LEMMA PollLinks ==
    ASSUME TypeOK, LinkInv, Poll
    PROVE  LinkInv'
<1> USE DEF server, link, limits, client
<1>0. up \in Seq(Requests) /\ router \in Routers /\ "poll" \in Requests
  BY DEF TypeOK, Requests
<1>1. /\ UNCHANGED <<online, subscribed, down, serving, drops, seeded, thread>> /\ thread.known
      /\ up' = Append(up, "poll") /\ router'.tracked = router.tracked
  <2>1. [router EXCEPT !.asking = TRUE].tracked = router.tracked
    BY <1>0 DEF Routers
  <2> QED BY <2>1 DEF Poll
<1>2. Has(up, {"open"}) => Has(up', {"open"})
  BY <1>0, <1>1, HasAppend
<1> QED BY <1>1, <1>2 DEF LinkInv, Subscribes, Responds, Welcomed

LEMMA OutageLinks ==
    ASSUME TypeOK, HydrationInv, LinkInv, Connect \/ Drop \/ Reload
    PROVE  LinkInv'
<1> USE DEF server, link, limits, client
<1>0. drops \in Nat
  BY DEF TypeOK
<1>1. CASE Connect
  <2>1. /\ ~online /\ online' /\ ~subscribed' /\ down' = <<Welcome>> /\ ~subscribed
        /\ serving.request = "none" /\ down = <<>>
        /\ UNCHANGED <<up, serving, drops, seeded, router, thread>>
    BY <1>1 DEF Connect, HydrationInv, OfflineIsEmpty, NoRequest, Welcome
  <2>2. \A S : ~Has(down, S) /\ (Has(down', S) <=> Welcome \in S)
    BY <2>1, HasNone, HasSingle
  <2>3. Welcome \in Frames /\ Welcome.kind = "welcome"
    BY FrameType DEF Welcome
  <2>4. Welcome \notin ThreadFrames /\ Welcome \notin SnapFrames /\ Welcome \notin {Shell}
        /\ Welcome \notin {Response("poll")}
    BY <2>3, KindsOfFrames
  <2>5. /\ Followed(down', ThreadFrames, ThreadResponses) /\ Led(down', ThreadFrames, {Shell})
    BY <2>2, <2>4, UnlessHas, LedUnlessHas
  <2>6. ~Welcomed'
    BY <2>2 DEF Welcomed
  <2>7. Subscribes' /\ Responds'
    BY <2>1, <2>2, <2>4, <2>5, <2>6 DEF LinkInv, Subscribes, Responds
  <2>8. /\ ShellAhead(up, serving, down) => ShellAhead(up', serving', down')
        /\ ShellLeads(up, serving, down) => ShellLeads(up', serving', down')
    BY <2>1, <2>2, <2>5 DEF ShellAhead, ShellLeads
  <2> QED BY <2>1, <2>6, <2>7, <2>8 DEF LinkInv
<1>2. CASE Drop
  <2>1. /\ ~online' /\ drops' # 0 /\ up' = <<>> /\ down' = <<>> /\ serving'.request = "none"
    BY <1>0, <1>2 DEF Drop, NoRequest
  <2>2. \A S, R : ~Has(down', S) /\ ~Has(up', S) /\ Followed(down', S, R)
    BY <2>1, HasNone, FollowedNone
  <2> QED BY <2>1, <2>2 DEF LinkInv, Subscribes, Responds, Welcomed
<1>3. CASE Reload
  <2>1. /\ ~online' /\ up' = <<"shell">> /\ down' = <<>> /\ serving'.request = "none" /\ seeded' = {}
    BY <1>3 DEF Reload, NoRequest
  <2>2. \A S : /\ ~Has(down', S) /\ (Has(up', S) <=> "shell" \in S)
               /\ \A R : Followed(down', S, R) /\ Led(down', S, R)
    BY <2>1, HasNone, HasSingle, FollowedNone, LedUnlessHas
  <2>3. Led(up', {"open", "poll"}, {"shell"})
    BY <2>2, LedUnlessHas
  <2> QED BY <2>1, <2>2, <2>3 DEF LinkInv, Subscribes, Responds, ShellAhead, ShellLeads, Welcomed
<1> QED BY <1>1, <1>2, <1>3

LEMMA LinkStep ==
    TypeOK /\ HydrationInv /\ SpinnerInv /\ LinkInv /\ [Next]_vars => LinkInv'
<1> USE DEF server, link, limits, client
<1> SUFFICES ASSUME TypeOK, HydrationInv, SpinnerInv, LinkInv, [Next]_vars PROVE LinkInv'
  OBVIOUS
<1>1. HydrationInv'
  BY HydrationStep
<1>2. CASE ServerStep
  <2>1. ASSUME UNCHANGED <<online, subscribed, up, down, serving, drops, seeded, router, thread>>
        PROVE  LinkInv'
    BY <2>1, LinkSame
  <2>2. CASE \/ \E t \in Turns :
                  \/ StartTurn(t) \/ CancelTurn(t)
                  \/ ProviderDelta(t) \/ ProviderCompletes(t) \/ ProviderFails(t)
             \/ PublishCommandEvent \/ PublishProviderEvent
             \/ OtherPushesOvertake \/ DeliveryStarts
    BY <2>1, <2>2 DEF StartTurn, CancelTurn, ProviderDelta, ProviderCompletes, ProviderFails,
                PublishCommandEvent, PublishProviderEvent, OtherPushesOvertake, DeliveryStarts
  <2> QED BY <1>2, <2>2, PushLinks, ServeLinks, SendLinks DEF ServerStep
<1>3. CASE Flush
  <2>1. /\ UNCHANGED <<online, subscribed, up, down, serving, drops, seeded, router>>
        /\ thread' = ApplyEvents(thread, Coalesce(pending))
    BY <1>3 DEF Flush
  <2>2. thread'.known = thread.known
    BY <2>1, CoalesceType, ApplyEventsType DEF TypeOK
  <2> QED BY <2>1, <2>2, LinkSame
<1>4. CASE UNCHANGED vars
  BY <1>4, LinkSame DEF vars
<1> QED BY <1>1, <1>2, <1>3, <1>4, ReceiveLinks, WelcomeLinks, ResponseLinks, PollLinks, OutageLinks
       DEF Next, ClientStep

-----------------------------------------------------------------------------
(* A completion on its way: to the connection, to the client, to the store *)
(* (or nothing is claimed of it, for the connection's delivery task is not *)
(* prompt).                                                                *)
CUp(t) ==
    \/ delivery # "prompt"
    \/ status[t] # "completed" \/ Has(stream, Completions(t)) \/ Has(bus, Completions(t))
CDown(t) == CUp(t) \/ Has(down, CompletionFrames(t))
OnWay(t) == CDown(t) \/ Has(pending, Finals(t))

(* A snapshot of the thread that has a part of the answer, or all of it. *)
Partial(s, t) == s.answers[t].shown /\ s.answers[t].text # Answer
Full(s, t) == s.answers[t].shown /\ s.answers[t].text = Answer
PartialThreads(t) == {f \in ThreadFrames : Partial(f.snapshot, t)}
FullThreads(t) == {f \in ThreadFrames : Full(f.snapshot, t)}
ServesPartial(t) == ServesThread /\ Partial(serving.snapshot, t)
ServesFull(t) == ServesThread /\ Full(serving.snapshot, t)
PartialComing(t) == ServesPartial(t) \/ Has(down, PartialThreads(t))
FullComing(t) == Has(up, {"open"}) \/ ServesFull(t) \/ Has(down, FullThreads(t))

(* Of one of A with one of P behind it, one of C comes after the first. *)
Overtaken(s, A, P, C) ==
    \A i, j \in DOMAIN s : i < j /\ s[i] \in A /\ s[j] \in P =>
      \E k \in DOMAIN s : i < k /\ s[k] \in C

(* A partial snapshot of a turn that completed is behind no other that the *)
(* completion is not behind.                                               *)
Stale(t) ==
    \/ CUp(t)
    \/ /\ ServesPartial(t) => Followed(down, SnapFrames, CompletionFrames(t))
       /\ Overtaken(down, SnapFrames, PartialThreads(t), CompletionFrames(t))

LEMMA OvertakenAppend ==
    ASSUME NEW T, NEW s \in Seq(T), NEW x \in T, NEW A, NEW P, NEW C,
           \/ x \in C /\ x \notin P
           \/ Overtaken(s, A, P, C) /\ (x \notin P \/ Followed(s, A, C))
    PROVE  Overtaken(Append(s, x), A, P, C)
<1> DEFINE n == Len(s)
           a == Append(s, x)
<1>1. /\ n \in Nat /\ DOMAIN s = 1..n /\ DOMAIN a = 1..(n + 1) /\ a[n + 1] = x
      /\ \A i \in 1..n : a[i] = s[i]
  OBVIOUS
<1> HIDE DEF n, a
<1>2. /\ \A i \in 1..(n + 1) : i = n + 1 \/ i \in 1..n
      /\ \A i \in 1..n : i \in 1..(n + 1) /\ i < n + 1
      /\ n + 1 \in 1..(n + 1) /\ \A j \in 1..(n + 1) : ~(n + 1 < j)
  BY <1>1
<1>3. SUFFICES ASSUME NEW i \in 1..(n + 1), NEW j \in 1..(n + 1), i < j, a[i] \in A, a[j] \in P
               PROVE  \E k \in 1..(n + 1) : i < k /\ a[k] \in C
  BY <1>1 DEF Overtaken, a
<1>4. i \in 1..n /\ s[i] \in A
  BY <1>1, <1>2, <1>3
<1>5. CASE x \in C
  BY <1>1, <1>2, <1>4, <1>5
<1>6. CASE Overtaken(s, A, P, C) /\ x \notin P
  <2>1. j \in 1..n /\ s[j] \in P
    BY <1>1, <1>2, <1>3, <1>6
  <2>2. PICK k \in 1..n : i < k /\ s[k] \in C
    BY <1>1, <1>3, <1>4, <1>6, <2>1 DEF Overtaken
  <2> QED BY <1>1, <1>2, <2>2
<1>7. CASE Overtaken(s, A, P, C) /\ Followed(s, A, C)
  <2>1. PICK k \in 1..n : i < k /\ s[k] \in C
    BY <1>1, <1>4, <1>7 DEF Followed
  <2> QED BY <1>1, <1>2, <2>1
<1> QED BY <1>5, <1>6, <1>7

LEMMA OvertakenTail ==
    ASSUME NEW T, NEW s \in Seq(T), s # <<>>, NEW A, NEW P, NEW C, Overtaken(s, A, P, C)
    PROVE  /\ Overtaken(Tail(s), A, P, C)
           /\ Head(s) \in A /\ Has(Tail(s), P) => Has(Tail(s), C)
<1> DEFINE n == Len(s)
           b == Tail(s)
<1>1. /\ n \in Nat \ {0} /\ DOMAIN s = 1..n /\ DOMAIN b = 1..(n - 1) /\ Head(s) = s[1]
      /\ \A i \in 1..(n - 1) : b[i] = s[i + 1]
  OBVIOUS
<1> HIDE DEF n, b
<1>2. \A i \in 1..(n - 1) : i + 1 \in 1..n /\ s[i + 1] = b[i] /\ 1 < i + 1
  BY <1>1
<1>3. /\ \A k \in 1..n : 1 < k => k - 1 \in 1..(n - 1) /\ b[k - 1] = s[k]
      /\ \A i \in 1..(n - 1), k \in 1..n : i + 1 < k => i < k - 1 /\ 1 < k
      /\ 1 \in 1..n
  <2>1. \A k \in 1..n : 1 < k => k - 1 \in 1..(n - 1) /\ (k - 1) + 1 = k
    BY <1>1
  <2> QED BY <1>1, <2>1
<1>4. \A i, j \in 1..n : i < j /\ s[i] \in A /\ s[j] \in P =>
        \E k \in 1..n : i < k /\ s[k] \in C
  BY <1>1 DEF Overtaken
<1>5. ASSUME NEW i \in 1..(n - 1), NEW j \in 1..(n - 1), i < j, b[i] \in A, b[j] \in P
      PROVE  \E k \in 1..(n - 1) : i < k /\ b[k] \in C
  <2>1. i + 1 < j + 1
    BY <1>5
  <2>2. PICK k \in 1..n : i + 1 < k /\ s[k] \in C
    BY <1>2, <1>4, <1>5, <2>1
  <2> QED BY <1>3, <2>2
<1>6. ASSUME Head(s) \in A, NEW j \in 1..(n - 1), b[j] \in P
      PROVE  \E k \in 1..(n - 1) : b[k] \in C
  <2>1. PICK k \in 1..n : 1 < k /\ s[k] \in C
    BY <1>1, <1>2, <1>3, <1>4, <1>6
  <2> QED BY <1>3, <2>1
<1>7. Overtaken(b, A, P, C)
  BY <1>1, <1>5 DEF Overtaken
<1> QED BY <1>1, <1>6, <1>7 DEF Has, b

LEMMA OvertakenUnless ==
    ASSUME NEW s, NEW A, NEW P, NEW C, ~Has(s, A)
    PROVE  Overtaken(s, A, P, C)
BY DEF Has, Overtaken

(* A frame is put, or taken. *)
LEMMA StalePut ==
    ASSUME NEW t \in Turns, NEW d \in Seq(Frames), NEW f \in Frames
    PROVE  LET A == SnapFrames
               P == PartialThreads(t)
               C == CompletionFrames(t) IN
           /\ f \in C => Followed(Append(d, f), A, C) /\ Overtaken(Append(d, f), A, P, C)
           /\ f.kind \in {"event", "response"} /\ Followed(d, A, C) => Followed(Append(d, f), A, C)
           /\ f \notin P \/ Followed(d, A, C) =>
                (Overtaken(d, A, P, C) => Overtaken(Append(d, f), A, P, C))
<1> DEFINE A == SnapFrames
           P == PartialThreads(t)
           C == CompletionFrames(t)
<1>1. A \cap C = {} /\ (f \in A => f.kind \in {"shell", "thread"}) /\ (f \in C => f \notin P)
  BY DEF SnapFrames, ThreadFrames, PartialThreads, CompletionFrames
<1> HIDE DEF A, P, C
<1>2. /\ Followed(d, A, C) /\ f \notin A => Followed(Append(d, f), A, C)
      /\ f \in C => Followed(Append(d, f), A, C)
  BY <1>1, FollowedAppend
<1>3. \/ f \in C
      \/ Overtaken(d, A, P, C) /\ (f \notin P \/ Followed(d, A, C))
      => Overtaken(Append(d, f), A, P, C)
  BY <1>1, OvertakenAppend
<1> QED BY <1>1, <1>2, <1>3 DEF A, P, C

LEMMA StaleTaken ==
    ASSUME NEW t \in Turns, NEW d \in Seq(Frames), d # <<>>
    PROVE  LET A == SnapFrames
               P == PartialThreads(t)
               C == CompletionFrames(t) IN
           /\ Followed(d, A, C) =>
                Followed(Tail(d), A, C) /\ (Head(d) \in A => Has(Tail(d), C))
           /\ Overtaken(d, A, P, C) =>
                /\ Overtaken(Tail(d), A, P, C)
                /\ Head(d) \in A /\ Has(Tail(d), P) => Has(Tail(d), C)
BY FollowedTail, OvertakenTail

(* A completion is no longer on its way to the connection once it is       *)
(* delivered, or the delivery task starts afresh.                          *)
LEMMA CompletionUp ==
    ASSUME TypeOK, [Next]_vars, NEW t \in Turns, CUp(t), ~CUp(t)'
    PROVE  \/ DeliverPush /\ bus # <<>> /\ Head(bus) \in Completions(t)
           \/ DeliveryStarts /\ ~subscribed
<1> USE DEF server, link, limits, client
<1> DEFINE C == Completions(t)
<1>0. /\ stream \in Seq(Events) /\ bus \in Seq(Events) /\ worker \in Seq(Events)
      /\ status \in [Turns -> Statuses]
  BY DEF TypeOK
<1>a. delivery' = "prompt"
  BY DEF CUp
<1>1. CASE UNCHANGED <<status, stream, bus, delivery>>
  BY <1>1 DEF CUp
<1>2. ASSUME NEW u \in Turns,
             \/ StartTurn(u) \/ CancelTurn(u)
             \/ ProviderDelta(u) \/ ProviderCompletes(u) \/ ProviderFails(u)
      PROVE  FALSE
  <2>1. bus' = bus /\ delivery' = delivery
    BY <1>2 DEF StartTurn, CancelTurn, ProviderDelta, ProviderCompletes, ProviderFails
  <2>2. CASE StartTurn(u) \/ CancelTurn(u)
    <3>1. stream' = stream /\ (status'[t] = "completed" => status[t] = "completed")
      BY <1>0, <2>2 DEF StartTurn, CancelTurn
    <3> QED BY <2>1, <3>1 DEF CUp
  <2>3. CASE ProviderDelta(u) \/ ProviderCompletes(u) \/ ProviderFails(u)
    <3>1. PICK e \in Events : stream' = Append(stream, e)
      <4>1. CASE ProviderDelta(u)
        <5>1. Len(output[u]) + 1 \in 1..Chunks
          BY <4>1, ClientSyncAssumption DEF ProviderDelta, TypeOK, Texts
        <5>2. <<Len(output[u]) + 1>> \in Texts
          BY <5>1, SingleType DEF Texts
        <5>3. [type |-> "MessageDeltaAppended", turn |-> u, text |-> <<Len(output[u]) + 1>>] \in Events
          BY <5>2 DEF Events
        <5> QED BY <4>1, <5>3 DEF ProviderDelta
      <4>2. CASE ProviderCompletes(u) \/ ProviderFails(u)
        <5>1. \A type \in {"TurnCompleted", "TurnFailed"} : [type |-> type, turn |-> u] \in Events
          BY DEF Events
        <5> QED BY <4>2, <5>1 DEF ProviderCompletes, ProviderFails
      <4> QED BY <2>3, <4>1, <4>2
    <3>2. Has(stream', C) <=> Has(stream, C) \/ e \in C
      BY <1>0, <3>1, HasAppend
    <3>3. CASE ProviderCompletes(u) /\ u = t
      <4>1. stream' = Append(stream, [type |-> "TurnCompleted", turn |-> t])
        BY <3>3 DEF ProviderCompletes
      <4>2. [type |-> "TurnCompleted", turn |-> t] \in Events
        BY DEF Events
      <4>3. [type |-> "TurnCompleted", turn |-> t] \in C
        BY <4>2 DEF Completions
      <4>4. Has(stream', C)
        BY <1>0, <4>1, <4>2, <4>3, HasAppend
      <4> QED BY <4>4 DEF CUp
    <3>4. CASE ~(ProviderCompletes(u) /\ u = t)
      <4>1. status'[t] = "completed" => status[t] = "completed"
        BY <1>0, <2>3, <3>4 DEF ProviderDelta, ProviderCompletes, ProviderFails
      <4> QED BY <2>1, <3>2, <4>1 DEF CUp
    <3> QED BY <3>3, <3>4
  <2> QED BY <1>2, <2>2, <2>3
<1>3. CASE PublishCommandEvent \/ PublishProviderEvent
  <2>1. \A e \in Events : Has(Append(bus, e), C) <=> Has(bus, C) \/ e \in C
    BY <1>0, HasAppend
  <2>2. ASSUME NEW e \in Events, Broadcast(e)
        PROVE  bus' = Append(bus, e) /\ delivery' = delivery
    BY <1>a, <2>2, BroadcastCases DEF DeliveryEnds, Receiving
  <2>3. CASE PublishCommandEvent
    <3>1. Head(worker) \in Events /\ Broadcast(Head(worker)) /\ UNCHANGED <<status, stream>>
      BY <1>0, <2>3, HeadAndTail DEF PublishCommandEvent
    <3>2. bus' = Append(bus, Head(worker)) /\ delivery' = delivery
      BY <2>2, <3>1
    <3> QED BY <2>1, <3>1, <3>2 DEF CUp
  <2>4. CASE PublishProviderEvent
    <3>1. /\ Head(stream) \in Events /\ Broadcast(Head(stream)) /\ status' = status
          /\ stream # <<>> /\ stream' = Tail(stream)
      BY <1>0, <2>4, HeadAndTail DEF PublishProviderEvent
    <3>2. bus' = Append(bus, Head(stream)) /\ delivery' = delivery
      BY <2>2, <3>1
    <3>3. Has(stream, C) <=> Has(stream', C) \/ Head(stream) \in C
      BY <1>0, <3>1, HasTail
    <3> QED BY <2>1, <3>1, <3>2, <3>3 DEF CUp
  <2> QED BY <1>3, <2>3, <2>4
<1>4. CASE DeliverPush
  <2>1. bus # <<>> /\ bus' = Tail(bus) /\ UNCHANGED <<status, stream, delivery>>
    BY <1>4 DEF DeliverPush
  <2>2. Has(bus, C) <=> Has(bus', C) \/ Head(bus) \in C
    BY <1>0, <2>1, HasTail
  <2> QED BY <1>4, <2>1, <2>2 DEF CUp
<1>5. CASE OtherPushesOvertake \/ Connect \/ Drop \/ Reload
  BY <1>a, <1>5 DEF OtherPushesOvertake, DeliveryEnds, Connect, Drop, Reload
<1>6. CASE ServeRequest \/ SendResponse \/ (ClientStep /\ ~Connect /\ ~Reload) \/ UNCHANGED vars
  <2>1. CASE ServeRequest \/ SendResponse
    BY <1>1, <2>1 DEF ServeRequest, SendResponse
  <2>2. CASE ClientStep /\ ~Connect /\ ~Reload
    BY <1>1, <2>2 DEF ClientStep, ReceiveEvent, ReceiveShellSnapshot, ReceiveThreadSnapshot,
                ReceiveWelcome, ReceiveResponse, Flush, Poll, Move
  <2>3. CASE UNCHANGED vars
    BY <1>1, <2>3 DEF vars
  <2> QED BY <1>6, <2>1, <2>2, <2>3
<1>7. CASE DeliveryStarts
  BY <1>a, <1>7 DEF DeliveryStarts
<1> QED BY <1>2, <1>3, <1>4, <1>5, <1>6, <1>7 DEF Next, ServerStep

LEMMA EventPushed ==
    ASSUME TypeOK, DeliverPush
    PROVE  LET f == [kind |-> "event", event |-> Head(bus)] IN
           /\ bus # <<>> /\ Head(bus) \in Events /\ f \in Frames
           /\ f.kind = "event" /\ f.event = Head(bus)
           /\ down' = IF subscribed THEN Append(down, f) ELSE down
           /\ bus' = Tail(bus) /\ UNCHANGED <<server, online, subscribed, delivery, up, serving, limits,
                                        client>>
<1>1. bus # <<>> /\ bus \in Seq(Events)
  BY DEF DeliverPush, TypeOK
<1>2. Head(bus) \in Events
  BY <1>1, HeadAndTail
<1> QED BY <1>1, <1>2, FrameType DEF DeliverPush

(* A snapshot that is read once the turn has completed has all of it.      *)
LEMMA NothingPartialRead ==
    ASSUME TypeOK, TruthInv, NEW t \in Turns, status[t] = "completed"
    PROVE  ~Partial(ThreadSnapshot, t) /\ (streams[t] => Full(ThreadSnapshot, t))
BY ReadsSound DEF Partial, Full, Message

LEMMA StaleInit == Init => \A t \in Turns : Stale(t)
<1>1. Init => \A t \in Turns : status[t] = "none"
  BY DEF Init
<1> QED BY <1>1 DEF Stale, CUp

LEMMA StaleStep ==
    ASSUME TypeOK, SpinnerInv, TruthInv, LinkInv, [Next]_vars, NEW t \in Turns, Stale(t)
    PROVE  Stale(t)'
<1> USE DEF server, link, limits, client
<1> DEFINE A == SnapFrames
           P == PartialThreads(t)
           C == CompletionFrames(t)
           Still == /\ ServesPartial(t)' => Followed(down', A, C)
                    /\ Overtaken(down', A, P, C)
<1>0. down \in Seq(Frames) /\ bus \in Seq(Events) /\ serving \in Servings
  BY DEF TypeOK
<1>a. ServesPartial(t)' <=> serving'.request \in {"open", "poll"} /\ Partial(serving'.snapshot, t)
  BY DEF ServesPartial, ServesThread, Partial
<1>b. ServesPartial(t) <=> serving.request \in {"open", "poll"} /\ Partial(serving.snapshot, t)
  BY DEF ServesPartial, ServesThread
<1>c. NoRequest.request \notin {"open", "poll"}
  BY DEF NoRequest
<1>d. /\ ~Has(<<>>, A) /\ ~Has(<<Welcome>>, A)
      /\ Followed(<<>>, A, C) /\ Followed(<<Welcome>>, A, C)
      /\ Overtaken(<<>>, A, P, C) /\ Overtaken(<<Welcome>>, A, P, C)
  <2>1. ~Has(<<>>, A) /\ ~Has(<<Welcome>>, A)
    BY HasNone, HasSingle DEF SnapFrames, Welcome
  <2> HIDE DEF A, P, C
  <2> QED BY <2>1, UnlessHas, OvertakenUnless
<1>1. SUFFICES ASSUME ~CUp(t)' PROVE Still
  BY DEF Stale
<1>2. CASE CUp(t)
  <2>1. CASE DeliverPush /\ bus # <<>> /\ Head(bus) \in Completions(t)
    <3> DEFINE f == [kind |-> "event", event |-> Head(bus)]
    <3>1. /\ f \in Frames /\ f.kind = "event" /\ f.event = Head(bus) /\ serving' = serving
          /\ down' = IF subscribed THEN Append(down, f) ELSE down
      BY <2>1, EventPushed
    <3>2. f \in C
      BY <2>1, <3>1 DEF CompletionFrames
    <3> HIDE DEF f
    <3>3. CASE subscribed
      BY <1>0, <3>1, <3>2, <3>3, StalePut
    <3>4. CASE ~subscribed
      <4>1. serving.request \notin {"open", "poll"} /\ ~Has(down, A)
        BY <3>4 DEF LinkInv, Subscribes
      <4> HIDE DEF A, P, C
      <4>2. Overtaken(down, A, P, C)
        BY <4>1, OvertakenUnless
      <4> QED BY <1>a, <3>1, <3>4, <4>1, <4>2
    <3> QED BY <3>3, <3>4
  <2>2. CASE DeliveryStarts /\ ~subscribed
    <3>1. /\ serving.request \notin {"open", "poll"} /\ ~Has(down, A)
          /\ UNCHANGED <<down, serving>>
      BY <2>2 DEF LinkInv, Subscribes, DeliveryStarts
    <3> HIDE DEF A, P, C
    <3>2. Overtaken(down, A, P, C)
      BY <3>1, OvertakenUnless
    <3> QED BY <1>a, <3>1, <3>2
  <2> QED BY <1>1, <1>2, <2>1, <2>2, CompletionUp
<1>3. CASE ~CUp(t)
  <2>0. /\ status[t] = "completed"
        /\ ServesPartial(t) => Followed(down, A, C)
        /\ Overtaken(down, A, P, C)
    BY <1>3 DEF Stale, CUp
  <2>1. CASE DeliverPush
    <3> DEFINE f == [kind |-> "event", event |-> Head(bus)]
    <3>1. /\ f \in Frames /\ f.kind = "event" /\ serving' = serving
          /\ down' = IF subscribed THEN Append(down, f) ELSE down
      BY <2>1, EventPushed
    <3>2. f \notin P
      BY <3>1 DEF PartialThreads, ThreadFrames
    <3> HIDE DEF f
    <3> QED BY <1>0, <1>a, <1>b, <2>0, <3>1, <3>2, StalePut
  <2>2. CASE SendResponse
    <3> DEFINE r == serving.request
    <3>1. PICK between \in Seq(Frames) :
             /\ r \in Requests /\ Response(r) \in Frames
             /\ serving' = NoRequest /\ down' = Append(between, Response(r))
             /\ \/ r = "shell" /\ Shell \in Frames /\ between = Append(down, Shell)
                \/ r = "close" /\ between = down
                \/ /\ r \in {"open", "poll"} /\ serving.snapshot \in Snapshots
                   /\ ThreadFrame(serving.snapshot) \in Frames
                   /\ between = Append(down, ThreadFrame(serving.snapshot))
      BY <2>2, Sent
    <3>2. Overtaken(between, A, P, C)
      <4>1. CASE r = "shell"
        <5>1. Shell \notin P
          BY DEF Shell, PartialThreads, ThreadFrames
        <5> QED BY <1>0, <2>0, <3>1, <4>1, <5>1, StalePut
      <4>2. CASE r = "close"
        BY <2>0, <3>1, <4>2
      <4>3. CASE r \in {"open", "poll"}
        <5> DEFINE f == ThreadFrame(serving.snapshot)
        <5>1. f \in Frames /\ between = Append(down, f)
          BY <3>1, <4>3
        <5>2. f \in P => ServesPartial(t)
          BY <1>b, <4>3 DEF PartialThreads, ThreadFrame
        <5> HIDE DEF f
        <5> QED BY <1>0, <2>0, <5>1, <5>2, StalePut
      <4> QED BY <3>1, <4>1, <4>2, <4>3 DEF Requests
    <3>3. Response(r) \notin P
      BY DEF Response, PartialThreads, ThreadFrames
    <3> HIDE DEF r
    <3> QED BY <1>a, <1>c, <3>1, <3>2, <3>3, StalePut
  <2>3. CASE ServeRequest
    <3>1. ~Partial(ThreadSnapshot, t)
      BY <2>0, NothingPartialRead
    <3>2. /\ down' = down
          /\ serving'.request \in {"open", "poll"} => serving'.snapshot = ThreadSnapshot
      BY <2>3 DEF ServeRequest
    <3> QED BY <1>a, <2>0, <3>1, <3>2
  <2>4. CASE down # <<>> /\ down' = Tail(down) /\ serving' = serving
    BY <1>0, <1>a, <1>b, <2>0, <2>4, StaleTaken
  <2>5. CASE down' = down /\ serving' = serving
    BY <1>a, <1>b, <2>0, <2>5
  <2>6. CASE down' \in {<<>>, <<Welcome>>} /\ serving' = NoRequest
    BY <1>a, <1>c, <1>d, <2>6
  <2>7. \/ DeliverPush \/ SendResponse \/ ServeRequest
        \/ down # <<>> /\ down' = Tail(down) /\ serving' = serving
        \/ down' = down /\ serving' = serving
        \/ down' \in {<<>>, <<Welcome>>} /\ serving' = NoRequest
    <3>1. CASE ServerStep
      BY <3>1 DEF ServerStep, StartTurn, CancelTurn, ProviderDelta, ProviderCompletes,
                  ProviderFails, PublishCommandEvent, PublishProviderEvent,
                  OtherPushesOvertake, DeliveryStarts
    <3>2. CASE ClientStep
      BY <3>2 DEF ClientStep, ReceiveEvent, ReceiveShellSnapshot, ReceiveThreadSnapshot,
                  ReceiveWelcome, ReceiveResponse, Arrives, Flush, Poll, Move, Connect, Reload,
                  Welcome, SpinnerInv
    <3>3. CASE Drop
      BY <3>3 DEF Drop
    <3>4. CASE UNCHANGED vars
      BY <3>4 DEF vars
    <3> QED BY <3>1, <3>2, <3>3, <3>4 DEF Next
  <2> QED BY <2>1, <2>2, <2>3, <2>4, <2>5, <2>6, <2>7
<1> QED BY <1>2, <1>3

-----------------------------------------------------------------------------
(* What a batch does to one answer *)

LEMMA NoPartsKept ==
    ASSUME NEW T \in Threads, T.known, NEW s \in Seq(UiEvents), NEW t \in Turns, ~Has(s, Parts(t))
    PROVE  ApplyEvents(T, s).known /\ ApplyEvents(T, s).answers[t] = T.answers[t]
<1> DEFINE m == T.answers[t]
           X == {x \in Threads : x.known /\ x.answers[t] = m}
<1>1. ASSUME NEW x \in X, NEW k \in 1..Len(s) PROVE ApplyEvent(x, s[k]) \in X
  <2>1. x \in Threads /\ x.known /\ x.answers[t] = m /\ s[k] \in UiEvents /\ s[k] \notin Parts(t)
    BY DEF Has
  <2>2. ApplyEvent(x, s[k]) \in Threads /\ ApplyEvent(x, s[k]).known
    BY <2>1, ApplyEventType
  <2>3. CASE s[k].type = "session-set"
    BY <2>1, <2>2, <2>3, AppliedSession
  <2>4. CASE s[k].type = "message-sent"
    <3>1. s[k].turn # t
      BY <2>1, <2>4 DEF Parts
    <3>2. x.answers \in [Turns -> Messages]
      BY <2>1, KnownFields
    <3>3. ApplyEvent(x, s[k]).answers
            = [x.answers EXCEPT ![s[k].turn] = Received(x.answers[s[k].turn], s[k])]
      BY <2>1, <2>4, AppliedMessage
    <3> QED BY <2>1, <2>2, <3>1, <3>2, <3>3
  <2> QED BY <2>1, <2>3, <2>4, UiFields
<1>2. X \in SUBSET Threads /\ T \in X
  OBVIOUS
<1>3. \A x \in X : \A k \in 1..Len(s) : ApplyEvent(x, s[k]) \in X
  BY <1>1
<1> HIDE DEF X
<1>4. ApplyEvents(T, s) \in X
  BY <1>2, <1>3, BatchStaysIn
<1> QED BY <1>4 DEF X

LEMMA FinalShows ==
    ASSUME NEW T \in Threads, T.known, NEW s \in Seq(UiEvents), NEW t \in Turns,
           Has(s, Finals(t)), Closed(s, Finals(t), Parts(t))
    PROVE  LET after == ApplyEvents(T, s) IN
           after.known /\ after.answers[t].shown /\ ~after.answers[t].streaming
<1> DEFINE n == Len(s)
           Done(x) == x.known /\ x.answers[t].shown /\ ~x.answers[t].streaming
<1>1. PICK f : Applied1By1(f, T, s) /\ ApplyEvents(T, s) = f[n]
  BY ApplyRuns
<1>2. PICK i \in 1..n : s[i] \in Finals(t)
  BY DEF Has
<1>3. /\ n \in Nat /\ f \in [0..n -> Threads]
      /\ \A k \in 1..n : f[k] = ApplyEvent(f[k - 1], s[k]) /\ k - 1 \in 0..n /\ k \in 0..n
                         /\ s[k] \in UiEvents
  <2>1. n \in Nat /\ \A k \in 1..n : k - 1 \in 0..n /\ k \in 0..n /\ s[k] \in UiEvents
    OBVIOUS
  <2> QED BY <1>1, <2>1 DEF Applied1By1
<1>4. \A k \in 0..n : f[k] \in Threads
  BY <1>3
<1>5. \A k \in 0..n : f[k].known
  <2> DEFINE X == {x \in Threads : x.known}
  <2>1. StepInto(f, X, n)
    <3>1. f[0] \in X
      BY <1>1 DEF Applied1By1
    <3>2. ASSUME NEW k \in 1..n, f[k - 1] \in X PROVE f[k] \in X
      <4>1. f[k] = ApplyEvent(f[k - 1], s[k]) /\ s[k] \in UiEvents
        BY <1>3
      <4> QED BY <3>2, <4>1, ApplyEventType
    <3> QED BY <3>1, <3>2 DEF StepInto
  <2> HIDE DEF X
  <2>2. \A k \in 0..n : f[k] \in X
    BY <1>3, <2>1, StepsStayIn
  <2> QED BY <2>2 DEF X
<1> DEFINE G == {k \in 0..n : k < i \/ Done(f[k])}
<1>6. 0 \in G
  BY <1>2, <1>3
<1>7. ASSUME NEW k \in 1..n, k - 1 \in G PROVE k \in G
  <2>0. /\ k \in 0..n /\ k - 1 \in 0..n /\ f[k - 1] \in Threads /\ f[k - 1].known
        /\ f[k] = ApplyEvent(f[k - 1], s[k]) /\ s[k] \in UiEvents /\ f[k].known
        /\ k < i \/ k = i \/ (i < k /\ ~(k - 1 < i))
    BY <1>2, <1>3, <1>4, <1>5
  <2>1. f[k - 1].answers \in [Turns -> Messages]
    BY <2>0, KnownFields
  <2>2. CASE k = i
    <3>1. s[k].type = "message-sent" /\ s[k].turn = t /\ ~s[k].streaming
      BY <1>2, <2>2 DEF Finals
    <3>2. f[k].answers[t] = Received(f[k - 1].answers[t], s[k])
      BY <2>0, <2>1, <3>1, AppliedMessage
    <3>3. /\ Received(f[k - 1].answers[t], s[k]).shown
          /\ Received(f[k - 1].answers[t], s[k]).streaming = s[k].streaming
      BY <2>0, <2>1, <3>1, FinishedIsComplete
    <3> QED BY <2>0, <3>1, <3>2, <3>3
  <2>3. CASE i < k /\ ~(k - 1 < i)
    <3>1. Done(f[k - 1])
      BY <1>7, <2>3
    <3>2. s[k] \notin Parts(t)
      BY <1>2, <2>3 DEF Closed
    <3>3. f[k].answers[t] = f[k - 1].answers[t]
      <4>1. CASE s[k].type = "session-set"
        BY <2>0, <4>1, AppliedSession
      <4>2. CASE s[k].type = "message-sent"
        <5>1. s[k].turn # t
          BY <2>0, <3>2, <4>2 DEF Parts
        <5>2. f[k].answers
                = [f[k - 1].answers EXCEPT ![s[k].turn] = Received(f[k - 1].answers[s[k].turn], s[k])]
          BY <2>0, <4>2, AppliedMessage
        <5> QED BY <2>1, <5>1, <5>2
      <4> QED BY <2>0, <4>1, <4>2, UiFields
    <3> QED BY <2>0, <3>1, <3>3
  <2>4. CASE k < i
    BY <2>0, <2>4
  <2> QED BY <2>0, <2>2, <2>3, <2>4
<1>8. n \in G
  <2> HIDE DEF G
  <2>1. \A k \in 1..n : k - 1 \in G => k \in G
    BY <1>7
  <2>2. n \in Nat /\ n \in 0..n
    BY <1>3
  <2>3. 0..n \subseteq G
    BY ONLY <1>6, <2>1, <2>2, StepByStep
  <2> QED BY <2>2, <2>3
<1>9. ~(n < i)
  BY <1>2, <1>3
<1> QED BY <1>1, <1>8, <1>9

-----------------------------------------------------------------------------
(* What the client has of an answer that is complete on the server *)

Shown(t) == thread.known /\ thread.answers[t].shown
Final(t) == Shown(t) /\ ~thread.answers[t].streaming

(* Nothing is missing, or it is lengthened by a piece that is there twice. *)
Fine(text) == Complete(text) \/ (drops > 0 /\ Len(text) > Chunks)

(* The client has been told, and what is still to come does not undo it.   *)
Told(t) ==
    /\ Shown(t) => Fine(thread.answers[t].text)
    /\ Final(t) \/ ~PartialComing(t)

(* A client that has seen the turn start and is to hear no more of it: it  *)
(* never lost a connection, or has its subscription and its snapshot back. *)
Heard(t) ==
    /\ online /\ subscribed
    /\ drops = 0 \/ (Welcomed /\ router.tracked /\ ~FullComing(t))
    /\ t \in seeded /\ ~OnWay(t)

AnswerKept(t) ==
    /\ online /\ ~OnWay(t) => ~Has(pending, Parts(t))
    /\ Heard(t) => Told(t)

LEMMA MessageOf ==
    ASSUME NEW T \in Threads, T.known, NEW t \in Turns
    PROVE  T.answers[t] \in Messages /\ T.answers[t].text \in Texts /\ T.answers[t].shown \in BOOLEAN
           /\ T.answers[t].streaming \in BOOLEAN
<1>1. T.answers[t] \in Messages
  BY KnownFields
<1> QED BY <1>1, MessageFields

(* Of a turn that does not stream no snapshot has anything. *)
LEMMA NotStreamed ==
    ASSUME TypeOK, TruthInv, NEW t \in Turns, ~streams[t]
    PROVE  Told(t)
<1>1. down \in Seq(Frames) /\ thread \in Threads
  BY DEF TypeOK
<1>2. ASSUME NEW s, Sound(s) PROVE ~Partial(s, t)
  BY <1>2 DEF Sound, Partial
<1>3. ~ServesPartial(t)
  BY <1>2 DEF TruthInv, ServesPartial
<1>4. ~Has(down, PartialThreads(t))
  <2>1. ~Has(down, FramesOf(Wrong) \cup Unsound)
    BY DEF TruthInv
  <2>2. PartialThreads(t) \subseteq FramesOf(Wrong) \cup Unsound
    BY <1>2 DEF PartialThreads, ThreadFrames, Unsound
  <2> QED BY <2>1, <2>2, HasSubset
<1>5. Shown(t) => Complete(thread.answers[t].text)
  BY DEF Shown, TruthInv, ShownRight, Right
<1> QED BY <1>3, <1>4, <1>5 DEF Told, Fine, PartialComing

(* A partial snapshot has the shell's before it while the client does not  *)
(* have the thread, and then the completion behind it.                     *)
LEMMA NothingPartialAhead ==
    ASSUME TypeOK, LinkInv, NEW t \in Turns, Stale(t), ~CDown(t), ~thread.known,
           drops = 0 \/ (Welcomed /\ router.tracked)
    PROVE  ~PartialComing(t)
<1> DEFINE A == SnapFrames
           P == PartialThreads(t)
           C == CompletionFrames(t)
<1>1. /\ ShellLeads(up, serving, down)
      /\ ServesPartial(t) => Followed(down, A, C)
      /\ Overtaken(down, A, P, C) /\ ~Has(down, C)
  BY DEF LinkInv, CDown, Stale
<1>2. ASSUME Has(down, {Shell}) PROVE ~ServesPartial(t)
  <2>1. PICK i \in DOMAIN down : down[i] = Shell
    BY <1>2 DEF Has
  <2>2. Shell \in A
    BY FrameType DEF SnapFrames, Shell
  <2> HIDE DEF A, C
  <2> QED BY <1>1, <2>1, <2>2 DEF Followed, Has
<1>3. ~ServesPartial(t)
  BY <1>1, <1>2 DEF ShellLeads, ServesPartial, ServesThread
<1>4. ASSUME NEW j \in DOMAIN down, down[j] \in P PROVE FALSE
  <2>1. down[j] \in ThreadFrames
    BY <1>4 DEF PartialThreads
  <2>2. PICK i \in DOMAIN down : i < j /\ down[i] = Shell
    BY <1>1, <2>1 DEF ShellLeads, Led
  <2>3. Shell \in A
    BY FrameType DEF SnapFrames, Shell
  <2> HIDE DEF A, C, P
  <2> QED BY <1>1, <1>4, <2>2, <2>3 DEF Overtaken, Has
<1> QED BY <1>3, <1>4 DEF PartialComing, Has

LEMMA NothingPartialAheadNext ==
    ASSUME NEW t \in Turns
    PROVE  (TypeOK /\ LinkInv /\ Stale(t) /\ ~CDown(t) /\ ~thread.known
              /\ (drops = 0 \/ (Welcomed /\ router.tracked)) => ~PartialComing(t))'
<1>1. TypeOK /\ LinkInv /\ Stale(t) /\ ~CDown(t) /\ ~thread.known
        /\ (drops = 0 \/ (Welcomed /\ router.tracked)) => ~PartialComing(t)
  BY NothingPartialAhead
<1> QED BY <1>1, PTL

(* ... and none has one behind a snapshot that has arrived. *)
LEMMA NothingPartialBehind ==
    ASSUME TypeOK, NEW t \in Turns, Stale(t), ~CUp(t), down # <<>>, Head(down) \in SnapFrames,
           ~Has(Tail(down), CompletionFrames(t))
    PROVE  ~ServesPartial(t) /\ ~Has(Tail(down), PartialThreads(t))
<1>1. down \in Seq(Frames)
  BY DEF TypeOK
<1> QED BY <1>1, StaleTaken DEF Stale

(* Frames that may be put and not taken leave all that was on its way.     *)
LEMMA WayStays ==
    ASSUME TypeOK, [Next]_vars, NEW t \in Turns, delivery' \in {delivery, "ended"}, ~OnWay(t)',
           Has(pending, Finals(t)) => Has(pending', Finals(t)),
           Has(down, CompletionFrames(t)) => Has(down', CompletionFrames(t)),
           DeliverPush => subscribed
    PROVE  ~OnWay(t)
<1>1. ~CUp(t)' /\ ~Has(down', CompletionFrames(t)) /\ ~Has(pending', Finals(t))
  BY DEF OnWay, CDown
<1>2. ASSUME CUp(t) PROVE FALSE
  <2>1. DeliverPush /\ bus # <<>> /\ Head(bus) \in Completions(t)
    BY <1>1, <1>2, CompletionUp DEF DeliveryStarts
  <2> DEFINE f == [kind |-> "event", event |-> Head(bus)]
  <2>2. f \in Frames /\ f.kind = "event" /\ f.event = Head(bus) /\ down' = Append(down, f)
    BY <2>1, EventPushed
  <2>3. f \in CompletionFrames(t) /\ down \in Seq(Frames)
    BY <2>1, <2>2 DEF CompletionFrames, TypeOK
  <2> HIDE DEF f
  <2> QED BY <1>1, <2>2, <2>3, HasAppend
<1> QED BY <1>1, <1>2 DEF OnWay, CDown

(* A push that has arrived: nothing of a turn is in the queue, unless its  *)
(* completion is there too.                                                *)
LEMMA EventWay ==
    ASSUME TypeOK, WordInv, SpinnerInv, TruthInv, ReceiveEvent,
           NEW t \in Turns, AnswerKept(t), ~CDown(t)'
    PROVE  LET longer == pending \o Adapt(Head(down).event) IN
           /\ longer \in Seq(UiEvents) /\ Mergeable(longer) /\ Closed(longer, Finals(t), Parts(t))
           /\ \/ pending' = longer /\ thread' = thread
              \/ pending' = <<>> /\ thread' = ApplyEvents(thread, longer)
           /\ t \in seeded' => t \in seeded
           /\ Has(longer, Finals(t)) \/ (~Has(longer, Parts(t)) /\ (t \in seeded => ~OnWay(t)))
<1> USE DEF server, link, limits, client
<1> DEFINE f == Head(down)
           e == f.event
           longer == pending \o Adapt(e)
<1>0. /\ down \in Seq(Frames) /\ pending \in Seq(UiEvents) /\ thread \in Threads
      /\ seeded \in SUBSET Turns
  BY DEF TypeOK
<1>1. /\ online /\ down # <<>> /\ f \in Frames /\ f.kind = "event" /\ down' = Tail(down)
      /\ Queue(Adapt(e))
      /\ seeded' = IF e.type = "TurnStarted" THEN seeded \cup {e.turn} ELSE seeded
      /\ UNCHANGED <<status, worker, stream, online, subscribed, delivery, bus, up, serving>>
  BY <1>0, HeadAndTail DEF ReceiveEvent, Arrives
<1>2. e \in Events
  BY <1>1, FrameFields
<1>3. /\ longer \in Seq(UiEvents) /\ Announced(longer) /\ Mergeable(longer)
  BY <1>1, <1>2, QueuedWords
<1>4. \/ pending' = longer /\ thread' = thread
      \/ pending' = <<>> /\ thread' = ApplyEvents(thread, longer)
  <2>1. \/ pending' = longer /\ thread' = thread
        \/ pending' = <<>> /\ thread' = ApplyEvents(thread, Coalesce(longer))
    BY <1>1 DEF Queue
  <2> HIDE DEF longer
  <2> QED BY <1>0, <1>3, <2>1, CoalesceIsTransparent
<1>5. \A S : /\ f \in FramesOf(S) <=> e \in S
             /\ Has(down, S) <=> Has(down', S) \/ f \in S
  <2>1. \A S : f \in FramesOf(S) <=> e \in S
    BY <1>1, FrameShows
  <2>2. \A S : Has(down, S) <=> Has(Tail(down), S) \/ f \in S
    BY <1>0, <1>1, HasTail
  <2> QED BY <1>1, <2>1, <2>2
<1>6. /\ CUp(t) <=> CUp(t)'
      /\ status[t] = "completed" /\ delivery = "prompt" /\ ~CUp(t)
      /\ ~Has(down', CompletionFrames(t))
  BY <1>1 DEF CUp, CDown
<1>7. e \notin Runs(t)
  <2> SUFFICES ASSUME e \in Runs(t) PROVE FALSE
    OBVIOUS
  <2>1. EndFollows(t) /\ ~Has(down, FramesOf(Wrong) \cup Unsound) /\ ~Has(stream, Wrong) /\ ~Has(bus, Wrong)
    BY DEF SpinnerInv, TruthInv
  <2>2. \A x \in Ends(t) : x \in Wrong \/ x \in Completions(t)
    BY <1>6, EventFields DEF Ends, Wrong, Completions
  <2>3. ~EndsBus(t)
    <3>1. ~Running(t)
      BY <1>6 DEF Running
    <3>2. ~Has(stream, Ends(t)) /\ ~Has(bus, Ends(t))
      BY <1>6, <2>1, <2>2 DEF CUp, Has
    <3> QED BY <1>6, <3>1, <3>2 DEF EndsBus, EndsUp
  <2>4. Has(down', FramesOf(Ends(t)))
    <3>1. down \in Seq(Frames) \ {<<>>} /\ f \in FramesOf(Runs(t))
      BY <1>0, <1>1, <1>5
    <3>2. Followed(down, FramesOf(Runs(t)), FramesOf(Ends(t)))
      BY <2>1, <2>3 DEF EndFollows
    <3> QED BY <1>1, <3>1, <3>2, WayTaken
  <2>5. FramesOf(Ends(t)) \subseteq FramesOf(Wrong) \cup CompletionFrames(t)
    BY <2>2 DEF FramesOf, CompletionFrames
  <2>6. ~Has(down', FramesOf(Wrong) \cup Unsound)
    BY <1>5, <2>1
  <2> HIDE DEF f, e
  <2> QED BY <1>6, <2>4, <2>5, <2>6 DEF Has
<1>8. t \in seeded' => t \in seeded
  BY <1>1, <1>2, <1>7 DEF Runs
<1>9. Closed(longer, Finals(t), Parts(t))
  <2>1. Closed(pending, Finals(t), Parts(t)) /\ Announced(pending) /\ LastWord(t)
    BY DEF WordInv, LastWord
  <2>2. f \in WordFrames(t) <=> e \in Words(t)
    BY <1>1, EventFrameWords
  <2>3. e \in Words(t) => ~Has(pending, Finals(t))
    BY <1>5, <2>1, <2>2 DEF LastWord
  <2> QED BY <1>0, <1>2, <2>1, <2>3, AdaptedWords
<1>10. Has(longer, Finals(t)) \/ (~Has(longer, Parts(t)) /\ (t \in seeded => ~OnWay(t)))
  <2>0. /\ \A S : Has(longer, S) <=> Has(pending, S) \/ Has(Adapt(e), S)
        /\ f \in CompletionFrames(t) <=> e \in Completions(t)
    BY <1>0, <1>1, <1>2, AdaptedHas, EventFrameWords
  <2>1. ~Has(Adapt(e), Parts(t)) \/ Has(Adapt(e), Finals(t))
    <3>1. SessionSet(e.turn, "running") \notin Parts(t) /\ SessionSet(NoTurn, "ready") \notin Parts(t)
          /\ SessionSet(NoTurn, "error") \notin Parts(t)
      BY DEF Parts, SessionSet
    <3>2. e.type = "MessageDeltaAppended" => MessageSent(e.turn, e.text, TRUE) \notin Parts(t)
      BY <1>2, <1>7 DEF Parts, MessageSent, Runs
    <3>3. e.type = "TurnCompleted" /\ e.turn = t => MessageSent(e.turn, Answer, FALSE) \in Finals(t)
      <4>1. e.type = "TurnCompleted" => MessageSent(e.turn, Answer, FALSE) \in UiEvents
        BY <1>2, EventFields, AnswerType, UiType
      <4> QED BY <4>1 DEF Finals, MessageSent
    <3>4. e.turn # t => MessageSent(e.turn, Answer, FALSE) \notin Parts(t)
      BY DEF Parts, MessageSent
    <3> DEFINE delta == MessageSent(e.turn, e.text, TRUE)
               final == MessageSent(e.turn, Answer, FALSE)
    <3>5. /\ Has(Adapt(e), Parts(t)) =>
                \/ e.type = "TurnStarted" /\ SessionSet(e.turn, "running") \in Parts(t)
                \/ e.type = "MessageDeltaAppended" /\ delta \in Parts(t)
                \/ /\ e.type = "TurnCompleted" /\ e.turn \in seeded
                   /\ SessionSet(NoTurn, "ready") \in Parts(t) \/ final \in Parts(t)
                \/ e.type = "TurnFailed" /\ SessionSet(NoTurn, "error") \in Parts(t)
          /\ e.type = "TurnCompleted" /\ e.turn \in seeded /\ final \in Finals(t)
                => Has(Adapt(e), Finals(t))
      BY <1>0, <1>2, AdaptedHas
    <3> HIDE DEF delta, final
    <3>6. /\ e.type = "MessageDeltaAppended" => delta \notin Parts(t)
          /\ e.type = "TurnCompleted" /\ e.turn = t => final \in Finals(t)
          /\ e.turn # t => final \notin Parts(t)
      BY <3>2, <3>3, <3>4 DEF delta, final
    <3> HIDE DEF e
    <3> QED BY <3>1, <3>5, <3>6
  <2>2. CASE e \in Completions(t) /\ t \in seeded
    <3> DEFINE final == MessageSent(e.turn, Answer, FALSE)
    <3>1. e.type = "TurnCompleted" /\ e.turn = t /\ e.turn \in seeded
      BY <2>2 DEF Completions
    <3>2. final \in UiEvents
      BY <1>2, EventFields, AnswerType, UiType
    <3>3. final \in Finals(t)
      BY <3>1, <3>2 DEF Finals, MessageSent
    <3>4. e.type = "TurnCompleted" /\ e.turn \in seeded /\ final \in Finals(t) => Has(Adapt(e), Finals(t))
      BY <1>0, <1>2, AdaptedHas
    <3> QED BY <2>0, <3>1, <3>3, <3>4
  <2>3. CASE e \in Completions(t) /\ t \notin seeded
    <3>1. ~Has(pending, UiRuns(t))
      BY <1>1, <2>3 DEF SpinnerInv, QueueEnds
    <3>2. Parts(t) \subseteq UiRuns(t) \cup Finals(t)
      BY DEF Parts, UiRuns, Finals
    <3>3. Has(pending, Parts(t)) => Has(pending, Finals(t))
      BY <3>1, <3>2 DEF Has
    <3> QED BY <2>0, <2>1, <2>3, <3>3
  <2>4. CASE e \notin Completions(t)
    <3>1. ~Has(down, CompletionFrames(t))
      BY <1>5, <1>6, <2>0, <2>4
    <3>2. ~Has(pending, Finals(t)) => ~OnWay(t) /\ ~Has(pending, Parts(t))
      BY <1>1, <1>6, <3>1 DEF OnWay, CDown, AnswerKept
    <3> QED BY <2>0, <2>1, <3>2
  <2> QED BY <2>2, <2>3, <2>4
<1> QED BY <1>3, <1>4, <1>8, <1>9, <1>10 DEF longer

LEMMA KeptSame ==
    ASSUME NEW t \in Turns, AnswerKept(t), UNCHANGED <<thread, drops, pending>>,
           online' /\ ~OnWay(t)' => online /\ ~OnWay(t),
           Heard(t)' => Heard(t), PartialComing(t)' => PartialComing(t)
    PROVE  AnswerKept(t)'
<1>1. Told(t) /\ (PartialComing(t)' => PartialComing(t)) => Told(t)'
  BY DEF Told, Shown, Final, Fine
<1> QED BY <1>1 DEF AnswerKept

LEMMA PushKeeps ==
    ASSUME TypeOK, SpinnerInv, [Next]_vars, DeliverPush, NEW t \in Turns, AnswerKept(t)
    PROVE  AnswerKept(t)'
<1> USE DEF server, link, limits, client
<1> DEFINE f == [kind |-> "event", event |-> Head(bus)]
<1>1. /\ f \in Frames /\ f.kind = "event" /\ down \in Seq(Frames)
      /\ down' = IF subscribed THEN Append(down, f) ELSE down
      /\ UNCHANGED <<online, subscribed, delivery, up, serving, drops, router, thread, pending,
                     seeded>>
  BY EventPushed DEF TypeOK
<1>2. f \notin PartialThreads(t)
  BY <1>1 DEF PartialThreads, ThreadFrames
<1> HIDE DEF f
<1>3. CASE subscribed
  <2>1. \A S : Has(down', S) <=> Has(down, S) \/ f \in S
    BY <1>1, <1>3, HasAppend
  <2>2. online' /\ ~OnWay(t)' => ~OnWay(t)
    BY <1>1, <1>3, <2>1, WayStays
  <2>3. Heard(t)' => Heard(t)
    <3>1. /\ Has(down, {Welcome}) => Has(down', {Welcome})
          /\ Has(down, FullThreads(t)) => Has(down', FullThreads(t))
      BY <2>1
    <3> QED BY <1>1, <2>2, <3>1 DEF Heard, Welcomed, FullComing, ServesFull, ServesThread
  <2>4. PartialComing(t)' => PartialComing(t)
    <3>1. Has(down', PartialThreads(t)) => Has(down, PartialThreads(t))
      BY <1>2, <2>1
    <3> QED BY <1>1, <3>1 DEF PartialComing, ServesPartial, ServesThread
  <2> QED BY <1>1, <2>2, <2>3, <2>4, KeptSame
<1>4. CASE ~subscribed
  <2>1. online => pending' = <<>>
    BY <1>1, <1>4 DEF SpinnerInv, Unsubscribed
  <2>2. online => ~Has(pending', Parts(t))
    BY <2>1, HasNone
  <2> QED BY <1>1, <1>4, <2>2 DEF AnswerKept, Heard
<1> QED BY <1>3, <1>4

LEMMA SendKeeps ==
    ASSUME TypeOK, SpinnerInv, [Next]_vars, SendResponse, NEW t \in Turns, AnswerKept(t)
    PROVE  AnswerKept(t)'
<1> USE DEF server, link, limits, client
<1> DEFINE r == serving.request
<1>0. /\ down \in Seq(Frames)
      /\ UNCHANGED <<online, subscribed, delivery, bus, up, drops, seeded, router, thread, pending>>
  BY DEF TypeOK, SendResponse
<1>1. PICK between \in Seq(Frames) :
             /\ r \in Requests /\ Response(r) \in Frames
             /\ serving' = NoRequest /\ down' = Append(between, Response(r))
             /\ \/ r = "shell" /\ Shell \in Frames /\ between = Append(down, Shell)
                \/ r = "close" /\ between = down
                \/ /\ r \in {"open", "poll"} /\ serving.snapshot \in Snapshots
                   /\ ThreadFrame(serving.snapshot) \in Frames
                   /\ between = Append(down, ThreadFrame(serving.snapshot))
  BY Sent
<1>2. \A S : Has(down', S) <=> Has(between, S) \/ Response(r) \in S
  BY <1>1, HasAppend
<1>3. \A x \in Frames : \A S : Has(Append(down, x), S) <=> Has(down, S) \/ x \in S
  BY <1>0, HasAppend
<1>4. \A S : Has(down, S) => Has(down', S)
  BY <1>1, <1>2, <1>3
<1>5. ServesFull(t) => Has(down', FullThreads(t))
  <2> SUFFICES ASSUME ServesFull(t) PROVE Has(down', FullThreads(t))
    OBVIOUS
  <2> DEFINE f == ThreadFrame(serving.snapshot)
  <2>1. f \in Frames /\ between = Append(down, f) /\ Full(serving.snapshot, t)
    BY <1>1 DEF ServesFull, ServesThread
  <2>2. f \in FullThreads(t)
    BY <2>1 DEF FullThreads, ThreadFrames, ThreadFrame
  <2> HIDE DEF f
  <2> QED BY <1>2, <1>3, <2>1, <2>2
<1>6. Has(down', PartialThreads(t)) => Has(down, PartialThreads(t)) \/ ServesPartial(t)
  <2>1. Response(r) \notin PartialThreads(t) /\ Shell \notin PartialThreads(t)
    BY DEF PartialThreads, ThreadFrames, Response, Shell
  <2>2. r \in {"open", "poll"} /\ ThreadFrame(serving.snapshot) \in PartialThreads(t) => ServesPartial(t)
    BY DEF PartialThreads, ThreadFrame, ServesPartial, ServesThread
  <2> DEFINE P == PartialThreads(t)
             f == ThreadFrame(serving.snapshot)
  <2>3. Has(down', P) <=> Has(between, P) \/ Response(r) \in P
    BY <1>2
  <2>4. \A x \in Frames : Has(Append(down, x), P) <=> Has(down, P) \/ x \in P
    BY <1>3
  <2>5. Response(r) \notin P /\ Shell \notin P /\ (r \in {"open", "poll"} /\ f \in P => ServesPartial(t))
    BY <2>1, <2>2
  <2>6. \/ Shell \in Frames /\ between = Append(down, Shell)
        \/ between = down
        \/ r \in {"open", "poll"} /\ f \in Frames /\ between = Append(down, f)
    BY <1>1
  <2> HIDE DEF P, f, r
  <2>7. Has(between, P) => Has(down, P) \/ ServesPartial(t)
    BY <2>4, <2>5, <2>6
  <2>8. Has(down', P) => Has(down, P) \/ ServesPartial(t)
    BY <2>3, <2>5, <2>7
  <2> QED BY <2>8 DEF P
<1>7. ~ServesFull(t)' /\ ~ServesPartial(t)'
  BY <1>1 DEF ServesFull, ServesPartial, ServesThread, NoRequest
<1>8. online' /\ ~OnWay(t)' => ~OnWay(t)
  <2>1. ~DeliverPush
    <3>1. bus' = bus /\ bus \in Seq(Events)
      BY <1>0 DEF TypeOK
    <3>2. bus # <<>> => Tail(bus) # bus
      <4>1. ASSUME bus # <<>> PROVE Len(Tail(bus)) = Len(bus) - 1 /\ Len(bus) \in Nat
        BY <3>1, <4>1, HeadAndTail
      <4>2. \A n \in Nat : n - 1 # n
        OBVIOUS
      <4> QED BY <4>1, <4>2
    <3> QED BY <3>1, <3>2 DEF DeliverPush
  <2> QED BY <1>0, <1>4, <2>1, WayStays
<1>9. Heard(t)' => Heard(t)
  <2>1. /\ Has(down, {Welcome}) => Has(down', {Welcome})
        /\ Has(down, FullThreads(t)) => Has(down', FullThreads(t))
    BY <1>4
  <2> QED BY <1>0, <1>5, <1>8, <2>1 DEF Heard, Welcomed, FullComing
<1>10. PartialComing(t)' => PartialComing(t)
  BY <1>6, <1>7 DEF PartialComing
<1> QED BY <1>0, <1>8, <1>9, <1>10, KeptSame

LEMMA ServeKeeps ==
    ASSUME TypeOK, TypeOK', SpinnerInv, TruthInv, TruthInv', LinkInv, [Next]_vars, ServeRequest,
           NEW t \in Turns, AnswerKept(t)
    PROVE  AnswerKept(t)'
<1> USE DEF server, link, limits, client
<1> DEFINE q == Head(up)
<1>0. up \in Seq(Requests) /\ down \in Seq(Frames)
  BY DEF TypeOK
<1>1. /\ online /\ up # <<>> /\ up' = Tail(up) /\ serving.request = "none" /\ serving'.request = q
      /\ q \in {"open", "poll"} => serving'.snapshot = ThreadSnapshot
      /\ UNCHANGED <<status, stream, delivery, bus, online, down, drops, seeded, router, thread,
                     pending, streams>>
  BY DEF ServeRequest
<1>2. q \in Requests /\ \A S : Has(up, S) <=> Has(up', S) \/ q \in S
  BY <1>0, <1>1, HasTail, HeadAndTail
<1>3. OnWay(t)' <=> OnWay(t)
  BY <1>1 DEF OnWay, CDown, CUp
<1>4. SUFFICES ASSUME Heard(t)' PROVE Told(t)'
  BY <1>1, <1>3 DEF AnswerKept
<1>5. status[t] = "completed" /\ t \in seeded /\ ~OnWay(t)
  BY <1>1, <1>3, <1>4 DEF Heard, OnWay, CDown, CUp
<1>6. ~Partial(ThreadSnapshot, t) /\ (streams[t] => Full(ThreadSnapshot, t))
  BY <1>5, NothingPartialRead
<1>7. PartialComing(t)' => PartialComing(t)
  BY <1>1, <1>6 DEF PartialComing, ServesPartial, ServesThread
<1>8. Told(t) => Told(t)'
  BY <1>1, <1>7 DEF Told, Shown, Final, Fine
<1>9. CASE ~streams[t]
  BY <1>8, <1>9, NotStreamed
<1>10. CASE Heard(t)
  BY <1>8, <1>10 DEF AnswerKept
<1>11. CASE streams[t] /\ ~Heard(t)
  <2>1. drops = 0 \/ (Welcomed /\ router.tracked /\ ~FullComing(t)')
    BY <1>1, <1>4 DEF Heard, Welcomed
  <2>2. drops = 0 => subscribed
    BY <1>5 DEF LinkInv, Subscribes
  <2>3. CASE drops = 0
    BY <1>1, <1>5, <1>11, <2>2, <2>3 DEF Heard
  <2>4. CASE Welcomed /\ router.tracked /\ ~FullComing(t)'
    <3>1. ~Has(up', {"open"}) /\ ~ServesFull(t)' /\ ~Has(down, FullThreads(t))
      BY <1>1, <2>4 DEF FullComing
    <3>2. q # "open"
      BY <1>1, <1>6, <1>11, <3>1 DEF ServesFull, ServesThread, Full
    <3>3. ~Has(up, {"open"})
      BY <1>2, <3>1, <3>2
    <3>4. subscribed
      BY <2>4, <3>3 DEF LinkInv, Subscribes
    <3>5. ~FullComing(t)
      BY <1>1, <3>1, <3>3 DEF FullComing, ServesFull, ServesThread
    <3> QED BY <1>1, <1>5, <1>11, <2>4, <3>4, <3>5 DEF Heard
  <2> QED BY <2>1, <2>3, <2>4
<1> QED BY <1>9, <1>10, <1>11

(* The router's steps: what it opens anew brings all of the answer. *)
LEMMA RouterKeeps ==
    ASSUME TypeOK, ReceiveWelcome \/ ReceiveResponse \/ Poll \/ Move,
           NEW t \in Turns, AnswerKept(t)
    PROVE  AnswerKept(t)'
<1> USE DEF server, link, limits, client
<1> DEFINE f == Head(down)
<1>0. /\ down \in Seq(Frames) /\ up \in Seq(Requests) /\ router \in Routers
      /\ UNCHANGED <<status, stream, delivery, bus, online, subscribed, serving, drops, thread,
                     pending, seeded>>
  BY DEF TypeOK, ReceiveWelcome, ReceiveResponse, Poll, Move
<1>1. \/ down' = down /\ (Poll \/ Move)
      \/ /\ down # <<>> /\ down' = Tail(down)
         /\ \/ ReceiveWelcome /\ f.kind = "welcome"
            \/ ReceiveResponse /\ f.kind = "response"
  BY DEF ReceiveWelcome, ReceiveResponse, Arrives, Poll, Move
<1>2. /\ \A S : Has(down', S) => Has(down, S)
      /\ \A S \in {CompletionFrames(t), PartialThreads(t), FullThreads(t)} :
           Has(down, S) => Has(down', S)
  <2>1. CASE down' = down
    BY <2>1
  <2>2. CASE down # <<>> /\ down' = Tail(down) /\ f.kind \in {"welcome", "response"}
    <3>1. \A S : Has(down, S) <=> Has(down', S) \/ f \in S
      BY <1>0, <2>2, HasTail
    <3>2. \A S \in {CompletionFrames(t), PartialThreads(t), FullThreads(t)} : f \notin S
      BY <2>2 DEF CompletionFrames, PartialThreads, FullThreads, ThreadFrames
    <3> HIDE DEF f
    <3> QED BY <3>1, <3>2
  <2> QED BY <1>1, <2>1, <2>2
<1>3. OnWay(t)' <=> OnWay(t)
  BY <1>0, <1>2 DEF OnWay, CDown, CUp
<1>4. PartialComing(t)' => PartialComing(t)
  BY <1>0, <1>2 DEF PartialComing, ServesPartial, ServesThread
<1>5. Welcomed' /\ router'.tracked /\ ~FullComing(t)' => Welcomed /\ router.tracked /\ ~FullComing(t)
  <2> SUFFICES ASSUME Welcomed', router'.tracked, ~FullComing(t)'
               PROVE  Welcomed /\ router.tracked /\ ~FullComing(t)
    OBVIOUS
  <2>1. ~ReceiveWelcome
    <3>1. ~[router EXCEPT !.tracked = FALSE, !.hydrated = FALSE].tracked
      BY <1>0 DEF Routers
    <3> QED BY <3>1 DEF ReceiveWelcome, EnsureScopedSubscriptions
  <2>2. Welcomed
    <3>1. CASE down' = down
      BY <1>0, <3>1 DEF Welcomed
    <3>2. CASE down # <<>> /\ down' = Tail(down) /\ f.kind = "response"
      <4>1. f \notin {Welcome} /\ (Has(down, {Welcome}) <=> Has(down', {Welcome}) \/ f \in {Welcome})
        BY <1>0, <3>2, HasTail DEF Welcome
      <4> HIDE DEF f
      <4> QED BY <1>0, <4>1 DEF Welcomed
    <3> QED BY <1>1, <2>1, <3>1, <3>2
  <2>3. router.tracked /\ (Has(up, {"open"}) => Has(up', {"open"}))
    <3>0. \A x \in Requests : Has(Append(up, x), {"open"}) <=> Has(up, {"open"}) \/ x \in {"open"}
      BY <1>0, HasAppend
    <3>1. CASE Poll
      <4>1. [router EXCEPT !.asking = TRUE].tracked = router.tracked
        BY <1>0 DEF Routers
      <4> QED BY <3>0, <3>1, <4>1 DEF Poll, Requests
    <3>2. CASE ReceiveResponse \/ Move
      <4>1. PICK r \in Routers : r.tracked = router.tracked /\ Settle(r)
        BY <3>2, ChainSettles
      <4>2. \/ router'.tracked = router.tracked /\ up' = up
            \/ ~router'.tracked /\ up' = Append(up, "close")
            \/ router'.tracked /\ ~router.tracked /\ up' = Append(up, "open")
        BY <4>1, SettledAsks
      <4>3. up' # Append(up, "open")
        BY <3>0 DEF FullComing, Requests
      <4> QED BY <4>2, <4>3
    <3> QED BY <2>1, <3>1, <3>2
  <2> QED BY <1>0, <1>2, <2>2, <2>3 DEF FullComing, ServesFull, ServesThread
<1>6. Heard(t)' => Heard(t)
  BY <1>0, <1>3, <1>5 DEF Heard
<1> QED BY <1>0, <1>3, <1>4, <1>6, KeptSame

(* A new connection has to be subscribed to anew. *)
LEMMA OutageKeeps ==
    ASSUME TypeOK, Connect \/ Drop \/ Reload, NEW t \in Turns, AnswerKept(t)
    PROVE  AnswerKept(t)'
<1> USE DEF server, link, limits, client
<1>1. ~subscribed' /\ (~online' \/ pending' = <<>>)
  BY DEF Connect, Drop, Reload
<1>2. online' => ~Has(pending', Parts(t))
  BY <1>1, HasNone
<1> QED BY <1>1, <1>2 DEF AnswerKept, Heard

(* A batch with the answer's last word ... *)
LEMMA FinalKeeps ==
    ASSUME TypeOK, TypeOK', TruthInv', LinkInv', NEW t \in Turns, Stale(t)', Heard(t)',
           NEW s \in Seq(UiEvents), thread' = ApplyEvents(thread, s),
           Has(s, Finals(t)), Closed(s, Finals(t), Parts(t))
    PROVE  Told(t)'
<1>1. thread \in Threads /\ thread' \in Threads /\ thread'.known = thread.known
  BY ApplyEventsType DEF TypeOK
<1>2. CASE thread.known
  <2>1. thread'.known /\ thread'.answers[t].shown /\ ~thread'.answers[t].streaming
    BY <1>1, <1>2, FinalShows
  <2>2. Complete(thread'.answers[t].text)
    BY <2>1 DEF TruthInv, ShownRight, Right
  <2> QED BY <2>1, <2>2 DEF Told, Final, Shown, Fine
<1>3. CASE ~thread.known
  <2>1. ~CDown(t)' /\ (drops' = 0 \/ (Welcomed' /\ router'.tracked))
    BY DEF Heard, OnWay
  <2>2. ~PartialComing(t)'
    BY <1>1, <1>3, <2>1, NothingPartialAheadNext
  <2> QED BY <1>1, <1>3, <2>2 DEF Told, Shown
<1> QED BY <1>2, <1>3

(* ... and one with nothing of it. *)
LEMMA OthersKeep ==
    ASSUME TypeOK, NEW t \in Turns, Told(t), NEW s \in Seq(UiEvents), drops' = drops,
           thread' = thread \/ thread' = ApplyEvents(thread, s), ~Has(s, Parts(t)),
           PartialComing(t)' => PartialComing(t)
    PROVE  Told(t)'
<1>1. thread \in Threads
  BY DEF TypeOK
<1>2. /\ thread'.known = thread.known
      /\ thread.known => thread'.answers[t] = thread.answers[t]
  BY <1>1, NoPartsKept, ApplyEventsType
<1> QED BY <1>2 DEF Told, Shown, Final, Fine

(* A push that has arrived, and a queue that is flushed. *)
LEMMA EventKeeps ==
    ASSUME TypeOK, TypeOK', WordInv, SpinnerInv, TruthInv, TruthInv', LinkInv', ReceiveEvent,
           NEW t \in Turns, Stale(t)', AnswerKept(t)
    PROVE  AnswerKept(t)'
<1> USE DEF server, link, limits, client
<1> DEFINE f == Head(down)
           longer == pending \o Adapt(f.event)
<1>0. /\ down \in Seq(Frames) /\ down # <<>> /\ down' = Tail(down) /\ f.kind = "event"
      /\ UNCHANGED <<status, stream, delivery, bus, online, subscribed, up, serving, drops, router>>
  BY DEF TypeOK, ReceiveEvent, Arrives
<1>1. SUFFICES ASSUME ~CDown(t)' PROVE AnswerKept(t)'
  BY DEF AnswerKept, Heard, OnWay
<1>2. /\ longer \in Seq(UiEvents) /\ Closed(longer, Finals(t), Parts(t))
      /\ \/ pending' = longer /\ thread' = thread
         \/ pending' = <<>> /\ thread' = ApplyEvents(thread, longer)
      /\ t \in seeded' => t \in seeded
      /\ Has(longer, Finals(t)) \/ (~Has(longer, Parts(t)) /\ (t \in seeded => ~OnWay(t)))
  BY <1>1, EventWay
<1> HIDE DEF longer
<1>3. ~OnWay(t)' => ~Has(pending', Parts(t))
  BY <1>2, HasNone DEF OnWay
<1>4. ASSUME Heard(t)' PROVE Told(t)'
  <2>1. ~OnWay(t)' /\ t \in seeded' /\ online' /\ subscribed'
        /\ (drops' = 0 \/ (Welcomed' /\ router'.tracked /\ ~FullComing(t)'))
    BY <1>4 DEF Heard
  <2>2. CASE Has(longer, Finals(t))
    <3>1. thread' = ApplyEvents(thread, longer)
      BY <1>2, <2>1, <2>2 DEF OnWay
    <3> QED BY <1>2, <1>4, <2>2, <3>1, FinalKeeps
  <2>3. CASE ~Has(longer, Finals(t))
    <3>1. \A S \in {{Welcome}, PartialThreads(t), FullThreads(t)} : Has(down, S) <=> Has(down', S)
      <4>1. \A S : Has(down, S) <=> Has(down', S) \/ f \in S
        BY <1>0, HasTail
      <4>2. \A S \in {{Welcome}, PartialThreads(t), FullThreads(t)} : f \notin S
        BY <1>0 DEF Welcome, PartialThreads, FullThreads, ThreadFrames
      <4> HIDE DEF f
      <4> QED BY <4>1, <4>2
    <3>2. PartialComing(t)' => PartialComing(t)
      BY <1>0, <3>1 DEF PartialComing, ServesPartial, ServesThread
    <3>3. Heard(t)
      <4>1. FullComing(t) => FullComing(t)'
        BY <1>0, <3>1 DEF FullComing, ServesFull, ServesThread
      <4>2. Welcomed' => Welcomed
        BY <1>0, <3>1 DEF Welcomed
      <4> QED BY <1>0, <1>2, <2>1, <2>3, <4>1, <4>2 DEF Heard
    <3> QED BY <1>0, <1>2, <2>3, <3>2, <3>3, OthersKeep DEF AnswerKept
  <2> QED BY <2>2, <2>3
<1> QED BY <1>3, <1>4 DEF AnswerKept

LEMMA FlushKeeps ==
    ASSUME TypeOK, TypeOK', WordInv, TruthInv', LinkInv', Flush,
           NEW t \in Turns, Stale(t)', AnswerKept(t)
    PROVE  AnswerKept(t)'
<1> USE DEF server, link, limits, client
<1>0. /\ pending \in Seq(UiEvents) /\ thread \in Threads
      /\ pending' = <<>> /\ thread' = ApplyEvents(thread, Coalesce(pending))
      /\ UNCHANGED <<status, stream, delivery, bus, down, online, subscribed, up, serving, drops,
                     router, seeded>>
  BY DEF TypeOK, Flush
<1>1. ~Has(pending', Parts(t)) /\ ~Has(pending', Finals(t))
  BY <1>0, HasNone
<1>2. Mergeable(pending) /\ Closed(pending, Finals(t), Parts(t))
  BY <1>0, WordsAreMergeable DEF WordInv, LastWord
<1>3. thread' = ApplyEvents(thread, pending)
  BY <1>0, <1>2, CoalesceIsTransparent
<1>4. ASSUME Heard(t)' PROVE Told(t)'
  <2>1. CASE Has(pending, Finals(t))
    BY <1>0, <1>2, <1>3, <1>4, <2>1, FinalKeeps
  <2>2. CASE ~Has(pending, Finals(t))
    <3>1. Heard(t)
      BY <1>0, <1>4, <2>2 DEF Heard, Welcomed, FullComing, ServesFull, ServesThread, OnWay, CDown, CUp
    <3>2. Told(t) /\ ~Has(pending, Parts(t))
      BY <3>1 DEF AnswerKept, Heard
    <3>3. PartialComing(t)' => PartialComing(t)
      BY <1>0 DEF PartialComing, ServesPartial, ServesThread
    <3> QED BY <1>0, <1>3, <3>2, <3>3, OthersKeep
  <2> QED BY <2>1, <2>2
<1> QED BY <1>1, <1>4 DEF AnswerKept

(* The shell's snapshot keeps the answers the client has ... *)
LEMMA ShellKeeps ==
    ASSUME TypeOK, ReceiveShellSnapshot, NEW t \in Turns, AnswerKept(t)
    PROVE  AnswerKept(t)'
<1> USE DEF server, link, limits, client
<1> DEFINE f == Head(down)
<1>0. /\ down \in Seq(Frames) /\ down # <<>> /\ down' = Tail(down) /\ f.kind = "shell"
      /\ thread' = SyncShellSnapshot(thread)
      /\ UNCHANGED <<status, stream, delivery, bus, online, subscribed, up, serving, drops, router,
                     seeded, pending>>
  BY DEF TypeOK, ReceiveShellSnapshot, Arrives
<1>1. \A S \in {CompletionFrames(t), {Welcome}, PartialThreads(t), FullThreads(t)} :
        Has(down, S) <=> Has(down', S)
  <2>1. \A S : Has(down, S) <=> Has(down', S) \/ f \in S
    BY <1>0, HasTail
  <2>2. \A S \in {CompletionFrames(t), {Welcome}, PartialThreads(t), FullThreads(t)} : f \notin S
    BY <1>0 DEF CompletionFrames, Welcome, PartialThreads, FullThreads, ThreadFrames
  <2> HIDE DEF f
  <2> QED BY <2>1, <2>2
<1>2. OnWay(t)' <=> OnWay(t)
  BY <1>0, <1>1 DEF OnWay, CDown, CUp
<1>3. Heard(t)' => Heard(t)
  BY <1>0, <1>1, <1>2 DEF Heard, Welcomed, FullComing, ServesFull, ServesThread
<1>4. PartialComing(t)' => PartialComing(t)
  BY <1>0, <1>1 DEF PartialComing, ServesPartial, ServesThread
<1>5. ASSUME Told(t) PROVE Told(t)'
  <2>1. thread'.known /\ thread'.answers = IF thread.known THEN thread.answers
                                           ELSE [u \in Turns |-> NoMessage]
    BY <1>0 DEF SyncShellSnapshot
  <2>2. CASE thread.known
    BY <1>0, <1>4, <1>5, <2>1, <2>2 DEF Told, Shown, Final, Fine
  <2>3. CASE ~thread.known
    <3>1. ~Shown(t)'
      BY <2>1, <2>3 DEF Shown, NoMessage
    <3> QED BY <1>4, <1>5, <2>3, <3>1 DEF Told, Final, Shown
  <2> QED BY <2>2, <2>3
<1> QED BY <1>0, <1>2, <1>3, <1>5 DEF AnswerKept

(* ... and the thread's, merged into what the client has, brings all that  *)
(* is missing, or less of an answer that is finished already.              *)
LEMMA SnapshotKeeps ==
    ASSUME TypeOK, TypeOK', TruthInv', LinkInv, ReceiveThreadSnapshot,
           NEW t \in Turns, Stale(t), AnswerKept(t)
    PROVE  AnswerKept(t)'
<1> USE DEF server, link, limits, client
<1> DEFINE f == Head(down)
           m == f.snapshot.answers[t]
           live == thread.answers[t]
<1>0. /\ down \in Seq(Frames) /\ down # <<>> /\ down' = Tail(down) /\ f.kind = "thread"
      /\ f \in Frames /\ f \in ThreadFrames /\ f \in SnapFrames
      /\ thread \in Threads /\ router \in Routers
      /\ thread' = SyncThreadSnapshot(thread, f.snapshot)
      /\ router' = [router EXCEPT !.hydrated = TRUE, !.asking = FALSE]
      /\ UNCHANGED <<status, stream, delivery, bus, online, subscribed, up, serving, drops, seeded,
                     pending>>
  <2>1. f \in Frames
    BY HeadAndTail DEF TypeOK, ReceiveThreadSnapshot, Arrives
  <2> QED BY <2>1 DEF TypeOK, ReceiveThreadSnapshot, Arrives, ThreadFrames, SnapFrames
<1>1. /\ \A S : Has(down, S) <=> Has(down', S) \/ f \in S
      /\ f \notin CompletionFrames(t) /\ f \notin {Welcome}
      /\ router'.tracked = router.tracked
  <2>1. \A S : Has(down, S) <=> Has(down', S) \/ f \in S
    BY <1>0, HasTail
  <2> QED BY <1>0, <2>1 DEF CompletionFrames, Welcome, Routers
<1>2. OnWay(t)' <=> OnWay(t)
  BY <1>0, <1>1 DEF OnWay, CDown, CUp
<1>3. SUFFICES ASSUME Heard(t)' PROVE Told(t)'
  BY <1>0, <1>2 DEF AnswerKept
<1>4. /\ online /\ subscribed /\ t \in seeded /\ ~OnWay(t)
      /\ drops = 0 \/ (Welcomed /\ router.tracked /\ ~FullComing(t)')
  BY <1>0, <1>1, <1>2, <1>3 DEF Heard, Welcomed
<1>5. ~PartialComing(t)'
  <2>1. ~CUp(t) /\ ~Has(Tail(down), CompletionFrames(t))
    BY <1>0, <1>1, <1>4 DEF OnWay, CDown
  <2>2. ~ServesPartial(t) /\ ~Has(Tail(down), PartialThreads(t))
    BY <1>0, <2>1, NothingPartialBehind
  <2> QED BY <1>0, <2>2 DEF PartialComing, ServesPartial, ServesThread
<1>6. thread.known
  <2> SUFFICES ASSUME ~thread.known PROVE FALSE
    OBVIOUS
  <2>1. Led(down, ThreadFrames, {Shell})
    BY <1>4 DEF LinkInv, ShellLeads
  <2> QED BY <1>0, <2>1, LinkTaken
<1>7. thread'.known /\ thread'.answers[t] = MergeMessage(thread, t, m)
  BY <1>0, <1>6 DEF SyncThreadSnapshot
<1>8. live.text \in Texts /\ live.shown \in BOOLEAN /\ live.streaming \in BOOLEAN
  BY <1>0, <1>6, MessageOf
<1>9. m.shown \in BOOLEAN
  BY <1>0, FrameFields, SnapshotFields, MessageFields
<1>10. f \notin FullThreads(t) => Heard(t)
  <2>1. f \notin FullThreads(t) => (FullComing(t) => FullComing(t)')
    BY <1>0, <1>1 DEF FullComing, ServesFull, ServesThread
  <2> QED BY <1>4, <2>1 DEF Heard
<1>11. drops = 0 => Heard(t)
  BY <1>4 DEF Heard
<1>12. Heard(t) /\ live.shown => Fine(live.text)
  BY <1>6 DEF AnswerKept, Told, Shown
<1>13. ASSUME thread'.answers[t].shown PROVE Fine(thread'.answers[t].text)
  <2>1. CASE ~m.shown
    <3>1. f \notin FullThreads(t)
      BY <2>1 DEF FullThreads, Full
    <3>2. thread'.answers[t] = live
      BY <1>7, <1>13, <2>1 DEF MergeMessage, NoMessage
    <3> QED BY <1>10, <1>12, <1>13, <3>1, <3>2
  <2>2. CASE m.shown /\ m.text = Answer
    <3>1. CASE thread'.answers[t] = m
      BY <2>2, <3>1, AnswerIsComplete DEF Fine
    <3>2. CASE thread'.answers[t] # m
      <4>1. thread'.answers[t] = live /\ live.shown /\ (Len(live.text) > Len(Answer) \/ ~live.streaming)
        BY <1>7, <2>2, <3>2 DEF MergeMessage
      <4>2. CASE ~live.streaming
        <5>1. Complete(thread'.answers[t].text)
          BY <1>7, <1>13, <4>1, <4>2 DEF TruthInv, ShownRight, Right
        <5> QED BY <5>1 DEF Fine
      <4>3. CASE Len(live.text) > Len(Answer) /\ drops > 0
        <5>1. Len(Answer) = Chunks
          BY ClientSyncAssumption DEF Answer
        <5> QED BY <4>1, <4>3, <5>1 DEF Fine
      <4>4. CASE ~(drops > 0)
        <5>1. drops = 0
          BY <4>4 DEF TypeOK
        <5> QED BY <1>11, <1>12, <4>1, <5>1
      <4> QED BY <4>1, <4>2, <4>3, <4>4
    <3> QED BY <3>1, <3>2
  <2>3. CASE m.shown /\ m.text # Answer
    <3>1. f \notin FullThreads(t) /\ f \in PartialThreads(t)
      BY <1>0, <2>3 DEF FullThreads, Full, PartialThreads, Partial
    <3>2. PartialComing(t)
      BY <1>1, <3>1 DEF PartialComing
    <3>3. Final(t)
      BY <1>10, <3>1, <3>2 DEF AnswerKept, Told
    <3>4. thread'.answers[t] = live /\ live.shown
      BY <1>7, <2>3, <3>3 DEF Final, Shown, MergeMessage
    <3> QED BY <1>10, <1>12, <3>1, <3>4
  <2> QED BY <1>9, <2>1, <2>2, <2>3
<1>14. (Shown(t) => Fine(thread.answers[t].text))'
  BY <1>0, <1>13 DEF Shown, Fine
<1> QED BY <1>5, <1>14 DEF Told

(* What the server does on its own takes nothing off the way. *)
LEMMA ServerKeeps ==
    ASSUME TypeOK, [Next]_vars, ~DeliverPush, delivery' \in {delivery, "ended"},
           UNCHANGED <<online, subscribed, up, down, serving, drops, client>>,
           NEW t \in Turns, AnswerKept(t)
    PROVE  AnswerKept(t)'
<1> USE DEF client
<1>1. online' /\ ~OnWay(t)' => ~OnWay(t)
  BY WayStays
<1>2. Heard(t)' => Heard(t)
  BY <1>1 DEF Heard, Welcomed, FullComing, ServesFull, ServesThread
<1>3. PartialComing(t)' => PartialComing(t)
  BY DEF PartialComing, ServesPartial, ServesThread
<1> QED BY <1>1, <1>2, <1>3, KeptSame

LEMMA KeptStep ==
    ASSUME TypeOK, TypeOK', WordInv, Unheard, SpinnerInv, TruthInv, TruthInv', LinkInv, LinkInv',
           [Next]_vars,
           NEW t \in Turns, Stale(t), Stale(t)', AnswerKept(t)
    PROVE  AnswerKept(t)'
<1>1. CASE DeliverPush
  BY <1>1, PushKeeps
<1>2. CASE SendResponse
  BY <1>2, SendKeeps
<1>3. CASE ServeRequest
  BY <1>3, ServeKeeps
<1>4. CASE ReceiveEvent
  BY <1>4, EventKeeps
<1>5. CASE Flush
  BY <1>5, FlushKeeps
<1>6. CASE ReceiveShellSnapshot
  BY <1>6, ShellKeeps
<1>7. CASE ReceiveThreadSnapshot
  BY <1>7, SnapshotKeeps
<1>8. CASE ReceiveWelcome \/ ReceiveResponse \/ Poll \/ Move
  BY <1>8, RouterKeeps
<1>9. CASE Connect \/ Drop \/ Reload
  BY <1>9, OutageKeeps
<1>10. ASSUME ~DeliverPush,
              \/ UNCHANGED vars \/ PublishCommandEvent \/ PublishProviderEvent
              \/ OtherPushesOvertake
              \/ \E u \in Turns : \/ StartTurn(u) \/ CancelTurn(u)
                                  \/ ProviderDelta(u) \/ ProviderCompletes(u) \/ ProviderFails(u)
       PROVE  AnswerKept(t)'
  <2>1. /\ UNCHANGED <<online, subscribed, up, down, serving, drops, client>>
        /\ delivery' \in {delivery, "ended"}
    BY <1>10 DEF vars, link, limits, PublishCommandEvent, PublishProviderEvent, StartTurn, CancelTurn,
       ProviderDelta, ProviderCompletes, ProviderFails, Broadcast, OtherPushesOvertake, DeliveryEnds
  <2> QED BY <1>10, <2>1, ServerKeeps
<1>11. CASE DeliveryStarts
  <2>1. /\ delivery = "starting" /\ subscribed' = subscribed /\ pending' = pending
        /\ subscribed => delivery' # "prompt"
    BY <1>11 DEF DeliveryStarts, client
  <2>2. ~Has(pending', Parts(t))
    BY <2>1, HasNone DEF Unheard
  <2>3. subscribed => OnWay(t)'
    BY <2>1 DEF OnWay, CDown, CUp
  <2> QED BY <2>1, <2>2, <2>3 DEF AnswerKept, Heard
<1> QED BY <1>1, <1>2, <1>3, <1>4, <1>5, <1>6, <1>7, <1>8, <1>9, <1>10, <1>11
        DEF Next, ServerStep, ClientStep

AnswerInv == \A t \in Turns : Stale(t) /\ AnswerKept(t)

LEMMA AnswerInit == Init => AnswerInv
<1> SUFFICES ASSUME Init, NEW t \in Turns PROVE AnswerKept(t)
  BY StaleInit DEF AnswerInv
<1>1. ~online
  BY DEF Init
<1> QED BY <1>1 DEF AnswerKept, Heard

(* A client that hears nothing more and follows the thread, of a turn that *)
(* it has seen start and that has completed, shows no gap, provided that   *)
(* the connection's delivery task was on the bus before the connection was *)
(* subscribed, and has not been overtaken: all that was pushed since then  *)
(* has arrived, the last word of the turn behind every piece; a            *)
(* snapshot older than the turn's end is followed by that end; and what    *)
(* was lost with a connection is in the snapshot that the new one's        *)
(* subscription brings, unless the text on the screen is longer than the   *)
(* whole answer, by a piece that it has twice.                             *)
THEOREM AnswersAreComplete == Spec => []QuietAnswerComplete
<1> DEFINE Inv == /\ TypeOK /\ HydrationInv /\ WordInv /\ Unheard /\ SpinnerInv
                  /\ TruthInv /\ LinkInv /\ AnswerInv
<1>1. Init => Inv
  BY TypeInit, HydrationInit, WordInit, UnheardInit, SpinnerInit, TruthInit, LinkInit, AnswerInit
<1>2. Inv /\ [Next]_vars => Inv'
  <2> SUFFICES ASSUME Inv, [Next]_vars PROVE Inv'
    OBVIOUS
  <2>1. TypeOK' /\ HydrationInv' /\ WordInv' /\ Unheard' /\ SpinnerInv' /\ TruthInv' /\ LinkInv'
    BY TypeStep, HydrationStep, WordStep, UnheardStep, SpinnerStep, TruthStep, LinkStep
  <2>2. ASSUME NEW t \in Turns PROVE Stale(t)' /\ AnswerKept(t)'
    <3>1. Stale(t) /\ AnswerKept(t)
      BY DEF AnswerInv
    <3>2. Stale(t)'
      BY <3>1, StaleStep
    <3> QED BY <2>1, <3>1, <3>2, KeptStep
  <2>3. AnswerInv'
    BY <2>2 DEF AnswerInv
  <2> QED BY <2>1, <2>3
<1>3. Inv => QuietAnswerComplete
  <2> SUFFICES ASSUME TypeOK, LinkInv, AnswerInv, NEW t \in Turns, Quiet, delivery = "prompt",
                      router.tracked, t \in seeded, status[t] = "completed", thread.answers[t].shown
               PROVE  LET text == thread.answers[t].text IN
                      Complete(text) \/ (drops > 0 /\ Doubled(text))
    BY DEF QuietAnswerComplete
  <2> DEFINE text == thread.answers[t].text
  <2>1. \A S : ~Has(up, S) /\ ~Has(down, S) /\ ~Has(bus, S) /\ ~Has(stream, S) /\ ~Has(pending, S)
    BY HasNone DEF Quiet
  <2>2. Welcomed /\ serving.request = "none"
    BY <2>1 DEF Welcomed, Quiet, NoRequest
  <2>3. subscribed
    BY <2>1, <2>2 DEF LinkInv, Subscribes
  <2>4. thread.known
    BY <2>1, <2>2 DEF LinkInv, ShellAhead
  <2>5. ~OnWay(t) /\ ~FullComing(t)
    BY <2>1, <2>2 DEF OnWay, CDown, CUp, FullComing, ServesFull, ServesThread
  <2>6. Heard(t)
    BY <2>2, <2>3, <2>5 DEF Heard, Welcomed
  <2>7. Fine(text)
    BY <2>4, <2>6 DEF AnswerInv, AnswerKept, Told, Shown
  <2>8. text \in Texts
    BY <2>4, MessageOf DEF TypeOK
  <2> QED BY <2>7, <2>8, LongerIsDoubled DEF Fine
<1> QED BY <1>1, <1>2, <1>3, PTL DEF Spec

=============================================================================
