-------------------------- MODULE WsTransportProofs --------------------------
(***************************************************************************)
(* What holds of WsTransport for any requests, any number of sockets and   *)
(* any number of closes.                                                   *)
(***************************************************************************)
EXTENDS WsTransport, TLAPS

(* A waiting request stands in one queue, at one place. *)
WaitersOK ==
    /\ \A s \in Sockets : \A i \in DOMAIN waiters[s] : phase[waiters[s][i]] = "waiting"
    /\ \A s, t \in Sockets : \A i \in DOMAIN waiters[s], j \in DOMAIN waiters[t] :
         waiters[s][i] = waiters[t][j] => s = t /\ i = j

(* A frame in flight and an entry of the same id are of the same request. *)
Matches(f, next, entries) ==
    f.id < next /\ \A p \in entries : p.id = f.id => p.request = f.request

FramesOK ==
    /\ \A p \in pending : p.id < nextId
    /\ \A s \in Sockets :
         /\ \A i \in DOMAIN up[s] : Matches(up[s][i], nextId, pending)
         /\ \A i \in DOMAIN down[s] : Matches(down[s][i], nextId, pending)

(* What makes the two properties of requests inductive. *)
CallsInv == TypeOK /\ WaitersOK /\ FramesOK /\ PendingIsAwaited /\ OwnAnswer

(* What makes NeverStranded inductive: without a current socket a timer is  *)
(* running, because whatever forgot the socket started one and a timer that *)
(* has fired since would have opened another.                               *)
AliveInv ==
    /\ TypeOK
    /\ current # NoSocket => status[current] \in {"connecting", "open", "closing"}
    /\ current = NoSocket /\ ~disposed => timers > 0

-----------------------------------------------------------------------------
(* The frames of a queue of requests: as many, numbered from nextId.       *)
LEMMA FramesType ==
    ASSUME nextId \in Nat \ {0}, NEW q \in Seq(Requests)
    PROVE  /\ Frames(q) \in Seq(Frame)
           /\ DOMAIN Frames(q) = DOMAIN q
           /\ \A k \in DOMAIN q : /\ Frames(q)[k].id = nextId + k - 1
                                  /\ Frames(q)[k].request = q[k]
<1>1. \A k \in DOMAIN q : [id |-> nextId + k - 1, request |-> q[k]] \in Frame
  BY DEF Frame
<1>2. Frames(q) = [k \in 1..Len(q) |-> [id |-> nextId + k - 1, request |-> q[k]]]
  BY DEF Frames, IdsFor
<1>3. Frames(q) \in Seq(Frame)
  BY <1>1, <1>2
<1> QED BY <1>2, <1>3

(* Sending keeps the types. *)
LEMMA SendType ==
    ASSUME TypeOK, NEW q \in Seq(Requests), NEW st, Send(q, st)
    PROVE  /\ nextId' \in Nat \ {0}
           /\ pending' \subseteq Frame
           /\ phase' \in [Requests -> Phases]
           /\ answers' \in [Requests -> SUBSET Requests]
           /\ up' \in [Sockets -> Seq(Frame)]
           /\ down' \in [Sockets -> Seq(Frame)]
<1>1. Frames(q) \in Seq(Frame) /\ Range(Frames(q)) \subseteq Frame
  BY FramesType DEF TypeOK, Range
<1>2. nextId' \in Nat \ {0}
  BY DEF Send, TypeOK
<1>3. pending' \subseteq Frame
  BY <1>1 DEF Send, TypeOK
<1>4. phase' \in [Requests -> Phases]
  BY DEF Send, TypeOK, Phases
<1>5. up' \in [Sockets -> Seq(Frame)]
  <2>1. \A s \in Sockets : up[s] \o Frames(q) \in Seq(Frame)
    BY <1>1 DEF TypeOK
  <2> QED BY <2>1 DEF Send, TypeOK
<1> QED BY <1>2, <1>3, <1>4, <1>5 DEF Send, TypeOK

LEMMA InitType == ASSUME Init PROVE TypeOK
<1>1. 1 \in Sockets
  BY TransportAssumption DEF Sockets
<1>2. /\ waiters \in [Sockets -> Seq(Requests)]
      /\ up \in [Sockets -> Seq(Frame)] /\ down \in [Sockets -> Seq(Frame)]
  BY DEF Init
<1>3. status \in [Sockets -> Statuses] /\ phase \in [Requests -> Phases]
  BY DEF Init, Statuses, Phases
<1>4. answers \in [Requests -> SUBSET Requests]
  BY DEF Init
<1>5. {current, connect} \subseteq Sockets \cup {NoSocket} /\ opened \in Sockets
  BY <1>1 DEF Init
<1>6. state \in States /\ disposed \in BOOLEAN /\ timers \in Nat /\ byTimer \subseteq Sockets
  BY DEF Init, States
<1>7. nextId \in Nat \ {0} /\ pending \subseteq Frame /\ drops \in Nat
  BY DEF Init
<1> QED BY <1>1, <1>2, <1>3, <1>4, <1>5, <1>6, <1>7 DEF TypeOK

LEMMA OpenSessionType ==
    ASSUME TypeOK, OpenSession
    PROVE  /\ opened' \in Sockets
           /\ status' \in [Sockets -> Statuses]
           /\ {current', connect'} \subseteq Sockets \cup {NoSocket}
           /\ current' = opened' /\ connect' = opened'
           /\ status'[opened'] = "connecting"
           /\ state' \in States
<1>1. opened' \in Sockets
  BY TransportAssumption DEF OpenSession, TypeOK, Sockets
<1> QED BY <1>1 DEF OpenSession, TypeOK, Statuses, States

(* Type correctness is preserved by every step. *)
LEMMA TypeStep == ASSUME TypeOK, [Next]_vars PROVE TypeOK'
<1> USE DEF Statuses, States, Phases
<1>1. ASSUME NEW s \in Sockets, SocketOpens(s) PROVE TypeOK'
  <2>1. waiters[s] \in Seq(Requests)
    BY DEF TypeOK
  <2>2. Send(waiters[s], status')
    BY <1>1 DEF SocketOpens
  <2>3. /\ nextId' \in Nat \ {0} /\ pending' \subseteq Frame /\ phase' \in [Requests -> Phases]
        /\ answers' \in [Requests -> SUBSET Requests]
        /\ up' \in [Sockets -> Seq(Frame)] /\ down' \in [Sockets -> Seq(Frame)]
    BY <2>1, <2>2, SendType
  <2>4. waiters' \in [Sockets -> Seq(Requests)] /\ status' \in [Sockets -> Statuses]
    BY <1>1 DEF SocketOpens, TypeOK
  <2> QED BY <1>1, <2>3, <2>4 DEF SocketOpens, TypeOK
<1>2. ASSUME NEW s \in Sockets, CloseBegins(s) PROVE TypeOK'
  BY <1>2 DEF CloseBegins, TypeOK, calls, wires
<1>3. ASSUME NEW s \in Sockets, SocketCloses(s) PROVE TypeOK'
  <2>1. /\ drops' \in Nat /\ timers' \in Nat
        /\ byTimer' \subseteq Sockets
        /\ {current', connect'} \subseteq Sockets \cup {NoSocket}
    BY <1>3 DEF SocketCloses, TypeOK, TimersAfterClose
  <2>2. phase' \in [Requests -> Phases] /\ waiters' \in [Sockets -> Seq(Requests)]
    BY <1>3 DEF SocketCloses, TypeOK
  <2>3. up' \in [Sockets -> Seq(Frame)] /\ down' \in [Sockets -> Seq(Frame)]
    BY <1>3 DEF SocketCloses, TypeOK
  <2> QED BY <1>3, <2>1, <2>2, <2>3 DEF SocketCloses, TypeOK
<1>4. ASSUME NEW s \in Sockets, ServerAnswers(s) PROVE TypeOK'
  <2>1. up[s] \in Seq(Frame) /\ down[s] \in Seq(Frame) /\ up[s] # <<>>
    BY <1>4 DEF ServerAnswers, TypeOK
  <2>2. Tail(up[s]) \in Seq(Frame) /\ Append(down[s], Head(up[s])) \in Seq(Frame)
    BY <2>1
  <2> QED BY <1>4, <2>2 DEF ServerAnswers, TypeOK, session, calls
<1>5. ASSUME NEW s \in Sockets, HandleResponse(s) PROVE TypeOK'
  <2>1. down[s] \in Seq(Frame) /\ down[s] # <<>>
    BY <1>5 DEF HandleResponse, TypeOK
  <2>2. Tail(down[s]) \in Seq(Frame) /\ Head(down[s]).request \in Requests
    <3>1. Tail(down[s]) \in Seq(Frame) /\ Head(down[s]) \in Frame
      BY <2>1
    <3> QED BY <3>1 DEF Frame
  <2>3. pending' \subseteq Frame /\ phase' \in [Requests -> Phases]
    BY <1>5 DEF HandleResponse, TypeOK
  <2>4. answers' \in [Requests -> SUBSET Requests]
    BY <1>5, <2>2 DEF HandleResponse, TypeOK
  <2> QED BY <1>5, <2>2, <2>3, <2>4 DEF HandleResponse, TypeOK, session
<1>6. ASSUME NEW r \in Requests, Call(r) PROVE TypeOK'
  <2>1. CASE disposed
    BY <1>6, <2>1 DEF Call, TypeOK, session, wires
  <2>2. CASE ~disposed /\ current \in OpenSockets
    <3>1. Send(<<r>>, status) /\ UNCHANGED session /\ UNCHANGED <<disposed, drops>>
      BY <1>6, <2>2 DEF Call
    <3>2. <<r>> \in Seq(Requests)
      OBVIOUS
    <3> QED BY <3>1, <3>2, SendType DEF TypeOK, session
  <2>3. CASE ~disposed /\ current \notin OpenSockets
    <3>1. /\ opened' \in Sockets
          /\ status' \in [Sockets -> Statuses]
          /\ {current', connect'} \subseteq Sockets \cup {NoSocket}
          /\ connect' \in Sockets
          /\ state' \in States
      BY <1>6, <2>3, OpenSessionType DEF Call, TypeOK
    <3>2. Append(waiters[connect'], r) \in Seq(Requests)
      BY <3>1 DEF TypeOK
    <3>3. waiters' \in [Sockets -> Seq(Requests)]
      BY <1>6, <2>3, <3>1, <3>2 DEF Call, TypeOK
    <3> QED BY ZenonT(30), <1>6, <2>3, <3>1, <3>3 DEF Call, TypeOK, wires
  <2> QED BY <2>1, <2>2, <2>3
<1>7. ASSUME TimerFires PROVE TypeOK'
  <2>1. timers' \in Nat
    BY <1>7 DEF TimerFires, TypeOK
  <2>2. CASE disposed
    BY <1>7, <2>1, <2>2 DEF TimerFires, TypeOK, calls, wires
  <2>3. CASE ~disposed
    BY <1>7, <2>1, <2>3, OpenSessionType DEF TimerFires, TypeOK, calls, wires
  <2> QED BY <2>2, <2>3
<1>8. ASSUME Dispose PROVE TypeOK'
  <2>1. up' \in [Sockets -> Seq(Frame)] /\ down' \in [Sockets -> Seq(Frame)]
    BY <1>8 DEF Dispose, TypeOK
  <2> QED BY <1>8, <2>1 DEF Dispose, TypeOK
<1>9. CASE UNCHANGED vars
  BY <1>9 DEF vars, TypeOK
<1> QED BY <1>1, <1>2, <1>3, <1>4, <1>5, <1>6, <1>7, <1>8, <1>9 DEF Next

(* Sockets, queues, ids and frames keep their types for ever. *)
THEOREM TypeCorrect == Spec => []TypeOK
<1>1. Init => TypeOK
  BY InitType
<1>2. TypeOK /\ [Next]_vars => TypeOK'
  BY TypeStep
<1> QED BY <1>1, <1>2, PTL DEF Spec

-----------------------------------------------------------------------------
LEMMA AliveStep == ASSUME AliveInv, [Next]_vars PROVE AliveInv'
<1>0. TypeOK /\ TypeOK'
  BY TypeStep DEF AliveInv
<1> USE DEF NoSocket, Sockets
<1>1. ASSUME NEW s \in Sockets, SocketOpens(s) PROVE AliveInv'
  BY <1>0, <1>1 DEF SocketOpens, AliveInv, TypeOK
<1>2. ASSUME NEW s \in Sockets, CloseBegins(s) PROVE AliveInv'
  BY <1>0, <1>2 DEF CloseBegins, AliveInv, TypeOK
<1>3. ASSUME NEW s \in Sockets, SocketCloses(s) PROVE AliveInv'
  BY <1>0, <1>3 DEF SocketCloses, AliveInv, TypeOK, TimersAfterClose
<1>4. ASSUME NEW s \in Sockets, ServerAnswers(s) \/ HandleResponse(s) PROVE AliveInv'
  BY <1>0, <1>4 DEF ServerAnswers, HandleResponse, AliveInv, session
<1>5. ASSUME NEW r \in Requests, Call(r) PROVE AliveInv'
  <2>1. CASE UNCHANGED <<status, current, timers, disposed>>
    BY <1>0, <2>1 DEF AliveInv
  <2>2. CASE OpenSession /\ UNCHANGED <<timers, disposed>>
    <3>1. current' = opened' /\ status'[opened'] = "connecting" /\ opened' \in Sockets
      BY <1>0, <2>2, OpenSessionType
    <3> QED BY <1>0, <3>1 DEF AliveInv
  <2> QED BY <1>5, <2>1, <2>2 DEF Call, session
<1>6. ASSUME TimerFires PROVE AliveInv'
  <2>1. CASE disposed
    BY <1>0, <1>6, <2>1 DEF TimerFires, AliveInv
  <2>2. CASE OpenSession /\ ~disposed
    <3>1. current' = opened' /\ status'[opened'] = "connecting" /\ opened' \in Sockets
      BY <1>0, <2>2, OpenSessionType
    <3> QED BY <1>0, <3>1 DEF AliveInv
  <2> QED BY <1>6, <2>1, <2>2 DEF TimerFires
<1>7. ASSUME Dispose PROVE AliveInv'
  BY <1>0, <1>7 DEF Dispose, AliveInv
<1>8. CASE UNCHANGED vars
  BY <1>0, <1>8 DEF vars, AliveInv
<1> QED BY <1>1, <1>2, <1>3, <1>4, <1>5, <1>6, <1>7, <1>8 DEF Next

(* No sequence of closes, reconnects and calls leaves a transport without a *)
(* socket and without a timer that will open one.                          *)
THEOREM NeverStrandedTheorem == Spec => []NeverStranded
<1>1. Init => AliveInv
  BY InitType DEF Init, AliveInv, TypeOK, NoSocket
<1>2. AliveInv /\ [Next]_vars => AliveInv'
  BY AliveStep
<1>3. AliveInv => NeverStranded
  BY DEF AliveInv, NeverStranded, TypeOK
<1> QED BY <1>1, <1>2, <1>3, PTL DEF Spec

-----------------------------------------------------------------------------
(* Sending requests that nobody has settled or sent before. *)
LEMMA SendCalls ==
    ASSUME CallsInv, NEW q \in Seq(Requests), NEW st, Send(q, st), UNCHANGED current,
           \A i \in DOMAIN q : phase[q[i]] \in {"idle", "waiting"},
           \A i, j \in DOMAIN q : q[i] = q[j] => i = j
    PROVE  /\ FramesOK' /\ PendingIsAwaited' /\ OwnAnswer'
           /\ \A r \in Requests \ Range(q) : phase'[r] = phase[r]
<1> DEFINE fs == Frames(q)
<1>0. TypeOK
  BY DEF CallsInv
<1>1. /\ fs \in Seq(Frame)
      /\ DOMAIN fs = DOMAIN q
      /\ \A k \in DOMAIN q : fs[k].id = nextId + k - 1 /\ fs[k].request = q[k]
  BY <1>0, FramesType DEF TypeOK
<1>2. nextId \in Nat /\ nextId' = nextId + Len(q) /\ nextId' >= nextId
  BY <1>0 DEF Send, TypeOK
<1>3. \A k \in DOMAIN q : fs[k].id >= nextId /\ fs[k].id < nextId'
  BY <1>1, <1>2
<1>4. \A p \in pending : p.id \in Nat /\ p.id < nextId
  BY <1>0 DEF CallsInv, FramesOK, TypeOK, Frame
<1> HIDE DEF fs
<1>5. \A r \in Requests \ Range(q) : phase'[r] = phase[r]
  BY DEF Send
<1>6. OwnAnswer'
  <2> SUFFICES ASSUME NEW r \in Requests
               PROVE  answers'[r] = IF phase'[r] = "answered" THEN {r} ELSE {}
    BY DEF OwnAnswer
  <2>1. answers'[r] = answers[r]
    BY DEF Send
  <2>2. CASE r \in Range(q)
    BY <2>1, <2>2 DEF Send, Range, CallsInv, OwnAnswer
  <2>3. CASE r \notin Range(q)
    BY <1>5, <2>1, <2>3 DEF CallsInv, OwnAnswer
  <2> QED BY <2>2, <2>3
<1>7. CASE current \in {s \in Sockets : st[s] = "connecting"}
  <2>1. pending' = pending /\ up' = up /\ down' = down
    BY <1>7 DEF Send
  <2>2. \A r \in Requests : phase'[r] = "pending" <=> phase[r] = "pending"
    BY <1>5, <1>7 DEF Send, Range
  <2>3. PendingIsAwaited'
    BY <2>1, <2>2 DEF CallsInv, PendingIsAwaited
  <2>4. \A f \in Frame : Matches(f, nextId, pending) => Matches(f, nextId', pending')
    BY <1>2, <2>1 DEF Matches, Frame
  <2>5. FramesOK'
    BY <1>0, <1>2, <1>4, <2>1, <2>4 DEF CallsInv, FramesOK, TypeOK
  <2> QED BY <1>5, <1>6, <2>3, <2>5
<1>8. CASE current \notin {s \in Sockets : st[s] = "connecting"}
  <2>1. pending' = pending \cup Range(fs) /\ down' = down
    BY <1>8 DEF Send, fs
  <2>2. \A r \in Requests : phase'[r] = "pending" <=> phase[r] = "pending" \/ r \in Range(q)
    BY <1>5, <1>8 DEF Send
  <2>3. {p.request : p \in Range(fs)} = Range(q)
    BY <1>1 DEF Range
  <2>4. {p.request : p \in pending'} = {r \in Requests : phase'[r] = "pending"}
    <3>1. {p.request : p \in pending'} = {p.request : p \in pending} \cup Range(q)
      BY <2>1, <2>3
    <3>2. Range(q) \subseteq Requests
      BY DEF Range
    <3> QED BY <2>2, <3>1, <3>2 DEF CallsInv, PendingIsAwaited
  <2>5. \A p, g \in Range(fs) : p.id = g.id \/ p.request = g.request => p = g
    BY <1>1, <1>2 DEF Range
  <2>6. \A p \in pending, g \in Range(fs) : p.id # g.id /\ p.request # g.request
    <3> SUFFICES ASSUME NEW p \in pending, NEW k \in DOMAIN q
                 PROVE  p.id # fs[k].id /\ p.request # fs[k].request
      BY <1>1 DEF Range
    <3>1. p.id # fs[k].id
      BY <1>1, <1>2, <1>3, <1>4
    <3>2. p.request \in {r \in Requests : phase[r] = "pending"}
      BY DEF CallsInv, PendingIsAwaited
    <3> QED BY <1>1, <3>1, <3>2
  <2>7. PendingIsAwaited'
    BY <2>1, <2>4, <2>5, <2>6 DEF CallsInv, PendingIsAwaited
  <2>8. \A f \in Frame : Matches(f, nextId, pending) => Matches(f, nextId', pending')
    <3>0. \A f \in Frame : f.id < nextId => f.id < nextId'
      BY <1>2 DEF Frame
    <3> SUFFICES ASSUME NEW f \in Frame, Matches(f, nextId, pending), NEW p \in pending', p.id = f.id
                 PROVE  p.request = f.request
      BY <3>0 DEF Matches
    <3>1. f.id \in Nat /\ f.id < nextId
      BY DEF Matches, Frame
    <3>2. p \in pending
      BY <1>1, <1>2, <1>3, <2>1, <3>1 DEF Range
    <3> QED BY <1>2, <3>1, <3>2 DEF Matches
  <2>9. \A k \in DOMAIN q : Matches(fs[k], nextId', pending')
    <3> SUFFICES ASSUME NEW k \in DOMAIN q, NEW p \in pending', p.id = fs[k].id
                 PROVE  p.request = fs[k].request
      BY <1>1, <1>3 DEF Matches
    <3>1. p \in Range(fs)
      BY <1>1, <1>2, <1>3, <1>4, <2>1
    <3>2. fs[k] \in Range(fs)
      BY <1>1 DEF Range
    <3> QED BY <2>5, <3>1, <3>2
  <2>10. \A p \in pending' : p.id < nextId'
    BY <1>1, <1>2, <1>3, <1>4, <2>1 DEF Range
  <2>11. ASSUME NEW s \in Sockets, NEW i \in DOMAIN up'[s] PROVE Matches(up'[s][i], nextId', pending')
    <3>1. up[s] \in Seq(Frame)
      BY <1>0 DEF TypeOK
    <3>2. CASE up'[s] = up[s]
      BY <2>8, <2>11, <3>1, <3>2 DEF CallsInv, FramesOK
    <3>3. CASE up'[s] = up[s] \o fs
      <4>1. CASE i <= Len(up[s])
        <5>1. i \in DOMAIN up[s] /\ up'[s][i] = up[s][i]
          BY <1>1, <2>11, <3>1, <3>3, <4>1
        <5> QED BY <2>8, <3>1, <5>1 DEF CallsInv, FramesOK
      <4>2. CASE i > Len(up[s])
        <5>1. i - Len(up[s]) \in DOMAIN fs /\ up'[s][i] = fs[i - Len(up[s])]
          BY <1>1, <2>11, <3>1, <3>3, <4>2
        <5> QED BY <1>1, <2>9, <5>1
      <4>3. i \in Nat /\ Len(up[s]) \in Nat
        BY <1>1, <2>11, <3>1, <3>3
      <4> QED BY <4>1, <4>2, <4>3
    <3> QED BY <1>0, <3>2, <3>3 DEF Send, TypeOK, fs
  <2>12. ASSUME NEW s \in Sockets, NEW i \in DOMAIN down'[s]
         PROVE  Matches(down'[s][i], nextId', pending')
    <3>1. down'[s] = down[s] /\ down[s] \in Seq(Frame)
      BY <1>0, <2>1 DEF TypeOK
    <3>2. down[s][i] \in Frame /\ Matches(down[s][i], nextId, pending)
      BY <2>12, <3>1 DEF CallsInv, FramesOK
    <3> QED BY <2>8, <3>1, <3>2
  <2>13. FramesOK'
    BY <2>10, <2>11, <2>12 DEF FramesOK
  <2> QED BY <1>5, <1>6, <2>7, <2>13
<1> QED BY <1>7, <1>8

(* Frames stay as well matched when there are fewer of them, or of entries. *)
LEMMA FewerMatches ==
    ASSUME NEW f, NEW n, NEW P, NEW Q, Q \subseteq P, Matches(f, n, P)
    PROVE  Matches(f, n, Q)
  BY DEF Matches

LEMMA CallsUnchanged ==
    ASSUME CallsInv, UNCHANGED <<waiters, nextId, pending, phase, answers, up, down>>
    PROVE  WaitersOK' /\ FramesOK' /\ PendingIsAwaited' /\ OwnAnswer'
<1>1. WaitersOK'
  BY DEF CallsInv, WaitersOK
<1>2. FramesOK'
  BY DEF CallsInv, FramesOK
<1>3. PendingIsAwaited' /\ OwnAnswer'
  BY DEF CallsInv, PendingIsAwaited, OwnAnswer
<1> QED BY <1>1, <1>2, <1>3

LEMMA CallsStep == ASSUME CallsInv, [Next]_vars PROVE CallsInv'
<1>0. TypeOK /\ TypeOK'
  BY TypeStep DEF CallsInv
<1> DEFINE Inv == WaitersOK /\ FramesOK /\ PendingIsAwaited /\ OwnAnswer
<1> SUFFICES Inv'
  BY <1>0 DEF CallsInv
<1>1. ASSUME NEW s \in Sockets, SocketOpens(s) PROVE Inv'
  <2>1. waiters[s] \in Seq(Requests) /\ waiters \in [Sockets -> Seq(Requests)]
    BY <1>0 DEF TypeOK
  <2>2. /\ \A i \in DOMAIN waiters[s] : phase[waiters[s][i]] \in {"idle", "waiting"}
        /\ \A i, j \in DOMAIN waiters[s] : waiters[s][i] = waiters[s][j] => i = j
    BY DEF CallsInv, WaitersOK
  <2>3. Send(waiters[s], status') /\ UNCHANGED current /\ waiters' = [waiters EXCEPT ![s] = <<>>]
    BY <1>1 DEF SocketOpens
  <2>4. /\ FramesOK' /\ PendingIsAwaited' /\ OwnAnswer'
        /\ \A r \in Requests \ Range(waiters[s]) : phase'[r] = phase[r]
    BY <2>1, <2>2, <2>3, SendCalls
  <2>5. \A t \in Sockets : \A i \in DOMAIN waiters'[t] :
          t # s /\ i \in DOMAIN waiters[t] /\ waiters'[t][i] = waiters[t][i]
    BY <2>1, <2>3
  <2>6. \A t \in Sockets : \A i \in DOMAIN waiters'[t] :
          waiters[t][i] \in Requests \ Range(waiters[s])
    BY <2>1, <2>5 DEF CallsInv, WaitersOK, Range
  <2>7. WaitersOK'
    BY <2>4, <2>5, <2>6 DEF CallsInv, WaitersOK
  <2> QED BY <2>4, <2>7
<1>2. ASSUME NEW s \in Sockets, CloseBegins(s) PROVE Inv'
  BY <1>2, CallsUnchanged DEF CloseBegins, calls, wires
<1>3. ASSUME NEW s \in Sockets, SocketCloses(s) PROVE Inv'
  <2> DEFINE rejects == connect # NoSocket /\ status[s] = "connecting"
  <2>1. /\ phase' = [r \in Requests |->
                       IF rejects /\ r \in Range(waiters[s]) THEN "rejected" ELSE phase[r]]
        /\ waiters' = IF rejects THEN [waiters EXCEPT ![s] = <<>>] ELSE waiters
        /\ up' = [up EXCEPT ![s] = <<>>] /\ down' = [down EXCEPT ![s] = <<>>]
        /\ UNCHANGED <<nextId, pending, answers>>
    BY <1>3 DEF SocketCloses
  <2>2. \A r \in Range(waiters[s]) : phase[r] = "waiting"
    BY DEF CallsInv, WaitersOK, Range
  <2>3. WaitersOK'
    <3>1. waiters \in [Sockets -> Seq(Requests)]
      BY <1>0 DEF TypeOK
    <3>2. CASE ~rejects
      BY <2>1, <3>1, <3>2 DEF CallsInv, WaitersOK
    <3>3. CASE rejects
      <4>1. \A t \in Sockets : \A i \in DOMAIN waiters'[t] :
              t # s /\ i \in DOMAIN waiters[t] /\ waiters'[t][i] = waiters[t][i]
        BY <2>1, <3>1, <3>3
      <4>2. \A t \in Sockets : \A i \in DOMAIN waiters'[t] :
              waiters[t][i] \in Requests \ Range(waiters[s])
        BY <3>1, <4>1 DEF CallsInv, WaitersOK, Range
      <4> QED BY <2>1, <4>1, <4>2 DEF CallsInv, WaitersOK
    <3> QED BY <3>2, <3>3
  <2>4. FramesOK'
    <3>1. up \in [Sockets -> Seq(Frame)] /\ down \in [Sockets -> Seq(Frame)]
      BY <1>0 DEF TypeOK
    <3>2. \A t \in Sockets : /\ \A i \in DOMAIN up'[t] : i \in DOMAIN up[t] /\ up'[t][i] = up[t][i]
                            /\ \A i \in DOMAIN down'[t] : /\ i \in DOMAIN down[t]
                                                         /\ down'[t][i] = down[t][i]
      BY <2>1, <3>1
    <3> QED BY <2>1, <3>2 DEF CallsInv, FramesOK
  <2>5. PendingIsAwaited' /\ OwnAnswer'
    BY <2>1, <2>2 DEF CallsInv, PendingIsAwaited, OwnAnswer
  <2> QED BY <2>3, <2>4, <2>5
<1>4. ASSUME NEW s \in Sockets, ServerAnswers(s) PROVE Inv'
  <2>1. /\ up[s] # <<>> /\ up \in [Sockets -> Seq(Frame)] /\ down \in [Sockets -> Seq(Frame)]
        /\ up' = [up EXCEPT ![s] = Tail(@)]
        /\ down' = [down EXCEPT ![s] = Append(@, Head(up[s]))]
        /\ UNCHANGED <<waiters, nextId, pending, phase, answers>>
    BY <1>0, <1>4 DEF ServerAnswers, TypeOK, session, calls
  <2>2. \A t \in Sockets : \A i \in DOMAIN up'[t] : \E j \in DOMAIN up[t] : up'[t][i] = up[t][j]
    <3> SUFFICES ASSUME NEW i \in DOMAIN Tail(up[s])
                 PROVE  \E j \in DOMAIN up[s] : Tail(up[s])[i] = up[s][j]
      BY <2>1
    <3>1. i + 1 \in DOMAIN up[s] /\ Tail(up[s])[i] = up[s][i + 1]
      BY <2>1
    <3> QED BY <3>1
  <2>3. \A t \in Sockets : \A i \in DOMAIN down'[t] :
          \/ \E j \in DOMAIN down[t] : down'[t][i] = down[t][j]
          \/ down'[t][i] = up[s][1]
    <3>1. down'[s] = Append(down[s], up[s][1]) /\ \A t \in Sockets \ {s} : down'[t] = down[t]
      BY <2>1
    <3>2. \A i \in DOMAIN Append(down[s], up[s][1]) :
            \/ i \in DOMAIN down[s] /\ Append(down[s], up[s][1])[i] = down[s][i]
            \/ Append(down[s], up[s][1])[i] = up[s][1]
      BY <2>1
    <3> QED BY <3>1, <3>2
  <2>4. 1 \in DOMAIN up[s]
    BY <2>1
  <2>5. FramesOK'
    BY <2>1, <2>2, <2>3, <2>4 DEF CallsInv, FramesOK
  <2>6. WaitersOK'
    BY <2>1 DEF CallsInv, WaitersOK
  <2>7. PendingIsAwaited' /\ OwnAnswer'
    BY <2>1 DEF CallsInv, PendingIsAwaited, OwnAnswer
  <2> QED BY <2>5, <2>6, <2>7
<1>5. ASSUME NEW s \in Sockets, HandleResponse(s) PROVE Inv'
  <2> DEFINE f == down[s][1]
             entries == {p \in pending : p.id = f.id}
             settled == {p.request : p \in entries}
  <2>1. /\ down[s] # <<>> /\ down \in [Sockets -> Seq(Frame)]
        /\ down' = [down EXCEPT ![s] = Tail(@)]
        /\ pending' = pending \ entries
        /\ phase' = [r \in Requests |-> IF r \in settled THEN "answered" ELSE phase[r]]
        /\ answers' = [r \in Requests |-> IF r \in settled THEN answers[r] \cup {f.request}
                                          ELSE answers[r]]
        /\ UNCHANGED <<waiters, nextId, up>>
    BY <1>0, <1>5 DEF HandleResponse, TypeOK, session
  <2>2. Matches(f, nextId, pending)
    <3>1. 1 \in DOMAIN down[s]
      BY <2>1
    <3> QED BY <3>1 DEF CallsInv, FramesOK
  <2>3. settled \subseteq {f.request}
    BY <2>2 DEF Matches
  <2>4. \A r \in settled : r \in Requests /\ phase[r] = "pending" /\ answers[r] = {}
    BY DEF CallsInv, PendingIsAwaited, OwnAnswer
  <2> HIDE DEF f, entries
  <2>5. OwnAnswer'
    BY <2>1, <2>3, <2>4 DEF CallsInv, OwnAnswer
  <2>6. PendingIsAwaited'
    <3>1. {p.request : p \in pending'} = {p.request : p \in pending} \ settled
      BY ZenonT(30), <2>1 DEF CallsInv, PendingIsAwaited, entries
    <3>2. {r \in Requests : phase'[r] = "pending"}
            = {r \in Requests : phase[r] = "pending"} \ settled
      BY <2>1
    <3> QED BY <2>1, <3>1, <3>2 DEF CallsInv, PendingIsAwaited
  <2>7. WaitersOK'
    <3>1. waiters \in [Sockets -> Seq(Requests)]
      BY <1>0 DEF TypeOK
    <3>2. \A t \in Sockets : \A i \in DOMAIN waiters[t] :
            waiters[t][i] \in Requests /\ waiters[t][i] \notin settled
      BY <2>4, <3>1 DEF CallsInv, WaitersOK
    <3> QED BY <2>1, <3>2 DEF CallsInv, WaitersOK
  <2>8. FramesOK'
    <3>1. \A t \in Sockets : \A i \in DOMAIN down'[t] :
            \E j \in DOMAIN down[t] : down'[t][i] = down[t][j]
      <4> SUFFICES ASSUME NEW i \in DOMAIN Tail(down[s])
                   PROVE  \E j \in DOMAIN down[s] : Tail(down[s])[i] = down[s][j]
        BY <2>1
      <4>1. i + 1 \in DOMAIN down[s] /\ Tail(down[s])[i] = down[s][i + 1]
        BY <2>1
      <4> QED BY <4>1
    <3>2. pending' \subseteq pending
      BY <2>1
    <3>3. \A t \in Sockets : /\ \A i \in DOMAIN up[t] : Matches(up[t][i], nextId, pending')
                            /\ \A i \in DOMAIN down[t] : Matches(down[t][i], nextId, pending')
      BY <3>2, FewerMatches DEF CallsInv, FramesOK
    <3>4. \A p \in pending' : p.id < nextId'
      BY <2>1, <3>2 DEF CallsInv, FramesOK
    <3>5. \A t \in Sockets : \A i \in DOMAIN up'[t] : Matches(up'[t][i], nextId', pending')
      BY <2>1, <3>3
    <3>6. ASSUME NEW t \in Sockets, NEW i \in DOMAIN down'[t]
          PROVE  Matches(down'[t][i], nextId', pending')
      <4>1. PICK j \in DOMAIN down[t] : down'[t][i] = down[t][j]
        BY <3>1, <3>6
      <4>2. Matches(down[t][j], nextId, pending')
        BY <3>3
      <4> QED BY <2>1, <4>1, <4>2
    <3> QED BY <3>4, <3>5, <3>6 DEF FramesOK
  <2> QED BY <2>5, <2>6, <2>7, <2>8
<1>6. ASSUME NEW r \in Requests, Call(r) PROVE Inv'
  <2>0. phase[r] = "idle"
    BY <1>6 DEF Call
  <2>1. CASE disposed
    <3>1. /\ phase' = [phase EXCEPT ![r] = "rejected"]
          /\ UNCHANGED <<waiters, nextId, pending, answers, up, down>>
      BY <1>6, <2>1 DEF Call, session, wires
    <3>2. phase \in [Requests -> Phases]
      BY <1>0 DEF TypeOK
    <3>3. WaitersOK'
      BY <2>0, <3>1, <3>2 DEF CallsInv, WaitersOK
    <3>4. FramesOK'
      BY <3>1 DEF CallsInv, FramesOK
    <3>5. PendingIsAwaited' /\ OwnAnswer'
      BY <2>0, <3>1, <3>2 DEF CallsInv, PendingIsAwaited, OwnAnswer
    <3> QED BY <3>3, <3>4, <3>5
  <2>2. CASE ~disposed /\ current \in OpenSockets
    <3>1. Send(<<r>>, status) /\ UNCHANGED session
      BY <1>6, <2>2 DEF Call
    <3>2. /\ <<r>> \in Seq(Requests) /\ DOMAIN <<r>> = {1} /\ <<r>>[1] = r
          /\ UNCHANGED <<current, waiters>>
      BY <3>1 DEF session
    <3>3. /\ FramesOK' /\ PendingIsAwaited' /\ OwnAnswer'
          /\ \A u \in Requests \ Range(<<r>>) : phase'[u] = phase[u]
      BY <2>0, <3>1, <3>2, SendCalls
    <3>4. Range(<<r>>) = {r}
      BY <3>2 DEF Range
    <3>5. waiters \in [Sockets -> Seq(Requests)]
      BY <1>0 DEF TypeOK
    <3>6. \A s \in Sockets : \A i \in DOMAIN waiters[s] : waiters[s][i] \in Requests \ {r}
      BY <2>0, <3>5 DEF CallsInv, WaitersOK
    <3>7. WaitersOK'
      BY <3>2, <3>3, <3>4, <3>6 DEF CallsInv, WaitersOK
    <3> QED BY <3>3, <3>7
  <2>3. CASE ~disposed /\ current \notin OpenSockets
    <3>1. /\ waiters' = [waiters EXCEPT ![connect'] = Append(@, r)]
          /\ phase' = [phase EXCEPT ![r] = "waiting"]
          /\ UNCHANGED <<nextId, pending, answers, up, down>>
      BY <1>6, <2>3 DEF Call, wires
    <3>2. /\ phase \in [Requests -> Phases] /\ waiters \in [Sockets -> Seq(Requests)]
          /\ waiters' \in [Sockets -> Seq(Requests)]
      BY <1>0 DEF TypeOK
    <3>3. \A s \in Sockets : \A i \in DOMAIN waiters'[s] :
            \/ i \in DOMAIN waiters[s] /\ waiters'[s][i] = waiters[s][i]
            \/ s = connect' /\ i = Len(waiters[s]) + 1 /\ waiters'[s][i] = r
      <4> SUFFICES ASSUME NEW s \in Sockets, s = connect', NEW i \in DOMAIN waiters'[s]
                   PROVE  \/ i \in DOMAIN waiters[s] /\ waiters'[s][i] = waiters[s][i]
                          \/ i = Len(waiters[s]) + 1 /\ waiters'[s][i] = r
        BY <3>1, <3>2
      <4>1. waiters'[s] = Append(waiters[s], r) /\ waiters[s] \in Seq(Requests)
        BY <3>1, <3>2
      <4> QED BY <4>1
    <3>4. \A s \in Sockets : \A i \in DOMAIN waiters[s] : waiters[s][i] # r
      BY <2>0 DEF CallsInv, WaitersOK
    <3>5. WaitersOK'
      <4>1. \A s \in Sockets : \A i \in DOMAIN waiters'[s] : phase'[waiters'[s][i]] = "waiting"
        BY <3>1, <3>2, <3>3, <3>4 DEF CallsInv, WaitersOK
      <4>2. \A s, t \in Sockets : \A i \in DOMAIN waiters'[s], j \in DOMAIN waiters'[t] :
              waiters'[s][i] = waiters'[t][j] => s = t /\ i = j
        BY <3>3, <3>4 DEF CallsInv, WaitersOK
      <4> QED BY <4>1, <4>2 DEF WaitersOK
    <3>6. FramesOK'
      BY <3>1 DEF CallsInv, FramesOK
    <3>7. PendingIsAwaited' /\ OwnAnswer'
      BY <2>0, <3>1, <3>2 DEF CallsInv, PendingIsAwaited, OwnAnswer
    <3> QED BY <3>5, <3>6, <3>7
  <2> QED BY <2>1, <2>2, <2>3
<1>7. ASSUME TimerFires PROVE Inv'
  BY <1>7, CallsUnchanged DEF TimerFires, calls, wires
<1>8. ASSUME Dispose PROVE Inv'
  <2>1. /\ pending' = {}
        /\ phase' = [r \in Requests |->
                       IF \E p \in pending : p.request = r THEN "rejected" ELSE phase[r]]
        /\ up' = [s \in Sockets |-> IF s = current THEN <<>> ELSE up[s]]
        /\ down' = [s \in Sockets |-> IF s = current THEN <<>> ELSE down[s]]
        /\ UNCHANGED <<waiters, nextId, answers>>
    BY <1>8 DEF Dispose
  <2>2. \A r \in Requests : (\E p \in pending : p.request = r) <=> phase[r] = "pending"
    BY DEF CallsInv, PendingIsAwaited
  <2>3. PendingIsAwaited' /\ OwnAnswer'
    BY <2>1, <2>2 DEF CallsInv, PendingIsAwaited, OwnAnswer
  <2>4. WaitersOK'
    <3>1. waiters \in [Sockets -> Seq(Requests)]
      BY <1>0 DEF TypeOK
    <3> QED BY <2>1, <2>2, <3>1 DEF CallsInv, WaitersOK
  <2>5. FramesOK'
    <3>1. \A s \in Sockets : /\ \A i \in DOMAIN up'[s] : i \in DOMAIN up[s] /\ up'[s][i] = up[s][i]
                            /\ \A i \in DOMAIN down'[s] : /\ i \in DOMAIN down[s]
                                                         /\ down'[s][i] = down[s][i]
      BY <2>1
    <3>2. \A f, n, P : Matches(f, n, P) => Matches(f, n, {})
      BY DEF Matches
    <3> QED BY <2>1, <3>1, <3>2 DEF CallsInv, FramesOK
  <2> QED BY <2>3, <2>4, <2>5
<1>9. CASE UNCHANGED vars
  BY <1>9, CallsUnchanged DEF vars
<1> QED BY <1>1, <1>2, <1>3, <1>4, <1>5, <1>6, <1>7, <1>8, <1>9 DEF Next

LEMMA CallsInit == ASSUME Init PROVE CallsInv
<1>1. WaitersOK
  BY DEF Init, WaitersOK
<1>2. FramesOK
  BY DEF Init, FramesOK
<1>3. PendingIsAwaited /\ OwnAnswer
  BY DEF Init, PendingIsAwaited, OwnAnswer
<1> QED BY <1>1, <1>2, <1>3, InitType DEF CallsInv

LEMMA CallsInvariant == Spec => []CallsInv
<1>1. Init => CallsInv
  BY CallsInit
<1>2. CallsInv /\ [Next]_vars => CallsInv'
  BY CallsStep
<1> QED BY <1>1, <1>2, PTL DEF Spec

(* Every request gets its own answer, at most once, whatever sockets it    *)
(* and its answer travelled on.                                            *)
THEOREM OwnAnswerTheorem == Spec => []OwnAnswer
<1>1. CallsInv => OwnAnswer
  BY DEF CallsInv
<1> QED BY <1>1, CallsInvariant, PTL

(* The table of pending requests is the set of the requests that wait. *)
THEOREM PendingIsAwaitedTheorem == Spec => []PendingIsAwaited
<1>1. CallsInv => PendingIsAwaited
  BY DEF CallsInv
<1> QED BY <1>1, CallsInvariant, PTL

(* No step touches a request that is settled. *)
LEMMA SettledStep ==
    ASSUME CallsInv, [Next]_vars, NEW r \in Requests, phase[r] \in {"answered", "rejected"}
    PROVE  phase'[r] = phase[r]
<1>1. \A s \in Sockets : r \notin Range(waiters[s])
  BY DEF CallsInv, WaitersOK, Range
<1>2. \A p \in pending : p.request # r
  BY DEF CallsInv, PendingIsAwaited
<1>3. CASE \E s \in Sockets : SocketOpens(s)
  BY <1>1, <1>3 DEF SocketOpens, Send
<1>4. CASE \E s \in Sockets : SocketCloses(s)
  BY <1>1, <1>4 DEF SocketCloses
<1>5. CASE \E s \in Sockets : CloseBegins(s) \/ ServerAnswers(s)
  BY <1>5 DEF CloseBegins, ServerAnswers, calls
<1>6. CASE \E s \in Sockets : HandleResponse(s)
  BY <1>2, <1>6 DEF HandleResponse
<1>7. ASSUME NEW u \in Requests, Call(u) PROVE phase'[r] = phase[r]
  <2>1. u # r
    BY <1>7 DEF Call
  <2>2. phase \in [Requests -> Phases] /\ Range(<<u>>) = {u}
    BY DEF CallsInv, TypeOK, Range
  <2>3. CASE Send(<<u>>, status)
    BY <2>1, <2>2, <2>3 DEF Send
  <2> QED BY <1>7, <2>1, <2>2, <2>3 DEF Call
<1>8. CASE TimerFires \/ UNCHANGED vars
  BY <1>8 DEF TimerFires, calls, vars
<1>9. CASE Dispose
  BY <1>2, <1>9 DEF Dispose
<1> QED BY <1>3, <1>4, <1>5, <1>6, <1>7, <1>8, <1>9 DEF Next

(* What a request was settled with is final. *)
THEOREM SettledOnceTheorem == Spec => SettledOnce
<1> DEFINE Kept == \A r \in Requests :
                     phase[r] \in {"answered", "rejected"} => phase'[r] = phase[r]
<1>1. CallsInv /\ [Next]_vars => [Kept]_vars
  BY SettledStep
<1> QED BY <1>1, CallsInvariant, PTL DEF Spec, SettledOnce

=============================================================================
