----------------------------- MODULE WsTransport -----------------------------
(***************************************************************************)
(* The client's WebSocket transport (frontend/src/wsTransport.ts): sockets *)
(* that open, close and are opened again, requests matched to answers by   *)
(* id, and dispose().                                                      *)
(*                                                                         *)
(* JavaScript runs one callback at a time and drains the promise           *)
(* continuations it caused before the next one, so a step is a socket      *)
(* event, a timer or a call, together with the continuations of the        *)
(* promises it settles.  A socket that the transport has replaced keeps    *)
(* its handlers: only dispose() removes them, and only from the current    *)
(* socket.                                                                 *)
(***************************************************************************)
EXTENDS Naturals, Sequences, Functions

CONSTANTS
    Requests,       \* calls of sendJsonRpc
    MaxSockets,     \* bound: sockets opened in one behaviour
    MaxDrops        \* bound: sockets the network or the server closes

ASSUME TransportAssumption ==
    /\ MaxSockets \in Nat \ {0}
    /\ MaxDrops \in Nat

Sockets == 1..MaxSockets
NoSocket == 0

VARIABLES
    status,     \* readyState of each socket
    current,    \* this.socket
    connect,    \* this.connectPromise, named by the socket it waits for
    state,      \* what onStateChange listeners are told
    disposed,
    timers,     \* reconnect timers that are running
    byTimer,    \* sockets whose promise a scheduleReconnect awaits
    waiters,    \* the requests that await each socket's promise, in order
    opened,     \* sockets opened so far
    nextId,
    pending,    \* this.pending: requests by id
    phase,      \* where each request stands
    answers,    \* the requests whose answers each request was given
    up, down,   \* frames in flight on each socket
    drops

session == <<status, current, connect, state, timers, byTimer, waiters, opened>>
calls == <<nextId, pending, phase, answers>>
wires == <<up, down>>
vars == <<status, current, connect, state, disposed, timers, byTimer, waiters, opened,
          nextId, pending, phase, answers, up, down, drops>>

Statuses == {"unborn", "connecting", "open", "closing", "closed"}
States == {"connecting", "open", "closed", "disposed"}
Phases == {"idle", "waiting", "pending", "answered", "rejected"}
Frame == [id : Nat \ {0}, request : Requests]

(* The constructor has called openSession. *)
Init ==
    /\ status = [s \in Sockets |-> IF s = 1 THEN "connecting" ELSE "unborn"]
    /\ current = 1
    /\ connect = 1
    /\ state = "connecting"
    /\ disposed = FALSE
    /\ timers = 0
    /\ byTimer = {}
    /\ waiters = [s \in Sockets |-> <<>>]
    /\ opened = 1
    /\ nextId = 1
    /\ pending = {}
    /\ phase = [r \in Requests |-> "idle"]
    /\ answers = [r \in Requests |-> {}]
    /\ up = [s \in Sockets |-> <<>>]
    /\ down = [s \in Sockets |-> <<>>]
    /\ drops = 0

-----------------------------------------------------------------------------
(* Sending *)

(* Mutant: every session numbers its requests from 1. *)
IdsOfSession(q) == [k \in DOMAIN q |-> k]

(* Mutant: the first id is 0. *)
IdsFromZero(q) == [k \in DOMAIN q |-> nextId + k - 2]

(* nextId++, for each of the requests q in turn. *)
IdsFor(q) == [k \in DOMAIN q |-> nextId + k - 1]

Frames(q) == [k \in DOMAIN q |-> [id |-> IdsFor(q)[k], request |-> q[k]]]

OpenSockets == {s \in Sockets : status[s] = "open"}

(* The second half of sendJsonRpc, for requests whose ensureOpen is done,  *)
(* when the sockets' status is st.                                         *)
(* `this.socket?.send` throws while the socket is still connecting; without *)
(* a socket, or on one that is closing, nothing is sent and nothing fails. *)
Send(q, st) ==
    LET throws == current \in {s \in Sockets : st[s] = "connecting"}
        sends == current \in {s \in Sockets : st[s] = "open"} IN
      /\ nextId' = nextId + Len(q)
      /\ phase' = [r \in Requests |->
                     IF r \notin Range(q) THEN phase[r]
                     ELSE IF throws THEN "rejected" ELSE "pending"]
      /\ pending' = IF throws THEN pending ELSE pending \cup Range(Frames(q))
      /\ up' = IF sends THEN [up EXCEPT ![current] = @ \o Frames(q)] ELSE up
      /\ UNCHANGED <<answers, down>>

-----------------------------------------------------------------------------
(* Sessions *)

(* openSession, once it has found no promise to share.  (That the          *)
(* constructor of WebSocket throws, which a malformed URL makes it do, is  *)
(* left out.)                                                              *)
OpenSession ==
    /\ opened < MaxSockets
    /\ opened' = opened + 1
    /\ status' = [status EXCEPT ![opened'] = "connecting"]
    /\ current' = opened'
    /\ connect' = opened'
    /\ state' = "connecting"

(* socket.onopen, and the requests that were waiting for it. *)
SocketOpens(s) ==
    /\ status[s] = "connecting"
    /\ status' = [status EXCEPT ![s] = "open"]
    /\ state' = "open"
    /\ connect' = NoSocket
    /\ waiters' = [waiters EXCEPT ![s] = <<>>]
    /\ byTimer' = byTimer \ {s}
    /\ Send(waiters[s], status')
    /\ UNCHANGED <<current, disposed, timers, opened, drops>>

(* A close frame has arrived, the close event is still to come. *)
CloseBegins(s) ==
    /\ status[s] = "open"
    /\ drops < MaxDrops
    /\ drops' = drops + 1
    /\ status' = [status EXCEPT ![s] = "closing"]
    /\ UNCHANGED <<current, connect, state, timers, byTimer, waiters, opened, disposed,
                   calls, wires>>

(* Mutant: a socket that was open does not come back by itself. *)
TimersIfNeverOpen(s, rejects) ==
    timers + (IF rejects THEN 1 ELSE 0) + (IF rejects /\ s \in byTimer THEN 1 ELSE 0)

(* The timers after a close: onclose starts one, and so does the catch of  *)
(* the scheduleReconnect that opened the socket, when its promise rejects. *)
TimersAfterClose(s, rejects) ==
    timers + 1 + (IF rejects /\ s \in byTimer THEN 1 ELSE 0)

(* socket.onclose: whatever the current socket is, it is forgotten; a      *)
(* promise is rejected only if the transport has a promise to clear.       *)
SocketCloses(s) ==
    /\ \/ status[s] \in {"connecting", "open"} /\ drops < MaxDrops /\ drops' = drops + 1
       \/ status[s] = "closing" /\ UNCHANGED drops
    /\ status' = [status EXCEPT ![s] = "closed"]
    /\ current' = NoSocket
    /\ connect' = NoSocket
    /\ LET rejects == connect # NoSocket /\ status[s] = "connecting" IN
         /\ phase' = [r \in Requests |->
                        IF rejects /\ r \in Range(waiters[s]) THEN "rejected" ELSE phase[r]]
         /\ waiters' = IF rejects THEN [waiters EXCEPT ![s] = <<>>] ELSE waiters
         /\ timers' = IF disposed THEN timers ELSE TimersAfterClose(s, rejects)
         /\ byTimer' = IF rejects THEN byTimer \ {s} ELSE byTimer
    /\ state' = IF disposed THEN "closed" ELSE "connecting"
    /\ up' = [up EXCEPT ![s] = <<>>]
    /\ down' = [down EXCEPT ![s] = <<>>]
    /\ UNCHANGED <<opened, disposed, nextId, pending, answers>>

(* Mutant: a timer that takes the state "connecting" for an attempt under way. *)
TimerForgets ==
    /\ timers > 0
    /\ timers' = timers - 1
    /\ UNCHANGED <<status, current, connect, state, byTimer, waiters, opened, disposed,
                   calls, wires, drops>>

(* A scheduleReconnect wakes up.  It drops the promise it finds and opens a *)
(* socket of its own, even beside one that is open.                        *)
TimerFires ==
    /\ timers > 0
    /\ timers' = timers - 1
    /\ \/ disposed /\ UNCHANGED <<status, current, connect, state, byTimer, opened>>
       \/ /\ ~disposed
          /\ OpenSession
          /\ byTimer' = byTimer \cup {opened'}
    /\ UNCHANGED <<waiters, disposed, calls, wires, drops>>

-----------------------------------------------------------------------------
(* Calls *)

(* request, up to its first await: the guard of request, then ensureOpen. *)
Call(r) ==
    /\ phase[r] = "idle"
    /\ \/ /\ disposed
          /\ phase' = [phase EXCEPT ![r] = "rejected"]
          /\ UNCHANGED <<session, nextId, pending, answers, wires>>
       \/ /\ ~disposed
          /\ current \in OpenSockets
          /\ Send(<<r>>, status)
          /\ UNCHANGED session
       \/ /\ ~disposed
          /\ current \notin OpenSockets
          /\ IF connect # NoSocket
             THEN UNCHANGED <<status, current, connect, state, opened>> ELSE OpenSession
          /\ waiters' = [waiters EXCEPT ![connect'] = Append(@, r)]
          /\ phase' = [phase EXCEPT ![r] = "waiting"]
          /\ UNCHANGED <<timers, byTimer, nextId, pending, answers, wires>>
    /\ UNCHANGED <<disposed, drops>>

(* The server handles a connection's frames one at a time, and answers     *)
(* each under the id it came with.                                         *)
ServerAnswers(s) ==
    /\ status[s] = "open"
    /\ up[s] # <<>>
    /\ up' = [up EXCEPT ![s] = Tail(@)]
    /\ down' = [down EXCEPT ![s] = Append(@, Head(up[s]))]
    /\ UNCHANGED <<session, disposed, calls, drops>>

(* Mutant: a response whose id is not looked up as a number. *)
ResponseUnmatched(s) ==
    /\ status[s] = "open"
    /\ down[s] # <<>>
    /\ down' = [down EXCEPT ![s] = Tail(@)]
    /\ UNCHANGED <<session, disposed, calls, up, drops>>

(* Mutant: a response whose entry is not deleted. *)
ResponseKeepsEntry(s) ==
    /\ status[s] = "open"
    /\ down[s] # <<>>
    /\ down' = [down EXCEPT ![s] = Tail(@)]
    /\ LET entries == {p \in pending : p.id = Head(down[s]).id} IN
         phase' = [r \in Requests |->
                     IF \E p \in entries : p.request = r THEN "answered" ELSE phase[r]]
    /\ UNCHANGED <<session, disposed, nextId, pending, answers, up, drops>>

(* handleIncoming of a response: settle the request pending under its id.  *)
HandleResponse(s) ==
    /\ status[s] = "open"
    /\ down[s] # <<>>
    /\ down' = [down EXCEPT ![s] = Tail(@)]
    /\ LET entries == {p \in pending : p.id = Head(down[s]).id} IN
         /\ pending' = pending \ entries
         /\ phase' = [r \in Requests |->
                        IF \E p \in entries : p.request = r THEN "answered" ELSE phase[r]]
         /\ answers' = [r \in Requests |->
                         IF \E p \in entries : p.request = r
                         THEN answers[r] \cup {Head(down[s]).request} ELSE answers[r]]
    /\ UNCHANGED <<session, disposed, nextId, up, drops>>

(* Mutant: dispose leaves the table of pending requests as it is. *)
DisposeKeepsPending ==
    /\ ~disposed
    /\ disposed' = TRUE
    /\ state' = "disposed"
    /\ status' = [s \in Sockets |-> IF s = current THEN "closed" ELSE status[s]]
    /\ current' = NoSocket
    /\ phase' = [r \in Requests |->
                   IF \E p \in pending : p.request = r THEN "rejected" ELSE phase[r]]
    /\ up' = [s \in Sockets |-> IF s = current THEN <<>> ELSE up[s]]
    /\ down' = [s \in Sockets |-> IF s = current THEN <<>> ELSE down[s]]
    /\ UNCHANGED <<connect, timers, byTimer, waiters, opened, nextId, pending, answers, drops>>

(* dispose: every pending request is rejected, the current socket loses its *)
(* handlers and is closed.  Timers, replaced sockets and the requests that *)
(* still wait for a promise are left as they are.                          *)
Dispose ==
    /\ ~disposed
    /\ disposed' = TRUE
    /\ state' = "disposed"
    /\ status' = [s \in Sockets |-> IF s = current THEN "closed" ELSE status[s]]
    /\ current' = NoSocket
    /\ pending' = {}
    /\ phase' = [r \in Requests |->
                   IF \E p \in pending : p.request = r THEN "rejected" ELSE phase[r]]
    /\ up' = [s \in Sockets |-> IF s = current THEN <<>> ELSE up[s]]
    /\ down' = [s \in Sockets |-> IF s = current THEN <<>> ELSE down[s]]
    /\ UNCHANGED <<connect, timers, byTimer, waiters, opened, nextId, answers, drops>>

-----------------------------------------------------------------------------
Next ==
    \/ \E s \in Sockets :
         \/ SocketOpens(s) \/ CloseBegins(s) \/ SocketCloses(s)
         \/ ServerAnswers(s) \/ HandleResponse(s)
    \/ \E r \in Requests : Call(r)
    \/ TimerFires
    \/ Dispose

Spec == Init /\ [][Next]_vars

(* The event loop runs timers and delivers socket events; a connection     *)
(* attempt ends one way or the other, a close that has begun ends, and the *)
(* server answers what it receives.  Nobody must call or dispose.          *)
Fairness ==
    /\ WF_vars(TimerFires)
    /\ \A s \in Sockets :
         /\ WF_vars(SocketOpens(s))
         /\ WF_vars(status[s] = "closing" /\ SocketCloses(s))
         /\ WF_vars(ServerAnswers(s))
         /\ WF_vars(HandleResponse(s))

FairSpec == Spec /\ Fairness

-----------------------------------------------------------------------------
(* Properties *)

(* Every variable stays in its range: ids and timers are counted in Nat.   *)
TypeOK ==
    /\ status \in [Sockets -> Statuses]
    /\ {current, connect} \subseteq Sockets \cup {NoSocket}
    /\ state \in States
    /\ disposed \in BOOLEAN
    /\ timers \in Nat
    /\ byTimer \subseteq Sockets
    /\ waiters \in [Sockets -> Seq(Requests)]
    /\ opened \in Sockets
    /\ nextId \in Nat \ {0}
    /\ pending \subseteq Frame
    /\ phase \in [Requests -> Phases]
    /\ answers \in [Requests -> SUBSET Requests]
    /\ up \in [Sockets -> Seq(Frame)]
    /\ down \in [Sockets -> Seq(Frame)]
    /\ drops \in Nat

(* Whatever sockets come and go, a request is only ever given the answer   *)
(* the server made for it, and is given it at most once: a late answer on  *)
(* a replaced socket cannot settle a request sent on the next one.         *)
OwnAnswer ==
    \A r \in Requests : answers[r] = IF phase[r] = "answered" THEN {r} ELSE {}

(* this.pending holds the requests that wait for an answer, one id each,   *)
(* and no others: neither a response nor dispose() leaves an entry whose   *)
(* promise is settled.                                                     *)
PendingIsAwaited ==
    /\ {p.request : p \in pending} = {r \in Requests : phase[r] = "pending"}
    /\ \A p, q \in pending : p.id = q.id \/ p.request = q.request => p = q

(* Until it is disposed, a transport has a socket that works or is being   *)
(* opened, or a timer that will open one: no order of closes, reconnects   *)
(* and calls leaves it with neither.                                       *)
NeverStranded ==
    \/ disposed
    \/ timers > 0
    \/ \E s \in Sockets : current = s /\ status[s] \in {"connecting", "open", "closing"}

(* A request that has been settled stays so: rejecting it on a close and   *)
(* answering it on a replaced socket do not both happen.                   *)
SettledOnce ==
    [][\A r \in Requests :
         phase[r] \in {"answered", "rejected"} => phase'[r] = phase[r]]_vars

(* Once the network stops closing sockets, the transport ends with an open *)
(* current socket, and tells its listeners so, unless it is disposed.      *)
Reconnects ==
    <>[](\/ disposed
         \/ current \in OpenSockets /\ state = "open")

(* On a connection that holds, every request is settled. *)
AnsweredOnGoodConnection ==
    \A r \in Requests :
      phase[r] \in {"waiting", "pending"}
        ~> (phase[r] \in {"answered", "rejected"} \/ drops > 0 \/ disposed)

=============================================================================
