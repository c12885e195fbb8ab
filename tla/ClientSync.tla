------------------------------ MODULE ClientSync ------------------------------
(***************************************************************************)
(* One client following one thread: the server projects the thread's turns *)
(* and pushes their events, the client subscribes, asks for snapshots, and *)
(* folds both into its store (wsNativeApi.ts, contracts/adaptPushEvent.ts, *)
(* the EventRouter of routes/__root.tsx, and the server's push.rs,         *)
(* server.rs and rpc.rs).                                                  *)
(*                                                                         *)
(* Everything the server sends on a connection, pushes, snapshots and      *)
(* responses, goes through one FIFO.  Pushes come to it over a bounded     *)
(* broadcast bus which never waits: it ends the delivery task of a         *)
(* connection that falls behind.  On the client a step is one callback     *)
(* with the promise continuations it causes.  The network may drop the     *)
(* connection, with all that is in flight, and the user may reload the     *)
(* page, which loses all of the client's state.                            *)
(***************************************************************************)
EXTENDS Naturals, Sequences, SequencesExt, ThreadStore

CONSTANTS
    Chunks,         \* pieces of each answer
    Streams,        \* subset of BOOLEAN: may an adapter stream, may it not
    Views,          \* subset of BOOLEAN: may the page start on the thread, or not
    PushCapacity,   \* broadcasts the push bus keeps for its slowest receiver
    MaxDisturbances \* bound: connections lost, pages reloaded, and times the
                    \* user opens or leaves the thread

ASSUME ClientSyncAssumption ==
    /\ Turns \subseteq Nat \ {0}
    /\ Chunks \in Nat \ {0}
    /\ PushCapacity \in Nat \ {0}
    /\ Streams \subseteq BOOLEAN /\ Streams # {}
    /\ Views \subseteq BOOLEAN /\ Views # {}

VARIABLES
    \* the server
    status,         \* each turn's status in the read model
    output,         \* the text of each turn's streamed message there
    streams,        \* does the turn's adapter stream
    worker, stream, \* events projected and not yet pushed: commands', provider's
    \* the connection
    online,
    subscribed,     \* the connection's subscription to the orchestration channel
    delivery,       \* the connection's delivery task
    bus,            \* broadcasts it has not handed on yet
    up, down,       \* requests and frames in flight
    serving,        \* the request being handled, with the snapshot it has read
    drops, reloads, moves,
    \* the client
    wanted,         \* is the thread visible or retained
    thread,         \* the store
    seeded,         \* pushAdaptCtx.turns
    pending,        \* pendingDomainEvents
    flushed,        \* immediatelyFlushedAssistantMessageIds
    router          \* the EventRouter's bookkeeping

server == <<status, output, streams, worker, stream>>
link == <<online, subscribed, delivery, bus, up, down, serving>>
limits == <<drops, reloads, moves>>
client == <<wanted, thread, seeded, pending, flushed, router>>
vars == <<server, link, limits, client>>

Statuses == {"none", "running", "completed", "failed", "cancelled"}
Requests == {"shell", "open", "poll", "close"}
NoRequest == [request |-> "none"]
Deliveries == {"none", "starting", "prompt", "late", "ended"}
Jobs == {"idle", "opening", "closing", "stuck"}

Answer == [k \in 1..Chunks |-> k]

-----------------------------------------------------------------------------
(* The EventRouter: subscriptions *)

(* A page that has just been loaded: the transport is connecting, and      *)
(* ensureScopedSubscriptions has asked for the shell.                      *)
FreshRouter == [tracked |-> FALSE, hydrated |-> FALSE, asking |-> FALSE,
                job |-> "idle", chain |-> <<>>]

(* One turn of the reconcile chain that changes something: start the       *)
(* subscription, or end it.                                                *)
Reconcile(r) ==
    LET want == Head(r.chain) IN
      [router |-> [tracked |-> want, hydrated |-> FALSE, asking |-> FALSE,
                   job |-> IF want THEN "opening" ELSE "closing", chain |-> Tail(r.chain)],
       asks |-> <<IF want THEN "open" ELSE "close">>]

(* enqueueThreadSubscriptionReconcile, and the end of a job: run what the  *)
(* chain holds until a job has an answer to wait for.  A turn of the chain *)
(* that finds nothing to add or to remove ends at once.                    *)
RunChain(r) ==
    LET changing == {i \in DOMAIN r.chain : r.chain[i] # r.tracked} IN
      CASE r.job # "idle" -> [router |-> r, asks |-> <<>>]
        [] r.job = "idle" /\ changing = {} ->
             [router |-> [r EXCEPT !.chain = <<>>], asks |-> <<>>]
        [] r.job = "idle" /\ changing # {} ->
             Reconcile([r EXCEPT !.chain = SubSeq(@, Min(changing), Len(@))])

(* The router runs its chain and sends what it asks for. *)
Settle(r) ==
    LET result == RunChain(r) IN
      /\ router' = result.router
      /\ up' = up \o result.asks

(* ensureScopedSubscriptions, up to its first await. *)
EnsureScopedSubscriptions ==
    /\ router' = [router EXCEPT !.tracked = FALSE, !.hydrated = FALSE]
    /\ up' = Append(up, "shell")

-----------------------------------------------------------------------------
Init ==
    /\ status = [t \in Turns |-> "none"]
    /\ output = [t \in Turns |-> <<>>]
    /\ streams \in [Turns -> Streams]
    /\ worker = <<>>
    /\ stream = <<>>
    /\ online = FALSE
    /\ subscribed = FALSE
    /\ delivery = "none"
    /\ bus = <<>>
    /\ up = <<"shell">>
    /\ down = <<>>
    /\ serving = NoRequest
    /\ drops = 0
    /\ reloads = 0
    /\ moves = 0
    /\ wanted \in Views
    /\ thread = NoThread
    /\ seeded = {}
    /\ pending = <<>>
    /\ flushed = {}
    /\ router = FreshRouter

-----------------------------------------------------------------------------
(* The server: turns *)

Ended(t) == status[t] \in {"completed", "failed", "cancelled"}

(* StartTurn: its events are projected together; the provider is called    *)
(* after they have been pushed.                                            *)
StartTurn(t) ==
    /\ status[t] = "none"
    /\ \A u \in Turns : u < t => Ended(u)
    /\ status' = [status EXCEPT ![t] = "running"]
    /\ worker' = Append(worker, [type |-> "TurnStarted", turn |-> t])
    /\ UNCHANGED <<output, streams, stream, link, limits, client>>

(* Mutant: the consumer goes on before the event is pushed. *)
ProviderMayEmitEarly(t) ==
    /\ status[t] \in {"running", "cancelled"}
    /\ [type |-> "TurnStarted", turn |-> t] \notin Range(worker)
    /\ Len(stream) <= 1

(* The consumer appends and projects one provider event, and pushes it     *)
(* before it takes the next; it does not look at the turn's status.        *)
ProviderMayEmit(t) ==
    /\ status[t] \in {"running", "cancelled"}
    /\ [type |-> "TurnStarted", turn |-> t] \notin Range(worker)
    /\ stream = <<>>

ProviderDelta(t) ==
    /\ ProviderMayEmit(t)
    /\ streams[t]
    /\ Len(output[t]) < Chunks
    /\ LET piece == <<Len(output[t]) + 1>> IN
         /\ output' = [output EXCEPT ![t] = @ \o piece]
         /\ stream' = Append(stream, [type |-> "MessageDeltaAppended", turn |-> t, text |-> piece])
    /\ UNCHANGED <<status, streams, worker, link, limits, client>>

ProviderCompletes(t) ==
    /\ ProviderMayEmit(t)
    /\ streams[t] => output[t] = Answer
    /\ status' = [status EXCEPT ![t] = "completed"]
    /\ stream' = Append(stream, [type |-> "TurnCompleted", turn |-> t])
    /\ UNCHANGED <<output, streams, worker, link, limits, client>>

(* An error that ends the turn.  (The Codex adapter also reports errors     *)
(* that do not: left out.)                                                 *)
ProviderFails(t) ==
    /\ ProviderMayEmit(t)
    /\ status' = [status EXCEPT ![t] = "failed"]
    /\ stream' = Append(stream, [type |-> "TurnFailed", turn |-> t])
    /\ UNCHANGED <<output, streams, worker, link, limits, client>>

(* A failed turn can be cancelled too; the client hears as little of that. *)
CancelTurn(t) ==
    /\ status[t] = "running"
    /\ status' = [status EXCEPT ![t] = "cancelled"]
    /\ worker' = Append(worker, [type |-> "TurnCancelled", turn |-> t])
    /\ UNCHANGED <<output, streams, stream, link, limits, client>>

(* The server: pushes, requests *)

(* The delivery task has subscribed to the push bus. *)
Receiving == delivery \in {"prompt", "late"}

(* A receiver for which the bus has overwritten something gets an error,   *)
(* and run_push_delivery ends, on a connection that stays open.  The       *)
(* broadcast it has in hand, if any, it still hands on.                    *)
DeliveryEnds ==
    /\ Receiving
    /\ delivery' = "ended"
    /\ \E k \in {0, 1} : k <= Len(bus) /\ bus' = SubSeq(bus, 1, k)

(* WsDomainEventPublisher never waits; who has not subscribed to the bus   *)
(* does not receive.                                                       *)
Broadcast(e) ==
    \/ Receiving /\ Len(bus) < PushCapacity /\ bus' = Append(bus, e) /\ UNCHANGED delivery
    \/ Receiving /\ Len(bus) >= PushCapacity /\ DeliveryEnds
    \/ ~Receiving /\ UNCHANGED <<bus, delivery>>

(* publish_events, one event of a command's worker or of the consumer. *)
PublishCommandEvent ==
    /\ worker # <<>>
    /\ Broadcast(Head(worker))
    /\ worker' = Tail(worker)
    /\ UNCHANGED <<status, output, streams, stream, online, subscribed, up, down, serving,
                   limits, client>>

PublishProviderEvent ==
    /\ stream # <<>>
    /\ Broadcast(Head(stream))
    /\ stream' = Tail(stream)
    /\ UNCHANGED <<status, output, streams, worker, online, subscribed, up, down, serving,
                   limits, client>>

(* Terminals, providers, settings and automations push to the same bus:    *)
(* they alone may fill it.                                                 *)
OtherPushesOvertake ==
    /\ DeliveryEnds
    /\ UNCHANGED <<server, online, subscribed, up, down, serving, limits, client>>

(* run_push_delivery is polled for the first time, and subscribes to the   *)
(* bus: late, when a request has subscribed the connection already.        *)
DeliveryStarts ==
    /\ delivery = "starting"
    /\ delivery' = IF subscribed THEN "late" ELSE "prompt"
    /\ UNCHANGED <<server, online, subscribed, bus, up, down, serving, limits, client>>

(* Mutant: a push that an unfinished request overtakes is dropped. *)
DeliverUnlessServing ==
    /\ bus # <<>>
    /\ bus' = Tail(bus)
    /\ down' = IF subscribed /\ serving.request = "none"
               THEN Append(down, [kind |-> "event", event |-> Head(bus)]) ELSE down
    /\ UNCHANGED <<server, online, subscribed, delivery, up, serving, limits, client>>

(* run_push_delivery, a task of the connection's own: what a snapshot      *)
(* already tells may be delivered after it.                                *)
DeliverPush ==
    /\ bus # <<>>
    /\ bus' = Tail(bus)
    /\ down' = IF subscribed THEN Append(down, [kind |-> "event", event |-> Head(bus)]) ELSE down
    /\ UNCHANGED <<server, online, subscribed, delivery, up, serving, limits, client>>

(* thread_view_to_read_model.  (For a thread without a streamed message it *)
(* makes messages up from the turns, under ids of the server's own: they   *)
(* are other messages than the ones followed here, and are left out.)      *)
ThreadSnapshot ==
    [latest |-> IF \A t \in Turns : status[t] = "none" THEN NoLatest
                ELSE [NoLatest EXCEPT !.state = "unknown"],
     answers |-> [t \in Turns |->
                    IF output[t] = <<>> THEN NoMessage ELSE Message(output[t], TRUE)]]

(* A request is taken from the connection, one at a time: subscribeShell   *)
(* and subscribeThread subscribe and read a snapshot ...                   *)
ServeRequest ==
    /\ online
    /\ serving.request = "none"
    /\ up # <<>>
    /\ up' = Tail(up)
    /\ subscribed' = (subscribed \/ Head(up) # "close")
    /\ serving' = IF Head(up) \in {"open", "poll"}
                  THEN [request |-> Head(up), snapshot |-> ThreadSnapshot]
                  ELSE [request |-> Head(up)]
    /\ UNCHANGED <<server, online, delivery, bus, down, limits, client>>

(* ... and send it, and the response, with no lock held in between.        *)
SendResponse ==
    /\ serving.request # "none"
    /\ serving' = NoRequest
    /\ LET r == serving.request IN
         down' = down \o (CASE r = "shell" -> <<[kind |-> "shell"]>>
                            [] r = "close" -> <<>>
                            [] OTHER -> <<[kind |-> "thread", snapshot |-> serving.snapshot]>>)
                      \o <<[kind |-> "response", request |-> r]>>
    /\ UNCHANGED <<server, online, subscribed, delivery, bus, up, limits, client>>

-----------------------------------------------------------------------------
(* The client: the connection *)

(* The transport reconnects, and the server welcomes it before all else.   *)
(* The shortest delay of a reconnect is longer than the throttle of the    *)
(* pending events.                                                         *)
Connect ==
    /\ ~online
    /\ pending = <<>>
    /\ online' = TRUE
    /\ subscribed' = FALSE
    /\ delivery' = "starting"
    /\ down' = <<[kind |-> "welcome"]>>
    /\ UNCHANGED <<server, bus, up, serving, limits, client>>

(* What was in flight is lost, and no request is rejected: a job of the    *)
(* chain that waits for an answer waits for good.                          *)
Drop ==
    /\ online
    /\ drops + reloads + moves < MaxDisturbances
    /\ drops' = drops + 1
    /\ online' = FALSE
    /\ subscribed' = FALSE
    /\ delivery' = "none"
    /\ bus' = <<>>
    /\ up' = <<>>
    /\ down' = <<>>
    /\ serving' = NoRequest
    /\ router' = [router EXCEPT !.job = IF @ = "idle" THEN @ ELSE "stuck"]
    /\ UNCHANGED <<server, reloads, moves, wanted, thread, seeded, pending, flushed>>

Reload ==
    /\ drops + reloads + moves < MaxDisturbances
    /\ reloads' = reloads + 1
    /\ online' = FALSE
    /\ subscribed' = FALSE
    /\ delivery' = "none"
    /\ bus' = <<>>
    /\ up' = <<"shell">>
    /\ down' = <<>>
    /\ serving' = NoRequest
    /\ thread' = NoThread
    /\ seeded' = {}
    /\ pending' = <<>>
    /\ flushed' = {}
    /\ router' = FreshRouter
    /\ UNCHANGED <<server, drops, moves, wanted>>

-----------------------------------------------------------------------------
(* The client: frames *)

(* Mutant: a completion brings the answer and leaves the session. *)
AdaptKeepsSession(e) ==
    IF e.type = "TurnStarted" THEN <<SessionSet(e.turn, "running")>>
    ELSE IF e.turn \notin seeded THEN <<>>
    ELSE CASE e.type = "MessageDeltaAppended" -> <<MessageSent(e.turn, e.text, TRUE)>>
           [] e.type = "TurnCompleted" -> <<MessageSent(e.turn, Answer, FALSE)>>
           [] e.type = "TurnFailed" -> <<SessionSet(NoTurn, "error")>>
           [] OTHER -> <<>>

(* adaptPushEnvelope.  Without the turn's start, neither a delta nor a     *)
(* completion can be told whose it is; a cancellation is not recognized.   *)
Adapt(e) ==
    IF e.type = "TurnStarted" THEN <<SessionSet(e.turn, "running")>>
    ELSE IF e.turn \notin seeded THEN <<>>
    ELSE CASE e.type = "MessageDeltaAppended" -> <<MessageSent(e.turn, e.text, TRUE)>>
           [] e.type = "TurnCompleted" ->
                <<SessionSet(NoTurn, "ready"), MessageSent(e.turn, Answer, FALSE)>>
           [] e.type = "TurnFailed" -> <<SessionSet(NoTurn, "error")>>
           [] OTHER -> <<>>

(* shouldFlushDomainEventImmediately: the first piece of a message. *)
IsFirstPiece(e) == e.type = "message-sent" /\ e.streaming /\ e.turn \notin flushed

(* queueDomainEvent, for the events of one frame; a finished message may   *)
(* be flushed immediately again.                                           *)
Queue(events) ==
    LET flushes == \E i \in DOMAIN events : IsFirstPiece(events[i])
        finished == {events[i].turn : i \in {j \in DOMAIN events :
                       events[j].type = "message-sent" /\ ~events[j].streaming}} IN
      /\ pending' = IF flushes THEN <<>> ELSE pending \o events
      /\ thread' = IF flushes THEN ApplyEvents(thread, Coalesce(pending \o events)) ELSE thread
      /\ flushed' = IF flushes THEN flushed \cup {events[i].turn : i \in DOMAIN events}
                    ELSE flushed \ finished

Arrives(kind) ==
    /\ online
    /\ down # <<>>
    /\ Head(down).kind = kind
    /\ down' = Tail(down)

(* onDomainEvent. *)
ReceiveEvent ==
    /\ Arrives("event")
    /\ LET e == Head(down).event IN
         /\ Queue(Adapt(e))
         /\ seeded' = IF e.type = "TurnStarted" THEN seeded \cup {e.turn} ELSE seeded
    /\ UNCHANGED <<server, online, subscribed, delivery, bus, up, serving, limits, wanted, router>>

(* The throttler of the pending events fires. *)
Flush ==
    /\ pending # <<>>
    /\ thread' = ApplyEvents(thread, Coalesce(pending))
    /\ pending' = <<>>
    /\ UNCHANGED <<server, link, limits, wanted, seeded, flushed, router>>

(* onShellEvent of a snapshot. *)
ReceiveShellSnapshot ==
    /\ Arrives("shell")
    /\ thread' = SyncShellSnapshot(thread)
    /\ UNCHANGED <<server, online, subscribed, delivery, bus, up, serving, limits,
                   wanted, seeded, pending, flushed, router>>

(* onThreadEvent of a snapshot: what is pending stays so, and is applied   *)
(* after it.                                                               *)
ReceiveThreadSnapshot ==
    /\ Arrives("thread")
    /\ thread' = SyncThreadSnapshot(thread, Head(down).snapshot)
    /\ router' = [router EXCEPT !.hydrated = TRUE, !.asking = FALSE]
    /\ UNCHANGED <<server, online, subscribed, delivery, bus, up, serving, limits,
                   wanted, seeded, pending, flushed>>

(* Mutant: the subscriptions of the last connection are kept. *)
WelcomeKeepsSubscriptions ==
    /\ Arrives("welcome")
    /\ router' = [router EXCEPT !.hydrated = FALSE]
    /\ up' = Append(up, "shell")
    /\ UNCHANGED <<server, online, subscribed, delivery, bus, serving, limits,
                   wanted, thread, seeded, pending, flushed>>

(* onServerWelcome.  (The snapshot of the shell that it also loads by a    *)
(* request, and the one its fallback timer loads, are applied only to a    *)
(* client that still has no thread: left out.)                             *)
ReceiveWelcome ==
    /\ Arrives("welcome")
    /\ EnsureScopedSubscriptions
    /\ UNCHANGED <<server, online, subscribed, delivery, bus, serving, limits,
                   wanted, thread, seeded, pending, flushed>>

(* A promise resolves: subscribeShell's goes on to reconcile, and those of *)
(* a reconcile end its job.                                                *)
ReceiveResponse ==
    /\ Arrives("response")
    /\ LET r == Head(down).request IN
         Settle(CASE r = "shell" -> [router EXCEPT !.chain = Append(@, wanted)]
                  [] r = "poll" -> [router EXCEPT !.asking = FALSE]
                  [] OTHER -> [router EXCEPT !.job = "idle"])
    /\ UNCHANGED <<server, online, subscribed, delivery, bus, serving, limits,
                   wanted, thread, seeded, pending, flushed>>

(* The user opens or leaves the thread, or its retention ends. *)
Move ==
    /\ drops + reloads + moves < MaxDisturbances
    /\ moves' = moves + 1
    /\ wanted' = ~wanted
    /\ Settle([router EXCEPT !.chain = Append(@, wanted')])
    /\ UNCHANGED <<server, online, subscribed, delivery, bus, down, serving, drops, reloads,
                   thread, seeded, pending, flushed>>

(* threadDetailCatchupInterval, for a thread that runs and has no          *)
(* snapshot. (For one that has, it asks for a replay, which the server     *)
(* answers with an empty list.)                                            *)
Poll ==
    /\ router.tracked /\ ~router.hydrated /\ ~router.asking
    /\ thread.known
    /\ thread.session = "running" \/ thread.latest.state = "running"
    /\ router' = [router EXCEPT !.asking = TRUE]
    /\ up' = Append(up, "poll")
    /\ UNCHANGED <<server, online, subscribed, delivery, bus, down, serving, limits,
                   wanted, thread, seeded, pending, flushed>>

-----------------------------------------------------------------------------
ServerStep ==
    \/ \E t \in Turns :
         \/ StartTurn(t) \/ CancelTurn(t)
         \/ ProviderDelta(t) \/ ProviderCompletes(t) \/ ProviderFails(t)
    \/ PublishCommandEvent \/ PublishProviderEvent \/ OtherPushesOvertake
    \/ DeliveryStarts \/ DeliverPush
    \/ ServeRequest \/ SendResponse

ClientStep ==
    \/ ReceiveEvent \/ ReceiveShellSnapshot \/ ReceiveThreadSnapshot
    \/ ReceiveWelcome \/ ReceiveResponse
    \/ Flush \/ Poll \/ Move \/ Connect \/ Reload

Next == ServerStep \/ ClientStep \/ Drop

Spec == Init /\ [][Next]_vars

-----------------------------------------------------------------------------
(* Properties *)

Texts == Seq(1..Chunks)
Events == [type : {"TurnStarted", "TurnCompleted", "TurnFailed", "TurnCancelled"}, turn : Turns]
            \cup [type : {"MessageDeltaAppended"}, turn : Turns, text : Texts]
UiEvents == [type : {"session-set"}, turn : Turns \cup {NoTurn}, status : SessionStatuses]
              \cup [type : {"message-sent"}, turn : Turns, text : Texts, streaming : BOOLEAN]
Messages == {NoMessage} \cup [text : Texts, streaming : BOOLEAN, shown : {TRUE}]
Latest == [turn : Turns \cup {NoTurn}, message : BOOLEAN,
           state : {"none", "unknown", "running", "completed", "error"}]
Threads == {NoThread} \cup [known : {TRUE}, session : SessionStatuses, latest : Latest,
                            answers : [Turns -> Messages]]
Snapshots == [latest : {NoLatest, [NoLatest EXCEPT !.state = "unknown"]},
              answers : [Turns -> Messages]]
Frames == [kind : {"welcome", "shell"}] \cup [kind : {"response"}, request : Requests]
            \cup [kind : {"event"}, event : Events]
            \cup [kind : {"thread"}, snapshot : Snapshots]
Servings == {NoRequest} \cup [request : {"shell", "close"}]
              \cup [request : {"open", "poll"}, snapshot : Snapshots]
Routers == [tracked : BOOLEAN, hydrated : BOOLEAN, asking : BOOLEAN, job : Jobs,
            chain : Seq(BOOLEAN)]

(* The consumer pushes one provider event before it projects the next, so  *)
(* at most one waits; the store keeps the shapes that store.ts declares.   *)
TypeOK ==
    /\ status \in [Turns -> Statuses]
    /\ output \in [Turns -> Texts]
    /\ streams \in [Turns -> BOOLEAN]
    /\ worker \in Seq(Events)
    /\ stream \in Seq(Events) /\ Len(stream) <= 1
    /\ online \in BOOLEAN /\ subscribed \in BOOLEAN
    /\ delivery \in Deliveries
    /\ bus \in Seq(Events)
    /\ up \in Seq(Requests)
    /\ down \in Seq(Frames)
    /\ serving \in Servings
    /\ drops \in Nat /\ reloads \in Nat /\ moves \in Nat
    /\ wanted \in BOOLEAN
    /\ thread \in Threads
    /\ seeded \subseteq Turns
    /\ pending \in Seq(UiEvents)
    /\ flushed \subseteq Turns \cup {NoTurn}
    /\ router \in Routers

(* Nothing is in flight or waits for a timer: what the client shows now it *)
(* shows until something new happens.                                      *)
Quiet ==
    /\ online
    /\ bus = <<>> /\ up = <<>> /\ down = <<>> /\ serving = NoRequest
    /\ worker = <<>> /\ stream = <<>> /\ pending = <<>>

(* The thread is shown as working. *)
Busy == thread.known /\ (thread.session = "running" \/ thread.latest.state = "running")

(* When every turn has completed or failed and nothing is in flight, the   *)
(* client does not show the thread as working, whatever was lost with a    *)
(* connection: the shell's snapshot after the reconnect, and the thread's, *)
(* repair what the lost completion would have done.  (A cancellation is    *)
(* left out: the push adapter does not recognize it.  So is a connection   *)
(* whose delivery task the bus has overtaken, at server.rs:120: nothing is *)
(* repaired until that connection is lost.)                                *)
QuietSpinnerOff ==
    /\ Quiet /\ delivery # "ended"
    /\ \A t \in Turns : status[t] \in {"none", "completed", "failed"}
    => ~Busy

(* Every piece is there, somewhere behind all of those before it. *)
Complete(text) ==
    \A k \in 1..Chunks : \E i \in DOMAIN text :
      text[i] = k /\ 1..(k - 1) \subseteq {text[j] : j \in 1..(i - 1)}

(* A piece is there twice. *)
Doubled(text) == \E i, j \in DOMAIN text : i # j /\ text[i] = text[j]

(* Once a completed turn's thread is subscribed and nothing is in flight,  *)
(* an answer that is shown lacks no piece, and they are in order, however  *)
(* broadcasts, immediate and throttled flushes, snapshots and reconnects   *)
(* interleave.  (A piece may be there twice: a delta is applied on top of  *)
(* a snapshot that already has it.  A text so lengthened outweighs the     *)
(* server's, and keeps a lost connection's gap for good: that is left out, *)
(* as is a page that never saw the turn start and adapts none of its       *)
(* events.  A thread the user has left may keep what an old snapshot       *)
(* brought, until it is opened again.  A delivery task that started after  *)
(* the snapshot was asked for may have missed a piece, and one that the    *)
(* bus has overtaken misses all that follow.)                              *)
QuietAnswerComplete ==
    \A t \in Turns :
      /\ Quiet /\ delivery = "prompt" /\ router.tracked
      /\ t \in seeded /\ status[t] = "completed" /\ thread.answers[t].shown
      => LET text == thread.answers[t].text IN
           Complete(text) \/ (drops > 0 /\ Doubled(text))

(* A thread snapshot that does not have the answer of turn t. *)
Lacks(frame, t) == frame.kind = "thread" /\ ~frame.snapshot.answers[t].shown

(* A text on the screen never gets shorter: not when an old snapshot is    *)
(* merged into what has streamed since, nor when the finished message      *)
(* replaces its parts.  Excepted are a reload, and a snapshot that lacks   *)
(* the message, which removes an answer the server never stored.           *)
AnswerNeverShrinks ==
    [][\A t \in Turns :
         \/ ~thread.known \/ reloads' # reloads
         \/ down # <<>> /\ Lacks(Head(down), t)
         \/ Len(thread'.answers[t].text) >= Len(thread.answers[t].text)]_vars

(* When nothing is in flight, the thread's subscription is what the user's *)
(* view asks for, and a wanted thread has had its snapshot: reconnects,    *)
(* and openings and closings that queue up behind one another, lose none.  *)
(* (A reconcile that a lost connection left waiting is excepted: its       *)
(* promise is never rejected, and the chain does not go on.)               *)
QuietThreadHydrated ==
    Quiet /\ router.job # "stuck" =>
      /\ router.tracked = wanted
      /\ wanted => router.hydrated

(* Merging the parts of a message that wait for the throttle into one      *)
(* event leaves the store as applying them one by one does, in whatever    *)
(* order sessions, deltas and completions queue up and whatever snapshot   *)
(* came in between.                                                        *)
CoalescingTransparent ==
    ApplyEvents(thread, Coalesce(pending)) = ApplyEvents(thread, pending)

=============================================================================
