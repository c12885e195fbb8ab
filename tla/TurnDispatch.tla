----------------------------- MODULE TurnDispatch -----------------------------
(***************************************************************************)
(* From StartTurn to the provider and back: the command reactor            *)
(* (reactors/command.rs) looks for a session of the thread, starts one     *)
(* through the session manager (syncode-provider/src/session.rs), sends    *)
(* the request to the adapter, drains what came back at once, and leaves   *)
(* the rest to a stream consumer (pipeline.rs).  The adapter is Claude's   *)
(* (adapters/claude.rs), which runs a process a request and answers on a   *)
(* broadcast bus; threads share it.                                        *)
(*                                                                         *)
(* One step is what happens between two awaits that matter.  The adapter   *)
(* sits behind a read-write lock: start_session and stop_session hold it   *)
(* for writing, so they and a send_request exclude each other.  A session  *)
(* is named by the turn that started it, and so is a process.  Consumers   *)
(* take an event when the bus carries it; how they batch and store what    *)
(* they take is EventPipeline's.  InterruptTurn, which the decider always  *)
(* rejects, and the queue of parked turns and the idle sweep, which        *)
(* nothing runs, are left out.                                             *)
(***************************************************************************)
EXTENDS Naturals, Sequences, FiniteSets, SequencesExt

CONSTANTS
    Turns,          \* turns clients start, Nat \ {0}
    Threads,
    Skills,         \* turns whose prompt is a slash command
    MaxTokens,      \* bound: tokens a process emits
    MaxStops        \* bound: commands that stop or interrupt

None == 0

ASSUME TurnDispatchAssumption ==
    /\ Turns \subseteq Nat \ {None}
    /\ IsFiniteSet(Turns)
    /\ Skills \subseteq Turns
    /\ Threads # {}
    /\ MaxTokens \in Nat
    /\ MaxStops \in Nat

VARIABLES
    \* the read model, and the commands' tasks
    thread,         \* each turn's thread
    status,         \* each turn's status
    worker,         \* where its StartTurn stands
    session,        \* the session its StartTurn uses
    refused,        \* turns whose request the adapter refused
    \* the session manager
    tracked,        \* sessions in the order they were created
    active, stamped,
    stopping,       \* deactivated, the adapter not yet told
    interrupt,      \* how far each session's one interrupt is
    stops,          \* commands so far that stop or interrupt
    \* the adapter
    opened,         \* its sessions
    current,        \* current_session
    child,          \* active_children: each session's process
    alive,          \* processes that run
    run,            \* each process's supervisor
    \* the bus
    capture,        \* the provider's events each StartTurn's early subscription holds
    told,           \* StartTurns whose early subscription holds a StatusChanged
    listening,      \* turns with a stream consumer
    heard           \* the events ingested under each turn, in order

readModel == <<thread, status, worker, session, refused>>
manager == <<tracked, active, stamped, stopping, interrupt, stops>>
adapter == <<opened, current, child, alive, run>>
bus == <<capture, told, listening, heard>>
vars == <<readModel, manager, adapter, bus>>

Statuses == {"none", "pending", "completed", "failed", "cancelled"}
Interrupts == {"none", "begun", "done"}
Stages == {"idle", "starting", "stamping", "sending", "draining", "reacted", "done", "failed"}
Events == [from : Turns, kind : {"skill", "token", "completed", "error", "synthesized"},
           n : 0..MaxTokens]
Idle == [phase |-> "none", session |-> None, sent |-> 0, outcome |-> "none", waits |-> None]

Event(r, kind, n) == [from |-> r, kind |-> kind, n |-> n]

Init ==
    /\ thread \in [Turns -> Threads]
    /\ status = [t \in Turns |-> "none"]
    /\ worker = [t \in Turns |-> "idle"]
    /\ session = [t \in Turns |-> None]
    /\ refused = {}
    /\ tracked = <<>>
    /\ active = {}
    /\ stamped = {}
    /\ stopping = {}
    /\ interrupt = [s \in Turns |-> "none"]
    /\ stops = 0
    /\ opened = {}
    /\ current = None
    /\ child = [s \in Turns |-> None]
    /\ alive = {}
    /\ run = [r \in Turns |-> Idle]
    /\ capture = [t \in Turns |-> <<>>]
    /\ told = {}
    /\ listening = {}
    /\ heard = [t \in Turns |-> <<>>]

-----------------------------------------------------------------------------
(* The bus *)

Terminal(e) == e.kind \in {"completed", "error", "synthesized"}

(* What ingestion makes of a terminal event, whatever the turn's status.   *)
StatusAfter(old, events) ==
    LET ends == {i \in DOMAIN events : Terminal(events[i])} IN
      IF ends = {} THEN old
      ELSE IF events[Max(ends)].kind = "error" THEN "failed" ELSE "completed"

(* event_stream: a subscription of a session. *)
Hears(t, s) == session[t] = s

Capturing == {t \in Turns : worker[t] \in {"sending", "draining"}}

(* Events of session s reach the subscriptions that are open. *)
Publish(events, s) ==
    /\ capture' = [t \in Turns |->
                     IF t \in Capturing /\ Hears(t, s) THEN capture[t] \o events ELSE capture[t]]
    /\ heard' = [t \in Turns |->
                   IF t \in listening /\ Hears(t, s) THEN heard[t] \o events ELSE heard[t]]
    /\ status' = [t \in Turns |->
                    IF t \in listening /\ Hears(t, s) THEN StatusAfter(status[t], events)
                    ELSE status[t]]
    /\ UNCHANGED <<told, listening>>

-----------------------------------------------------------------------------
(* StartTurn *)

(* Mutant: any active session will do. *)
CandidatesOfAll(t) == {i \in DOMAIN tracked : tracked[i] \in active}

(* The active sessions of the turn's thread, by their place in the list. *)
Candidates(t) ==
    {i \in DOMAIN tracked : tracked[i] \in active /\ thread[tracked[i]] = thread[t]}

(* A session of a matching identity is reused, another is stopped first;   *)
(* identities differ only while one is still to be recorded.  (A project   *)
(* that is deleted meanwhile changes the working directory, and so the     *)
(* identity: left out.)                                                    *)
Reuse(t, existing) ==
    /\ session' = [session EXCEPT ![t] = existing]
    /\ IF existing \in stamped
       THEN /\ worker' = [worker EXCEPT ![t] = "sending"]
            /\ UNCHANGED manager
       ELSE /\ worker' = [worker EXCEPT ![t] = "starting"]
            /\ active' = active \ {existing}
            /\ stopping' = stopping \cup {existing}
            /\ UNCHANGED <<tracked, stamped, interrupt, stops>>

(* The turn is recorded, and ensure_session_for_thread decides: start a    *)
(* session, or reuse the newest.  What happens between the two could as    *)
(* well happen before both.                                                *)
StartTurn(t) ==
    /\ status[t] = "none"
    /\ status' = [status EXCEPT ![t] = "pending"]
    /\ \/ /\ Candidates(t) = {}
          /\ worker' = [worker EXCEPT ![t] = "starting"]
          /\ UNCHANGED <<session, manager>>
       \/ \E i \in Candidates(t) :
            /\ \A j \in Candidates(t) : j <= i
            /\ Reuse(t, tracked[i])
    /\ UNCHANGED <<thread, refused, adapter, bus>>

(* Mutant: the session is not pushed to the thread's list. *)
StartSessionUntracked(t) ==
    /\ worker[t] = "starting"
    /\ session[t] \notin stopping
    /\ opened' = opened \cup {t}
    /\ current' = t
    /\ active' = active \cup {t}
    /\ session' = [session EXCEPT ![t] = t]
    /\ worker' = [worker EXCEPT ![t] = "stamping"]
    /\ UNCHANGED <<thread, status, refused, tracked, stamped, stopping, interrupt, stops,
                   child, alive, run, bus>>

(* start_session_with_cursor, the adapter locked throughout. *)
StartSession(t) ==
    /\ worker[t] = "starting"
    /\ session[t] \notin stopping
    /\ opened' = opened \cup {t}
    /\ current' = t
    /\ tracked' = Append(tracked, t)
    /\ active' = active \cup {t}
    /\ session' = [session EXCEPT ![t] = t]
    /\ worker' = [worker EXCEPT ![t] = "stamping"]
    /\ UNCHANGED <<thread, status, refused, stamped, stopping, interrupt, stops,
                   child, alive, run, bus>>

(* The adapter is not spawned: react's error ends the command. *)
StartSessionFails(t) ==
    /\ worker[t] = "starting"
    /\ session[t] \notin stopping
    /\ worker' = [worker EXCEPT ![t] = "failed"]
    /\ UNCHANGED <<thread, status, session, refused, manager, adapter, bus>>

(* Mutant: the consumer is spawned before the request, beside the capture. *)
ConsumeBeforeRequest(t) ==
    /\ worker[t] = "stamping"
    /\ stamped' = stamped \cup {t}
    /\ worker' = [worker EXCEPT ![t] = "sending"]
    /\ listening' = listening \cup {t}
    /\ UNCHANGED <<thread, status, session, refused, tracked, active, stopping, interrupt, stops,
                   adapter, capture, told, heard>>

(* The end of start_and_stamp, and the subscription before the request: an *)
(* event between the two could as well come before both.                   *)
StampAndSubscribe(t) ==
    /\ worker[t] = "stamping"
    /\ stamped' = stamped \cup {t}
    /\ worker' = [worker EXCEPT ![t] = "sending"]
    /\ UNCHANGED <<thread, status, session, refused, tracked, active, stopping, interrupt, stops,
                   adapter, bus>>

(* send_request.  The request names no session: it goes to the adapter's   *)
(* current one, whose process, if it has one, is dropped and so killed.    *)
SendRequest(t) ==
    /\ worker[t] = "sending"
    /\ current # None
    /\ worker' = [worker EXCEPT ![t] = "draining"]
    /\ Publish(IF t \in Skills THEN <<Event(t, "skill", 0)>> ELSE <<>>, current)
    /\ child' = [child EXCEPT ![current] = t]
    /\ alive' = (alive \ {child[current]}) \cup {t}
    /\ run' = [run EXCEPT ![t].phase = "streaming", ![t].session = current]
    /\ UNCHANGED <<thread, session, refused, manager, opened, current>>

(* No current session, or the process cannot be spawned. *)
RequestRefused(t) ==
    /\ worker[t] = "sending"
    /\ worker' = [worker EXCEPT ![t] = "draining"]
    /\ refused' = refused \cup {t}
    /\ Publish(IF t \in Skills /\ current # None THEN <<Event(t, "skill", 0)>> ELSE <<>>, current)
    /\ UNCHANGED <<thread, session, manager, adapter>>

(* Mutant: no safety net. *)
NoSafetyNet(t, captured) == captured

(* The safety net behind the drain: what was captured, ended by an event   *)
(* of the reactor's own if the adapter's end is not among it.              *)
SafetyNet(t, captured) ==
    IF \E i \in DOMAIN captured : Terminal(captured[i]) THEN captured
    ELSE IF t \in refused THEN Append(captured, Event(t, "error", 0))
    ELSE IF captured # <<>> \/ t \in told THEN Append(captured, Event(t, "synthesized", 0))
    ELSE captured

(* drain_captured_provider_events times out, and the pipeline ingests what *)
(* the reactor returns.                                                    *)
Drain(t) ==
    /\ worker[t] = "draining"
    /\ LET events == SafetyNet(t, capture[t]) IN
         /\ heard' = [heard EXCEPT ![t] = @ \o events]
         /\ status' = [status EXCEPT ![t] = StatusAfter(@, events)]
         /\ worker' = [worker EXCEPT ![t] =
                         IF \E i \in DOMAIN events : Terminal(events[i])
                         THEN "done" ELSE "reacted"]
    /\ capture' = [capture EXCEPT ![t] = <<>>]
    /\ told' = told \ {t}
    /\ UNCHANGED <<thread, session, refused, manager, adapter, listening>>

(* spawn_provider_stream_consumer: a subscription of its own.  It does not *)
(* end with the turn.  (A bus that overtakes it, or a failed append, ends  *)
(* it: see EventPipeline, StreamEnds and ConsumerAppendFails.)             *)
SpawnConsumer(t) ==
    /\ worker[t] = "reacted"
    /\ worker' = [worker EXCEPT ![t] = "done"]
    /\ listening' = listening \cup {t}
    /\ UNCHANGED <<thread, status, session, refused, manager, adapter, capture, told, heard>>

-----------------------------------------------------------------------------
(* The processes and their supervisors *)

EmitToken(r) ==
    /\ run[r].phase = "streaming"
    /\ r \in alive
    /\ run[r].sent < MaxTokens
    /\ run' = [run EXCEPT ![r].sent = @ + 1]
    /\ Publish(<<Event(r, "token", run'[r].sent)>>, run[r].session)
    /\ UNCHANGED <<thread, worker, session, refused, manager,
                   opened, current, child, alive>>

(* run_turn returns: on the result, after which the process exits, or on   *)
(* the end of the output of a process that failed or was killed.  The      *)
(* process counts as gone then, though it may take until the supervisor    *)
(* has waited for it; it says nothing more.                                *)
RunEnds(r) ==
    /\ run[r].phase = "streaming"
    /\ \E outcome \in IF r \in alive THEN {"completed", "error"} ELSE {"error"} :
         run' = [run EXCEPT ![r].phase = "reaping", ![r].outcome = outcome]
    /\ alive' = alive \ {r}
    /\ UNCHANGED <<readModel, manager, opened, current, child, bus>>

(* The supervisor takes its session's process out of active_children,      *)
(* whichever request it serves ...  (It keeps the lock of active_children  *)
(* until the process has exited; here others may go on.)                   *)
Reap(r) ==
    /\ run[r].phase = "reaping"
    /\ run' = [run EXCEPT ![r].phase = "waiting", ![r].waits = child[run[r].session]]
    /\ child' = [child EXCEPT ![run[r].session] = None]
    /\ UNCHANGED <<readModel, manager, opened, current, alive, bus>>

(* ... waits for it to exit, and reports. *)
Report(r) ==
    /\ run[r].phase = "waiting"
    /\ run[r].waits \notin alive
    /\ run' = [run EXCEPT ![r].phase = "ended"]
    /\ Publish(<<Event(r, run[r].outcome, 0)>>, run[r].session)
    /\ UNCHANGED <<thread, worker, session, refused, manager,
                   opened, current, child, alive>>

-----------------------------------------------------------------------------
(* Stopping *)

CountStop == stops < MaxStops /\ stops' = stops + 1

(* Mutant: the session stays active until the adapter has stopped it. *)
CancelKeepsActive(t) ==
    /\ CountStop
    /\ status[t] \in {"pending", "failed"}
    /\ status' = [status EXCEPT ![t] = "cancelled"]
    /\ stopping' = IF t \in Range(tracked) THEN stopping \cup {t} ELSE stopping
    /\ UNCHANGED <<thread, worker, session, refused, tracked, active, stamped, interrupt,
                   adapter, bus>>

(* CancelTurn: recorded, and the session that the turn started, if it did, *)
(* deactivated (handle_cancel_turn, the first half of stop_session).       *)
CancelTurn(t) ==
    /\ CountStop
    /\ status[t] \in {"pending", "failed"}
    /\ status' = [status EXCEPT ![t] = "cancelled"]
    /\ active' = active \ {t}
    /\ stopping' = IF t \in Range(tracked) THEN stopping \cup {t} ELSE stopping
    /\ UNCHANGED <<thread, worker, session, refused, tracked, stamped, interrupt, adapter, bus>>

(* One turn of the loop of CancelThread, which stops the sessions of every *)
(* thread, or of StopThreadSession.                                        *)
StopActiveSession(s) ==
    /\ CountStop
    /\ s \in active
    /\ active' = active \ {s}
    /\ stopping' = stopping \cup {s}
    /\ UNCHANGED <<readModel, tracked, stamped, interrupt, adapter, bus>>

(* Mutant: the session goes, its process stays. *)
StopForgetsProcess(s) ==
    /\ s \in stopping
    /\ stopping' = stopping \ {s}
    /\ opened' = opened \ {s}
    /\ current' = IF current = s THEN None ELSE current
    /\ UNCHANGED <<readModel, tracked, active, stamped, interrupt, stops, child, alive, run,
                   bus>>

(* The adapter's stop_session: the session goes, its process is killed,    *)
(* and every subscriber is told of the status.  (The lock of               *)
(* active_children is kept until the process has exited, as in Reap.)      *)
StopSession(s) ==
    /\ s \in stopping
    /\ stopping' = stopping \ {s}
    /\ opened' = opened \ {s}
    /\ IF s \in opened
       THEN /\ current' = IF current = s THEN None ELSE current
            /\ alive' = alive \ {child[s]}
            /\ child' = [child EXCEPT ![s] = None]
            /\ told' = told \cup Capturing
       ELSE UNCHANGED <<current, alive, child, told>>
    /\ UNCHANGED <<readModel, tracked, active, stamped, interrupt, stops, run,
                   capture, listening, heard>>

-----------------------------------------------------------------------------
(* Interrupting *)

(* interrupt_session, up to the call of the adapter: no path makes a       *)
(* session that was interrupted "processing" again.                        *)
BeginInterrupt(s) ==
    interrupt' = IF s \in Range(tracked) /\ interrupt[s] = "none"
                 THEN [interrupt EXCEPT ![s] = "begun"] ELSE interrupt

(* FailTurn: recorded, and the session that the turn started interrupted.  *)
FailTurn(t) ==
    /\ CountStop
    /\ status[t] \in {"pending", "failed"}
    /\ status' = [status EXCEPT ![t] = "failed"]
    /\ BeginInterrupt(t)
    /\ UNCHANGED <<thread, worker, session, refused, tracked, active, stamped, stopping,
                   adapter, bus>>

(* One turn of interrupt_all's loop: PauseThread interrupts the sessions of *)
(* every thread.                                                           *)
PauseSession(s) ==
    /\ CountStop
    /\ s \in active
    /\ BeginInterrupt(s)
    /\ UNCHANGED <<readModel, tracked, active, stamped, stopping, adapter, bus>>

(* The adapter's interrupt: the session's process is killed. *)
InterruptSession(s) ==
    /\ interrupt[s] = "begun"
    /\ interrupt' = [interrupt EXCEPT ![s] = "done"]
    /\ alive' = IF s \in opened THEN alive \ {child[s]} ELSE alive
    /\ child' = IF s \in opened THEN [child EXCEPT ![s] = None] ELSE child
    /\ UNCHANGED <<readModel, tracked, active, stamped, stopping, stops, opened, current,
                   run, bus>>

-----------------------------------------------------------------------------
Next ==
    \E t \in Turns :
         \/ StartTurn(t) \/ StartSession(t) \/ StartSessionFails(t)
         \/ StampAndSubscribe(t) \/ SendRequest(t) \/ RequestRefused(t)
         \/ Drain(t) \/ SpawnConsumer(t)
         \/ EmitToken(t) \/ RunEnds(t) \/ Reap(t) \/ Report(t)
         \/ CancelTurn(t) \/ StopActiveSession(t) \/ StopSession(t)
         \/ FailTurn(t) \/ PauseSession(t) \/ InterruptSession(t)

Spec == Init /\ [][Next]_vars

-----------------------------------------------------------------------------
(* Properties *)

(* Every variable stays in its range, and the manager's indices agree:     *)
(* what is active, stamped or being stopped is a session of the thread's   *)
(* list, so a command that stops a thread can find it.                     *)
TypeOK ==
    /\ thread \in [Turns -> Threads]
    /\ status \in [Turns -> Statuses]
    /\ worker \in [Turns -> Stages]
    /\ session \in [Turns -> Turns \cup {None}]
    /\ refused \cup listening \subseteq Turns
    /\ tracked \in Seq(Turns)
    /\ active \cup stamped \cup stopping \subseteq Range(tracked)
    /\ interrupt \in [Turns -> Interrupts]
    /\ opened \cup alive \subseteq Turns
    /\ current \in Turns \cup {None}
    /\ child \in [Turns -> Turns \cup {None}]
    /\ \A t \in Turns : Range(heard[t]) \subseteq Events

(* The early subscription and the consumer's do not overlap: no event of   *)
(* the provider is ingested twice under one turn.                          *)
HeardOnce == \A t \in Turns : IsInjective(heard[t])

(* Although threads share the adapter, its bus and its current session, a  *)
(* turn is only given events of sessions of its own thread.  (It may be    *)
(* given the answer to another thread's request, when that request was     *)
(* sent to this thread's session.)                                         *)
HeardOnOwnThread ==
    \A t \in Turns : \A e \in Range(heard[t]) :
      e.kind # "synthesized" /\ run[e.from].session # None =>
        thread[run[e.from].session] = thread[t]

(* A turn whose StartTurn came through and that is still pending has a     *)
(* consumer, and a request that was sent: a request the adapter refused    *)
(* does not leave its turn pending.  (A turn for which no session could be *)
(* started is left pending, with nobody to follow it: its worker ends as   *)
(* "failed", and the property does not speak of it.)                       *)
PendingIsFollowed ==
    \A t \in Turns :
      worker[t] = "done" /\ status[t] = "pending" => t \in listening /\ t \notin refused

(* A session that ensure_session_for_thread may reuse is one the adapter   *)
(* knows, and so is the adapter's current session, which requests go to:   *)
(* stopping, starting and replacing sessions may overlap in any order.     *)
ActiveIsOpen == active \subseteq opened /\ current \in opened \cup {None}

(* A process outlives its session only in the hands of a supervisor that   *)
(* has taken it out of active_children for its own.                        *)
ClosedSessionHasNoProcess ==
    \A r \in alive : run[r].session \in opened \/ \E q \in Turns : run[q].waits = r

Answered(t) == run[t].phase = "ended" /\ run[t].outcome = "completed"

(* "Pure-async adapters (claude's supervisor pattern) return Ok            *)
(* immediately with NO events - the turn is still in flight on a detached  *)
(* task" (the comment in handle_start_turn): the answer of a request that  *)
(* has completed is ingested under the request's turn.                     *)
TurnHeardItsAnswer ==
    \A t \in Turns :
      worker[t] = "done" /\ Answered(t) => Event(t, "completed", 0) \in Range(heard[t])

=============================================================================
