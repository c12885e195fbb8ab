-------------------------- MODULE TurnDispatchProofs --------------------------
(***************************************************************************)
(* What holds of TurnDispatch for any number of turns, threads and tokens. *)
(***************************************************************************)
EXTENDS TurnDispatch, TLAPS

-----------------------------------------------------------------------------
(* Sequences *)

LEMMA RangeConcat ==
    ASSUME NEW S, NEW a \in Seq(S), NEW b \in Seq(S)
    PROVE  Range(a \o b) = Range(a) \cup Range(b)
<1>1. /\ DOMAIN (a \o b) = 1..(Len(a) + Len(b))
      /\ \A i \in 1..Len(a) : (a \o b)[i] = a[i]
      /\ \A i \in 1..Len(b) : (a \o b)[Len(a) + i] = b[i]
      /\ \A i \in (Len(a) + 1)..(Len(a) + Len(b)) :
           (a \o b)[i] = b[i - Len(a)] /\ i - Len(a) \in 1..Len(b)
  OBVIOUS
<1>2. Range(a \o b) \subseteq Range(a) \cup Range(b)
  BY <1>1 DEF Range
<1>3. Range(a) \subseteq Range(a \o b)
  BY <1>1 DEF Range
<1>4. Range(b) \subseteq Range(a \o b)
  <2>1. \A i \in 1..Len(b) : Len(a) + i \in DOMAIN (a \o b) /\ b[i] = (a \o b)[Len(a) + i]
    BY <1>1
  <2>2. DOMAIN b = 1..Len(b)
    OBVIOUS
  <2> HIDE <1>1
  <2>3. \A i \in DOMAIN b : \E j \in DOMAIN (a \o b) : b[i] = (a \o b)[j]
    BY <2>1, <2>2
  <2> QED BY <2>3 DEF Range
<1> QED BY <1>2, <1>3, <1>4

LEMMA RangeAppend ==
    ASSUME NEW S, NEW a \in Seq(S), NEW e \in S
    PROVE  Range(Append(a, e)) = Range(a) \cup {e}
<1>1. /\ DOMAIN Append(a, e) = 1..(Len(a) + 1)
      /\ \A i \in 1..Len(a) : Append(a, e)[i] = a[i]
      /\ Append(a, e)[Len(a) + 1] = e
  OBVIOUS
<1> QED BY <1>1 DEF Range

(* A sequence without repetitions stays so when something new is appended. *)
LEMMA InjectiveAppend ==
    ASSUME NEW S, NEW a \in Seq(S), NEW e \in S, IsInjective(a), e \notin Range(a)
    PROVE  IsInjective(Append(a, e))
<1>1. /\ DOMAIN Append(a, e) = 1..(Len(a) + 1)
      /\ \A i \in 1..Len(a) : Append(a, e)[i] = a[i] /\ a[i] # e
      /\ Append(a, e)[Len(a) + 1] = e
  BY DEF Range
<1> QED BY <1>1 DEF IsInjective

-----------------------------------------------------------------------------
(* The typing invariant. *)
Runs == [phase : {"none", "streaming", "reaping", "waiting", "ended"},
         session : Turns \cup {None}, sent : 0..MaxTokens,
         outcome : {"none", "completed", "error"}, waits : Turns \cup {None}]

(* A supervisor knows its session, and when it is through, the outcome. *)
RunKnows(x) ==
    /\ x.phase # "none" => x.session \in Turns
    /\ x.phase \in {"reaping", "waiting", "ended"} => x.outcome # "none"

TypeInv ==
    /\ thread \in [Turns -> Threads]
    /\ status \in [Turns -> Statuses]
    /\ worker \in [Turns -> Stages]
    /\ session \in [Turns -> Turns \cup {None}]
    /\ refused \subseteq Turns /\ listening \subseteq Turns /\ told \subseteq Turns
    /\ tracked \in Seq(Turns)
    /\ interrupt \in [Turns -> Interrupts]
    /\ opened \subseteq Turns /\ alive \subseteq Turns
    /\ current \in Turns \cup {None}
    /\ child \in [Turns -> Turns \cup {None}]
    /\ run \in [Turns -> Runs]
    /\ \A r \in Turns : RunKnows(run[r])
    /\ capture \in [Turns -> Seq(Events)]
    /\ heard \in [Turns -> Seq(Events)]

LEMMA StatusAfterType ==
    ASSUME NEW old, NEW events
    PROVE  StatusAfter(old, events) \in {old, "completed", "failed"}
BY DEF StatusAfter

(* What a publication does to one turn. *)
LEMMA Publication ==
    ASSUME TypeInv, NEW events \in Seq(Events), NEW s, Publish(events, s)
    PROVE  /\ told' = told /\ listening' = listening
           /\ capture' \in [Turns -> Seq(Events)] /\ heard' \in [Turns -> Seq(Events)]
           /\ status' \in [Turns -> Statuses]
           /\ \A t \in Turns :
                /\ status'[t] \in {status[t], "completed", "failed"}
                /\ \/ capture'[t] = capture[t]
                   \/ /\ t \in Capturing /\ session[t] = s
                      /\ capture'[t] = capture[t] \o events
                /\ \/ heard'[t] = heard[t]
                   \/ /\ t \in listening /\ session[t] = s
                      /\ heard'[t] = heard[t] \o events
<1>1. \A t \in Turns : capture[t] \o events \in Seq(Events) /\ heard[t] \o events \in Seq(Events)
  BY DEF TypeInv
<1>2. capture' \in [Turns -> Seq(Events)] /\ heard' \in [Turns -> Seq(Events)]
  BY <1>1 DEF Publish, TypeInv
<1>3. \A t \in Turns : status'[t] \in {status[t], "completed", "failed"}
  BY StatusAfterType DEF Publish
<1>4. status' \in [Turns -> Statuses]
  BY <1>3 DEF Publish, TypeInv, Statuses
<1> QED BY <1>2, <1>3, <1>4 DEF Publish, Hears

LEMMA EventType ==
    ASSUME TypeInv, NEW t \in Turns
    PROVE  /\ \A kind \in {"skill", "completed", "error", "synthesized"} :
                Event(t, kind, 0) \in Events
           /\ \A n \in 0..MaxTokens : Event(t, "token", n) \in Events
BY TurnDispatchAssumption DEF Event, Events

LEMMA SafetyNetType ==
    ASSUME TypeInv, NEW t \in Turns
    PROVE  SafetyNet(t, capture[t]) \in Seq(Events)
<1>1. capture[t] \in Seq(Events)
  BY DEF TypeInv
<1> QED BY <1>1, EventType DEF SafetyNet

LEMMA TypeInit == Init => TypeInv
BY TurnDispatchAssumption DEF Init, TypeInv, Statuses, Stages, Interrupts, Runs, RunKnows, Idle

LEMMA RunMoves ==
    ASSUME TypeInv, NEW r \in Turns, NEW x \in Runs, RunKnows(x), run' = [run EXCEPT ![r] = x]
    PROVE  /\ run' \in [Turns -> Runs]
           /\ \A q \in Turns : RunKnows(run'[q])
BY DEF TypeInv

LEMMA TypeStep ==
    ASSUME TypeInv, [Next]_vars
    PROVE  TypeInv'
<1> USE TurnDispatchAssumption
<1> USE DEF Statuses, Stages, Interrupts, readModel, manager, adapter, bus
<1>1. ASSUME NEW t \in Turns, StartTurn(t) PROVE TypeInv'
  <2>1. /\ session' \in [Turns -> Turns \cup {None}]
    BY <1>1 DEF TypeInv, StartTurn, Reuse, Candidates
  <2>2. /\ tracked' = tracked /\ interrupt' = interrupt
        /\ status' = [status EXCEPT ![t] = "pending"]
        /\ UNCHANGED <<thread, refused, adapter, bus>>
        /\ \E w \in {"starting", "sending"} : worker' = [worker EXCEPT ![t] = w]
    BY <1>1 DEF StartTurn, Reuse
  <2> QED BY SMTT(20), <2>1, <2>2 DEF TypeInv
<1>2. ASSUME NEW t \in Turns, StartSession(t) PROVE TypeInv'
  BY <1>2 DEF TypeInv, StartSession
<1>3. ASSUME NEW t \in Turns, StartSessionFails(t) PROVE TypeInv'
  BY <1>3 DEF TypeInv, StartSessionFails
<1>4. ASSUME NEW t \in Turns, StampAndSubscribe(t) PROVE TypeInv'
  BY <1>4 DEF TypeInv, StampAndSubscribe
<1>5. ASSUME NEW t \in Turns, SendRequest(t) PROVE TypeInv'
  <2> DEFINE events == IF t \in Skills THEN <<Event(t, "skill", 0)>> ELSE <<>>
  <2>1. events \in Seq(Events)
    BY EventType
  <2>2. Publish(events, current)
    BY <1>5 DEF SendRequest
  <2> HIDE DEF events
  <2>3. /\ run' \in [Turns -> Runs]
        /\ \A q \in Turns : RunKnows(run'[q])
    <3> DEFINE x == [run[t] EXCEPT !.phase = "streaming", !.session = current]
    <3>1. x \in Runs /\ RunKnows(x)
      <4>1. run[t] \in Runs /\ current \in Turns
        BY <1>5 DEF TypeInv, SendRequest
      <4> QED BY <4>1 DEF Runs, RunKnows
    <3>2. run' = [run EXCEPT ![t] = x]
      BY <1>5 DEF TypeInv, SendRequest, Runs
    <3> QED BY <3>1, <3>2, RunMoves
  <2>4. /\ child' \in [Turns -> Turns \cup {None}] /\ alive' \subseteq Turns
        /\ worker' \in [Turns -> Stages]
    BY <1>5 DEF TypeInv, SendRequest
  <2> QED BY <1>5, <2>1, <2>2, <2>3, <2>4, Publication DEF TypeInv, SendRequest
<1>6. ASSUME NEW t \in Turns, RequestRefused(t) PROVE TypeInv'
  <2> DEFINE events == IF t \in Skills /\ current # None THEN <<Event(t, "skill", 0)>> ELSE <<>>
  <2>1. events \in Seq(Events)
    BY EventType
  <2>2. Publish(events, current)
    BY <1>6 DEF RequestRefused
  <2> HIDE DEF events
  <2>3. worker' \in [Turns -> Stages]
    BY <1>6 DEF TypeInv, RequestRefused
  <2>4. /\ refused' \subseteq Turns
        /\ UNCHANGED <<thread, session, tracked, interrupt, opened, current, child, alive, run>>
    BY <1>6 DEF TypeInv, RequestRefused
  <2> QED BY <2>1, <2>2, <2>3, <2>4, Publication DEF TypeInv
<1>7. ASSUME NEW t \in Turns, Drain(t) PROVE TypeInv'
  <2> DEFINE events == SafetyNet(t, capture[t])
  <2>1. events \in Seq(Events) /\ StatusAfter(status[t], events) \in Statuses
    BY SafetyNetType, StatusAfterType DEF TypeInv
  <2>2. /\ heard' = [heard EXCEPT ![t] = @ \o events]
        /\ status' = [status EXCEPT ![t] = StatusAfter(status[t], events)]
        /\ capture' = [capture EXCEPT ![t] = <<>>] /\ told' = told \ {t}
        /\ UNCHANGED <<thread, session, refused, manager, adapter, listening>>
        /\ \E w \in {"done", "reacted"} : worker' = [worker EXCEPT ![t] = w]
    BY <1>7 DEF Drain
  <2> HIDE DEF events
  <2>3. heard' \in [Turns -> Seq(Events)]
    BY <2>1, <2>2 DEF TypeInv
  <2>4. /\ status' \in [Turns -> Statuses] /\ worker' \in [Turns -> Stages]
        /\ capture' \in [Turns -> Seq(Events)]
    BY <2>1, <2>2 DEF TypeInv
  <2> QED BY <2>2, <2>3, <2>4 DEF TypeInv
<1>8. ASSUME NEW t \in Turns, SpawnConsumer(t) PROVE TypeInv'
  BY <1>8 DEF TypeInv, SpawnConsumer
<1>9. ASSUME NEW r \in Turns, EmitToken(r) PROVE TypeInv'
  <2>1. run[r].sent + 1 \in 0..MaxTokens /\ run[r] \in Runs
    BY <1>9 DEF TypeInv, EmitToken, Runs
  <2>2. run' = [run EXCEPT ![r] = [run[r] EXCEPT !.sent = run[r].sent + 1]]
    BY <1>9 DEF EmitToken
  <2>3. [run[r] EXCEPT !.sent = run[r].sent + 1] \in Runs
    BY <2>1 DEF Runs
  <2>4. run' \in [Turns -> Runs] /\ run'[r].sent = run[r].sent + 1
    BY <2>2, <2>1, <2>3 DEF TypeInv, Runs
  <2>5. \A q \in Turns : RunKnows(run'[q])
    <3>1. /\ run'[r].phase = run[r].phase /\ run'[r].session = run[r].session
          /\ run'[r].outcome = run[r].outcome
          /\ \A q \in Turns \ {r} : run'[q] = run[q]
      BY <2>2, <2>1 DEF TypeInv, Runs
    <3> QED BY <3>1 DEF TypeInv, RunKnows
  <2>6. <<Event(r, "token", run'[r].sent)>> \in Seq(Events)
    BY <2>1, <2>4, EventType
  <2>7. Publish(<<Event(r, "token", run'[r].sent)>>, run[r].session)
    BY <1>9 DEF EmitToken
  <2> QED BY <1>9, <2>4, <2>5, <2>6, <2>7, Publication DEF TypeInv, EmitToken
<1>10. ASSUME NEW r \in Turns, RunEnds(r) PROVE TypeInv'
  <2>1. /\ run' \in [Turns -> Runs]
        /\ \A q \in Turns : RunKnows(run'[q])
    <3>1. PICK outcome \in {"completed", "error"} :
            run' = [run EXCEPT ![r].phase = "reaping", ![r].outcome = outcome]
      BY <1>10 DEF RunEnds
    <3> DEFINE x == [run[r] EXCEPT !.phase = "reaping", !.outcome = outcome]
    <3>2. x \in Runs /\ RunKnows(x)
      <4>1. run[r] \in Runs /\ run[r].session \in Turns
        BY <1>10 DEF TypeInv, RunEnds, RunKnows
      <4> QED BY <4>1 DEF Runs, RunKnows
    <3>3. run' = [run EXCEPT ![r] = x]
      BY <3>1 DEF TypeInv, Runs
    <3> QED BY <3>2, <3>3, RunMoves
  <2> QED BY <1>10, <2>1 DEF TypeInv, RunEnds
<1>11. ASSUME NEW r \in Turns, Reap(r) PROVE TypeInv'
  <2> DEFINE x == [run[r] EXCEPT !.phase = "waiting", !.waits = child[run[r].session]]
  <2>1. run[r] \in Runs /\ RunKnows(run[r]) /\ run[r].phase = "reaping"
    BY <1>11 DEF TypeInv, Reap
  <2>2. child[run[r].session] \in Turns \cup {None}
    BY <2>1 DEF TypeInv, RunKnows
  <2>3. x \in Runs /\ RunKnows(x)
    BY <2>1, <2>2 DEF Runs, RunKnows
  <2>4. run' = [run EXCEPT ![r] = x]
    BY <1>11 DEF TypeInv, Reap, Runs
  <2>5. run' \in [Turns -> Runs] /\ \A q \in Turns : RunKnows(run'[q])
    BY <2>3, <2>4, RunMoves
  <2> QED BY <1>11, <2>5 DEF TypeInv, Reap
<1>12. ASSUME NEW r \in Turns, Report(r) PROVE TypeInv'
  <2>1. run[r].outcome \in {"completed", "error"}
    BY <1>12 DEF TypeInv, Report, Runs, RunKnows
  <2>2. <<Event(r, run[r].outcome, 0)>> \in Seq(Events)
    BY <2>1, EventType
  <2>3. /\ run' \in [Turns -> Runs]
        /\ \A q \in Turns : RunKnows(run'[q])
    <3> DEFINE x == [run[r] EXCEPT !.phase = "ended"]
    <3>1. x \in Runs /\ RunKnows(x)
      <4>1. run[r] \in Runs /\ run[r].session \in Turns
        BY <1>12 DEF TypeInv, Report, RunKnows
      <4> QED BY <4>1, <2>1 DEF Runs, RunKnows
    <3>2. run' = [run EXCEPT ![r] = x]
      BY <1>12 DEF TypeInv, Report, Runs
    <3> QED BY <3>1, <3>2, RunMoves
  <2>4. Publish(<<Event(r, run[r].outcome, 0)>>, run[r].session)
    BY <1>12 DEF Report
  <2> QED BY <1>12, <2>2, <2>3, <2>4, Publication DEF TypeInv, Report
<1>13. ASSUME NEW t \in Turns, CancelTurn(t) PROVE TypeInv'
  BY <1>13 DEF TypeInv, CancelTurn
<1>14. ASSUME NEW s \in Turns, StopSession(s) PROVE TypeInv'
  BY <1>14 DEF TypeInv, StopSession, Capturing
<1>15. ASSUME NEW s \in Turns, StopActiveSession(s) PROVE TypeInv'
  BY <1>15 DEF TypeInv, StopActiveSession
<1>16. ASSUME NEW s \in Turns, FailTurn(s) \/ PauseSession(s) PROVE TypeInv'
  BY <1>16 DEF TypeInv, FailTurn, PauseSession, BeginInterrupt
<1>17. ASSUME NEW s \in Turns, InterruptSession(s) PROVE TypeInv'
  BY <1>17 DEF TypeInv, InterruptSession
<1>18. ASSUME UNCHANGED vars PROVE TypeInv'
  BY <1>18 DEF TypeInv, vars
<1> QED
  BY <1>1, <1>2, <1>3, <1>4, <1>5, <1>6, <1>7, <1>8, <1>9, <1>10, <1>11, <1>12, <1>13, <1>14,
     <1>15, <1>16, <1>17, <1>18 DEF Next

(* Turns whose status changes otherwise than by StartTurn or CancelTurn    *)
(* have ended; FailTurn's has too.                                         *)
StatusEnds == \A t \in Turns : status'[t] \in {status[t], "completed", "failed"}

LEMMA ProviderStatus ==
    ASSUME TypeInv, NEW r \in Turns,
           SendRequest(r) \/ RequestRefused(r) \/ EmitToken(r) \/ Report(r) \/ Drain(r)
    PROVE  StatusEnds
<1>1. \A events, s : Publish(events, s) => StatusEnds
  BY StatusAfterType DEF Publish, StatusEnds
<1>2. CASE Drain(r)
  BY <1>2, StatusAfterType DEF Drain, StatusEnds, TypeInv
<1> QED BY <1>1, <1>2 DEF SendRequest, RequestRefused, EmitToken, Report

-----------------------------------------------------------------------------
(* Where a turn's StartTurn stands, and the manager's list of sessions.    *)
PlaceInv ==
    /\ \A t \in Turns : status[t] = "none" => worker[t] = "idle"
    /\ \A t \in Turns : worker[t] \in {"idle", "starting", "failed"} => t \notin Range(tracked)
    /\ \A t \in Turns : worker[t] = "stamping" => t \in Range(tracked)
    /\ active \subseteq Range(tracked)
    /\ stamped \subseteq Range(tracked)
    /\ stopping \subseteq Range(tracked)

LEMMA PlaceInit == Init => PlaceInv
BY DEF Init, PlaceInv, Range

LEMMA PlaceStep ==
    ASSUME TypeInv, PlaceInv, [Next]_vars
    PROVE  PlaceInv'
<1> USE DEF readModel, manager, adapter, bus
<1>1. ASSUME NEW t \in Turns, StartTurn(t) PROVE PlaceInv'
  <2>1. /\ tracked' = tracked /\ stamped' = stamped
        /\ status' = [status EXCEPT ![t] = "pending"]
    BY <1>1 DEF StartTurn, Reuse
  <2>2. /\ active' \subseteq active
        /\ \E w \in {"starting", "sending"} : worker' = [worker EXCEPT ![t] = w]
    BY <1>1 DEF StartTurn, Reuse
  <2>3. stopping' \subseteq Range(tracked)
    BY <1>1 DEF StartTurn, Reuse, Candidates, PlaceInv, Range
  <2>4. worker[t] = "idle"
    BY <1>1 DEF StartTurn, PlaceInv
  <2> QED BY <2>1, <2>2, <2>3, <2>4 DEF PlaceInv, TypeInv
<1>2. ASSUME NEW t \in Turns, StartSession(t) PROVE PlaceInv'
  <2>1. Range(tracked') = Range(tracked) \cup {t}
    BY <1>2, RangeAppend DEF StartSession, TypeInv
  <2> QED BY <1>2, <2>1 DEF PlaceInv, TypeInv, StartSession
<1>3. ASSUME NEW t \in Turns, StartSessionFails(t) PROVE PlaceInv'
  BY <1>3 DEF PlaceInv, TypeInv, StartSessionFails
<1>4. ASSUME NEW t \in Turns, StampAndSubscribe(t) PROVE PlaceInv'
  BY <1>4 DEF PlaceInv, TypeInv, StampAndSubscribe
<1>5. ASSUME NEW t \in Turns, SendRequest(t) PROVE PlaceInv'
  BY <1>5, ProviderStatus DEF PlaceInv, TypeInv, SendRequest, StatusEnds
<1>6. ASSUME NEW t \in Turns, RequestRefused(t) PROVE PlaceInv'
  BY <1>6, ProviderStatus DEF PlaceInv, TypeInv, RequestRefused, StatusEnds
<1>7. ASSUME NEW t \in Turns, Drain(t) PROVE PlaceInv'
  <2>1. /\ UNCHANGED manager /\ worker[t] = "draining"
        /\ \E w \in {"done", "reacted"} : worker' = [worker EXCEPT ![t] = w]
    BY <1>7 DEF Drain
  <2> QED BY <1>7, <2>1, ProviderStatus DEF PlaceInv, TypeInv, StatusEnds
<1>8. ASSUME NEW t \in Turns, SpawnConsumer(t) PROVE PlaceInv'
  BY <1>8 DEF PlaceInv, TypeInv, SpawnConsumer
<1>9. ASSUME NEW r \in Turns, EmitToken(r) PROVE PlaceInv'
  BY <1>9, ProviderStatus DEF PlaceInv, EmitToken, StatusEnds
<1>10. ASSUME NEW r \in Turns, RunEnds(r) PROVE PlaceInv'
  BY <1>10 DEF PlaceInv, RunEnds
<1>11. ASSUME NEW r \in Turns, Reap(r) PROVE PlaceInv'
  BY <1>11 DEF PlaceInv, Reap
<1>12. ASSUME NEW r \in Turns, Report(r) PROVE PlaceInv'
  BY <1>12, ProviderStatus DEF PlaceInv, Report, StatusEnds
<1>13. ASSUME NEW t \in Turns, CancelTurn(t) PROVE PlaceInv'
  BY <1>13 DEF PlaceInv, TypeInv, CancelTurn
<1>14. ASSUME NEW s \in Turns, StopSession(s) PROVE PlaceInv'
  BY <1>14 DEF PlaceInv, StopSession
<1>15. ASSUME NEW s \in Turns,
              StopActiveSession(s) \/ PauseSession(s) \/ InterruptSession(s)
       PROVE  PlaceInv'
  BY <1>15 DEF PlaceInv, StopActiveSession, PauseSession, InterruptSession
<1>16. ASSUME NEW t \in Turns, FailTurn(t) PROVE PlaceInv'
  BY <1>16 DEF PlaceInv, TypeInv, FailTurn
<1>17. ASSUME UNCHANGED vars PROVE PlaceInv'
  BY <1>17 DEF PlaceInv, vars
<1> QED
  BY <1>1, <1>2, <1>3, <1>4, <1>5, <1>6, <1>7, <1>8, <1>9, <1>10, <1>11, <1>12, <1>13, <1>14,
     <1>15, <1>16, <1>17 DEF Next

-----------------------------------------------------------------------------
(* A session that may be reused is not being stopped, and the adapter      *)
(* knows it.                                                               *)
OpenInv ==
    /\ stopping \cap active = {}
    /\ ActiveIsOpen

LEMMA OpenInit == Init => OpenInv
BY DEF Init, OpenInv, ActiveIsOpen

LEMMA OpenStep ==
    ASSUME TypeInv, PlaceInv, OpenInv, [Next]_vars
    PROVE  OpenInv'
<1> USE DEF OpenInv, ActiveIsOpen, readModel, manager, adapter, bus
<1>1. ASSUME NEW t \in Turns, StartTurn(t) PROVE OpenInv'
  BY <1>1 DEF StartTurn, Reuse
<1>2. ASSUME NEW t \in Turns, StartSession(t) PROVE OpenInv'
  <2>1. t \notin stopping
    BY <1>2 DEF StartSession, PlaceInv
  <2> QED BY <1>2, <2>1 DEF StartSession
<1>3. ASSUME NEW t \in Turns, StartSessionFails(t) PROVE OpenInv'
  BY <1>3 DEF StartSessionFails
<1>4. ASSUME NEW t \in Turns, StampAndSubscribe(t) PROVE OpenInv'
  BY <1>4 DEF StampAndSubscribe
<1>5. ASSUME NEW t \in Turns, SendRequest(t) PROVE OpenInv'
  BY <1>5 DEF SendRequest
<1>6. ASSUME NEW t \in Turns, RequestRefused(t) PROVE OpenInv'
  BY <1>6 DEF RequestRefused
<1>7. ASSUME NEW t \in Turns, Drain(t) PROVE OpenInv'
  BY <1>7 DEF Drain
<1>8. ASSUME NEW t \in Turns, SpawnConsumer(t) PROVE OpenInv'
  BY <1>8 DEF SpawnConsumer
<1>9. ASSUME NEW r \in Turns, EmitToken(r) \/ RunEnds(r) \/ Reap(r) \/ Report(r) PROVE OpenInv'
  BY <1>9 DEF EmitToken, RunEnds, Reap, Report
<1>10. ASSUME NEW t \in Turns,
              \/ CancelTurn(t) \/ StopActiveSession(t)
              \/ FailTurn(t) \/ PauseSession(t) \/ InterruptSession(t)
       PROVE  OpenInv'
  BY <1>10 DEF CancelTurn, StopActiveSession, FailTurn, PauseSession, InterruptSession
<1>11. ASSUME NEW s \in Turns, StopSession(s) PROVE OpenInv'
  BY <1>11 DEF StopSession
<1>12. ASSUME UNCHANGED vars PROVE OpenInv'
  BY <1>12 DEF vars
<1> QED
  BY <1>1, <1>2, <1>3, <1>4, <1>5, <1>6, <1>7, <1>8, <1>9, <1>10, <1>11, <1>12 DEF Next

-----------------------------------------------------------------------------
(* A turn whose request is still to be sent has no supervisor, and one     *)
(* whose request was refused never gets one.                               *)
Unsent == {"idle", "starting", "stamping", "sending", "failed"}

SentInv ==
    /\ \A t \in Turns : worker[t] \in Unsent => run[t].phase = "none" /\ t \notin refused
    /\ \A t \in refused : run[t].phase = "none"
    /\ \A t \in Turns : run[t].phase = "none" => run[t].session = None /\ run[t].waits = None
    /\ \A t \in Turns : run[t].phase \in {"streaming", "reaping"} => run[t].waits = None

LEMMA SentInit == Init => SentInv
BY DEF Init, SentInv, Idle

LEMMA SentStep ==
    ASSUME TypeInv, PlaceInv, SentInv, [Next]_vars
    PROVE  SentInv'
<1> USE DEF readModel, manager, adapter, bus, Unsent
<1>1. ASSUME NEW t \in Turns, StartTurn(t) PROVE SentInv'
  <2>1. UNCHANGED <<run, refused>> /\ worker[t] = "idle"
    BY <1>1 DEF StartTurn, PlaceInv
  <2>2. \E w \in {"starting", "sending"} : worker' = [worker EXCEPT ![t] = w]
    BY <1>1 DEF StartTurn, Reuse
  <2> QED BY <2>1, <2>2 DEF SentInv, TypeInv
<1>2. ASSUME NEW t \in Turns, StartSession(t) PROVE SentInv'
  BY <1>2 DEF SentInv, TypeInv, StartSession
<1>3. ASSUME NEW t \in Turns, StartSessionFails(t) PROVE SentInv'
  BY <1>3 DEF SentInv, TypeInv, StartSessionFails
<1>4. ASSUME NEW t \in Turns, StampAndSubscribe(t) PROVE SentInv'
  BY <1>4 DEF SentInv, TypeInv, StampAndSubscribe
<1>5. ASSUME NEW t \in Turns, SendRequest(t) PROVE SentInv'
  <2>1. /\ worker' = [worker EXCEPT ![t] = "draining"] /\ refused' = refused
        /\ run[t].waits = None /\ t \notin refused
    BY <1>5 DEF SendRequest, SentInv
  <2>2. /\ run'[t].phase = "streaming" /\ run'[t].waits = run[t].waits
        /\ \A q \in Turns \ {t} : run'[q] = run[q]
    BY <1>5 DEF SendRequest, TypeInv, Runs
  <2> QED BY ZenonT(30), <2>1, <2>2 DEF SentInv, TypeInv
<1>6. ASSUME NEW t \in Turns, RequestRefused(t) PROVE SentInv'
  BY <1>6 DEF SentInv, TypeInv, RequestRefused
<1>7. ASSUME NEW t \in Turns, Drain(t) PROVE SentInv'
  <2>1. /\ UNCHANGED <<run, refused>>
        /\ \E w \in {"done", "reacted"} : worker' = [worker EXCEPT ![t] = w]
    BY <1>7 DEF Drain
  <2> QED BY <2>1 DEF SentInv, TypeInv
<1>8. ASSUME NEW t \in Turns, SpawnConsumer(t) PROVE SentInv'
  BY <1>8 DEF SentInv, TypeInv, SpawnConsumer
<1>9. ASSUME NEW r \in Turns, EmitToken(r) PROVE SentInv'
  <2>1. /\ run'[r].phase = run[r].phase /\ run'[r].waits = run[r].waits
        /\ run'[r].session = run[r].session
        /\ \A q \in Turns \ {r} : run'[q] = run[q]
        /\ UNCHANGED <<worker, refused>>
    BY <1>9 DEF EmitToken, TypeInv, Runs
  <2>2. refused \subseteq Turns
    BY DEF TypeInv
  <2> QED BY <2>1, <2>2 DEF SentInv
<1>10. ASSUME NEW r \in Turns, RunEnds(r) PROVE SentInv'
  <2>1. /\ run[r].phase = "streaming" /\ run'[r].phase = "reaping" /\ run'[r].waits = run[r].waits
        /\ \A q \in Turns \ {r} : run'[q] = run[q]
        /\ UNCHANGED <<worker, refused>>
    BY <1>10 DEF RunEnds, TypeInv, Runs
  <2>2. refused \subseteq Turns
    BY DEF TypeInv
  <2> QED BY <2>1, <2>2 DEF SentInv
<1>11. ASSUME NEW r \in Turns, Reap(r) PROVE SentInv'
  <2>1. /\ run[r].phase = "reaping" /\ run'[r].phase = "waiting"
        /\ \A q \in Turns \ {r} : run'[q] = run[q]
        /\ UNCHANGED <<worker, refused>>
    BY <1>11 DEF Reap, TypeInv, Runs
  <2>2. refused \subseteq Turns
    BY DEF TypeInv
  <2> QED BY <2>1, <2>2 DEF SentInv
<1>12. ASSUME NEW r \in Turns, Report(r) PROVE SentInv'
  <2>1. /\ run[r].phase = "waiting" /\ run'[r].phase = "ended"
        /\ \A q \in Turns \ {r} : run'[q] = run[q]
        /\ UNCHANGED <<worker, refused>>
    BY <1>12 DEF Report, TypeInv, Runs
  <2>2. refused \subseteq Turns
    BY DEF TypeInv
  <2> QED BY <2>1, <2>2 DEF SentInv
<1>13. ASSUME NEW t \in Turns,
              \/ CancelTurn(t) \/ StopActiveSession(t) \/ StopSession(t)
              \/ FailTurn(t) \/ PauseSession(t) \/ InterruptSession(t)
       PROVE  SentInv'
  BY <1>13 DEF SentInv, CancelTurn, StopActiveSession, StopSession, FailTurn, PauseSession,
               InterruptSession
<1>14. ASSUME UNCHANGED vars PROVE SentInv'
  BY <1>14 DEF SentInv, vars
<1> QED
  BY <1>1, <1>2, <1>3, <1>4, <1>5, <1>6, <1>7, <1>8, <1>9, <1>10, <1>11, <1>12, <1>13, <1>14
     DEF Next

-----------------------------------------------------------------------------
(* A process that runs is the one its session's supervisor would find, or  *)
(* a supervisor has already taken it; and only open sessions have one.     *)
ProcessInv ==
    /\ \A r \in alive : run[r].phase # "none"
    /\ \A r \in alive : child[run[r].session] = r \/ \E q \in Turns : run[q].waits = r
    /\ \A s \in Turns : child[s] # None => s \in opened

LEMMA ProcessInit == Init => ProcessInv
BY DEF Init, ProcessInv

(* A step that leaves the adapter's books alone, and at most stops         *)
(* processes.                                                              *)
LEMMA ProcessCalm ==
    ASSUME ProcessInv, alive' \subseteq alive, child' = child, opened \subseteq opened',
           \A r \in Turns : /\ run'[r].session = run[r].session /\ run'[r].waits = run[r].waits
                            /\ run[r].phase # "none" => run'[r].phase # "none",
           alive \subseteq Turns
    PROVE  ProcessInv'
BY DEF ProcessInv

LEMMA ProcessStep ==
    ASSUME TypeInv, OpenInv, SentInv, ProcessInv, [Next]_vars
    PROVE  ProcessInv'
<1> USE DEF readModel, manager, adapter, bus
<1>0. alive \subseteq Turns /\ None \notin Turns
  BY TurnDispatchAssumption DEF TypeInv
<1>1. ASSUME NEW t \in Turns,
             \/ StartTurn(t) \/ StartSession(t) \/ StartSessionFails(t) \/ StampAndSubscribe(t)
             \/ RequestRefused(t) \/ Drain(t) \/ SpawnConsumer(t)
             \/ CancelTurn(t) \/ StopActiveSession(t) \/ FailTurn(t) \/ PauseSession(t)
      PROVE  ProcessInv'
  <2>1. UNCHANGED <<alive, child, run>> /\ opened \subseteq opened'
    BY <1>1 DEF StartTurn, StartSession, StartSessionFails, StampAndSubscribe, RequestRefused,
                Drain, SpawnConsumer, CancelTurn, StopActiveSession, FailTurn, PauseSession
  <2> QED BY <1>0, <2>1, ProcessCalm
<1>2. ASSUME NEW t \in Turns, SendRequest(t) PROVE ProcessInv'
  <2>1. /\ current \in Turns /\ current \in opened /\ opened' = opened
        /\ child' = [child EXCEPT ![current] = t]
        /\ alive' = (alive \ {child[current]}) \cup {t}
    BY <1>2 DEF SendRequest, OpenInv, ActiveIsOpen, TypeInv
  <2>2. /\ run'[t].phase = "streaming" /\ run'[t].session = current
        /\ run'[t].waits = run[t].waits
        /\ \A q \in Turns \ {t} : run'[q] = run[q]
    BY <1>2 DEF SendRequest, TypeInv, Runs
  <2>3. child'[current] = t /\ \A s \in Turns \ {current} : child'[s] = child[s]
    BY <2>1 DEF TypeInv
  <2>4. ASSUME NEW r \in alive, r # t, r # child[current]
        PROVE  /\ run'[r].phase # "none"
               /\ child'[run'[r].session] = r \/ \E q \in Turns : run'[q].waits = r
    <3>1. run'[r] = run[r] /\ run[r].phase # "none" /\ run[r].session \in Turns
      BY <1>0, <2>2, <2>4 DEF ProcessInv, TypeInv, RunKnows
    <3>2. CASE child[run[r].session] = r
      BY <2>3, <2>4, <3>1, <3>2
    <3>3. ASSUME NEW q \in Turns, run[q].waits = r PROVE \E z \in Turns : run'[z].waits = r
      <4>1. run'[q].waits = r
        BY <2>2, <3>3
      <4> QED BY <4>1
    <3> QED BY <3>1, <3>2, <3>3 DEF ProcessInv
  <2>5. \A r \in alive' : /\ run'[r].phase # "none"
                          /\ child'[run'[r].session] = r \/ \E q \in Turns : run'[q].waits = r
    BY <2>1, <2>2, <2>3, <2>4
  <2>6. \A s \in Turns : child'[s] # None => s \in opened'
    BY <2>1, <2>3 DEF ProcessInv
  <2> QED BY <2>5, <2>6 DEF ProcessInv
<1>3. ASSUME NEW r \in Turns, EmitToken(r) PROVE ProcessInv'
  <2>1. UNCHANGED <<alive, child, opened>>
    BY <1>3 DEF EmitToken
  <2>2. \A q \in Turns : /\ run'[q].session = run[q].session /\ run'[q].waits = run[q].waits
                         /\ run'[q].phase = run[q].phase
    BY <1>3 DEF EmitToken, TypeInv, Runs
  <2> QED BY <1>0, <2>1, <2>2, ProcessCalm
<1>4. ASSUME NEW r \in Turns, RunEnds(r) PROVE ProcessInv'
  <2>1. UNCHANGED <<child, opened>> /\ alive' \subseteq alive
    BY <1>4 DEF RunEnds
  <2>2. \A q \in Turns : /\ run'[q].session = run[q].session /\ run'[q].waits = run[q].waits
                         /\ run[q].phase # "none" => run'[q].phase # "none"
    BY <1>4 DEF RunEnds, TypeInv, Runs
  <2> QED BY <1>0, <2>1, <2>2, ProcessCalm
<1>5. ASSUME NEW r \in Turns, Reap(r) PROVE ProcessInv'
  <2> DEFINE s == run[r].session
  <2>1. /\ s \in Turns /\ run[r].waits = None
        /\ UNCHANGED <<alive, opened>> /\ child' = [child EXCEPT ![s] = None]
    BY <1>5 DEF Reap, TypeInv, RunKnows, SentInv
  <2>2. /\ run'[r].phase = "waiting" /\ run'[r].waits = child[s] /\ run'[r].session = s
        /\ \A q \in Turns \ {r} : run'[q] = run[q]
    BY <1>5 DEF Reap, TypeInv, Runs
  <2> HIDE DEF s
  <2>3. child'[s] = None /\ \A z \in Turns \ {s} : child'[z] = child[z]
    BY <2>1 DEF TypeInv
  <2>4. ASSUME NEW p \in alive
        PROVE  /\ run'[p].phase # "none"
               /\ child'[run'[p].session] = p \/ \E q \in Turns : run'[q].waits = p
    <3>1. /\ p \in Turns /\ run[p].phase # "none" /\ run[p].session \in Turns
          /\ run'[p].session = run[p].session /\ run'[p].phase # "none"
      BY <1>0, <2>2 DEF ProcessInv, TypeInv, RunKnows, s
    <3>2. CASE child[run[p].session] = p
      BY <2>2, <2>3, <3>1, <3>2
    <3>3. ASSUME NEW q \in Turns, run[q].waits = p PROVE \E z \in Turns : run'[z].waits = p
      BY <1>0, <2>1, <2>2, <3>1, <3>3
    <3> QED BY <3>1, <3>2, <3>3 DEF ProcessInv
  <2>5. \A z \in Turns : child'[z] # None => z \in opened'
    BY <2>1, <2>3 DEF ProcessInv
  <2> QED BY <2>1, <2>4, <2>5 DEF ProcessInv
<1>6. ASSUME NEW r \in Turns, Report(r) PROVE ProcessInv'
  <2>1. UNCHANGED <<alive, child, opened>>
    BY <1>6 DEF Report
  <2>2. \A q \in Turns : /\ run'[q].session = run[q].session /\ run'[q].waits = run[q].waits
                         /\ run[q].phase # "none" => run'[q].phase # "none"
    BY <1>6 DEF Report, TypeInv, Runs
  <2> QED BY <1>0, <2>1, <2>2, ProcessCalm
<1>7. ASSUME NEW s \in Turns, StopSession(s) PROVE ProcessInv'
  <2>1. CASE s \in opened
    <3>1. /\ run' = run /\ opened' = opened \ {s} /\ alive' = alive \ {child[s]}
          /\ child'[s] = None /\ \A z \in Turns \ {s} : child'[z] = child[z]
      BY <1>7, <2>1 DEF StopSession, TypeInv
    <3>2. \A r \in alive : run[r].session \in Turns
      BY <1>0 DEF ProcessInv, TypeInv, RunKnows
    <3> QED BY <3>1, <3>2 DEF ProcessInv
  <2>2. CASE s \notin opened
    <3>1. UNCHANGED <<run, alive, child, opened>>
      BY <1>7, <2>2 DEF StopSession
    <3> QED BY <1>0, <3>1, ProcessCalm
  <2> QED BY <2>1, <2>2
<1>8. ASSUME NEW s \in Turns, InterruptSession(s) PROVE ProcessInv'
  <2>1. CASE s \in opened
    <3>1. /\ run' = run /\ opened' = opened /\ alive' = alive \ {child[s]}
          /\ child'[s] = None /\ \A z \in Turns \ {s} : child'[z] = child[z]
      BY <1>8, <2>1 DEF InterruptSession, TypeInv
    <3>2. \A r \in alive : run[r].session \in Turns
      BY <1>0 DEF ProcessInv, TypeInv, RunKnows
    <3> QED BY <3>1, <3>2 DEF ProcessInv
  <2>2. CASE s \notin opened
    <3>1. UNCHANGED <<run, alive, child, opened>>
      BY <1>8, <2>2 DEF InterruptSession
    <3> QED BY <1>0, <3>1, ProcessCalm
  <2> QED BY <2>1, <2>2
<1>9. ASSUME UNCHANGED vars PROVE ProcessInv'
  BY <1>9 DEF ProcessInv, vars
<1> QED BY <1>1, <1>2, <1>3, <1>4, <1>5, <1>6, <1>7, <1>8, <1>9 DEF Next

-----------------------------------------------------------------------------
(* The drain ends the turn, or leaves it to a consumer; a refused request  *)
(* ends it.                                                                *)
LEMMA DrainEnds ==
    ASSUME TypeInv, NEW t \in Turns, Drain(t)
    PROVE  \/ worker' = [worker EXCEPT ![t] = "done"] /\ status'[t] \in {"completed", "failed"}
           \/ worker' = [worker EXCEPT ![t] = "reacted"] /\ t \notin refused
<1> DEFINE captured == capture[t]
           events == SafetyNet(t, captured)
           ends == {i \in DOMAIN events : Terminal(events[i])}
<1>1. /\ status' = [status EXCEPT ![t] = StatusAfter(status[t], events)]
      /\ worker' = [worker EXCEPT ![t] = IF \E i \in DOMAIN events : Terminal(events[i])
                                        THEN "done" ELSE "reacted"]
  BY DEF Drain
<1>2. CASE \E i \in DOMAIN events : Terminal(events[i])
  <2>1. ends # {}
    BY <1>2
  <2>2. StatusAfter(status[t], events) \in {"completed", "failed"}
    BY <2>1 DEF StatusAfter
  <2> HIDE DEF events
  <2> QED BY <1>1, <1>2, <2>2 DEF TypeInv
<1>3. CASE ~\E i \in DOMAIN events : Terminal(events[i])
  <2>1. ASSUME t \in refused PROVE FALSE
    <3>1. captured \in Seq(Events) /\ Event(t, "error", 0) \in Events
      BY EventType DEF TypeInv
    <3>2. CASE \E i \in DOMAIN captured : Terminal(captured[i])
      BY <1>3, <3>2 DEF SafetyNet
    <3>3. CASE ~\E i \in DOMAIN captured : Terminal(captured[i])
      <4>1. events = Append(captured, Event(t, "error", 0))
        BY <2>1, <3>3 DEF SafetyNet
      <4> HIDE DEF events
      <4>2. events[Len(captured) + 1] = Event(t, "error", 0) /\ Len(captured) + 1 \in DOMAIN events
        BY <3>1, <4>1
      <4> QED BY <1>3, <4>2 DEF Terminal, Event
    <3> QED BY <3>2, <3>3
  <2> HIDE DEF events
  <2> QED BY <1>1, <1>3, <2>1
<1> QED BY <1>2, <1>3

FollowInv ==
    /\ \A t \in Turns : worker[t] = "reacted" => t \notin refused
    /\ PendingIsFollowed

LEMMA FollowInit == Init => FollowInv
BY DEF Init, FollowInv, PendingIsFollowed

LEMMA FollowStep ==
    ASSUME TypeInv, PlaceInv, FollowInv, [Next]_vars
    PROVE  FollowInv'
<1> USE DEF FollowInv, PendingIsFollowed, readModel, manager, adapter, bus
<1>1. ASSUME NEW t \in Turns, StartTurn(t) PROVE FollowInv'
  <2>1. /\ UNCHANGED <<refused, listening>> /\ status' = [status EXCEPT ![t] = "pending"]
        /\ \E w \in {"starting", "sending"} : worker' = [worker EXCEPT ![t] = w]
    BY <1>1 DEF StartTurn, Reuse
  <2> QED BY <2>1 DEF TypeInv
<1>2. ASSUME NEW t \in Turns,
             StartSession(t) \/ StartSessionFails(t) \/ StampAndSubscribe(t)
      PROVE  FollowInv'
  <2>1. /\ UNCHANGED <<refused, listening, status>>
        /\ \E w \in {"stamping", "failed", "sending"} : worker' = [worker EXCEPT ![t] = w]
    BY <1>2 DEF StartSession, StartSessionFails, StampAndSubscribe
  <2> QED BY <2>1 DEF TypeInv
<1>3. ASSUME NEW t \in Turns, SendRequest(t) \/ RequestRefused(t) PROVE FollowInv'
  <2>1. /\ refused \subseteq refused' /\ refused' \subseteq refused \cup {t}
        /\ listening' = listening /\ worker' = [worker EXCEPT ![t] = "draining"]
    BY <1>3 DEF SendRequest, RequestRefused, Publish
  <2> QED BY <1>3, <2>1, ProviderStatus DEF TypeInv, StatusEnds
<1>4. ASSUME NEW t \in Turns, Drain(t) PROVE FollowInv'
  <2>1. /\ UNCHANGED <<refused, listening>>
        /\ \A u \in Turns \ {t} : status'[u] = status[u]
    BY <1>4 DEF Drain, TypeInv
  <2> QED BY <1>4, <2>1, DrainEnds DEF TypeInv
<1>5. ASSUME NEW t \in Turns, SpawnConsumer(t) PROVE FollowInv'
  BY <1>5 DEF SpawnConsumer, TypeInv
<1>6. ASSUME NEW r \in Turns, EmitToken(r) \/ Report(r) PROVE FollowInv'
  <2>1. UNCHANGED <<worker, refused, listening>>
    BY <1>6 DEF EmitToken, Report, Publish
  <2> QED BY <1>6, <2>1, ProviderStatus DEF StatusEnds
<1>7. ASSUME NEW t \in Turns, CancelTurn(t) \/ FailTurn(t) PROVE FollowInv'
  BY <1>7 DEF CancelTurn, FailTurn, TypeInv
<1>8. ASSUME NEW r \in Turns,
             \/ RunEnds(r) \/ Reap(r) \/ StopActiveSession(r) \/ StopSession(r)
             \/ PauseSession(r) \/ InterruptSession(r)
      PROVE  FollowInv'
  BY <1>8 DEF RunEnds, Reap, StopActiveSession, StopSession, PauseSession, InterruptSession
<1>9. ASSUME UNCHANGED vars PROVE FollowInv'
  BY <1>9 DEF vars
<1> QED BY <1>1, <1>2, <1>3, <1>4, <1>5, <1>6, <1>7, <1>8, <1>9 DEF Next

-----------------------------------------------------------------------------
(* What a turn was given, by the capture and by its consumer, is accounted *)
(* for: the request it comes from was sent, the process has emitted it,    *)
(* and the session that carried it is one of the turn's own thread.        *)
Given(t) == Range(capture[t]) \cup Range(heard[t])

Accounted(t, e) ==
    /\ worker[e.from] \notin Unsent
    /\ e.kind = "token" => e.n <= run[e.from].sent
    /\ e.kind = "completed" => run[e.from].phase = "ended"
    /\ e.kind = "error" => run[e.from].phase = "ended" \/ e.from \in refused
    /\ e.kind # "synthesized" /\ run[e.from].session # None =>
         thread[run[e.from].session] = thread[t]

AccountInv == \A t \in Turns : \A e \in Given(t) : Accounted(t, e)

(* A session serves one thread. *)
OwnSession == \A t \in Turns : session[t] # None => thread[session[t]] = thread[t]

(* Nothing twice; and until the drain, nothing at all. *)
OnceInv ==
    /\ \A t \in Turns : IsInjective(capture[t]) /\ IsInjective(heard[t])
    /\ \A t \in Turns :
         worker[t] \in Unsent \cup {"draining"} => heard[t] = <<>> /\ t \notin listening

HeardInv == OwnSession /\ AccountInv /\ OnceInv

LEMMA HeardInit == Init => HeardInv
<1>1. ASSUME NEW S PROVE Range(<<>>) = {} /\ IsInjective(<<>>)
  BY DEF Range, IsInjective
<1> QED BY <1>1, TurnDispatchAssumption
        DEF Init, HeardInv, OwnSession, AccountInv, OnceInv, Given

(* What a request has done stays done. *)
Advances ==
    /\ thread' = thread /\ refused \subseteq refused'
    /\ \A q \in Turns : worker[q] \notin Unsent =>
         /\ worker'[q] \notin Unsent
         /\ run'[q].session = run[q].session /\ run[q].sent <= run'[q].sent
         /\ run[q].phase = "ended" => run'[q].phase = "ended"

LEMMA StepAdvances == TypeInv /\ PlaceInv /\ [Next]_vars => Advances
<1> SUFFICES ASSUME TypeInv, PlaceInv, [Next]_vars PROVE Advances
  OBVIOUS
<1> USE DEF Advances, Unsent, readModel, manager, adapter, bus
<1>0. \A q \in Turns : run[q] \in Runs /\ run[q].sent \in Nat
  BY TurnDispatchAssumption DEF TypeInv, Runs
<1>1. ASSUME NEW t \in Turns, StartTurn(t) PROVE Advances
  <2>1. worker[t] = "idle" /\ UNCHANGED <<thread, refused, run>>
        /\ \E w \in {"starting", "sending"} : worker' = [worker EXCEPT ![t] = w]
    BY <1>1 DEF StartTurn, Reuse, PlaceInv
  <2> QED BY <1>0, <2>1 DEF TypeInv
<1>2. ASSUME NEW t \in Turns,
             StartSession(t) \/ StartSessionFails(t) \/ StampAndSubscribe(t)
             \/ RequestRefused(t) \/ SpawnConsumer(t)
      PROVE  Advances
  <2>1. /\ thread' = thread /\ run' = run /\ refused \subseteq refused'
        /\ \/ worker[t] \in Unsent
           \/ worker' = [worker EXCEPT ![t] = "done"]
        /\ \A q \in Turns \ {t} : worker'[q] = worker[q]
    BY <1>2 DEF StartSession, StartSessionFails, StampAndSubscribe, RequestRefused, SpawnConsumer,
                TypeInv
  <2> QED BY <1>0, <2>1 DEF TypeInv
<1>3. ASSUME NEW t \in Turns, SendRequest(t) PROVE Advances
  <2>1. /\ thread' = thread /\ refused' = refused /\ worker[t] \in Unsent
        /\ \A q \in Turns \ {t} : worker'[q] = worker[q] /\ run'[q] = run[q]
    BY <1>3 DEF SendRequest, TypeInv
  <2> QED BY <1>0, <2>1
<1>4. ASSUME NEW t \in Turns, Drain(t) PROVE Advances
  <2>1. /\ UNCHANGED <<thread, refused, run>>
        /\ \E w \in {"done", "reacted"} : worker' = [worker EXCEPT ![t] = w]
    BY <1>4 DEF Drain
  <2> QED BY <1>0, <2>1 DEF TypeInv
<1>5. ASSUME NEW r \in Turns, EmitToken(r) \/ RunEnds(r) \/ Reap(r) \/ Report(r) PROVE Advances
  <2>1. /\ UNCHANGED <<thread, refused, worker>> /\ run[r].phase # "ended"
        /\ \A q \in Turns \ {r} : run'[q] = run[q]
    BY <1>5 DEF EmitToken, RunEnds, Reap, Report, TypeInv
  <2>2. run'[r].session = run[r].session /\ run'[r].sent \in {run[r].sent, run[r].sent + 1}
    <3>1. CASE EmitToken(r)
      BY <1>0, <3>1 DEF EmitToken, TypeInv, Runs
    <3>2. CASE RunEnds(r)
      BY <1>0, <3>2 DEF RunEnds, TypeInv, Runs
    <3>3. CASE Reap(r)
      BY <1>0, <3>3 DEF Reap, TypeInv, Runs
    <3>4. CASE Report(r)
      BY <1>0, <3>4 DEF Report, TypeInv, Runs
    <3> QED BY <1>5, <3>1, <3>2, <3>3, <3>4
  <2> QED BY <1>0, <2>1, <2>2
<1>6. ASSUME NEW t \in Turns,
             \/ CancelTurn(t) \/ StopActiveSession(t) \/ StopSession(t)
             \/ FailTurn(t) \/ PauseSession(t) \/ InterruptSession(t)
      PROVE  Advances
  BY <1>0, <1>6 DEF CancelTurn, StopActiveSession, StopSession, FailTurn, PauseSession,
                    InterruptSession
<1>7. ASSUME UNCHANGED vars PROVE Advances
  BY <1>0, <1>7 DEF vars
<1> QED BY <1>1, <1>2, <1>3, <1>4, <1>5, <1>6, <1>7 DEF Next

LEMMA GivenAreEvents ==
    ASSUME TypeInv, NEW t \in Turns
    PROVE  Given(t) \subseteq Events
BY DEF TypeInv, Given, Range

LEMMA AccountedStays ==
    ASSUME TypeInv, TypeInv', Advances, NEW t \in Turns, NEW e \in Events, Accounted(t, e)
    PROVE  Accounted(t, e)'
<1>1. e.from \in Turns /\ e.n \in Nat
  BY TurnDispatchAssumption DEF Events
<1>2. run[e.from].sent \in Nat /\ run'[e.from].sent \in Nat
  <2>1. run[e.from] \in Runs /\ run'[e.from] \in Runs
    BY <1>1 DEF TypeInv
  <2> QED BY <2>1, TurnDispatchAssumption DEF Runs
<1>3. /\ thread' = thread /\ refused \subseteq refused'
      /\ worker'[e.from] \notin Unsent /\ run'[e.from].session = run[e.from].session
      /\ run[e.from].sent <= run'[e.from].sent
      /\ run[e.from].phase = "ended" => run'[e.from].phase = "ended"
  BY <1>1 DEF Accounted, Advances
<1>4. e.kind = "token" => e.n <= run'[e.from].sent
  BY <1>1, <1>2, <1>3 DEF Accounted
<1> QED BY <1>3, <1>4 DEF Accounted

(* A publication adds its events, and only for subscriptions of the        *)
(* session; one fresh event at most keeps what was given free of           *)
(* repetitions.                                                            *)
LEMMA PublishedTo ==
    ASSUME TypeInv, NEW events \in Seq(Events), NEW s, Publish(events, s),
           NEW t \in Turns, NEW e \in Given(t)'
    PROVE  e \in Given(t) \/ (e \in Range(events) /\ session[t] = s)
<1>1. capture[t] \in Seq(Events) /\ heard[t] \in Seq(Events)
  BY DEF TypeInv
<1>2. /\ Range(capture[t] \o events) = Range(capture[t]) \cup Range(events)
      /\ Range(heard[t] \o events) = Range(heard[t]) \cup Range(events)
  BY <1>1, RangeConcat
<1>3. Range(capture'[t]) = Range(capture[t])
      \/ (Range(capture'[t]) = Range(capture[t]) \cup Range(events) /\ session[t] = s)
  BY <1>2, Publication
<1>4. Range(heard'[t]) = Range(heard[t])
      \/ (Range(heard'[t]) = Range(heard[t]) \cup Range(events) /\ session[t] = s)
  BY <1>2, Publication
<1> QED BY <1>3, <1>4 DEF Given

LEMMA PublishedOnce ==
    ASSUME TypeInv, NEW events \in Seq(Events), NEW s, Publish(events, s), OnceInv,
           events = <<>> \/ \E e \in Events : events = <<e>> /\ \A t \in Turns : e \notin Given(t),
           NEW t \in Turns
    PROVE  /\ IsInjective(capture'[t]) /\ IsInjective(heard'[t])
           /\ t \notin listening => heard'[t] = heard[t]
<1>1. capture[t] \in Seq(Events) /\ heard[t] \in Seq(Events)
  BY DEF TypeInv
<1>2. /\ capture'[t] = capture[t] \/ capture'[t] = capture[t] \o events
      /\ heard'[t] = heard[t] \/ heard'[t] = heard[t] \o events
      /\ t \notin listening => heard'[t] = heard[t]
  BY Publication
<1>3. IsInjective(capture[t]) /\ IsInjective(heard[t])
  BY DEF OnceInv
<1>4. CASE events = <<>>
  <2>1. capture[t] \o events = capture[t] /\ heard[t] \o events = heard[t]
    BY <1>1, <1>4
  <2> QED BY <1>2, <1>3, <2>1
<1>5. ASSUME NEW e \in Events, events = <<e>>, e \notin Given(t)
      PROVE  IsInjective(capture'[t]) /\ IsInjective(heard'[t])
  <2>1. capture[t] \o events = Append(capture[t], e) /\ heard[t] \o events = Append(heard[t], e)
    BY <1>1, <1>5
  <2>2. IsInjective(Append(capture[t], e)) /\ IsInjective(Append(heard[t], e))
    BY <1>1, <1>3, <1>5, InjectiveAppend DEF Given
  <2> QED BY <1>2, <1>3, <2>1, <2>2
<1> QED BY <1>2, <1>4, <1>5

(* The four steps of the adapter that publish. *)
LEMMA PublishKeeps ==
    ASSUME TypeInv, TypeInv', HeardInv, Advances, NEW events \in Seq(Events), NEW s,
           Publish(events, s), session' = session,
           \A t \in Turns : worker'[t] \in Unsent \cup {"draining"} =>
                            worker[t] \in Unsent \cup {"draining"},
           \/ events = <<>>
           \/ s \in Turns /\ \E e \in Events :
                /\ events = <<e>> /\ \A t \in Turns : ~Accounted(t, e)
                /\ \A t \in Turns : thread[t] = thread[s] => Accounted(t, e)'
    PROVE  HeardInv'
<1>1. events = <<>> \/ \E e \in Events : events = <<e>> /\ \A t \in Turns : e \notin Given(t)
  BY DEF HeardInv, AccountInv
<1>2. OnceInv'
  <2>1. \A t \in Turns : /\ IsInjective(capture'[t]) /\ IsInjective(heard'[t])
                         /\ t \notin listening => heard'[t] = heard[t]
    BY <1>1, PublishedOnce DEF HeardInv
  <2>2. listening' = listening
    BY DEF Publish
  <2> QED BY <2>1, <2>2 DEF HeardInv, OnceInv
<1>3. AccountInv'
  <2>1. SUFFICES ASSUME NEW t \in Turns, NEW e \in Given(t)' PROVE Accounted(t, e)'
    BY DEF AccountInv
  <2>2. CASE e \in Given(t)
    <3>1. Accounted(t, e) /\ e \in Events
      BY <2>2, GivenAreEvents DEF HeardInv, AccountInv
    <3> QED BY <3>1, AccountedStays
  <2>3. CASE e \in Range(events) /\ session[t] = s
    <3>1. thread[t] = thread[s]
      <4>1. s \in Turns
        BY <2>3 DEF Range
      <4> QED BY <2>3, <4>1, TurnDispatchAssumption DEF HeardInv, OwnSession
    <3>2. PICK x \in Events : events = <<x>> /\ (thread[t] = thread[s] => Accounted(t, x)')
      BY <2>3 DEF Range
    <3>3. e = x
      BY <2>3, <3>2 DEF Range
    <3> QED BY <3>1, <3>2, <3>3
  <2> QED BY <2>1, <2>2, <2>3, PublishedTo
<1>4. OwnSession'
  BY DEF HeardInv, OwnSession, Advances
<1> QED BY <1>2, <1>3, <1>4 DEF HeardInv

(* The steps that publish nothing. *)
LEMMA SilenceKeeps ==
    ASSUME TypeInv, TypeInv', HeardInv, Advances, OwnSession',
           UNCHANGED <<capture, heard>>,
           \A t \in Turns : worker'[t] \in Unsent \cup {"draining"} =>
                            /\ worker[t] \in Unsent \cup {"draining"}
                            /\ t \in listening' => t \in listening
    PROVE  HeardInv'
<1>1. OnceInv'
  BY DEF HeardInv, OnceInv
<1>2. AccountInv'
  <2>1. SUFFICES ASSUME NEW t \in Turns, NEW e \in Given(t) PROVE Accounted(t, e)'
    BY DEF AccountInv, Given
  <2>2. Accounted(t, e) /\ e \in Events
    BY GivenAreEvents DEF HeardInv, AccountInv
  <2> QED BY <2>2, AccountedStays
<1> QED BY <1>1, <1>2 DEF HeardInv

(* The drain hands the capture over, with an end of the reactor's own if   *)
(* it holds none.                                                          *)
OwnEnds(t) ==
    {e \in Events : e.from = t /\ (e.kind = "synthesized" \/ (e.kind = "error" /\ t \in refused))}

LEMMA DrainHands ==
    ASSUME TypeInv, NEW t \in Turns
    PROVE  /\ Range(SafetyNet(t, capture[t])) \subseteq Range(capture[t]) \cup OwnEnds(t)
           /\ IsInjective(capture[t]) => IsInjective(SafetyNet(t, capture[t]))
<1>1. capture[t] \in Seq(Events)
  BY DEF TypeInv
<1>2. ASSUME NEW e \in OwnEnds(t), \A i \in DOMAIN capture[t] : ~Terminal(capture[t][i])
      PROVE  /\ Range(Append(capture[t], e)) \subseteq Range(capture[t]) \cup OwnEnds(t)
             /\ IsInjective(capture[t]) => IsInjective(Append(capture[t], e))
  <2>1. e \in Events /\ Terminal(e)
    BY DEF Terminal, OwnEnds
  <2>2. e \notin Range(capture[t])
    BY <1>2, <2>1 DEF Range
  <2> QED BY <1>1, <2>1, <2>2, RangeAppend, InjectiveAppend
<1>3. /\ Event(t, "synthesized", 0) \in OwnEnds(t)
      /\ t \in refused => Event(t, "error", 0) \in OwnEnds(t)
  <2>1. Event(t, "synthesized", 0) \in Events /\ Event(t, "error", 0) \in Events
    BY EventType
  <2>2. /\ Event(t, "synthesized", 0).from = t /\ Event(t, "synthesized", 0).kind = "synthesized"
        /\ Event(t, "error", 0).from = t /\ Event(t, "error", 0).kind = "error"
    BY DEF Event
  <2> QED BY <2>1, <2>2 DEF OwnEnds
<1>4. CASE \E i \in DOMAIN capture[t] : Terminal(capture[t][i])
  BY <1>4 DEF SafetyNet
<1>5. CASE ~\E i \in DOMAIN capture[t] : Terminal(capture[t][i])
  <2>1. SafetyNet(t, capture[t]) = capture[t]
        \/ \E e \in OwnEnds(t) : SafetyNet(t, capture[t]) = Append(capture[t], e)
    BY <1>3, <1>5 DEF SafetyNet
  <2> QED BY <1>2, <1>5, <2>1
<1> QED BY <1>4, <1>5

LEMMA DrainKeeps ==
    ASSUME TypeInv, TypeInv', SentInv, HeardInv, Advances, NEW t \in Turns, Drain(t)
    PROVE  HeardInv'
<1> DEFINE events == SafetyNet(t, capture[t])
<1>1. /\ heard' = [heard EXCEPT ![t] = @ \o events] /\ capture' = [capture EXCEPT ![t] = <<>>]
      /\ worker[t] = "draining" /\ \E w \in {"done", "reacted"} : worker' = [worker EXCEPT ![t] = w]
      /\ UNCHANGED <<session, thread, listening, run, refused>>
  BY DEF Drain, adapter
<1>2. events \in Seq(Events) /\ heard[t] = <<>>
  BY <1>1, SafetyNetType DEF HeardInv, OnceInv
<1>3. Range(events) \subseteq Range(capture[t]) \cup OwnEnds(t) /\ IsInjective(events)
  BY DrainHands DEF HeardInv, OnceInv
<1> HIDE DEF events
<1>4. /\ heard'[t] = events /\ capture'[t] = <<>>
      /\ \A u \in Turns \ {t} : heard'[u] = heard[u] /\ capture'[u] = capture[u]
  BY <1>1, <1>2 DEF TypeInv
<1>5. OnceInv'
  <2>1. IsInjective(<<>>)
    BY DEF IsInjective
  <2>2. \A u \in Turns : worker'[u] \in Unsent \cup {"draining"} =>
                         u # t /\ worker[u] \in Unsent \cup {"draining"}
    BY <1>1 DEF Unsent, TypeInv
  <2> QED BY <1>1, <1>3, <1>4, <2>1, <2>2 DEF HeardInv, OnceInv
<1>6. AccountInv'
  <2>1. SUFFICES ASSUME NEW u \in Turns, NEW e \in Given(u)' PROVE Accounted(u, e)'
    BY DEF AccountInv
  <2>2. CASE e \in Given(u)
    <3>1. Accounted(u, e) /\ e \in Events
      BY <2>2, GivenAreEvents DEF HeardInv, AccountInv
    <3> QED BY <3>1, AccountedStays
  <2>3. CASE e \notin Given(u)
    <3>1. Range(<<>>) = {}
      BY DEF Range
    <3>2. u = t /\ e.from = t /\ (e.kind = "synthesized" \/ (e.kind = "error" /\ t \in refused))
      BY <1>3, <1>4, <2>3, <3>1 DEF Given, OwnEnds
    <3>3. worker'[t] \notin Unsent
      BY <1>1 DEF Unsent, TypeInv
    <3>4. t \in refused => run'[t].session = None
      BY <1>1 DEF SentInv
    <3> QED BY <1>1, <3>2, <3>3, <3>4 DEF Accounted
  <2> QED BY <2>2, <2>3
<1>7. OwnSession'
  BY <1>1 DEF HeardInv, OwnSession
<1> QED BY <1>5, <1>6, <1>7 DEF HeardInv

LEMMA HeardStep ==
    ASSUME TypeInv, TypeInv', PlaceInv, SentInv, HeardInv, [Next]_vars
    PROVE  HeardInv'
<1> USE DEF readModel, manager, adapter, bus
<1>0. Advances
  BY StepAdvances
<1>1. ASSUME NEW t \in Turns, StartTurn(t) PROVE HeardInv'
  <2>1. /\ worker[t] = "idle" /\ UNCHANGED <<thread, capture, heard, listening>>
        /\ \A u \in Turns \ {t} : worker'[u] = worker[u]
    BY <1>1 DEF StartTurn, Reuse, PlaceInv, TypeInv
  <2>2. session' = session
        \/ \E i \in Candidates(t) : session' = [session EXCEPT ![t] = tracked[i]]
    BY <1>1 DEF StartTurn, Reuse
  <2>3. OwnSession'
    BY <2>1, <2>2 DEF HeardInv, OwnSession, Candidates, TypeInv
  <2> QED BY <1>0, <2>1, <2>3, SilenceKeeps DEF Unsent
<1>2. ASSUME NEW t \in Turns,
             StartSession(t) \/ StartSessionFails(t) \/ StampAndSubscribe(t)
             \/ SpawnConsumer(t) \/ CancelTurn(t) \/ StopSession(t)
      PROVE  HeardInv'
  <2>1. /\ UNCHANGED <<thread, capture, heard>>
        /\ session' = session \/ session' = [session EXCEPT ![t] = t]
    BY <1>2 DEF StartSession, StartSessionFails, StampAndSubscribe, SpawnConsumer, CancelTurn,
                StopSession
  <2>2. OwnSession'
    BY ZenonT(30), <2>1 DEF HeardInv, OwnSession, TypeInv
  <2>3. \A u \in Turns : worker'[u] \in Unsent \cup {"draining"} =>
                            /\ worker[u] \in Unsent \cup {"draining"}
                            /\ u \in listening' => u \in listening
    BY <1>2 DEF StartSession, StartSessionFails, StampAndSubscribe, SpawnConsumer, CancelTurn,
                StopSession, TypeInv, Unsent
  <2> QED BY <1>0, <2>1, <2>2, <2>3, SilenceKeeps
<1>3. ASSUME NEW r \in Turns, RunEnds(r) \/ Reap(r) \/ UNCHANGED vars PROVE HeardInv'
  <2>1. UNCHANGED <<thread, session, worker, capture, heard, listening>>
    BY <1>3 DEF RunEnds, Reap, vars
  <2>2. OwnSession'
    BY <2>1 DEF HeardInv, OwnSession
  <2> QED BY <1>0, <2>1, <2>2, SilenceKeeps
<1>4. ASSUME NEW t \in Turns, SendRequest(t) PROVE HeardInv'
  <2> DEFINE e == Event(t, "skill", 0)
             events == IF t \in Skills THEN <<e>> ELSE <<>>
  <2>1. /\ worker[t] = "sending" /\ worker' = [worker EXCEPT ![t] = "draining"]
        /\ current \in Turns /\ session' = session /\ thread' = thread
        /\ Publish(events, current) /\ run'[t].session = current
    BY <1>4 DEF SendRequest, TypeInv, Runs
  <2>2. e \in Events /\ e.from = t /\ e.kind = "skill" /\ events \in Seq(Events)
    <3>1. e \in Events
      BY EventType
    <3>2. e.from = t /\ e.kind = "skill"
      BY DEF Event
    <3> QED BY <3>1, <3>2
  <2>3. \A u \in Turns : ~Accounted(u, e)
    BY <2>1, <2>2 DEF Accounted, Unsent
  <2>4. \A u \in Turns : thread[u] = thread[current] => Accounted(u, e)'
    <3>1. worker'[t] \notin Unsent
      BY <2>1 DEF Unsent, TypeInv
    <3> QED BY <2>1, <2>2, <3>1 DEF Accounted
  <2>5. \A u \in Turns : worker'[u] \in Unsent \cup {"draining"} =>
                         worker[u] \in Unsent \cup {"draining"}
    BY <2>1 DEF Unsent, TypeInv
  <2>6. events = <<>> \/ events = <<e>>
    OBVIOUS
  <2> HIDE DEF e, events
  <2> QED BY <1>0, <2>1, <2>2, <2>3, <2>4, <2>5, <2>6, PublishKeeps
<1>5. ASSUME NEW t \in Turns, RequestRefused(t) PROVE HeardInv'
  <2> DEFINE e == Event(t, "skill", 0)
             events == IF t \in Skills /\ current # None THEN <<e>> ELSE <<>>
  <2>1. /\ worker[t] = "sending" /\ worker' = [worker EXCEPT ![t] = "draining"]
        /\ session' = session /\ thread' = thread /\ run' = run
        /\ Publish(events, current) /\ run[t].session = None
    BY <1>5 DEF RequestRefused, SentInv, Unsent
  <2>2. e \in Events /\ e.from = t /\ e.kind = "skill" /\ events \in Seq(Events)
    <3>1. e \in Events
      BY EventType
    <3>2. e.from = t /\ e.kind = "skill"
      BY DEF Event
    <3> QED BY <3>1, <3>2
  <2>3. \A u \in Turns : ~Accounted(u, e)
    BY <2>1, <2>2 DEF Accounted, Unsent
  <2>4. \A u \in Turns : thread[u] = thread[current] => Accounted(u, e)'
    <3>1. worker'[t] \notin Unsent
      BY <2>1 DEF Unsent, TypeInv
    <3> QED BY <2>1, <2>2, <3>1 DEF Accounted
  <2>5. \A u \in Turns : worker'[u] \in Unsent \cup {"draining"} =>
                         worker[u] \in Unsent \cup {"draining"}
    BY <2>1 DEF Unsent, TypeInv
  <2>6. events = <<>> \/ (events = <<e>> /\ current \in Turns)
    BY DEF TypeInv
  <2> HIDE DEF e, events
  <2> QED BY <1>0, <2>1, <2>2, <2>3, <2>4, <2>5, <2>6, PublishKeeps
<1>6. ASSUME NEW t \in Turns, Drain(t) PROVE HeardInv'
  BY <1>0, <1>6, DrainKeeps
<1>7. ASSUME NEW r \in Turns, EmitToken(r) PROVE HeardInv'
  <2>1. run[r] \in Runs /\ run'[r] \in Runs
    BY DEF TypeInv
  <2>2. /\ run[r].phase = "streaming" /\ run[r].session \in Turns /\ worker[r] \notin Unsent
        /\ run'[r].sent = run[r].sent + 1 /\ run[r].sent \in Nat /\ run'[r].sent \in 0..MaxTokens
        /\ run'[r].session = run[r].session
        /\ Publish(<<Event(r, "token", run'[r].sent)>>, run[r].session)
        /\ UNCHANGED <<worker, session, thread>>
    <3>1. /\ run[r].phase = "streaming"
          /\ Publish(<<Event(r, "token", run'[r].sent)>>, run[r].session)
          /\ UNCHANGED <<worker, session, thread>>
          /\ run' = [run EXCEPT ![r].sent = @ + 1]
      BY <1>7 DEF EmitToken
    <3>2. run'[r].sent = run[r].sent + 1 /\ run'[r].session = run[r].session
      BY <2>1, <3>1 DEF TypeInv, Runs
    <3>3. run[r].session \in Turns /\ worker[r] \notin Unsent
      BY <3>1 DEF TypeInv, RunKnows, SentInv
    <3>4. run[r].sent \in Nat /\ run'[r].sent \in 0..MaxTokens
      BY <2>1, TurnDispatchAssumption DEF Runs
    <3> QED BY <3>1, <3>2, <3>3, <3>4
  <2>3. PICK n \in 0..MaxTokens : n = run'[r].sent
    BY <2>2
  <2>4. PICK s \in Turns : s = run[r].session
    BY <2>2
  <2>5. PICK e \in Events : e = Event(r, "token", n)
    BY EventType
  <2>6. e.from = r /\ e.kind = "token" /\ e.n = n
    BY <2>5 DEF Event
  <2>7. \A u \in Turns : ~Accounted(u, e)
    BY <2>2, <2>3, <2>6, TurnDispatchAssumption DEF Accounted
  <2>8. \A u \in Turns : thread[u] = thread[s] => Accounted(u, e)'
    BY <2>2, <2>3, <2>4, <2>6, TurnDispatchAssumption DEF Accounted
  <2>9. <<e>> \in Seq(Events) /\ Publish(<<e>>, s)
    BY <2>2, <2>3, <2>4, <2>5
  <2> QED BY <1>0, <2>2, <2>7, <2>8, <2>9, PublishKeeps
<1>8. ASSUME NEW r \in Turns, Report(r) PROVE HeardInv'
  <2>1. run[r] \in Runs /\ run'[r] \in Runs
    BY DEF TypeInv
  <2>2. /\ run[r].phase = "waiting" /\ run[r].session \in Turns /\ worker[r] \notin Unsent
        /\ r \notin refused /\ run[r].outcome \in {"completed", "error"}
        /\ run'[r].phase = "ended" /\ run'[r].session = run[r].session
        /\ Publish(<<Event(r, run[r].outcome, 0)>>, run[r].session)
        /\ UNCHANGED <<worker, session, thread>>
    BY <1>8, <2>1 DEF Report, TypeInv, RunKnows, SentInv, Runs
  <2>3. PICK s \in Turns : s = run[r].session
    BY <2>2
  <2>4. PICK e \in Events : e = Event(r, run[r].outcome, 0)
    BY <2>2, EventType
  <2>5. e.from = r /\ e.kind \in {"completed", "error"}
    BY <2>2, <2>4 DEF Event
  <2>6. \A u \in Turns : ~Accounted(u, e)
    BY <2>2, <2>5 DEF Accounted
  <2>7. \A u \in Turns : thread[u] = thread[s] => Accounted(u, e)'
    BY <2>2, <2>3, <2>5 DEF Accounted
  <2>8. <<e>> \in Seq(Events) /\ Publish(<<e>>, s)
    BY <2>2, <2>3, <2>4
  <2> QED BY <1>0, <2>2, <2>6, <2>7, <2>8, PublishKeeps
<1>9. ASSUME NEW s \in Turns,
             \/ StopActiveSession(s) \/ FailTurn(s) \/ PauseSession(s) \/ InterruptSession(s)
      PROVE  HeardInv'
  <2>1. UNCHANGED <<thread, session, worker, capture, heard, listening>>
    BY <1>9 DEF StopActiveSession, FailTurn, PauseSession, InterruptSession
  <2>2. OwnSession'
    BY <2>1 DEF HeardInv, OwnSession
  <2> QED BY <1>0, <2>1, <2>2, SilenceKeeps
<1>10. CASE UNCHANGED vars
  <2>1. UNCHANGED <<thread, session, worker, capture, heard, listening>>
    BY <1>10 DEF vars
  <2>2. OwnSession'
    BY <2>1 DEF HeardInv, OwnSession
  <2> QED BY <1>0, <2>1, <2>2, SilenceKeeps
<1> QED BY <1>1, <1>2, <1>3, <1>4, <1>5, <1>6, <1>7, <1>8, <1>9, <1>10 DEF Next

-----------------------------------------------------------------------------
(* The theorems *)
Inv == TypeInv /\ PlaceInv /\ OpenInv /\ SentInv /\ ProcessInv /\ FollowInv /\ HeardInv

LEMMA Inductive == Spec => []Inv
<1>1. Init => Inv
  BY TypeInit, PlaceInit, OpenInit, SentInit, ProcessInit, FollowInit, HeardInit DEF Inv
<1>2. Inv /\ [Next]_vars => Inv'
  <2> SUFFICES ASSUME Inv, [Next]_vars PROVE Inv'
    OBVIOUS
  <2>1. TypeInv /\ PlaceInv /\ OpenInv /\ SentInv /\ ProcessInv /\ FollowInv /\ HeardInv
    BY DEF Inv
  <2>2. TypeInv'
    BY <2>1, TypeStep
  <2>3. PlaceInv' /\ OpenInv' /\ SentInv' /\ ProcessInv' /\ FollowInv'
    BY <2>1, PlaceStep, OpenStep, SentStep, ProcessStep, FollowStep
  <2>4. HeardInv'
    BY <2>1, <2>2, HeardStep
  <2> QED BY <2>2, <2>3, <2>4 DEF Inv
<1> QED BY <1>1, <1>2, PTL DEF Spec

(* Types, and the manager's indices agree (thread_sessions against the     *)
(* active, stamped and stopping sessions): what CancelThread walks is all  *)
(* there is to stop.                                                       *)
THEOREM TypesHold == Spec => []TypeOK
<1>1. Inv => TypeOK
  <2> SUFFICES ASSUME Inv PROVE TypeOK
    OBVIOUS
  <2>1. TypeInv /\ PlaceInv
    BY DEF Inv
  <2>2. \A t \in Turns : Range(heard[t]) \subseteq Events
    BY <2>1, GivenAreEvents DEF Given
  <2> QED BY <2>1, <2>2 DEF TypeInv, PlaceInv, TypeOK
<1> QED BY <1>1, Inductive, PTL

(* ensure_session_for_thread never reuses a session the adapter has lost,  *)
(* and requests go to a session the adapter still has, however stops and   *)
(* starts of any number of turns overlap.                                  *)
THEOREM ActiveIsOpenTheorem == Spec => []ActiveIsOpen
<1>1. Inv => ActiveIsOpen
  BY DEF Inv, OpenInv
<1> QED BY <1>1, Inductive, PTL

(* No process of a session that was stopped or replaced is orphaned,       *)
(* whichever request's supervisor reaps it.                                *)
THEOREM ClosedSessionHasNoProcessTheorem == Spec => []ClosedSessionHasNoProcess
<1>1. Inv => ClosedSessionHasNoProcess
  <2> SUFFICES ASSUME Inv PROVE ClosedSessionHasNoProcess
    OBVIOUS
  <2>1. alive \subseteq Turns /\ None \notin Turns
    BY TurnDispatchAssumption DEF Inv, TypeInv
  <2>2. \A r \in alive : run[r].session \in Turns
    BY <2>1 DEF Inv, TypeInv, RunKnows, ProcessInv
  <2> QED BY <2>1, <2>2 DEF Inv, ProcessInv, ClosedSessionHasNoProcess
<1> QED BY <1>1, Inductive, PTL

(* A request the adapter refused does not leave its turn pending, and a    *)
(* turn whose StartTurn came through and that is still pending has a       *)
(* consumer; one whose session could not be started is not spoken of.      *)
THEOREM PendingIsFollowedTheorem == Spec => []PendingIsFollowed
<1>1. Inv => PendingIsFollowed
  BY DEF Inv, FollowInv
<1> QED BY <1>1, Inductive, PTL

(* Capture, drain and consumer hand a turn each of the provider's events   *)
(* at most once.                                                           *)
THEOREM HeardOnceTheorem == Spec => []HeardOnce
<1>1. Inv => HeardOnce
  BY DEF Inv, HeardInv, OnceInv, HeardOnce
<1> QED BY <1>1, Inductive, PTL

(* On one bus that every thread's turns share, a turn is given events of   *)
(* its own thread's sessions only.                                         *)
THEOREM HeardOnOwnThreadTheorem == Spec => []HeardOnOwnThread
<1>1. Inv => HeardOnOwnThread
  BY DEF Inv, HeardInv, AccountInv, Accounted, Given, HeardOnOwnThread
<1> QED BY <1>1, Inductive, PTL

=============================================================================
