------------------------------- MODULE EventLog -------------------------------
(***************************************************************************)
(* What the pipeline promises of its event store: a command, or a batch of *)
(* provider events, takes effect as one atomic append at the next numbers  *)
(* of one stream, at most once however often it was retried; it is then    *)
(* announced to the clients, once, under those numbers; and a command that *)
(* is refused has left no trace.  EventPipeline implements it with version *)
(* checks, SQLite transactions and a retry loop.                           *)
(***************************************************************************)
EXTENDS Naturals, Sequences

CONSTANTS
    Workers, Consumers,     \* who appends: commands, provider streams
    Ids,                    \* the streams
    Existing                \* the rows stored before the process starts

VARIABLES
    log,        \* the rows, in the order they were stored
    feed,       \* the rows announced to clients
    due,        \* what each task has stored and not announced
    busy,       \* has the worker a command
    reply       \* the answer to its last command

vars == <<log, feed, due, busy, reply>>

Tasks == Workers \cup Consumers

Init ==
    /\ log = Existing
    /\ feed = <<>>
    /\ due = [t \in Tasks |-> <<>>]
    /\ busy = [w \in Workers |-> FALSE]
    /\ reply = [w \in Workers |-> "none"]

Numbers(id) == {log[i].sequence : i \in {j \in DOMAIN log : log[j].stream = id}}

(* A batch continues one stream. *)
IsNextBatch(batch) ==
    /\ batch # <<>>
    /\ \E id \in Ids, n \in 0..Len(log) :
         /\ Numbers(id) = 1..n
         /\ \A k \in DOMAIN batch : batch[k].stream = id /\ batch[k].sequence = n + k

TakeUp(w) ==
    /\ ~busy[w]
    /\ busy' = [busy EXCEPT ![w] = TRUE]
    /\ reply' = [reply EXCEPT ![w] = "none"]
    /\ UNCHANGED <<log, feed, due>>

Refuse(w) ==
    /\ busy[w]
    /\ due[w] = <<>>
    /\ busy' = [busy EXCEPT ![w] = FALSE]
    /\ \E answer \in {"rejected", "conflict", "internal"} :
         reply' = [reply EXCEPT ![w] = answer]
    /\ UNCHANGED <<log, feed, due>>

Store(t) ==
    /\ due[t] = <<>>
    /\ t \in Workers => busy[t]
    /\ IsNextBatch(due'[t])
    /\ log' = log \o due'[t]
    /\ due' = [due EXCEPT ![t] = due'[t]]
    /\ UNCHANGED <<feed, busy, reply>>

(* The events of a command are announced before it is answered; "internal" *)
(* is the failure of the provider they were passed on to.                  *)
Announce(t) ==
    /\ due[t] # <<>>
    /\ feed' = feed \o due[t]
    /\ due' = [due EXCEPT ![t] = <<>>]
    /\ \/ /\ t \in Workers
          /\ busy' = [busy EXCEPT ![t] = FALSE]
          /\ \E answer \in {"ok", "internal"} : reply' = [reply EXCEPT ![t] = answer]
       \/ t \notin Workers /\ UNCHANGED <<busy, reply>>
    /\ UNCHANGED log

(* What was stored stays; what was not announced never is. *)
Crash ==
    /\ due' = [t \in Tasks |-> <<>>]
    /\ busy' = [w \in Workers |-> FALSE]
    /\ reply' = [w \in Workers |-> IF busy[w] THEN "lost" ELSE reply[w]]
    /\ UNCHANGED <<log, feed>>

Next ==
    \/ \E w \in Workers : TakeUp(w) \/ Refuse(w)
    \/ \E t \in Tasks : Store(t) \/ Announce(t)
    \/ Crash

Spec == Init /\ [][Next]_vars

=============================================================================
