--------------------------- MODULE ConnectorOutbox ---------------------------
(***************************************************************************)
(* The connector outbox of a hosted tenant: the outbox_events table        *)
(* (PostgresOutboxEventRepository), the publisher that moves its events to *)
(* the flow engine (publishConnectorOutboxToPrismFlows), any number of     *)
(* which may run at once, and the engine itself, which is not part of this *)
(* repository and is taken to do what the client asks: attach to the run   *)
(* of an idempotency key or start one.                                     *)
(*                                                                         *)
(* Every statement of the repository is one step, and so is every step of  *)
(* the publisher between two awaits.  Payload, evidence and clock times    *)
(* are left out; of available_at only whether it has come is kept.  The    *)
(* publisher reads at most 100 events; instances have fewer.               *)
(***************************************************************************)
EXTENDS Naturals

CONSTANTS
  Event,        \* outbox events, one per idempotency key
  Publisher,    \* concurrent calls of the publisher
  MaxAttempts,  \* options.maxAttempts, 8 unless given
  MaxFaults     \* bound: crashes and lost database answers in a behaviour

ASSUME MaxAttemptsAssumption == MaxAttempts \in Nat \ {0}
ASSUME MaxFaultsAssumption   == MaxFaults \in Nat

Status == {"absent", "pending", "claimed", "failed", "processed", "dead"}

VARIABLES
  status,    \* the status column, "absent" when there is no row
  attempts,  \* the attempt_count column
  due,       \* events whose available_at has come
  requests,  \* start requests on their way to the flow engine
  runs,      \* events the flow engine has a run for
  pub,       \* per publisher: where it is, what is left of its list
  faults     \* faults so far

vars == <<status, attempts, due, requests, runs, pub, faults>>
table == <<status, attempts, due>>

Resting == [pc |-> "idle"]

(* The publisher p holds e: it has claimed it and is not done with it. *)
Holding == {"claimed", "calling", "started", "catch"}
Holds(p, e) == pub[p].pc \in Holding /\ pub[p].cur = e

-----------------------------------------------------------------------------
Init ==
  /\ status = [e \in Event |-> "absent"]
  /\ attempts = [e \in Event |-> 0]
  /\ due = {}
  /\ requests = {}
  /\ runs = {}
  /\ pub = [p \in Publisher |-> Resting]
  /\ faults = 0

(* Faulty: a duplicate replaces the stored event. *)
EnqueueReplacing(e) ==
  /\ status' = [status EXCEPT ![e] = "pending"]
  /\ attempts' = [attempts EXCEPT ![e] = 0]
  /\ due' \in {due \cup {e}, due \ {e}}
  /\ UNCHANGED <<requests, runs, pub, faults>>

(* enqueue; a duplicate key changes nothing.  availableAt may lie ahead. *)
Enqueue(e) ==
  /\ status[e] = "absent"
  /\ status' = [status EXCEPT ![e] = "pending"]
  /\ due' \in {due \cup {e}, due \ {e}}
  /\ UNCHANGED <<attempts, requests, runs, pub, faults>>

(* available_at comes. *)
BecomeDue(e) ==
  /\ status[e] \in {"pending", "failed"} /\ e \notin due
  /\ due' = due \cup {e}
  /\ UNCHANGED <<status, attempts, requests, runs, pub, faults>>

Ready == {e \in due : status[e] \in {"pending", "failed"}}

(* listReady, at the start of a call of the publisher. *)
List(p) ==
  /\ pub[p] = Resting
  /\ Ready # {}
  /\ pub' = [pub EXCEPT ![p] = [pc |-> "loop", left |-> Ready]]
  /\ UNCHANGED <<table, requests, runs, faults>>

(* Faulty: claim by id alone. *)
ListedEarlier(e) == status[e] # "absent"

(* The WHERE clause of claim. *)
Claimable(e) == e \in Ready

(* claim: an event that is no longer ready is skipped. *)
Claim(p, e) ==
  /\ pub[p].pc = "loop" /\ e \in pub[p].left
  /\ LET left == pub[p].left \ {e}
     IN IF Claimable(e)
        THEN /\ status' = [status EXCEPT ![e] = "claimed"]
             /\ attempts' = [attempts EXCEPT ![e] = @ + 1]
             /\ pub' = [pub EXCEPT ![p] = [pc |-> "claimed", left |-> left, cur |-> e]]
        ELSE /\ pub' = [pub EXCEPT ![p].left = left]
             /\ UNCHANGED <<status, attempts>>
  /\ UNCHANGED <<due, requests, runs, faults>>

(* The list is done. *)
Return(p) ==
  /\ pub[p].pc = "loop" /\ pub[p].left = {}
  /\ pub' = [pub EXCEPT ![p] = Resting]
  /\ UNCHANGED <<table, requests, runs, faults>>

-----------------------------------------------------------------------------
(* client.startFlow is called. *)
StartFlow(p) ==
  /\ pub[p].pc = "claimed"
  /\ requests' = requests \cup {pub[p].cur}
  /\ pub' = [pub EXCEPT ![p].pc = "calling"]
  /\ UNCHANGED <<table, runs, faults>>

(* The engine takes a request up, be the caller still waiting or not. *)
EngineStarts(e) ==
  /\ e \in requests
  /\ requests' = requests \ {e}
  /\ runs' = runs \cup {e}
  /\ UNCHANGED <<table, pub, faults>>

(* A request is lost or refused. *)
EngineRefuses(e) ==
  /\ e \in requests
  /\ requests' = requests \ {e}
  /\ UNCHANGED <<table, runs, pub, faults>>

(* Faulty: the answer is not awaited. *)
AnswerAssumed(p) ==
  /\ pub[p].pc = "calling"
  /\ pub' = [pub EXCEPT ![p].pc = "started"]
  /\ UNCHANGED <<table, requests, runs, faults>>

(* startFlow answers with the run of the event's key. *)
FlowStarted(p) ==
  /\ pub[p].pc = "calling" /\ pub[p].cur \in runs
  /\ pub' = [pub EXCEPT ![p].pc = "started"]
  /\ UNCHANGED <<table, requests, runs, faults>>

(* The payload does not parse, or startFlow throws, which says nothing     *)
(* about what the engine did or will do.                                   *)
FlowFails(p) ==
  /\ pub[p].pc \in {"claimed", "calling"}
  /\ pub' = [pub EXCEPT ![p].pc = "catch"]
  /\ UNCHANGED <<table, requests, runs, faults>>

(* markProcessed *)
MarkProcessed(p) ==
  /\ pub[p].pc = "started"
  /\ status' = [status EXCEPT ![pub[p].cur] = "processed"]
  /\ pub' = [pub EXCEPT ![p] = [pc |-> "loop", left |-> pub[p].left]]
  /\ UNCHANGED <<attempts, due, requests, runs, faults>>

(* markProcessed throws, before its commit or after: the catch block runs. *)
MarkProcessedThrows(p) ==
  /\ pub[p].pc = "started"
  /\ faults < MaxFaults
  /\ status' \in {status, [status EXCEPT ![pub[p].cur] = "processed"]}
  /\ pub' = [pub EXCEPT ![p].pc = "catch"]
  /\ faults' = faults + 1
  /\ UNCHANGED <<attempts, due, requests, runs>>

(* Faulty: one attempt too many. *)
AttemptsOverdrawn(e) == attempts[e] > MaxAttempts

AttemptsUsed(e) == attempts[e] >= MaxAttempts

(* The catch block: markDead or markFailed. *)
Catch(p) ==
  LET e == pub[p].cur
  IN /\ pub[p].pc = "catch"
     /\ IF AttemptsUsed(e)
        THEN /\ status' = [status EXCEPT ![e] = "dead"]
             /\ UNCHANGED due
        ELSE /\ status' = [status EXCEPT ![e] = "failed"]
             /\ due' = due \ {e}
     /\ pub' = [pub EXCEPT ![p] = [pc |-> "loop", left |-> pub[p].left]]
     /\ UNCHANGED <<attempts, requests, runs, faults>>

(* The process dies, or a database error leaves the function. *)
Crash(p) ==
  /\ pub[p] # Resting
  /\ faults < MaxFaults
  /\ pub' = [pub EXCEPT ![p] = Resting]
  /\ faults' = faults + 1
  /\ UNCHANGED <<table, requests, runs>>

Step(p) ==
  \/ List(p)
  \/ \E e \in Event : Claim(p, e)
  \/ Return(p)
  \/ StartFlow(p) \/ FlowStarted(p) \/ FlowFails(p)
  \/ MarkProcessed(p) \/ Catch(p)

Next ==
  \/ \E e \in Event : Enqueue(e) \/ BecomeDue(e) \/ EngineStarts(e) \/ EngineRefuses(e)
  \/ \E p \in Publisher : Step(p) \/ MarkProcessedThrows(p) \/ Crash(p)

Spec == Init /\ [][Next]_vars

(* The publisher is called again and again and awaits nothing forever;     *)
(* nobody promises events, nor that the engine answers.                    *)
Fairness ==
  /\ \A p \in Publisher : WF_vars(Step(p))
  /\ \A e \in Event : WF_vars(BecomeDue(e))

FairSpec == Spec /\ Fairness

-----------------------------------------------------------------------------
Publishing ==
  {Resting}
    \cup [pc : {"loop"}, left : SUBSET Event]
    \cup [pc : Holding, left : SUBSET Event, cur : Event]

TypeOK ==
  /\ status \in [Event -> Status]
  /\ attempts \in [Event -> 0..MaxAttempts]
  /\ due \subseteq Event
  /\ requests \subseteq Event
  /\ runs \subseteq Event
  /\ pub \in [Publisher -> Publishing]
  /\ faults \in 0..MaxFaults

(* One event is in the hands of one publisher at most, whichever lists it  *)
(* is on and however often it was tried before (claim).                    *)
OneHolder == \A p, q \in Publisher, e \in Event : Holds(p, e) /\ Holds(q, e) => p = q

(* An event recorded as processed has a run, though a failed call may have *)
(* started it and a later one attached (publishConnectorOutboxToPrismFlows). *)
ProcessedHasRun == \A e \in Event : status[e] = "processed" => e \in runs

(* An event dies only when every attempt is used, and is never tried after *)
(* that (the catch block).                                                 *)
DeadOnlyWhenExhausted ==
  \A e \in Event :
    /\ status[e] = "dead" => attempts[e] = MaxAttempts
    /\ status[e] \in {"pending", "failed"} => attempts[e] < MaxAttempts

-----------------------------------------------------------------------------
Outcome(e) ==
  CASE status[e] = "absent" -> "none"
    [] status[e] = "processed" -> "done"
    [] status[e] = "dead" -> "given_up"
    [] OTHER -> "waiting"

Promise == INSTANCE DeliveryPromise
             WITH outcome <- [e \in Event |-> Outcome(e)], delivered <- runs,
                  lapsed <- faults > 0

(* Until a publisher crashes or an answer of the database is lost, the     *)
(* outbox keeps its promise, its liveness included, however publishers     *)
(* overlap and the flow engine answers (publishConnectorOutboxToPrismFlows,*)
(* claim, the catch block).                                                *)
KeepsPromise == Promise!PromiseSpec

=============================================================================
