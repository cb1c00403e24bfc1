--------------------------- MODULE DeliveryPromise ---------------------------
(***************************************************************************)
(* What the connector outbox promises about each event it accepts: the     *)
(* event is delivered to the flow engine or given up, one of the two is    *)
(* recorded in the end, "done" is never recorded of an event that was not  *)
(* delivered, and a recorded outcome stands.  The promise lapses with the  *)
(* first crash of a publisher or lost answer of the database.              *)
(***************************************************************************)
CONSTANT Event

VARIABLES
  outcome,    \* per event: "none", "waiting", "done" or "given_up"
  delivered,  \* events for which the flow engine has a run
  lapsed      \* whether the promise has lapsed

pvars == <<outcome, delivered, lapsed>>

PromiseInit == outcome = [e \in Event |-> "none"] /\ delivered = {} /\ lapsed = FALSE

Accept(e) ==
  /\ outcome[e] = "none"
  /\ outcome' = [outcome EXCEPT ![e] = "waiting"]
  /\ UNCHANGED <<delivered, lapsed>>

Deliver(e) ==
  /\ outcome[e] # "none"
  /\ delivered' = delivered \cup {e}
  /\ UNCHANGED <<outcome, lapsed>>

Succeed(e) ==
  /\ outcome[e] = "waiting" /\ e \in delivered
  /\ outcome' = [outcome EXCEPT ![e] = "done"]
  /\ UNCHANGED <<delivered, lapsed>>

GiveUp(e) ==
  /\ outcome[e] = "waiting"
  /\ outcome' = [outcome EXCEPT ![e] = "given_up"]
  /\ UNCHANGED <<delivered, lapsed>>

(* Nothing is promised any more. *)
Lapse == lapsed' = TRUE

PromiseNext ==
  \/ \E e \in Event : Accept(e) \/ Deliver(e) \/ Succeed(e) \/ GiveUp(e)
  \/ Lapse

PromiseSafety == PromiseInit /\ [][PromiseNext]_pvars

Settle(e) == ~lapsed /\ (Succeed(e) \/ GiveUp(e))

PromiseSpec == PromiseSafety /\ \A e \in Event : WF_pvars(Settle(e))

=============================================================================
