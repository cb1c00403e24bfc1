----------------------------- MODULE InboxPromise -----------------------------
(***************************************************************************)
(* What a flow that posts external events to the inbox may count on: an    *)
(* event takes effect at most once, and an event the caller was told is in *)
(* (applied, or a duplicate of an applied one) has taken effect.           *)
(* docs/hosted-unblock-architecture.md: "inbox application is exactly-once *)
(* by unique source event key".                                            *)
(***************************************************************************)
EXTENDS Naturals

CONSTANT Key   \* source event keys

VARIABLES
  effects,  \* how often each event has taken effect
  acked     \* keys whose caller has been told "applied" or "duplicate"

promiseVars == <<effects, acked>>

Init == effects = [k \in Key |-> 0] /\ acked = {}

TakeEffect(k) ==
  /\ effects[k] = 0
  /\ effects' = [effects EXCEPT ![k] = 1]
  /\ acked' \in {acked, acked \cup {k}}

Acknowledge(k) ==
  /\ effects[k] = 1
  /\ acked' = acked \cup {k}
  /\ UNCHANGED effects

Next == \E k \in Key : TakeEffect(k) \/ Acknowledge(k)

Spec == Init /\ [][Next]_promiseVars

=============================================================================
