-------------------------- MODULE MCResponsibility --------------------------
(* Instances of SyncReview and Responsibility for TLC. *)
EXTENDS Responsibility, TLC

Form(priority, enabled, fits, scope, fields) ==
  [priority |-> priority, enabled |-> enabled, fits |-> fits, scope |-> scope, fields |-> fields]

(* The execution layer preset, for two of its fields. *)
ExecutionLayer == [f \in Field |-> "inbound_only"]

(* Records that overlap, at equal and different priorities.  (TLC computes *)
(* what a constant stands for at each use, and a definition just once.)    *)
PolicyTable ==
  UNION {{Form(0, TRUE, TRUE, None, "title" :> "last_writer_wins"),
          Form(1, TRUE, TRUE, None, "title" :> "disabled"),
          Form(1, TRUE, TRUE, s, [f \in Field |-> IF f = "title" THEN "manual" ELSE "unblock_owned"]),
          Form(2, FALSE, TRUE, None, "title" :> "blocked")} : s \in Scope}

(* Two principals' rules, one of them with rules that overlap. *)
RuleTable ==
  LET rule(p, scope, priority, enabled) ==
        [principal |-> p, scope |-> scope, priority |-> priority, enabled |-> enabled]
  IN  UNION {{rule("alice", None, 0, TRUE), rule("alice", s, 1, TRUE),
              rule("alice", None, 2, FALSE), rule("bob", s, 0, TRUE)} : s \in Scope \ Invalid}

OverlappingForms == PolicyTable

OverlappingRules == RuleTable

ReviewSymmetry == Permutations(Run) \cup Permutations(Worker)

=============================================================================
