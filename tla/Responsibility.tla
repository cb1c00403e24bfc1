--------------------------- MODULE Responsibility ---------------------------
(***************************************************************************)
(* Who is responsible for the task of SyncReview (responsibility-mapping   *)
(* and the server's identity routes).  The accounts of the external system *)
(* are mapped to principals; a connector run that sees an assignee looks   *)
(* the account up, stores its identity row and makes the principal         *)
(* responsible, a statement each; operators store identities,              *)
(* responsibilities and delegation rules directly.                         *)
(*                                                                         *)
(* The rows of this part and those of the review queue have nothing in     *)
(* common but the task, so a behaviour is about one of the two.            *)
(***************************************************************************)
EXTENDS SyncReview

CONSTANTS
  Account, Principal,
  Role,             \* "owner", "reviewer", "watcher": all are treated alike
  Rule, RuleForms,  \* rule ids, ordered like their strings, and what is stored: scopes that can be read
  Worker,           \* runs that saw an assignee
  NoRow, Absent,    \* no identity row; an argument left out
  MaxRequests       \* bound on the requests of operators

ASSUME RuleAssumption == Rule \subseteq Nat /\ IsFiniteSet(Rule)
ASSUME RuleFormsAssumption == \A form \in RuleForms :
  /\ DOMAIN form = {"principal", "scope", "priority", "enabled"}
  /\ form.principal \in Principal /\ form.scope \in (Scope \ Invalid) \cup {None}
  /\ form.priority \in Int /\ form.enabled \in BOOLEAN

VARIABLES
  part,         \* fixed
  identities,   \* account to principal, None when stored unmapped
  responsible,  \* pairs of principal and role with a row that is not archived
  rules,        \* stored delegation rules: id to form
  worker,
  requests,
  mapped,       \* history: pairs of account and principal an identity row had
  assigned      \* history: such pairs for which a run made the principal responsible

people == <<identities, responsible, rules, worker, requests, mapped, assigned>>
peopleVars == <<part, people, vars>>

Looking == [step : {"identity", "responsibility"}, account : Account, principal : Principal \cup {None},
            role : Role \cup {None}]

PeopleInit ==
  /\ Init
  /\ part \in {"review", "people"}
  /\ identities = [a \in Account |-> NoRow]
  /\ responsible = {}
  /\ rules = <<>>
  /\ worker = [w \in Worker |-> Idle]
  /\ requests = 0
  /\ mapped = {} /\ assigned = {}
  /\ part = "people" => policies = <<>> /\ ~autoApply /\ extTime = 0

-----------------------------------------------------------------------------
(* Faulty: a missing row is not turned into an unmapped one. *)
NoDefault(asked, a) == IF asked # Absent THEN asked ELSE identities[a]

(* The principal asked for, or the one the row names, or none. *)
PrincipalFor(asked, a) ==
  IF asked # Absent THEN asked ELSE IF identities[a] = NoRow THEN None ELSE identities[a]

(* Faulty: an account whose principal is known needs no row. *)
KnownNeedsNoRow(role, p) == IF None \notin {role, p} THEN "responsibility" ELSE "identity"

FirstStep(role, p) == "identity"

(* assignExternalAssigneeResponsibility, for a role, and                   *)
(* upsertExternalIdentity, for none: both read the row first.              *)
LookUp(w, a) == \E asked \in Principal \cup {Absent}, role \in Role \cup {None} :
  /\ worker[w] = Idle
  /\ LET p == PrincipalFor(asked, a) IN
       worker' = [worker EXCEPT ![w] = [step |-> FirstStep(role, p), account |-> a, principal |-> p,
                                        role |-> role]]
  /\ UNCHANGED <<identities, responsible, rules, requests, mapped, assigned>>

(* upsertExternalIdentity of the store: the last write wins. *)
StoreIdentity(a, p) ==
  /\ identities' = [identities EXCEPT ![a] = p]
  /\ mapped' = mapped \cup ({<<a, p>>} \cap (Account \X Principal))

SaveIdentity(w) ==
  /\ worker[w].step = "identity"
  /\ StoreIdentity(worker[w].account, worker[w].principal)
  /\ worker' = [worker EXCEPT ![w] =
       IF None \notin {@.role, @.principal} THEN [@ EXCEPT !.step = "responsibility"] ELSE Idle]
  /\ UNCHANGED <<responsible, rules, requests, assigned>>

SaveResponsibility(w) ==
  /\ worker[w].step = "responsibility"
  /\ responsible' = responsible \cup {<<worker[w].principal, worker[w].role>>}
  /\ assigned' = assigned \cup {<<worker[w].account, worker[w].principal>>}
  /\ worker' = [worker EXCEPT ![w] = Idle]
  /\ UNCHANGED <<identities, rules, requests, mapped>>

WorkerDies(w) ==
  /\ worker[w] # Idle
  /\ worker' = [worker EXCEPT ![w] = Idle]
  /\ UNCHANGED <<identities, responsible, rules, requests, mapped, assigned>>

Request == requests < MaxRequests /\ requests' = requests + 1 /\ UNCHANGED worker

(* POST /api/identity/external-identities: the row as sent. *)
MapIdentity(a) == \E p \in Principal \cup {None} :
  Request /\ StoreIdentity(a, p) /\ UNCHANGED <<responsible, rules, assigned>>

(* POST /api/identity/task-responsibilities, archived or not. *)
PutResponsibility(p, role) ==
  /\ Request
  /\ responsible' \in {responsible \cup {<<p, role>>}, responsible \ {<<p, role>>}}
  /\ UNCHANGED <<identities, rules, mapped, assigned>>

(* POST /api/identity/delegation-rules *)
PutRule(i) == \E form \in RuleForms :
  /\ Request
  /\ rules' = [j \in DOMAIN rules \cup {i} |-> IF j = i THEN form ELSE rules[j]]
  /\ UNCHANGED <<identities, responsible, mapped, assigned>>

PeopleStep ==
  /\ part = "people"
  /\ \/ \E w \in Worker :
          (\E a \in Account : LookUp(w, a)) \/ SaveIdentity(w) \/ SaveResponsibility(w) \/ WorkerDies(w)
     \/ \E a \in Account : MapIdentity(a)
     \/ \E p \in Principal, role \in Role : PutResponsibility(p, role)
     \/ \E i \in Rule : PutRule(i)
  /\ UNCHANGED <<part, vars>>

ReviewStep == part = "review" /\ Next /\ UNCHANGED <<part, people>>

PeopleNext == PeopleStep \/ ReviewStep

PeopleSpec == PeopleInit /\ [][PeopleNext]_peopleVars

-----------------------------------------------------------------------------
(* Who may act for the responsible principals. *)

(* Faulty: the lowest priority first, as policies are applied. *)
Ascending(table, i, j) ==
  \/ table[i].priority < table[j].priority
  \/ table[i].priority = table[j].priority /\ i < j

TriedBefore(table, i, j) ==
  \/ table[i].priority > table[j].priority
  \/ table[i].priority = table[j].priority /\ i < j

Delegates(rule, p) == rule.principal = p /\ rule.scope \in matching \cup {None}

(* The enabled rules, sorted. *)
RulesInOrder ==
  LET enabled == {i \in DOMAIN rules : rules[i].enabled}
  IN  CHOOSE tried \in [1..Cardinality(enabled) -> enabled] :
        \A m, n \in DOMAIN tried : m < n => TriedBefore(rules, tried[m], tried[n])

(* resolveTaskDelegations: the first rule for each responsibility.  The    *)
(* order of the answers, by role, is left out.                             *)
TaskDelegations ==
  LET tried == RulesInOrder
      first(p) == SelectInSeq(tried, LAMBDA i : Delegates(rules[i], p))
  IN  {[principal |-> r[1], role |-> r[2], rule |-> tried[first(r[1])]] :
         r \in {q \in responsible : first(q[1]) # 0}}

-----------------------------------------------------------------------------
(* Every row and every worker is well formed; an account looked up without *)
(* a row is unmapped, not missing.                                         *)
PeopleTypeOK ==
  /\ identities \in [Account -> Principal \cup {None, NoRow}]
  /\ responsible \subseteq Principal \X Role
  /\ DOMAIN rules \subseteq Rule /\ \A i \in DOMAIN rules : rules[i] \in RuleForms
  /\ worker \in [Worker -> Looking \cup {Idle}]
  /\ mapped \subseteq Account \X Principal

(* A run makes a principal responsible only after a row mapped the account *)
(* to it, whatever dies or is stored by others in between: accountability  *)
(* can be traced to a mapping.                                             *)
ResponsibleWasMapped == assigned \subseteq mapped

(* A principal's work is delegated if and only if some enabled rule of     *)
(* theirs covers the task, and by one rule for each role they have: of the *)
(* highest priority, and of those the one with the first id.               *)
DelegationsSound ==
  \A r \in responsible :
    LET rule(i) == rules[i]
        able == {i \in DOMAIN rules : rule(i).enabled /\ rule(i).principal = r[1]
                                        /\ (rule(i).scope # None => rule(i).scope \in matching)}
        given == {d.rule : d \in {e \in TaskDelegations : e.principal = r[1] /\ e.role = r[2]}}
    IN  given = {i \in able : \A j \in able \ {i} :
                   \/ rule(i).priority > rule(j).priority
                   \/ rule(i).priority = rule(j).priority /\ i < j}

=============================================================================
