----------------------------- MODULE SyncReview -----------------------------
(***************************************************************************)
(* The review queue of one connector, for one external object mapped to    *)
(* one task (connector-sync.ts, and the planner of jira-connector.ts).     *)
(*                                                                         *)
(* A connector run reads the external object, the task and the policies,   *)
(* resolves the policies, decides every diverging field and stores a queue *)
(* item for each, one statement after the other.  Operators                *)
(* meanwhile store policies and set the status of items; the object and    *)
(* the task go on changing.  A value is abstracted to whether it differs   *)
(* from the other side's, a timestamp to a small number; the mode of a     *)
(* bidirectional field is its conflict policy.                             *)
(***************************************************************************)
EXTENDS Integers, FiniteSets, Sequences, SequencesExt

CONSTANTS
  Field,
  Policy,       \* ids of policy records, ordered like their strings
  Scope,        \* texts stored as matcher queries
  Invalid,      \* those that the query language rejects
  PolicyForms,  \* what operators store: see FormsAssumption
  Base,         \* the preset: a field's mode
  Run,          \* connector runs
  Verdict,      \* statuses a reviewer sets
  None,
  MaxTime, MaxEdits  \* bounds on the clock and on the changes from outside

Mode == {"disabled", "manual", "inbound_only", "external_owned", "outbound_only",
         "unblock_owned", "append_only", "external_wins", "unblock_wins",
         "last_writer_wins", "manual_review", "blocked"}
Kind == {"apply_inbound", "apply_outbound", "ignore", "manual_review", "blocked"}
Status == {"auto_applying", "pending", "blocked", "manual_review", "ignored", "resolved", "failed"}

ASSUME PolicyAssumption == Policy \subseteq Nat /\ IsFiniteSet(Policy) /\ None \notin Policy
ASSUME FieldAssumption == IsFiniteSet(Field)
ASSUME VerdictAssumption == Verdict \subseteq Status
ASSUME ScopeAssumption == Invalid \subseteq Scope
ASSUME BoundsAssumption == MaxTime \in Nat /\ MaxEdits \in Nat
ASSUME FormsAssumption == \A form \in PolicyForms :
  /\ DOMAIN form = {"priority", "enabled", "fits", "scope", "fields"}
  /\ form.priority \in Int /\ {form.enabled, form.fits} \subseteq BOOLEAN
  /\ form.scope \in Scope \cup {None}
  /\ DOMAIN form.fields \subseteq Field
  /\ \A f \in DOMAIN form.fields : form.fields[f] \in Mode
ASSUME BaseAssumption == Base \in [Field -> Mode]

VARIABLES
  autoApply,         \* fixed: the connector applies decisions itself
  now,
  policies,          \* stored records: id to form and updatedAt
  matching,          \* the scope queries that match the task
  diverging,         \* fields in which object and task differ
  extTime, locTime,  \* updatedAt of the object and of the task, if known
  queue,             \* stored items: identity to content
  run,
  edits,             \* changes from outside so far
  stored             \* history: every form an id ever had

world == <<policies, matching, diverging, extTime, locTime>>
vars == <<autoApply, now, world, queue, run, edits, stored>>

Time == 0..MaxTime
Record == [form : PolicyForms, updated : Time]
ItemId == [field : Field, ext : Time \cup {None}, loc : Time \cup {None},
           policy : Policy \cup {None}, scope : Scope \cup {None}]
Item == [kind : Kind, status : Status]
Partial(S, T) == UNION {[D -> T] : D \in SUBSET S}

Idle == [step |-> "idle"]

Init ==
  /\ autoApply \in BOOLEAN
  /\ now = 0
  /\ policies \in Partial(Policy, [form : PolicyForms, updated : {0}])
  /\ matching \in SUBSET (Scope \ Invalid)
  /\ diverging = Field
  /\ extTime \in {None, 0} /\ locTime = 0
  /\ queue = <<>>
  /\ run = [r \in Run |-> Idle]
  /\ edits = 0
  /\ stored = {<<p, policies[p].form>> : p \in DOMAIN policies}

-----------------------------------------------------------------------------
(* What a run computes. *)

Applicable(form, matches) ==
  form.enabled /\ form.fits /\ form.scope \in matches \cup {None}

(* skipPolicyResolution: matchMatcherQuery throws, as nothing validates a  *)
(* scope before it is stored. *)
Breaks(table) == \E p \in DOMAIN table :
  LET form == table[p].form IN form.enabled /\ form.fits /\ form.scope \in Invalid

(* Faulty: the highest priority first, as the list is shown. *)
Descending(table, p, q) ==
  \/ table[p].form.priority > table[q].form.priority
  \/ table[p].form.priority = table[q].form.priority /\ p < q

(* comparePolicyRecordForApplication: p is applied before q. *)
AppliedBefore(table, p, q) ==
  LET a == table[p] b == table[q] IN
  \/ a.form.priority < b.form.priority
  \/ a.form.priority = b.form.priority /\ a.updated < b.updated
  \/ a.form.priority = b.form.priority /\ a.updated = b.updated /\ p < q

(* The resolution: the mode of every field and the policy it is from. *)
Preset == [mode |-> Base, source |-> [f \in Field |-> None]]

Override(resolution, p, form) ==
  [mode   |-> [f \in Field |-> IF f \in DOMAIN form.fields THEN form.fields[f] ELSE resolution.mode[f]],
   source |-> [f \in Field |-> IF f \in DOMAIN form.fields THEN p ELSE resolution.source[f]]]

AppliedLast(table, P) == CHOOSE p \in P : \A q \in P \ {p} : AppliedBefore(table, q, p)

(* The applicable records in turn, each over those applied before it. *)
Resolve(table, matches) ==
  LET applied[P \in SUBSET DOMAIN table] ==
        IF P = {} THEN Preset
        ELSE LET p == AppliedLast(table, P) IN Override(applied[P \ {p}], p, table[p].form)
  IN  applied[{p \in DOMAIN table : Applicable(table[p].form, matches)}]

LastWriter(ext, loc) ==
  IF None \in {ext, loc} THEN "manual_review"
  ELSE IF ext >= loc THEN "apply_inbound" ELSE "apply_outbound"

Decide(mode, ext, loc) ==
  CASE mode = "disabled" -> "ignore"
    [] mode \in {"inbound_only", "external_owned", "external_wins"} -> "apply_inbound"
    [] mode \in {"outbound_only", "unblock_owned", "unblock_wins"} -> "apply_outbound"
    [] mode \in {"manual", "append_only", "manual_review"} -> "manual_review"
    [] mode = "blocked" -> "blocked"
    [] mode = "last_writer_wins" -> LastWriter(ext, loc)

(* Faulty: every decision but apply is its own status. *)
KindAsStatus(kind) ==
  IF kind \in {"apply_inbound", "apply_outbound"}
  THEN IF autoApply THEN "auto_applying" ELSE "pending"
  ELSE kind

(* queueStatusForDecision *)
StatusFor(kind) ==
  CASE kind \in {"apply_inbound", "apply_outbound"} -> IF autoApply THEN "auto_applying" ELSE "pending"
    [] kind = "ignore" -> "ignored"
    [] kind \in {"blocked", "manual_review"} -> kind

(* Faulty: the policy is not part of the identity. *)
NamelessIdentity(table, f, source, ext, loc) ==
  [field |-> f, ext |-> ext, loc |-> loc, policy |-> None, scope |-> None]

Identity(table, f, source, ext, loc) ==
  [field |-> f, ext |-> ext, loc |-> loc, policy |-> source,
   scope |-> IF source = None THEN None ELSE table[source].form.scope]

(* The items of planJiraIssueSyncQueue, in the order they are stored. *)
Plan(table, matches, diffs, ext, loc) ==
  LET resolution == Resolve(table, matches)
  IN  [i \in 1..Cardinality(diffs) |->
        LET f == SetToSeq(diffs)[i]
            kind == Decide(resolution.mode[f], ext, loc)
        IN  [id   |-> Identity(table, f, resolution.source[f], ext, loc),
             item |-> [kind |-> kind, status |-> StatusFor(kind)]]]

-----------------------------------------------------------------------------
(* What changed since a run began: it is calm while that is nothing. *)
Disturbed(rs) == [r \in Run |-> IF r \in rs /\ run[r] # Idle THEN [run[r] EXCEPT !.calm = FALSE] ELSE run[r]]

Changes ==
  /\ edits < MaxEdits
  /\ edits' = edits + 1
  /\ run' = Disturbed(Run)
  /\ UNCHANGED <<autoApply, now>>

Tick == now < MaxTime /\ now' = now + 1 /\ UNCHANGED <<autoApply, world, queue, run, edits, stored>>

(* upsertConnectorSyncPolicy *)
PutPolicy(p) == \E form \in PolicyForms :
  /\ Changes
  /\ policies' = [q \in DOMAIN policies \cup {p} |->
                    IF q = p THEN [form |-> form, updated |-> now] ELSE policies[q]]
  /\ stored' = stored \cup {<<p, form>>}
  /\ UNCHANGED <<matching, diverging, extTime, locTime, queue>>

(* The object changes: any of its fields may meet or leave the task's. *)
ExternalChange == \E D \in SUBSET Field :
  /\ Changes
  /\ diverging' = D /\ extTime' = now
  /\ UNCHANGED <<policies, matching, locTime, queue, stored>>

(* So does the task. *)
LocalChange == \E D \in SUBSET Field, M \in SUBSET (Scope \ Invalid) :
  /\ Changes
  /\ diverging' = D /\ matching' = M /\ locTime' = now
  /\ UNCHANGED <<policies, extTime, queue, stored>>

(* updateConnectorSyncQueueItemStatus *)
SetStatus(id, status) ==
  /\ id \in DOMAIN queue
  /\ Changes
  /\ queue' = [queue EXCEPT ![id].status = status]
  /\ UNCHANGED <<world, stored>>

(* planJiraIssueSyncQueue: a run reads both sides and the policies.        *)
PlanQueue(r) ==
  /\ run[r].step \in {"idle", "done"}
  /\ ~Breaks(policies)
  /\ run' = [run EXCEPT ![r] = [step |-> "save", calm |-> TRUE,
                                plan |-> Plan(policies, matching, diverging, extTime, locTime)]]
  /\ UNCHANGED <<autoApply, now, world, queue, edits, stored>>

(* A scope that cannot be read fails the run before it stores an item. *)
PlanFails(r) ==
  /\ run[r].step \in {"idle", "done"}
  /\ Breaks(policies)
  /\ run' = [run EXCEPT ![r] = Idle]
  /\ UNCHANGED <<autoApply, now, world, queue, edits, stored>>

(* upsertConnectorSyncQueueItems: one item a statement.  Another run that  *)
(* planned in the same world stores the same items; one that planned       *)
(* earlier disturbs this one.                                              *)
SaveItem(r) ==
  /\ run[r].step = "save" /\ run[r].plan # <<>>
  /\ LET e == Head(run[r].plan) IN
       /\ queue' = [id \in DOMAIN queue \cup {e.id} |-> IF id = e.id THEN e.item ELSE queue[id]]
       /\ run' = [(IF run[r].calm THEN run ELSE Disturbed(Run)) EXCEPT ![r].plan = Tail(@)]
  /\ UNCHANGED <<autoApply, now, world, edits, stored>>

Finish(r) ==
  /\ run[r].step = "save" /\ run[r].plan = <<>>
  /\ run' = [run EXCEPT ![r] = [step |-> "done", calm |-> @.calm]]
  /\ UNCHANGED <<autoApply, now, world, queue, edits, stored>>

Die(r) ==
  /\ run[r].step = "save"
  /\ run' = [run EXCEPT ![r] = Idle]
  /\ UNCHANGED <<autoApply, now, world, queue, edits, stored>>

Next ==
  \/ Tick \/ ExternalChange \/ LocalChange
  \/ \E p \in Policy : PutPolicy(p)
  \/ \E id \in DOMAIN queue, status \in Verdict : SetStatus(id, status)
  \/ \E r \in Run : PlanQueue(r) \/ PlanFails(r) \/ SaveItem(r) \/ Finish(r) \/ Die(r)

Spec == Init /\ [][Next]_vars

-----------------------------------------------------------------------------
(* Every row and every run is well formed. *)
ReviewTypeOK ==
  /\ autoApply \in BOOLEAN /\ now \in Time /\ edits \in 0..MaxEdits
  /\ DOMAIN policies \subseteq Policy /\ \A p \in DOMAIN policies : policies[p] \in Record
  /\ matching \subseteq Scope /\ diverging \subseteq Field
  /\ {extTime, locTime} \subseteq Time \cup {None}
  /\ DOMAIN queue \subseteq ItemId /\ \A id \in DOMAIN queue : queue[id] \in Item
  /\ stored \subseteq Policy \X PolicyForms
  /\ \A r \in Run : run[r].step \in {"idle", "save", "done"}

(* The applicable policy that nothing outranks among those naming f: the   *)
(* highest priority, then the latest, then the greatest id.                *)
Naming(f) == {p \in DOMAIN policies : Applicable(policies[p].form, matching) /\ f \in DOMAIN policies[p].form.fields}
Outranks(p, q) ==
  LET a == policies[p] b == policies[q] IN
  \/ a.form.priority > b.form.priority
  \/ a.form.priority = b.form.priority /\ a.updated > b.updated
  \/ a.form.priority = b.form.priority /\ a.updated = b.updated /\ p > q
Deciding(f) ==
  IF Naming(f) = {} THEN None ELSE CHOOSE p \in Naming(f) : \A q \in Naming(f) \ {p} : Outranks(p, q)

(* "The highest priority enabled matching policy overrides or refines the  *)
(* connector default": once a run ends and nothing has changed since it    *)
(* began, every diverging field that is not disabled has an item of these  *)
(* versions that names the policy that decides it and has its decision     *)
(* and, whatever earlier runs and reviewers left under that identity, its  *)
(* status.  Of disabled fields it asks nothing: the architecture wants no  *)
(* divergence detected in them, the code stores an ignored item.           *)
ReviewComplete ==
  \A r \in Run : run[r].step = "done" /\ run[r].calm =>
    \A f \in diverging :
      LET p == Deciding(f)
          mode == IF p = None THEN Base[f] ELSE policies[p].form.fields[f]
          kind == Decide(mode, extTime, locTime)
          id == [field |-> f, ext |-> extTime, loc |-> locTime, policy |-> p,
                 scope |-> IF p = None THEN None ELSE policies[p].form.scope]
      IN  mode # "disabled" => id \in DOMAIN queue /\ queue[id] = [kind |-> kind, status |-> StatusFor(kind)]

(* "Policy resolution must be explainable": the decision of every item,    *)
(* however old and whichever runs wrote it, is the one some form of the    *)
(* policy it names gave for its field at its versions; an item that names  *)
(* no policy has the preset's.                                             *)
ExplainedBySource ==
  \A id \in DOMAIN queue :
    \/ id.policy = None /\ queue[id].kind = Decide(Base[id.field], id.ext, id.loc)
    \/ \E s \in stored : LET form == s[2] IN
         /\ s[1] = id.policy /\ form.scope = id.scope /\ form.enabled /\ form.fits
         /\ id.field \in DOMAIN form.fields
         /\ queue[id].kind = Decide(form.fields[id.field], id.ext, id.loc)

=============================================================================
