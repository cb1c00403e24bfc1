------------------------ MODULE ResponsibilityProofs ------------------------
(***************************************************************************)
(* Theorems of SyncReview and Responsibility, for any policies, fields and *)
(* connector runs, any accounts, principals, rules and workers, and any    *)
(* number of requests: the types, that the review queue is complete and    *)
(* explained, that responsibility goes back to a mapping, and who is       *)
(* delegated to.                                                           *)
(***************************************************************************)
EXTENDS Responsibility, FiniteSetTheorems, WellFoundedInduction, TLAPS

(***************************************************************************)
(* The order of policies and what a resolution is.                         *)
(***************************************************************************)

(* What the table of policies is, at any time. *)
IsTable(table) == DOMAIN table \subseteq Policy /\ \A p \in DOMAIN table : table[p] \in Record

(* A record is ordered by its id, its priority and when it was stored.     *)
LEMMA RecordNumbers ==
  ASSUME NEW table, IsTable(table), NEW p \in DOMAIN table
  PROVE  p \in Int /\ table[p].updated \in Int /\ table[p].form.priority \in Int
<1>1. p \in Nat /\ table[p] \in Record
  BY PolicyAssumption DEF IsTable
<1>2. table[p].form \in PolicyForms /\ table[p].updated \in Time
  BY <1>1 DEF Record
<1> QED
  BY <1>1, <1>2, FormsAssumption, BoundsAssumption DEF Time

(* The records of a table are applied in a strict total order. *)
LEMMA AppliedInOrder ==
  ASSUME NEW table, IsTable(table), NEW p \in DOMAIN table, NEW q \in DOMAIN table, NEW r \in DOMAIN table
  PROVE  /\ p # q => AppliedBefore(table, p, q) \/ AppliedBefore(table, q, p)
         /\ ~(AppliedBefore(table, p, q) /\ AppliedBefore(table, q, p))
         /\ AppliedBefore(table, p, q) /\ AppliedBefore(table, q, r) => AppliedBefore(table, p, r)
BY RecordNumbers DEF AppliedBefore

(* A table of finitely many records has finitely many sets of them. *)
LEMMA RecordsFinite ==
  ASSUME NEW table, IsTable(table)
  PROVE  \A P \in SUBSET DOMAIN table : P \in FiniteSubsetsOf(DOMAIN table)
BY PolicyAssumption, FS_Subset DEF IsTable, FiniteSubsetsOf

(* Of a set of records some one is applied last. *)
LEMMA OneAppliedLast ==
  ASSUME NEW table, IsTable(table), NEW P \in SUBSET DOMAIN table, P # {}
  PROVE  \E p \in P : \A q \in P \ {p} : AppliedBefore(table, q, p)
<1> DEFINE D == DOMAIN table
           HasLast(Q) == \E p \in Q : \A q \in Q \ {p} : AppliedBefore(table, q, p)
           bad == {Q \in SUBSET D : Q # {} /\ ~HasLast(Q)}
<1>1. SUFFICES ASSUME bad # {} PROVE FALSE
  OBVIOUS
<1>2. bad \subseteq FiniteSubsetsOf(D)
  BY RecordsFinite
<1>3. PICK Q \in bad : \A R \in bad : <<R, Q>> \notin StrictSubsetOrdering(D)
  <2> HIDE DEF bad
  <2> QED
    BY <1>1, <1>2, FS_StrictSubsetOrderingWellFounded, WFMin
<1>4. PICK c \in Q : TRUE
  OBVIOUS
<1>5. CASE Q \ {c} = {}
  BY <1>5
<1>6. CASE Q \ {c} # {}
  <2>1. <<Q \ {c}, Q>> \in StrictSubsetOrdering(D)
    BY <1>4 DEF StrictSubsetOrdering
  <2>2. PICK p \in Q \ {c} : \A q \in (Q \ {c}) \ {p} : AppliedBefore(table, q, p)
    BY <1>3, <1>6, <2>1
  <2>3. CASE AppliedBefore(table, c, p)
    BY <2>2, <2>3
  <2>4. CASE AppliedBefore(table, p, c)
    <3>1. \A q \in Q \ {c} : AppliedBefore(table, q, c)
      BY <2>2, <2>4, AppliedInOrder
    <3> QED
      BY <1>4, <3>1
  <2> QED
    BY <1>4, <2>2, <2>3, <2>4, AppliedInOrder
<1> QED
  BY <1>5, <1>6

LEMMA AppliedLastIsLast ==
  ASSUME NEW table, IsTable(table), NEW P \in SUBSET DOMAIN table, P # {}
  PROVE  /\ AppliedLast(table, P) \in P
         /\ \A q \in P \ {AppliedLast(table, P)} : AppliedBefore(table, q, AppliedLast(table, P))
BY OneAppliedLast DEF AppliedLast

LEMMA AppliedLastUnique ==
  ASSUME NEW table, IsTable(table), NEW P \in SUBSET DOMAIN table,
         NEW p \in P, \A q \in P \ {p} : AppliedBefore(table, q, p)
  PROVE  AppliedLast(table, P) = p
BY AppliedLastIsLast, AppliedInOrder

(* The records of P that name f, and what a resolution by P is: the preset, *)
(* and for the fields some of them name, the word of the last of these.     *)
NamingIn(table, P, f) == {p \in P : f \in DOMAIN table[p].form.fields}

Resolution(table, P) ==
  [mode   |-> [f \in Field |-> IF NamingIn(table, P, f) = {} THEN Base[f]
                               ELSE table[AppliedLast(table, NamingIn(table, P, f))].form.fields[f]],
   source |-> [f \in Field |-> IF NamingIn(table, P, f) = {} THEN None
                               ELSE AppliedLast(table, NamingIn(table, P, f))]]

LEMMA ResolutionOfNone ==
  ASSUME NEW table
  PROVE  Resolution(table, {}) = Preset
<1>1. \A f \in Field : NamingIn(table, {}, f) = {}
  BY DEF NamingIn
<1>2. Base = [f \in Field |-> Base[f]]
  BY BaseAssumption
<1> QED
  BY <1>1, <1>2 DEF Resolution, Preset

(* The record applied last overrides the resolution by the others. *)
LEMMA ResolutionStep ==
  ASSUME NEW table, IsTable(table), NEW P \in SUBSET DOMAIN table, P # {}
  PROVE  LET p == AppliedLast(table, P)
         IN  Resolution(table, P) = Override(Resolution(table, P \ {p}), p, table[p].form)
<1> DEFINE p == AppliedLast(table, P)
           R == P \ {p}
<1>1. p \in P /\ \A q \in R : AppliedBefore(table, q, p)
  BY AppliedLastIsLast
<1>2. ASSUME NEW f \in Field, f \in DOMAIN table[p].form.fields
      PROVE  NamingIn(table, P, f) # {} /\ AppliedLast(table, NamingIn(table, P, f)) = p
  BY <1>1, <1>2, AppliedLastUnique DEF NamingIn
<1>3. ASSUME NEW f \in Field, f \notin DOMAIN table[p].form.fields
      PROVE  NamingIn(table, P, f) = NamingIn(table, R, f)
  BY <1>1, <1>3 DEF NamingIn
<1> HIDE DEF p, R
<1>4. /\ Resolution(table, P).mode = Override(Resolution(table, R), p, table[p].form).mode
      /\ Resolution(table, P).source = Override(Resolution(table, R), p, table[p].form).source
  BY <1>2, <1>3, SMTT(30) DEF Resolution, Override
<1> QED
  BY <1>4 DEF Resolution, Override, p, R

LEMMA ResolveIsResolution ==
  ASSUME NEW table, IsTable(table), NEW matches
  PROVE  Resolve(table, matches) =
           Resolution(table, {p \in DOMAIN table : Applicable(table[p].form, matches)})
<1> DEFINE D == DOMAIN table
           over(g, P) == IF P = {} THEN Preset
                         ELSE LET p == AppliedLast(table, P) IN Override(g[P \ {p}], p, table[p].form)
           applied == CHOOSE g : g = [P \in SUBSET D |-> over(g, P)]
           known == [P \in SUBSET D |-> Resolution(table, P)]
<1>1. \A P \in SUBSET D : Resolution(table, P) = over(known, P)
  <2>1. SUFFICES ASSUME NEW P \in SUBSET D PROVE Resolution(table, P) = over(known, P)
    OBVIOUS
  <2>2. CASE P = {}
    BY <2>2, ResolutionOfNone
  <2>3. CASE P # {}
    <3>1. known[P \ {AppliedLast(table, P)}] = Resolution(table, P \ {AppliedLast(table, P)})
      OBVIOUS
    <3> QED
      BY <2>3, <3>1, ResolutionStep
  <2> QED
    BY <2>2, <2>3
<1>2. known = [P \in SUBSET D |-> over(known, P)]
  BY <1>1
<1>3. applied = [P \in SUBSET D |-> over(applied, P)]
  <2> HIDE DEF known, over
  <2> QED
    BY <1>2
<1>4. \A P \in SUBSET D : applied[P] = over(applied, P)
  <2> HIDE DEF applied, over
  <2> QED
  BY <1>3
<1>5. \A P \in SUBSET D : applied[P] = Resolution(table, P)
  <2> DEFINE bad == {P \in SUBSET D : applied[P] # Resolution(table, P)}
  <2>1. SUFFICES ASSUME bad # {} PROVE FALSE
    OBVIOUS
  <2>2. bad \subseteq FiniteSubsetsOf(D)
    BY RecordsFinite
  <2>3. PICK P \in bad : \A R \in bad : <<R, P>> \notin StrictSubsetOrdering(D)
    <3> HIDE DEF bad
    <3> QED
      BY <2>1, <2>2, FS_StrictSubsetOrderingWellFounded, WFMin
  <2>4. P # {}
    BY <1>4, ResolutionOfNone
  <2> DEFINE p == AppliedLast(table, P)
  <2>5. p \in P
    BY <2>4, AppliedLastIsLast
  <2>6. <<P \ {p}, P>> \in StrictSubsetOrdering(D)
    BY <2>5 DEF StrictSubsetOrdering
  <2>7. applied[P \ {p}] = Resolution(table, P \ {p})
    BY <2>3, <2>6 DEF StrictSubsetOrdering
  <2> QED
    BY <1>4, <2>3, <2>4, <2>7, ResolutionStep
<1>6. Resolve(table, matches) = applied[{p \in D : Applicable(table[p].form, matches)}]
  BY DEF Resolve
<1> QED
  BY <1>5, <1>6

-----------------------------------------------------------------------------
(* The invariant of the review queue. *)

(* The item that a run planning now would store for f. *)
EntryFor(table, matches, f, ext, loc) ==
  LET resolution == Resolve(table, matches)
      kind == Decide(resolution.mode[f], ext, loc)
  IN  [id   |-> Identity(table, f, resolution.source[f], ext, loc),
       item |-> [kind |-> kind, status |-> StatusFor(kind)]]

Wanted(f) == EntryFor(policies, matching, f, extTime, locTime)
Saved(f) == Wanted(f).id \in DOMAIN queue /\ queue[Wanted(f).id] = Wanted(f).item

Entry == [id : ItemId, item : Item]
RunState == {Idle} \cup [step : {"save"}, calm : BOOLEAN, plan : Seq(Entry)] \cup [step : {"done"}, calm : BOOLEAN]
RunsOK == run \in [Run -> RunState]

(* ExplainedBySource for one item and a history of forms. *)
Explained(history, id, kind) ==
  \/ id.policy = None /\ kind = Decide(Base[id.field], id.ext, id.loc)
  \/ \E s \in history : LET form == s[2] IN
       /\ s[1] = id.policy /\ form.scope = id.scope /\ form.enabled /\ form.fits
       /\ id.field \in DOMAIN form.fields
       /\ kind = Decide(form.fields[id.field], id.ext, id.loc)

(* The history holds what the table holds; what a run is still to store is *)
(* explained as what is stored.                                            *)
FormsStored == \A p \in DOMAIN policies : <<p, policies[p].form>> \in stored
PlansExplained == \A r \in Run : run[r].step = "save" =>
  \A i \in DOMAIN run[r].plan : Explained(stored, run[r].plan[i].id, run[r].plan[i].item.kind)

(* While nothing has changed since a run began, every item it still has to *)
(* store is one that it would plan now, and those that it would plan now   *)
(* and has no more to store are stored.                                    *)
CalmRuns == \A r \in Run : run[r] # Idle /\ run[r].calm =>
  /\ run[r].step = "save" => \A i \in DOMAIN run[r].plan : \E f \in diverging : run[r].plan[i] = Wanted(f)
  /\ \A f \in diverging :
       Saved(f) \/ (run[r].step = "save" /\ \E i \in DOMAIN run[r].plan : run[r].plan[i] = Wanted(f))

ReviewInv == ReviewTypeOK /\ RunsOK /\ FormsStored /\ PlansExplained /\ ExplainedBySource /\ CalmRuns

-----------------------------------------------------------------------------
(* What a run plans. *)

(* A resolution has a mode for every field, and the preset or a policy as  *)
(* the source of it.                                                       *)
LEMMA ResolveType ==
  ASSUME NEW table, IsTable(table), NEW matches, NEW f \in Field
  PROVE  LET P == {p \in DOMAIN table : Applicable(table[p].form, matches)}
             N == NamingIn(table, P, f)
             resolution == Resolve(table, matches)
         IN  \/ N = {} /\ resolution.source[f] = None /\ resolution.mode[f] = Base[f]
             \/ \E p \in N : /\ \A q \in N \ {p} : AppliedBefore(table, q, p)
                             /\ p \in Policy /\ table[p].form \in PolicyForms
                             /\ resolution.source[f] = p
                             /\ resolution.mode[f] = table[p].form.fields[f]
<1> DEFINE P == {p \in DOMAIN table : Applicable(table[p].form, matches)}
           N == NamingIn(table, P, f)
<1>1. Resolve(table, matches) = Resolution(table, P)
  BY ResolveIsResolution
<1>2. CASE N = {}
  BY <1>1, <1>2 DEF Resolution
<1>3. CASE N # {}
  <2> DEFINE p == AppliedLast(table, N)
  <2>1. N \in SUBSET DOMAIN table
    BY DEF NamingIn
  <2>2. p \in N /\ \A q \in N \ {p} : AppliedBefore(table, q, p)
    BY <1>3, <2>1, AppliedLastIsLast
  <2>3. p \in Policy /\ table[p].form \in PolicyForms
    BY <2>1, <2>2 DEF IsTable, Record
  <2>4. Resolve(table, matches).source[f] = p /\ Resolve(table, matches).mode[f] = table[p].form.fields[f]
    BY <1>1, <1>3 DEF Resolution
  <2> QED
    BY <2>2, <2>3, <2>4
<1> QED
  BY <1>2, <1>3

LEMMA DecideType ==
  ASSUME NEW mode \in Mode, NEW ext, NEW loc
  PROVE  Decide(mode, ext, loc) \in Kind
BY DEF Mode, Kind, Decide, LastWriter

LEMMA EntryType ==
  ASSUME NEW table, IsTable(table), NEW matches, NEW f \in Field,
         NEW ext \in Time \cup {None}, NEW loc \in Time \cup {None}
  PROVE  EntryFor(table, matches, f, ext, loc) \in Entry
<1> DEFINE resolution == Resolve(table, matches)
           kind == Decide(resolution.mode[f], ext, loc)
<1>1. /\ resolution.mode[f] \in Mode
      /\ resolution.source[f] # None =>
           resolution.source[f] \in Policy /\ table[resolution.source[f]].form.scope \in Scope \cup {None}
  <2> DEFINE P == {p \in DOMAIN table : Applicable(table[p].form, matches)}
             N == NamingIn(table, P, f)
  <2>1. CASE resolution.source[f] = None /\ resolution.mode[f] = Base[f]
    BY <2>1, BaseAssumption
  <2>2. CASE \E p \in N : /\ p \in Policy /\ table[p].form \in PolicyForms
                          /\ resolution.source[f] = p
                          /\ resolution.mode[f] = table[p].form.fields[f]
    <3>1. PICK p \in N : /\ p \in Policy /\ table[p].form \in PolicyForms
                         /\ resolution.source[f] = p
                         /\ resolution.mode[f] = table[p].form.fields[f]
      BY <2>2
    <3>2. f \in DOMAIN table[p].form.fields
      BY DEF NamingIn
    <3> QED
      BY <3>1, <3>2, FormsAssumption
  <2> QED
    BY <2>1, <2>2, ResolveType
<1>2. kind \in Kind
  BY <1>1, DecideType
<1>3. StatusFor(kind) \in Status
  BY <1>2 DEF StatusFor, Kind, Status
<1>4. Identity(table, f, resolution.source[f], ext, loc) \in ItemId
  BY <1>1 DEF Identity, ItemId
<1> QED
  BY <1>2, <1>3, <1>4 DEF EntryFor, Entry, Item

(* A plan is a sequence of one item for each diverging field.              *)
LEMMA PlanEntries ==
  ASSUME NEW table, IsTable(table), NEW matches, NEW diffs \in SUBSET Field,
         NEW ext \in Time \cup {None}, NEW loc \in Time \cup {None}
  PROVE  LET plan == Plan(table, matches, diffs, ext, loc)
         IN  /\ plan \in Seq(Entry)
             /\ \A i \in DOMAIN plan : \E f \in diffs : plan[i] = EntryFor(table, matches, f, ext, loc)
             /\ \A f \in diffs : \E i \in DOMAIN plan : plan[i] = EntryFor(table, matches, f, ext, loc)
<1> DEFINE n == Cardinality(diffs)
           s == SetToSeq(diffs)
           plan == Plan(table, matches, diffs, ext, loc)
<1>1. n \in Nat /\ ExistsBijection(1..n, diffs)
  BY FieldAssumption, FS_Subset, FS_CardinalityType
<1>2. s \in [1..n -> diffs] /\ \A f \in diffs : \E i \in 1..n : s[i] = f
  <2>1. \E b \in [1..n -> diffs] : \A i, j \in DOMAIN b : b[i] = b[j] => i = j
    BY <1>1 DEF ExistsBijection, Bijection, Injection, IsInjective
  <2>2. s \in [1..n -> diffs] /\ \A i, j \in 1..n : s[i] = s[j] => i = j
    BY <2>1 DEF SetToSeq, IsInjective
  <2>3. s \in Injection(1..n, diffs)
    BY <2>2 DEF Injection, IsInjective
  <2>4. IsFiniteSet(diffs) /\ Cardinality(1..n) = Cardinality(diffs)
    <3>1. IsFiniteSet(diffs)
      BY FieldAssumption, FS_Subset
    <3>2. 1 \in Int /\ n \in Int /\ (IF 1 > n THEN 0 ELSE n - 1 + 1) = n
      BY <1>1
    <3> QED
      BY <3>1, <3>2, FS_Interval
  <2>5. s \in Surjection(1..n, diffs)
    BY <2>3, <2>4, FS_Injection
  <2> QED
    BY <2>2, <2>5 DEF Surjection
<1>3. plan = [i \in 1..n |-> EntryFor(table, matches, s[i], ext, loc)]
  BY DEF Plan, EntryFor
<1> HIDE DEF plan, n, s
<1>4. \A i \in 1..n : s[i] \in diffs /\ EntryFor(table, matches, s[i], ext, loc) \in Entry
  BY <1>2, EntryType
<1>5. plan \in Seq(Entry)
  BY <1>1, <1>3, <1>4
<1> QED
  BY <1>2, <1>3, <1>4, <1>5 DEF plan

(* What a run plans is explained by the forms in the table. *)
LEMMA EntryExplained ==
  ASSUME IsTable(policies), FormsStored, NEW f \in Field, NEW ext, NEW loc, NEW matches
  PROVE  LET e == EntryFor(policies, matches, f, ext, loc) IN Explained(stored, e.id, e.item.kind)
<1> DEFINE resolution == Resolve(policies, matches)
           e == EntryFor(policies, matches, f, ext, loc)
           P == {p \in DOMAIN policies : Applicable(policies[p].form, matches)}
           N == NamingIn(policies, P, f)
<1>1. /\ e.id = Identity(policies, f, resolution.source[f], ext, loc)
      /\ e.item.kind = Decide(resolution.mode[f], ext, loc)
  BY DEF EntryFor
<1>2. CASE resolution.source[f] = None /\ resolution.mode[f] = Base[f]
  BY <1>1, <1>2 DEF Explained, Identity
<1>3. CASE \E p \in N : /\ p \in Policy /\ resolution.source[f] = p
                        /\ resolution.mode[f] = policies[p].form.fields[f]
  <2>1. PICK p \in N : /\ p \in Policy /\ resolution.source[f] = p
                       /\ resolution.mode[f] = policies[p].form.fields[f]
    BY <1>3
  <2> DEFINE form == policies[p].form
  <2>2. p \in DOMAIN policies /\ f \in DOMAIN form.fields /\ Applicable(form, matches)
    BY DEF NamingIn
  <2>3. /\ e.id.field = f /\ e.id.ext = ext /\ e.id.loc = loc
        /\ e.id.policy = p /\ e.id.scope = form.scope
    BY <1>1, <2>1, PolicyAssumption DEF Identity
  <2> DEFINE s == <<p, form>>
  <2>4. s \in stored /\ s[1] = p /\ s[2] = form
    BY <2>2 DEF FormsStored
  <2>5. form.enabled /\ form.fits
    BY <2>2 DEF Applicable
  <2>6. e.item.kind = Decide(form.fields[f], ext, loc)
    BY <1>1, <2>1
  <2> HIDE DEF e, form, s
  <2>7. /\ s[1] = e.id.policy /\ s[2].scope = e.id.scope /\ s[2].enabled /\ s[2].fits
        /\ e.id.field \in DOMAIN s[2].fields
        /\ e.item.kind = Decide(s[2].fields[e.id.field], e.id.ext, e.id.loc)
    BY <2>2, <2>3, <2>4, <2>5, <2>6
  <2> QED
    BY <2>4, <2>7 DEF Explained, e
<1>4. \/ N = {} /\ resolution.source[f] = None /\ resolution.mode[f] = Base[f]
      \/ \E p \in N : /\ \A q \in N \ {p} : AppliedBefore(policies, q, p)
                      /\ p \in Policy /\ policies[p].form \in PolicyForms
                      /\ resolution.source[f] = p
                      /\ resolution.mode[f] = policies[p].form.fields[f]
  BY ResolveType
<1> HIDE DEF N, resolution, e
<1> QED
  BY <1>2, <1>3, <1>4 DEF e

(* The policy a resolution takes a field from is the deciding one.         *)
LEMMA DecidingIsSource ==
  ASSUME IsTable(policies), NEW f \in Field
  PROVE  LET resolution == Resolve(policies, matching)
         IN  /\ resolution.source[f] = Deciding(f)
             /\ resolution.mode[f] = IF Deciding(f) = None THEN Base[f]
                                     ELSE policies[Deciding(f)].form.fields[f]
<1> DEFINE resolution == Resolve(policies, matching)
           P == {p \in DOMAIN policies : Applicable(policies[p].form, matching)}
           N == NamingIn(policies, P, f)
<1>1. N = Naming(f)
  BY DEF NamingIn, Naming
<1>2. CASE N = {} /\ resolution.source[f] = None /\ resolution.mode[f] = Base[f]
  BY <1>1, <1>2 DEF Deciding
<1>3. CASE \E p \in N : /\ \A q \in N \ {p} : AppliedBefore(policies, q, p)
                        /\ p \in Policy /\ resolution.source[f] = p
                        /\ resolution.mode[f] = policies[p].form.fields[f]
  <2>1. PICK p \in N : /\ \A q \in N \ {p} : AppliedBefore(policies, q, p)
                       /\ p \in Policy /\ resolution.source[f] = p
                       /\ resolution.mode[f] = policies[p].form.fields[f]
    BY <1>3
  <2>2. \A q, s \in DOMAIN policies : Outranks(q, s) <=> AppliedBefore(policies, s, q)
    <3>1. SUFFICES ASSUME NEW q \in DOMAIN policies, NEW s \in DOMAIN policies
                   PROVE  Outranks(q, s) <=> AppliedBefore(policies, s, q)
      OBVIOUS
    <3>2. /\ {q, s} \subseteq Int /\ {policies[q].updated, policies[s].updated} \subseteq Int
          /\ {policies[q].form.priority, policies[s].form.priority} \subseteq Int
      BY RecordNumbers
    <3> QED
      BY <3>2 DEF Outranks, AppliedBefore
  <2>3. N \subseteq DOMAIN policies
    BY DEF NamingIn
  <2>4. \A q \in N \ {p} : Outranks(p, q)
    BY <2>1, <2>2, <2>3
  <2>5. ASSUME NEW q \in N, \A s \in N \ {q} : Outranks(q, s)
        PROVE  q = p
    BY <2>2, <2>3, <2>4, <2>5, AppliedInOrder
  <2>6. Deciding(f) = p
    <3> HIDE DEF N
    <3> QED
      BY <1>1, <2>4, <2>5 DEF Deciding
  <2> QED
    BY <2>1, <2>6, PolicyAssumption
<1> QED
  BY <1>2, <1>3, ResolveType

-----------------------------------------------------------------------------
(* The steps of the review queue. *)

(* A run is idle, has a plan and a mark, or is done and has a mark.        *)
LEMMA RunShape ==
  ASSUME NEW x \in RunState
  PROVE  /\ x.step \in {"idle", "save", "done"}
         /\ x.step = "idle" <=> x = Idle
         /\ x # Idle => x.calm \in BOOLEAN
         /\ x.step = "save" => x \in [step : {"save"}, calm : BOOLEAN, plan : Seq(Entry)]
         /\ x.step = "done" => x \in [step : {"done"}, calm : BOOLEAN]
BY DEF RunState, Idle

(* A run that something disturbs keeps its step and its plan. *)
LEMMA DisturbedRun ==
  ASSUME RunsOK, NEW r \in Run
  PROVE  /\ Disturbed(Run)[r] \in RunState
         /\ Disturbed(Run)[r].step = run[r].step
         /\ Disturbed(Run)[r] # Idle => Disturbed(Run)[r].calm = FALSE
         /\ run[r].step = "save" => Disturbed(Run)[r].plan = run[r].plan
<1>1. run[r] \in RunState
  BY DEF RunsOK
<1>2. CASE run[r] = Idle
  BY <1>1, <1>2 DEF Disturbed
<1>3. CASE run[r].step = "save"
  <2>1. run[r] \in [step : {"save"}, calm : BOOLEAN, plan : Seq(Entry)] /\ run[r] # Idle
    BY <1>1, <1>3, RunShape DEF Idle
  <2>2. Disturbed(Run)[r] = [run[r] EXCEPT !.calm = FALSE]
    BY <2>1 DEF Disturbed
  <2>3. [run[r] EXCEPT !.calm = FALSE] \in [step : {"save"}, calm : BOOLEAN, plan : Seq(Entry)]
    BY <2>1
  <2>4. [run[r] EXCEPT !.calm = FALSE].plan = run[r].plan /\ [run[r] EXCEPT !.calm = FALSE].calm = FALSE
    BY <2>1
  <2> QED
    BY <1>3, <2>2, <2>3, <2>4 DEF RunState
<1>4. CASE run[r].step = "done"
  <2>1. run[r] \in [step : {"done"}, calm : BOOLEAN] /\ run[r] # Idle
    BY <1>1, <1>4, RunShape DEF Idle
  <2>2. Disturbed(Run)[r] = [run[r] EXCEPT !.calm = FALSE]
    BY <2>1 DEF Disturbed
  <2>3. [run[r] EXCEPT !.calm = FALSE] \in [step : {"done"}, calm : BOOLEAN] /\ [run[r] EXCEPT !.calm = FALSE].calm = FALSE
    BY <2>1
  <2> QED
    BY <1>4, <2>2, <2>3 DEF RunState
<1> QED
  BY <1>1, <1>2, <1>3, <1>4, RunShape

LEMMA DisturbedType ==
  ASSUME RunsOK
  PROVE  Disturbed(Run) \in [Run -> RunState]
<1>1. Disturbed(Run) = [r \in Run |-> Disturbed(Run)[r]]
  BY DEF Disturbed
<1> QED
  BY <1>1, DisturbedRun

(* What was explained stays explained. *)
LEMMA ExplainedStays ==
  ASSUME NEW history, NEW longer, history \subseteq longer, NEW id, NEW kind, Explained(history, id, kind)
  PROVE  Explained(longer, id, kind)
BY DEF Explained

(* What a run would plan depends on what it reads only. *)
LEMMA WantedStays ==
  ASSUME UNCHANGED <<autoApply, policies, matching, extTime, locTime>>
  PROVE  \A f : Wanted(f)' = Wanted(f)
BY DEF Wanted, EntryFor, StatusFor

(* A change from outside leaves no run calm. *)
LEMMA DisturbedRunsInv ==
  ASSUME RunsOK, PlansExplained, run' = Disturbed(Run), stored \subseteq stored'
  PROVE  RunsOK' /\ PlansExplained' /\ CalmRuns'
<1>1. RunsOK'
  BY DisturbedType DEF RunsOK
<1>2. PlansExplained'
  <2>1. SUFFICES ASSUME NEW r \in Run, run'[r].step = "save", NEW i \in DOMAIN run'[r].plan
                 PROVE  Explained(stored', run'[r].plan[i].id, run'[r].plan[i].item.kind)
    BY DEF PlansExplained
  <2>2. run[r].step = "save" /\ run'[r].plan = run[r].plan
    BY <2>1, DisturbedRun
  <2> QED
    BY <2>1, <2>2, ExplainedStays DEF PlansExplained
<1>3. CalmRuns'
  BY DisturbedRun DEF CalmRuns
<1> QED
  BY <1>1, <1>2, <1>3

LEMMA ReviewInitInv == Init => ReviewInv
<1>1. SUFFICES ASSUME Init PROVE ReviewInv
  OBVIOUS
<1>2. PICK D \in SUBSET Policy : policies \in [D -> [form : PolicyForms, updated : {0}]]
  BY <1>1 DEF Init, Partial
<1>3. 0 \in Time /\ 0 \in 0..MaxEdits
  BY BoundsAssumption DEF Time
<1>4. \A p \in DOMAIN policies : policies[p] \in Record
  BY <1>2, <1>3 DEF Record
<1>5. stored = {<<p, policies[p].form>> : p \in DOMAIN policies}
  BY <1>1 DEF Init
<1>6. \A p \in DOMAIN policies : p \in Policy /\ policies[p].form \in PolicyForms
  BY <1>2
<1>7. stored \subseteq Policy \X PolicyForms
  BY <1>5, <1>6
<1>8. run = [r \in Run |-> Idle] /\ DOMAIN queue = {}
  BY <1>1 DEF Init
<1>9. ReviewTypeOK
  BY <1>1, <1>2, <1>3, <1>4, <1>7, <1>8 DEF Init, ReviewTypeOK, Idle
<1>10. RunsOK /\ PlansExplained /\ CalmRuns
  BY <1>8 DEF RunsOK, RunState, PlansExplained, CalmRuns, Idle
<1>11. FormsStored /\ ExplainedBySource
  BY <1>5, <1>8 DEF FormsStored, ExplainedBySource
<1> QED
  BY <1>9, <1>10, <1>11 DEF ReviewInv

(* The table is always one of records. *)
LEMMA PoliciesTable ==
  ASSUME ReviewTypeOK
  PROVE  IsTable(policies)
BY DEF ReviewTypeOK, IsTable

LEMMA ExplainedEach == ExplainedBySource <=> \A id \in DOMAIN queue : Explained(stored, id, queue[id].kind)
BY DEF ExplainedBySource, Explained

LEMMA PutPolicyStep ==
  ASSUME ReviewInv, NEW p \in Policy, PutPolicy(p)
  PROVE  ReviewInv'
<1> USE DEF ReviewInv
<1>1. PICK form \in PolicyForms :
        /\ policies' = [q \in DOMAIN policies \cup {p} |->
                          IF q = p THEN [form |-> form, updated |-> now] ELSE policies[q]]
        /\ stored' = stored \cup {<<p, form>>}
  BY DEF PutPolicy
<1>2. /\ edits < MaxEdits /\ edits' = edits + 1 /\ run' = Disturbed(Run)
      /\ UNCHANGED <<autoApply, now, matching, diverging, extTime, locTime, queue>>
  BY DEF PutPolicy, Changes
<1>3. \A q \in DOMAIN policies' : q \in Policy /\ policies'[q] \in Record
  BY <1>1 DEF ReviewTypeOK, Record
<1>4. stored \subseteq stored' /\ stored' \subseteq Policy \X PolicyForms
  BY <1>1 DEF ReviewTypeOK
<1>5. RunsOK' /\ PlansExplained' /\ CalmRuns'
  BY <1>2, <1>4, DisturbedRunsInv
<1>6. ReviewTypeOK'
  BY <1>2, <1>3, <1>4, <1>5, RunShape, BoundsAssumption DEF ReviewTypeOK, RunsOK
<1>7. FormsStored'
  BY <1>1 DEF FormsStored
<1>8. ExplainedBySource'
  <2>1. \A id \in DOMAIN queue : Explained(stored', id, queue[id].kind)
    BY <1>4, ExplainedEach, ExplainedStays
  <2> QED
    BY <1>2, <2>1 DEF ExplainedBySource, Explained
<1> QED
  BY <1>5, <1>6, <1>7, <1>8

(* The object, the task, or the status of an item changes. *)
LEMMA OutsideStep ==
  ASSUME ReviewInv,
         \/ ExternalChange \/ LocalChange
         \/ \E id \in DOMAIN queue, status \in Verdict : SetStatus(id, status)
  PROVE  ReviewInv'
<1> USE DEF ReviewInv
<1>1. /\ edits < MaxEdits /\ edits' = edits + 1 /\ run' = Disturbed(Run)
      /\ UNCHANGED <<autoApply, now, policies, stored>>
  BY DEF ExternalChange, LocalChange, SetStatus, Changes, world
<1>2. RunsOK' /\ PlansExplained' /\ CalmRuns'
  BY <1>1, DisturbedRunsInv
<1>3. /\ matching' \subseteq Scope /\ diverging' \subseteq Field /\ {extTime', locTime'} \subseteq Time \cup {None}
  BY DEF ExternalChange, LocalChange, SetStatus, Changes, world, ReviewTypeOK
<1>4. /\ DOMAIN queue' = DOMAIN queue
      /\ \A id \in DOMAIN queue : queue'[id] \in Item /\ queue'[id].kind = queue[id].kind
  <2>1. CASE ExternalChange \/ LocalChange
    BY <2>1 DEF ExternalChange, LocalChange, ReviewTypeOK
  <2>2. ASSUME NEW i \in DOMAIN queue, NEW status \in Verdict, SetStatus(i, status)
        PROVE  /\ DOMAIN queue' = DOMAIN queue
               /\ \A id \in DOMAIN queue : queue'[id] \in Item /\ queue'[id].kind = queue[id].kind
    <3>1. queue' = [queue EXCEPT ![i].status = status]
      BY <2>2 DEF SetStatus
    <3>2. \A id \in DOMAIN queue : queue[id] \in Item
      BY DEF ReviewTypeOK
    <3> QED
      BY <3>1, <3>2, VerdictAssumption DEF Item
  <2> QED
    BY <2>1, <2>2
<1>5. ReviewTypeOK'
  BY <1>1, <1>2, <1>3, <1>4, RunShape, BoundsAssumption DEF ReviewTypeOK, RunsOK
<1>6. FormsStored'
  BY <1>1 DEF FormsStored
<1>7. ExplainedBySource'
  BY <1>1, <1>4 DEF ExplainedBySource
<1> QED
  BY <1>2, <1>5, <1>6, <1>7

(* Time passes for nobody's reading. *)
LEMMA TickStep ==
  ASSUME ReviewInv, Tick
  PROVE  ReviewInv'
<1> USE DEF ReviewInv
<1>1. now < MaxTime /\ now' = now + 1 /\ UNCHANGED <<autoApply, policies, matching, diverging, extTime, locTime, queue, run, edits, stored>>
  BY DEF Tick, world
<1>2. ReviewTypeOK'
  BY <1>1, BoundsAssumption DEF ReviewTypeOK, Time
<1>3. RunsOK' /\ FormsStored' /\ PlansExplained' /\ ExplainedBySource'
  BY <1>1 DEF RunsOK, FormsStored, PlansExplained, ExplainedBySource
<1>4. CalmRuns'
  BY <1>1, WantedStays DEF CalmRuns, Saved
<1> QED
  BY <1>2, <1>3, <1>4

LEMMA PlanQueueStep ==
  ASSUME ReviewInv, NEW r \in Run, PlanQueue(r)
  PROVE  ReviewInv'
<1> USE DEF ReviewInv
<1> DEFINE plan == Plan(policies, matching, diverging, extTime, locTime)
           planned == [step |-> "save", calm |-> TRUE, plan |-> plan]
<1>1. run' = [run EXCEPT ![r] = planned]
      /\ UNCHANGED <<autoApply, now, policies, matching, diverging, extTime, locTime, queue, edits, stored>>
  BY DEF PlanQueue, world
<1>2. /\ plan \in Seq(Entry)
      /\ \A i \in DOMAIN plan : \E f \in diverging : plan[i] = Wanted(f)
      /\ \A f \in diverging : \E i \in DOMAIN plan : plan[i] = Wanted(f)
  <2>1. /\ IsTable(policies) /\ diverging \in SUBSET Field
        /\ extTime \in Time \cup {None} /\ locTime \in Time \cup {None}
    BY PoliciesTable DEF ReviewTypeOK
  <2> QED
    BY <2>1, PlanEntries DEF Wanted
<1>3. \A i \in DOMAIN plan : Explained(stored, plan[i].id, plan[i].item.kind)
  <2>1. SUFFICES ASSUME NEW i \in DOMAIN plan PROVE Explained(stored, plan[i].id, plan[i].item.kind)
    OBVIOUS
  <2>2. PICK f \in diverging : plan[i] = EntryFor(policies, matching, f, extTime, locTime)
    BY <1>2 DEF Wanted
  <2>3. f \in Field /\ IsTable(policies)
    BY PoliciesTable DEF ReviewTypeOK
  <2> QED
    BY <2>2, <2>3, EntryExplained
<1> HIDE DEF plan
<1>4. planned \in RunState /\ planned.step = "save" /\ planned.plan = plan
  BY <1>2 DEF RunState
<1> HIDE DEF planned
<1>5. run'[r] = planned /\ \A s \in Run \ {r} : run'[s] = run[s]
  BY <1>1 DEF RunsOK
<1>6. RunsOK'
  BY <1>1, <1>4 DEF RunsOK
<1>7. ReviewTypeOK'
  BY <1>1, <1>6, RunShape DEF ReviewTypeOK, RunsOK
<1>8. FormsStored' /\ ExplainedBySource'
  BY <1>1 DEF FormsStored, ExplainedBySource
<1>9. PlansExplained'
  BY <1>1, <1>3, <1>4, <1>5 DEF PlansExplained
<1>10. CalmRuns'
  <2>1. \A f : Wanted(f)' = Wanted(f) /\ (Saved(f)' <=> Saved(f))
    BY <1>1, WantedStays DEF Saved
  <2> QED
    BY <1>1, <1>2, <1>4, <1>5, <2>1 DEF CalmRuns
<1> QED
  BY <1>6, <1>7, <1>8, <1>9, <1>10

(* Two fields never share an item, so that storing one field's item leaves *)
(* those of the others.                                                    *)
LEMMA WantedApart ==
  ASSUME NEW f \in Field, NEW g \in Field, Wanted(f).id = Wanted(g).id
  PROVE  f = g
<1>1. \A h : Wanted(h).id.field = h
  BY DEF Wanted, EntryFor, Identity
<1> QED
  BY <1>1

LEMMA SaveItemStep ==
  ASSUME ReviewInv, NEW r \in Run, SaveItem(r)
  PROVE  ReviewInv'
<1> USE DEF ReviewInv
<1> DEFINE plan == run[r].plan
           e == Head(plan)
           others == IF run[r].calm THEN run ELSE Disturbed(Run)
<1>1. /\ run[r].step = "save" /\ plan # <<>>
      /\ queue' = [id \in DOMAIN queue \cup {e.id} |-> IF id = e.id THEN e.item ELSE queue[id]]
      /\ run' = [others EXCEPT ![r].plan = Tail(plan)]
      /\ UNCHANGED <<autoApply, now, policies, matching, diverging, extTime, locTime, edits, stored>>
  <2>1. others[r].plan = plan
    BY DisturbedRun DEF SaveItem
  <2> QED
    BY <2>1 DEF SaveItem, world
<1>2. run[r] \in [step : {"save"}, calm : BOOLEAN, plan : Seq(Entry)]
  BY <1>1, RunShape DEF RunsOK
<1>3. /\ e = plan[1] /\ 1 \in DOMAIN plan /\ e \in Entry /\ Tail(plan) \in Seq(Entry)
      /\ \A i \in DOMAIN Tail(plan) : Tail(plan)[i] = plan[i + 1] /\ i + 1 \in DOMAIN plan
      /\ \A i \in DOMAIN plan : i = 1 \/ (i - 1 \in DOMAIN Tail(plan) /\ Tail(plan)[i - 1] = plan[i])
  BY <1>1, <1>2
<1>4. /\ others \in [Run -> RunState]
      /\ \A s \in Run : others[s].step = run[s].step /\ (run[s].step = "save" => others[s].plan = run[s].plan)
      /\ \A s \in Run : others[s] # Idle /\ others[s].calm => run[r].calm /\ others[s] = run[s]
  <2>1. CASE run[r].calm
    BY <2>1 DEF RunsOK
  <2>2. CASE ~run[r].calm
    BY <2>2, DisturbedRun, DisturbedType
  <2> QED
    BY <2>1, <2>2
<1>5. /\ run'[r] \in [step : {"save"}, calm : BOOLEAN, plan : Seq(Entry)]
      /\ run'[r].plan = Tail(plan) /\ run'[r].calm = others[r].calm
      /\ \A s \in Run \ {r} : run'[s] = others[s]
  <2>1. others[r] \in [step : {"save"}, calm : BOOLEAN, plan : Seq(Entry)]
    BY <1>1, <1>4, RunShape
  <2> HIDE DEF others
  <2>2. run'[r] = [others[r] EXCEPT !.plan = Tail(plan)]
    BY <1>1, <1>4
  <2> HIDE DEF plan
  <2> QED
    BY <1>1, <1>3, <1>4, <2>1, <2>2
<1> HIDE DEF others
<1>6. RunsOK'
  <2>1. run'[r] \in RunState
    BY <1>5 DEF RunState
  <2>2. DOMAIN run' = Run /\ run' = [s \in Run |-> run'[s]]
    BY <1>1, <1>4
  <2> QED
    BY <1>4, <1>5, <2>1, <2>2 DEF RunsOK
<1>7. \A id \in DOMAIN queue' : id \in ItemId /\ queue'[id] \in Item
  <2> HIDE DEF e
  <2> QED
    BY <1>1, <1>3 DEF ReviewTypeOK, Entry
<1>8. ReviewTypeOK'
  BY <1>1, <1>6, <1>7, RunShape DEF ReviewTypeOK, RunsOK
<1>9. FormsStored'
  BY <1>1 DEF FormsStored
<1>10. Explained(stored, e.id, e.item.kind)
  BY <1>1, <1>3 DEF PlansExplained
<1>11. ExplainedBySource'
  <2> HIDE DEF e
  <2>1. \A id \in DOMAIN queue' : Explained(stored, id, queue'[id].kind)
    BY <1>1, <1>10, ExplainedEach
  <2> QED
    BY <1>1, <2>1 DEF ExplainedBySource, Explained
<1>12. PlansExplained'
  <2>1. SUFFICES ASSUME NEW s \in Run, run'[s].step = "save", NEW i \in DOMAIN run'[s].plan
                 PROVE  Explained(stored, run'[s].plan[i].id, run'[s].plan[i].item.kind)
    BY <1>1 DEF PlansExplained
  <2>2. CASE s = r
    <3>1. i \in DOMAIN Tail(plan) /\ run'[s].plan[i] = Tail(plan)[i]
      BY <1>5, <2>1, <2>2
    <3>2. run'[s].plan[i] = plan[i + 1] /\ i + 1 \in DOMAIN plan
      BY <1>3, <3>1
    <3> QED
      BY <1>1, <3>2 DEF PlansExplained
  <2>3. CASE s # r
    BY <1>4, <1>5, <2>1, <2>3 DEF PlansExplained
  <2> QED
    BY <2>2, <2>3
<1>13. CalmRuns'
  <2>1. SUFFICES ASSUME NEW s \in Run, run'[s] # Idle, run'[s].calm
                 PROVE  /\ run'[s].step = "save" =>
                             \A i \in DOMAIN run'[s].plan : \E f \in diverging : run'[s].plan[i] = Wanted(f)
                        /\ \A f \in diverging :
                             Saved(f)' \/ (run'[s].step = "save" /\ \E i \in DOMAIN run'[s].plan : run'[s].plan[i] = Wanted(f))
    <3>1. \A f : Wanted(f)' = Wanted(f)
      BY <1>1, WantedStays
    <3> QED
      BY <1>1, <2>1, <3>1 DEF CalmRuns
  <2>2. others[s] # Idle /\ others[s].calm
    BY <1>1, <1>4, <1>5, <2>1 DEF Idle
  <2>3. run[r].calm /\ run[r] # Idle /\ others[s] = run[s] /\ run[s] # Idle /\ run[s].calm
    BY <1>1, <1>4, <2>2 DEF Idle
  <2>4. PICK g \in diverging : e = Wanted(g)
    BY <1>1, <1>3, <2>3 DEF CalmRuns
  <2>5. \A f \in diverging : Saved(f) \/ f = g => Saved(f)'
    <3>1. SUFFICES ASSUME NEW f \in diverging, Saved(f) \/ f = g PROVE Saved(f)'
      OBVIOUS
    <3>2. Wanted(f)' = Wanted(f) /\ f \in Field /\ g \in Field
      BY <1>1, WantedStays DEF ReviewTypeOK
    <3>3. Wanted(f).id = e.id => f = g
      BY <2>4, <3>2, WantedApart
    <3> HIDE DEF e
    <3> QED
      BY <1>1, <2>4, <3>1, <3>2, <3>3 DEF Saved
  <2>6. CASE s = r
    <3>1. \A i \in DOMAIN run'[s].plan : \E f \in diverging : run'[s].plan[i] = Wanted(f)
      BY <1>1, <1>3, <1>5, <2>3, <2>6 DEF CalmRuns
    <3>2. ASSUME NEW f \in diverging
          PROVE  Saved(f)' \/ \E i \in DOMAIN run'[s].plan : run'[s].plan[i] = Wanted(f)
      <4>1. CASE Saved(f)
        BY <2>5, <4>1
      <4>2. CASE \E i \in DOMAIN plan : plan[i] = Wanted(f)
        <5>1. PICK i \in DOMAIN plan : plan[i] = Wanted(f)
          BY <4>2
        <5>2. CASE i = 1
          <6>1. Wanted(f) = Wanted(g)
            BY <1>3, <2>4, <5>1, <5>2
          <6>2. f = g
            BY <6>1, WantedApart DEF ReviewTypeOK
          <6> QED
            BY <2>5, <6>2
        <5>3. CASE i # 1
          BY <1>3, <1>5, <2>6, <5>1, <5>3
        <5> QED
          BY <5>2, <5>3
      <4> QED
        BY <2>3, <4>1, <4>2 DEF CalmRuns
    <3>3. run'[s].step = "save"
      BY <1>5, <2>6
    <3> QED
      BY <3>1, <3>2, <3>3
  <2>7. CASE s # r
    BY <1>5, <2>3, <2>5, <2>7 DEF CalmRuns
  <2> QED
    BY <2>6, <2>7
<1> QED
  BY <1>6, <1>8, <1>9, <1>11, <1>12, <1>13

(* A run that cannot plan forgets what the one before it did. *)
LEMMA PlanFailsStep ==
  ASSUME ReviewInv, NEW r \in Run, PlanFails(r)
  PROVE  ReviewInv'
<1> USE DEF ReviewInv
<1>1. /\ run' = [run EXCEPT ![r] = Idle]
      /\ UNCHANGED <<autoApply, now, policies, matching, diverging, extTime, locTime, queue, edits, stored>>
  BY DEF PlanFails, world
<1>2. run'[r] = Idle /\ \A s \in Run \ {r} : run'[s] = run[s]
  BY <1>1 DEF RunsOK
<1>3. RunsOK'
  BY <1>1 DEF RunsOK, RunState
<1>4. ReviewTypeOK'
  BY <1>1, <1>3, RunShape DEF ReviewTypeOK, RunsOK
<1>5. FormsStored' /\ ExplainedBySource'
  BY <1>1 DEF FormsStored, ExplainedBySource
<1>6. PlansExplained'
  BY <1>1, <1>2 DEF PlansExplained, Idle
<1>7. CalmRuns'
  <2>1. \A f : Wanted(f)' = Wanted(f) /\ (Saved(f)' <=> Saved(f))
    BY <1>1, WantedStays DEF Saved
  <2> QED
    BY <1>1, <1>2, <2>1 DEF CalmRuns
<1> QED
  BY <1>3, <1>4, <1>5, <1>6, <1>7

(* A run ends when all it planned is stored, or is lost. *)
LEMMA RunEndsStep ==
  ASSUME ReviewInv, NEW r \in Run, Finish(r) \/ Die(r)
  PROVE  ReviewInv'
<1> USE DEF ReviewInv
<1>1. /\ run[r].step = "save"
      /\ UNCHANGED <<autoApply, now, policies, matching, diverging, extTime, locTime, queue, edits, stored>>
  BY DEF Finish, Die, world
<1>2. PICK x \in RunState : /\ run' = [run EXCEPT ![r] = x]
                            /\ \/ x = Idle
                               \/ x = [step |-> "done", calm |-> run[r].calm] /\ run[r].plan = <<>>
  <2>1. run[r].calm \in BOOLEAN
    BY <1>1, RunShape DEF RunsOK
  <2>2. [step |-> "done", calm |-> run[r].calm] \in RunState /\ Idle \in RunState
    BY <2>1 DEF RunState
  <2> QED
    BY <2>2 DEF Finish, Die
<1>3. run'[r] = x /\ \A s \in Run \ {r} : run'[s] = run[s]
  BY <1>2 DEF RunsOK
<1>4. RunsOK'
  BY <1>2 DEF RunsOK
<1>5. ReviewTypeOK'
  BY <1>1, <1>4, RunShape DEF ReviewTypeOK, RunsOK
<1>6. FormsStored' /\ ExplainedBySource'
  BY <1>1 DEF FormsStored, ExplainedBySource
<1>7. PlansExplained'
  BY <1>1, <1>2, <1>3 DEF PlansExplained, Idle
<1>8. CalmRuns'
  <2>1. \A f : Wanted(f)' = Wanted(f) /\ (Saved(f)' <=> Saved(f))
    BY <1>1, WantedStays DEF Saved
  <2>2. run[r] # Idle
    BY <1>1 DEF Idle
  <2> QED
    BY <1>1, <1>2, <1>3, <2>1, <2>2 DEF CalmRuns
<1> QED
  BY <1>4, <1>5, <1>6, <1>7, <1>8

LEMMA ReviewNextInv == ReviewInv /\ [Next]_vars => ReviewInv'
<1>1. SUFFICES ASSUME ReviewInv, [Next]_vars PROVE ReviewInv'
  OBVIOUS
<1>2. CASE UNCHANGED vars
  <2>1. UNCHANGED <<autoApply, now, policies, matching, diverging, extTime, locTime, queue, run, edits, stored>>
    BY <1>2 DEF vars, world
  <2>2. ReviewTypeOK' /\ RunsOK' /\ FormsStored' /\ PlansExplained' /\ ExplainedBySource'
    BY <1>1, <2>1 DEF ReviewInv, ReviewTypeOK, RunsOK, FormsStored, PlansExplained, ExplainedBySource
  <2>3. CalmRuns'
    BY <1>1, <2>1, WantedStays DEF ReviewInv, CalmRuns, Saved
  <2> QED
    BY <2>2, <2>3 DEF ReviewInv
<1>3. CASE Next
  BY <1>1, <1>3, TickStep, OutsideStep, PutPolicyStep, PlanQueueStep, PlanFailsStep, SaveItemStep, RunEndsStep DEF Next
<1> QED
  BY <1>1, <1>2, <1>3

(* Every reachable row and run of the review queue is well formed, for any *)
(* policies, fields and number of runs (connector-sync.ts).                *)
THEOREM ReviewTypeCorrect == Spec => []ReviewTypeOK
<1>1. ReviewInv => ReviewTypeOK
  BY DEF ReviewInv
<1> QED
  BY ReviewInitInv, ReviewNextInv, <1>1, PTL DEF Spec

(* Policy resolution is explainable: whichever runs and operators wrote an *)
(* item and whatever became of its policy since, some form that the policy *)
(* it names once had gives its decision, or it has the preset's.           *)
THEOREM ExplainedBySourceInvariant == Spec => []ExplainedBySource
<1>1. ReviewInv => ExplainedBySource
  BY DEF ReviewInv
<1> QED
  BY ReviewInitInv, ReviewNextInv, <1>1, PTL DEF Spec

(* A run that ends with nothing changed since it began leaves an item for  *)
(* every diverging field that is not disabled, decided by the policy that  *)
(* outranks all others that name the field, whatever other runs, live or   *)
(* dead, stored.                                                           *)
THEOREM ReviewCompleteInvariant == Spec => []ReviewComplete
<1>1. ReviewInv => ReviewComplete
  <2>1. SUFFICES ASSUME ReviewInv, NEW r \in Run, run[r].step = "done", run[r].calm, NEW f \in diverging
                 PROVE  LET p == Deciding(f)
                            mode == IF p = None THEN Base[f] ELSE policies[p].form.fields[f]
                            kind == Decide(mode, extTime, locTime)
                            id == [field |-> f, ext |-> extTime, loc |-> locTime, policy |-> p,
                                   scope |-> IF p = None THEN None ELSE policies[p].form.scope]
                        IN  id \in DOMAIN queue /\ queue[id] = [kind |-> kind, status |-> StatusFor(kind)]
    BY DEF ReviewComplete
  <2>2. Saved(f)
    BY <2>1 DEF ReviewInv, CalmRuns, Idle
  <2>3. f \in Field /\ IsTable(policies)
    BY <2>1, PoliciesTable DEF ReviewInv, ReviewTypeOK
  <2> QED
    BY <2>2, <2>3, DecidingIsSource DEF Saved, Wanted, EntryFor, Identity
<1> QED
  BY ReviewInitInv, ReviewNextInv, <1>1, PTL DEF Spec

(* The people's part leaves the review queue alone: what is proved of the  *)
(* one holds in every behaviour of both.                                   *)
THEOREM PeopleKeepReview == PeopleSpec => Spec
<1>1. PeopleInit => Init
  BY DEF PeopleInit
<1>2. [PeopleNext]_peopleVars => [Next]_vars
  BY DEF PeopleNext, PeopleStep, ReviewStep, peopleVars
<1> QED
  BY <1>1, <1>2, PTL DEF PeopleSpec, Spec

-----------------------------------------------------------------------------
(* Accounts, principals and the runs that map them. *)

(* A worker that is about to make a principal responsible has stored the   *)
(* row that maps the account to it.                                        *)
SavedBefore ==
  \A w \in Worker : worker[w].step = "responsibility" =>
    /\ worker[w].principal \in Principal /\ worker[w].role \in Role
    /\ <<worker[w].account, worker[w].principal>> \in mapped

PeopleInv == PeopleTypeOK /\ SavedBefore /\ ResponsibleWasMapped

(* The principal a run works with is one of the project's, or none.        *)
LEMMA PrincipalForType ==
  ASSUME PeopleTypeOK, NEW a \in Account, NEW asked \in Principal \cup {Absent}
  PROVE  PrincipalFor(asked, a) \in Principal \cup {None}
BY DEF PeopleTypeOK, PrincipalFor

LEMMA PeopleInitInv == PeopleInit => PeopleInv
<1>1. SUFFICES ASSUME PeopleInit PROVE PeopleInv
  OBVIOUS
<1>2. PeopleTypeOK
  BY <1>1 DEF PeopleInit, PeopleTypeOK, Idle
<1>3. SavedBefore /\ ResponsibleWasMapped
  BY <1>1 DEF PeopleInit, SavedBefore, ResponsibleWasMapped, Idle
<1> QED
  BY <1>2, <1>3 DEF PeopleInv

(* Looking an account up touches the worker only. *)
LEMMA LookUpStep ==
  ASSUME PeopleInv, NEW v \in Worker, NEW a \in Account, LookUp(v, a)
  PROVE  PeopleInv'
<1> USE DEF PeopleInv
<1>1. PICK asked \in Principal \cup {Absent}, role \in Role \cup {None} :
        worker' = [worker EXCEPT ![v] = [step |-> "identity", account |-> a,
                     principal |-> PrincipalFor(asked, a), role |-> role]]
  BY DEF LookUp, FirstStep
<1>2. PrincipalFor(asked, a) \in Principal \cup {None}
  BY PrincipalForType
<1>3. UNCHANGED <<identities, responsible, rules, mapped, assigned>>
  BY DEF LookUp
<1>4. PeopleTypeOK'
  BY <1>1, <1>2, <1>3 DEF PeopleTypeOK, Looking
<1>5. SavedBefore' /\ ResponsibleWasMapped'
  BY <1>1, <1>3 DEF PeopleTypeOK, SavedBefore, ResponsibleWasMapped
<1> QED
  BY <1>4, <1>5

(* A row that is stored never takes a pair out of the history. *)
LEMMA StoreIdentityStep ==
  ASSUME PeopleTypeOK, NEW a \in Account, NEW p \in Principal \cup {None}, StoreIdentity(a, p)
  PROVE  /\ identities' \in [Account -> Principal \cup {None, NoRow}]
         /\ mapped \subseteq mapped' /\ mapped' \subseteq Account \X Principal
         /\ p \in Principal => <<a, p>> \in mapped'
BY DEF PeopleTypeOK, StoreIdentity

LEMMA SaveIdentityStep ==
  ASSUME PeopleInv, NEW v \in Worker, SaveIdentity(v)
  PROVE  PeopleInv'
<1> USE DEF PeopleInv
<1> DEFINE a == worker[v].account
           p == worker[v].principal
<1>1. worker[v] \in Looking
  BY DEF SaveIdentity, PeopleTypeOK, Idle
<1>2. a \in Account /\ p \in Principal \cup {None}
  BY <1>1 DEF Looking
<1>3. StoreIdentity(a, p)
  BY DEF SaveIdentity
<1> HIDE DEF a, p
<1>4. /\ identities' \in [Account -> Principal \cup {None, NoRow}]
      /\ mapped \subseteq mapped' /\ mapped' \subseteq Account \X Principal
      /\ p \in Principal => <<a, p>> \in mapped'
  BY <1>2, <1>3, StoreIdentityStep
<1>5. UNCHANGED <<responsible, rules, assigned>>
  BY DEF SaveIdentity
<1>6. worker' = [worker EXCEPT ![v] =
                   IF None \notin {worker[v].role, p} THEN [worker[v] EXCEPT !.step = "responsibility"] ELSE Idle]
  BY DEF SaveIdentity, p
<1>7. PeopleTypeOK'
  BY <1>1, <1>4, <1>5, <1>6 DEF PeopleTypeOK, Looking
<1>8. SavedBefore'
  <2>1. SUFFICES ASSUME NEW w \in Worker, worker'[w].step = "responsibility"
                 PROVE  /\ worker'[w].principal \in Principal /\ worker'[w].role \in Role
                        /\ <<worker'[w].account, worker'[w].principal>> \in mapped'
    BY DEF SavedBefore
  <2>2. CASE w = v
    <3>1. p # None /\ worker[v].role # None /\ worker'[v] = [worker[v] EXCEPT !.step = "responsibility"]
      BY <1>6, <2>1, <2>2 DEF PeopleTypeOK, Idle
    <3>2. worker'[v].account = a /\ worker'[v].principal = p /\ worker'[v].role \in Role
      BY <1>1, <3>1 DEF a, p, Looking
    <3> QED
      BY <1>2, <1>4, <2>2, <3>1, <3>2
  <2>3. CASE w # v
    BY <1>4, <1>6, <2>1, <2>3 DEF PeopleTypeOK, SavedBefore
  <2> QED
    BY <2>2, <2>3
<1>9. ResponsibleWasMapped'
  BY <1>4, <1>5 DEF ResponsibleWasMapped
<1> QED
  BY <1>7, <1>8, <1>9

LEMMA SaveResponsibilityStep ==
  ASSUME PeopleInv, NEW v \in Worker, SaveResponsibility(v)
  PROVE  PeopleInv'
<1> USE DEF PeopleInv
<1>1. worker[v] \in Looking
  BY DEF SaveResponsibility, PeopleTypeOK, Idle
<1>2. /\ worker[v].principal \in Principal /\ worker[v].role \in Role
      /\ <<worker[v].account, worker[v].principal>> \in mapped
  BY DEF SaveResponsibility, SavedBefore
<1>3. PeopleTypeOK'
  BY <1>1, <1>2 DEF SaveResponsibility, PeopleTypeOK, Looking
<1>4. SavedBefore'
  BY DEF SaveResponsibility, SavedBefore, PeopleTypeOK, Idle
<1>5. ResponsibleWasMapped'
  BY <1>2 DEF SaveResponsibility, ResponsibleWasMapped
<1> QED
  BY <1>3, <1>4, <1>5

(* What others store, and deaths, leave the workers' promises alone. *)
LEMMA OtherSteps ==
  ASSUME PeopleInv,
         \/ \E w \in Worker : WorkerDies(w)
         \/ \E a \in Account : MapIdentity(a)
         \/ \E p \in Principal, role \in Role : PutResponsibility(p, role)
         \/ \E i \in Rule : PutRule(i)
  PROVE  PeopleInv'
<1> USE DEF PeopleInv
<1>1. ASSUME NEW w \in Worker, WorkerDies(w) PROVE PeopleInv'
  <2>1. PeopleTypeOK'
    BY <1>1 DEF WorkerDies, PeopleTypeOK
  <2>2. SavedBefore' /\ ResponsibleWasMapped'
    BY <1>1 DEF WorkerDies, PeopleTypeOK, SavedBefore, ResponsibleWasMapped, Idle
  <2> QED
    BY <2>1, <2>2
<1>2. ASSUME NEW a \in Account, MapIdentity(a) PROVE PeopleInv'
  <2>1. PICK p \in Principal \cup {None} : StoreIdentity(a, p)
    BY <1>2 DEF MapIdentity
  <2>2. /\ identities' \in [Account -> Principal \cup {None, NoRow}]
        /\ mapped \subseteq mapped' /\ mapped' \subseteq Account \X Principal
    BY <2>1, StoreIdentityStep
  <2>3. UNCHANGED <<worker, responsible, rules, assigned>>
    BY <1>2 DEF MapIdentity, Request
  <2>4. PeopleTypeOK'
    BY <2>2, <2>3 DEF PeopleTypeOK
  <2>5. SavedBefore' /\ ResponsibleWasMapped'
    BY <2>2, <2>3 DEF SavedBefore, ResponsibleWasMapped
  <2> QED
    BY <2>4, <2>5
<1>3. ASSUME NEW p \in Principal, NEW role \in Role, PutResponsibility(p, role) PROVE PeopleInv'
  <2>1. PeopleTypeOK'
    BY <1>3 DEF PutResponsibility, Request, PeopleTypeOK
  <2>2. SavedBefore' /\ ResponsibleWasMapped'
    BY <1>3 DEF PutResponsibility, Request, SavedBefore, ResponsibleWasMapped
  <2> QED
    BY <2>1, <2>2
<1>4. ASSUME NEW i \in Rule, PutRule(i) PROVE PeopleInv'
  <2>1. PeopleTypeOK'
    BY <1>4 DEF PutRule, Request, PeopleTypeOK
  <2>2. SavedBefore' /\ ResponsibleWasMapped'
    BY <1>4 DEF PutRule, Request, SavedBefore, ResponsibleWasMapped
  <2> QED
    BY <2>1, <2>2
<1> QED
  BY <1>1, <1>2, <1>3, <1>4

LEMMA PeopleNextInv == PeopleInv /\ [PeopleNext]_peopleVars => PeopleInv'
<1>1. SUFFICES ASSUME PeopleInv, [PeopleNext]_peopleVars PROVE PeopleInv'
  OBVIOUS
<1>2. CASE PeopleStep
  BY <1>1, <1>2, LookUpStep, SaveIdentityStep, SaveResponsibilityStep, OtherSteps DEF PeopleStep
<1>3. CASE UNCHANGED people
  BY <1>1, <1>3 DEF people, PeopleInv, PeopleTypeOK, SavedBefore, ResponsibleWasMapped
<1> QED
  BY <1>1, <1>2, <1>3 DEF PeopleNext, ReviewStep, peopleVars

(* Every reachable state of the identity tables and the runs that write    *)
(* them is well formed.                                                    *)
THEOREM PeopleTypeCorrect == PeopleSpec => []PeopleTypeOK
<1>1. PeopleInv => PeopleTypeOK
  BY DEF PeopleInv
<1> QED
  BY PeopleInitInv, PeopleNextInv, <1>1, PTL DEF PeopleSpec

(* Whatever dies, races or is stored in between, a run makes a principal   *)
(* responsible only after an identity row mapped the account to it.        *)
THEOREM ResponsibleWasMappedInvariant == PeopleSpec => []ResponsibleWasMapped
<1>1. PeopleInv => ResponsibleWasMapped
  BY DEF PeopleInv
<1> QED
  BY PeopleInitInv, PeopleNextInv, <1>1, PTL DEF PeopleSpec

-----------------------------------------------------------------------------
(* Delegation. *)

EnabledRules == {i \in DOMAIN rules : rules[i].enabled}

(* Rules are tried in a strict total order. *)
LEMMA RulesTriedInOrder ==
  ASSUME PeopleTypeOK, NEW i \in DOMAIN rules, NEW j \in DOMAIN rules, NEW k \in DOMAIN rules
  PROVE  /\ i # j => TriedBefore(rules, i, j) \/ TriedBefore(rules, j, i)
         /\ ~(TriedBefore(rules, i, j) /\ TriedBefore(rules, j, i))
         /\ TriedBefore(rules, i, j) /\ TriedBefore(rules, j, k) => TriedBefore(rules, i, k)
<1>1. \A r \in DOMAIN rules : r \in Int /\ rules[r].priority \in Int
  <2>1. SUFFICES ASSUME NEW r \in DOMAIN rules PROVE r \in Int /\ rules[r].priority \in Int
    OBVIOUS
  <2>2. r \in Nat /\ rules[r] \in RuleForms
    BY RuleAssumption DEF PeopleTypeOK
  <2> QED
    BY <2>2, RuleFormsAssumption
<1> QED
  BY <1>1 DEF TriedBefore

(* The place of a rule in the list is one more than the number of those    *)
(* tried before it: there is a sorted list of the enabled rules.           *)
LEMMA RulesCanBeOrdered ==
  ASSUME PeopleTypeOK
  PROVE  \E tried \in [1..Cardinality(EnabledRules) -> EnabledRules] :
           \A m, n \in DOMAIN tried : m < n => TriedBefore(rules, tried[m], tried[n])
<1> DEFINE E == EnabledRules
           N == Cardinality(E)
           before(i) == {j \in E : TriedBefore(rules, j, i)}
           place == [i \in E |-> Cardinality(before(i)) + 1]
<1>1. E \subseteq DOMAIN rules /\ IsFiniteSet(E) /\ N \in Nat
  <2>1. E \in SUBSET Rule
    BY DEF EnabledRules, PeopleTypeOK
  <2> QED
    BY <2>1, RuleAssumption, FS_Subset, FS_CardinalityType DEF EnabledRules
<1> HIDE DEF E
<1>2. \A i \in E : /\ IsFiniteSet(before(i)) /\ Cardinality(before(i)) \in Nat
                   /\ Cardinality(before(i)) < N
  <2>1. SUFFICES ASSUME NEW i \in E
                 PROVE  /\ IsFiniteSet(before(i)) /\ Cardinality(before(i)) \in Nat
                        /\ Cardinality(before(i)) < N
    OBVIOUS
  <2>2. before(i) \in SUBSET E /\ i \notin before(i)
    BY <1>1, RulesTriedInOrder
  <2>3. IsFiniteSet(before(i)) /\ Cardinality(before(i)) <= N /\ (N = Cardinality(before(i)) => E = before(i))
    BY <1>1, <2>2, FS_Subset
  <2>4. Cardinality(before(i)) \in Nat
    BY <2>3, FS_CardinalityType
  <2> QED
    BY <1>1, <2>1, <2>2, <2>3, <2>4
<1>3. \A i, j \in E : TriedBefore(rules, i, j) => place[i] < place[j]
  <2>1. SUFFICES ASSUME NEW i \in E, NEW j \in E, TriedBefore(rules, i, j) PROVE place[i] < place[j]
    OBVIOUS
  <2>2. before(i) \in SUBSET before(j) /\ i \in before(j) /\ i \notin before(i)
    BY <1>1, <2>1, RulesTriedInOrder
  <2>3. Cardinality(before(i)) <= Cardinality(before(j)) /\ Cardinality(before(i)) # Cardinality(before(j))
    BY <1>2, <2>2, FS_Subset
  <2> HIDE DEF before
  <2> QED
    BY <1>2, <2>3
<1>4. place \in [E -> 1..N]
  <2> HIDE DEF before
  <2> QED
    BY <1>1, <1>2
<1>5. \A i, j \in E : place[i] = place[j] => i = j
  <2> HIDE DEF place
  <2>1. SUFFICES ASSUME NEW i \in E, NEW j \in E, place[i] = place[j], i # j PROVE FALSE
    OBVIOUS
  <2>2. place[i] < place[j] \/ place[j] < place[i]
    BY <1>1, <1>3, <2>1, RulesTriedInOrder
  <2>3. place[i] \in Int
    BY <1>4
  <2> QED
    BY <2>1, <2>2, <2>3
<1> HIDE DEF place
<1>6. \A n \in 1..N : \E i \in E : place[i] = n
  <2>1. place \in Injection(E, 1..N)
    BY <1>4, <1>5 DEF Injection, IsInjective
  <2>2. IsFiniteSet(1..N) /\ Cardinality(1..N) = N
    <3>1. 1 \in Int /\ N \in Int /\ (IF 1 > N THEN 0 ELSE N - 1 + 1) = N
      BY <1>1
    <3> QED
      BY <3>1, FS_Interval
  <2>3. place \in Surjection(E, 1..N)
    BY <2>1, <2>2, FS_Injection
  <2> QED
    BY <2>3 DEF Surjection
<1> DEFINE tried == [n \in 1..N |-> CHOOSE i \in E : place[i] = n]
<1>7. \A n \in 1..N : tried[n] \in E /\ place[tried[n]] = n
  BY <1>6
<1>8. tried \in [1..N -> E] /\ DOMAIN tried = 1..N
  BY <1>7
<1> HIDE DEF tried, N
<1>9. \A m, n \in 1..N : m < n => TriedBefore(rules, tried[m], tried[n])
  <2>1. SUFFICES ASSUME NEW m \in 1..N, NEW n \in 1..N, m < n PROVE TriedBefore(rules, tried[m], tried[n])
    OBVIOUS
  <2>2. tried[m] # tried[n] /\ ~TriedBefore(rules, tried[n], tried[m])
    BY <1>3, <1>7, <2>1
  <2> QED
    BY <1>1, <1>7, <2>2, RulesTriedInOrder
<1> QED
  BY <1>8, <1>9 DEF N, E

(* The list holds every enabled rule, each before those it precedes.       *)
LEMMA RulesInOrderFacts ==
  ASSUME PeopleTypeOK
  PROVE  LET N == Cardinality(EnabledRules)
         IN  /\ N \in Nat /\ RulesInOrder \in [1..N -> EnabledRules] /\ Len(RulesInOrder) = N
             /\ \A m, n \in 1..N : m < n => TriedBefore(rules, RulesInOrder[m], RulesInOrder[n])
             /\ \A i \in EnabledRules : \E n \in 1..N : RulesInOrder[n] = i
<1> DEFINE N == Cardinality(EnabledRules)
<1>1. IsFiniteSet(EnabledRules) /\ N \in Nat
  <2>1. EnabledRules \in SUBSET Rule
    BY DEF EnabledRules, PeopleTypeOK
  <2> QED
    BY <2>1, RuleAssumption, FS_Subset, FS_CardinalityType
<1>2. /\ RulesInOrder \in [1..N -> EnabledRules]
      /\ \A m, n \in DOMAIN RulesInOrder : m < n => TriedBefore(rules, RulesInOrder[m], RulesInOrder[n])
  <2>1. RulesInOrder = CHOOSE tried \in [1..N -> EnabledRules] :
                         \A m, n \in DOMAIN tried : m < n => TriedBefore(rules, tried[m], tried[n])
    BY DEF RulesInOrder, EnabledRules
  <2> HIDE DEF N
  <2> QED
    BY <2>1, RulesCanBeOrdered DEF N
<1>3. \A m, n \in 1..N : RulesInOrder[m] = RulesInOrder[n] => m = n
  <2>1. SUFFICES ASSUME NEW m \in 1..N, NEW n \in 1..N, RulesInOrder[m] = RulesInOrder[n], m # n PROVE FALSE
    OBVIOUS
  <2>2. m < n \/ n < m
    BY <2>1
  <2>3. RulesInOrder[m] \in DOMAIN rules /\ RulesInOrder[n] \in DOMAIN rules
    BY <1>2 DEF EnabledRules
  <2> QED
    BY <1>2, <2>1, <2>2, <2>3, RulesTriedInOrder
<1>4. RulesInOrder \in Surjection(1..N, EnabledRules)
  <2>1. RulesInOrder \in Injection(1..N, EnabledRules)
    BY <1>2, <1>3 DEF Injection, IsInjective
  <2>2. Cardinality(1..N) = N
    <3>1. 1 \in Int /\ N \in Int /\ (IF 1 > N THEN 0 ELSE N - 1 + 1) = N
      BY <1>1
    <3> QED
      BY <3>1, FS_Interval
  <2> QED
    BY <1>1, <2>1, <2>2, FS_Injection
<1>5. Len(RulesInOrder) = N
  BY <1>1, <1>2
<1> QED
  BY <1>1, <1>2, <1>4, <1>5 DEF Surjection

(* A set of places in a list has a first. *)
LEMMA FirstPlace ==
  ASSUME NEW I \in SUBSET Nat, I # {}
  PROVE  Min(I) \in I /\ \A k \in I : Min(I) <= k
<1> DEFINE R == OpToRel(<, Nat)
<1>1. \E m \in I : \A k \in I : ~(<<k, m>> \in R)
  BY NatLessThanWellFounded, WFMin
<1>2. R = {ss \in Nat \X Nat : ss[1] < ss[2]}
  BY Zenon DEF OpToRel
<1> HIDE DEF R
<1>3. PICK m \in I : \A k \in I : <<k, m>> \notin R
  BY <1>1
<1>4. \A k \in I : m <= k
  <2>1. SUFFICES ASSUME NEW k \in I, ~(m <= k) PROVE FALSE
    OBVIOUS
  <2>2. k \in Nat /\ m \in Nat /\ k < m
    BY <2>1
  <2>3. <<k, m>> \in R
    BY <1>2, <2>2
  <2> QED
    BY <1>3, <2>3
<1> QED
  BY <1>3, <1>4 DEF Min

(* Whatever rules are stored, a responsible principal's work goes to the   *)
(* first of their enabled rules that cover the task, by priority and then  *)
(* by id, and to nobody without one (resolveTaskDelegations).              *)
THEOREM DelegationsSoundInvariant == PeopleSpec => []DelegationsSound
<1>1. PeopleTypeOK => DelegationsSound
  <2>1. SUFFICES ASSUME PeopleTypeOK, NEW r \in responsible
                 PROVE  LET rule(i) == rules[i]
                            able == {i \in DOMAIN rules : rule(i).enabled /\ rule(i).principal = r[1]
                                                            /\ (rule(i).scope # None => rule(i).scope \in matching)}
                            given == {d.rule : d \in {e \in TaskDelegations : e.principal = r[1] /\ e.role = r[2]}}
                        IN  given = {i \in able : \A j \in able \ {i} :
                                       \/ rule(i).priority > rule(j).priority
                                       \/ rule(i).priority = rule(j).priority /\ i < j}
    BY DEF DelegationsSound
  <2> DEFINE N == Cardinality(EnabledRules)
             tried == RulesInOrder
             places(p) == {k \in 1..Len(tried) : Delegates(rules[tried[k]], p)}
             first(p) == IF places(p) # {} THEN Min(places(p)) ELSE 0
             able == {i \in DOMAIN rules : rules[i].enabled /\ rules[i].principal = r[1]
                                             /\ (rules[i].scope # None => rules[i].scope \in matching)}
             given == {d.rule : d \in {e \in TaskDelegations : e.principal = r[1] /\ e.role = r[2]}}
  <2>2. TaskDelegations = {[principal |-> q[1], role |-> q[2], rule |-> tried[first(q[1])]] :
                             q \in {o \in responsible : first(o[1]) # 0}}
    BY DEF TaskDelegations, SelectInSeq
  <2>3. /\ N \in Nat /\ tried \in [1..N -> EnabledRules] /\ Len(tried) = N
        /\ \A m, n \in 1..N : m < n => TriedBefore(rules, tried[m], tried[n])
        /\ \A i \in EnabledRules : \E n \in 1..N : tried[n] = i
    BY <2>1, RulesInOrderFacts
  <2>4. able = {i \in EnabledRules : Delegates(rules[i], r[1])}
    BY DEF EnabledRules, Delegates
  <2>5. \A p : places(p) # {} => first(p) \in places(p) /\ first(p) # 0 /\ \A k \in places(p) : first(p) <= k
    <3>1. SUFFICES ASSUME NEW p, places(p) # {}
                   PROVE  first(p) \in places(p) /\ first(p) # 0 /\ \A k \in places(p) : first(p) <= k
      OBVIOUS
    <3>2. places(p) \in SUBSET Nat /\ 0 \notin places(p)
      BY <2>3
    <3> HIDE DEF places
    <3> QED
      BY <3>1, <3>2, FirstPlace
  <2>6. r \in Principal \X Role
    BY <2>1 DEF PeopleTypeOK
  <2>7. given = IF places(r[1]) # {} THEN {tried[first(r[1])]} ELSE {}
    <3> HIDE DEF tried, places
    <3>1. \A d \in TaskDelegations : \E q \in responsible :
             /\ first(q[1]) # 0 /\ d.principal = q[1] /\ d.role = q[2] /\ d.rule = tried[first(q[1])]
      BY <2>2
    <3>2. first(r[1]) # 0 => [principal |-> r[1], role |-> r[2], rule |-> tried[first(r[1])]] \in TaskDelegations
      BY <2>1, <2>2
    <3>3. places(r[1]) # {} <=> first(r[1]) # 0
      BY <2>5
    <3> HIDE DEF first
    <3> QED
      BY <3>1, <3>2, <3>3
  <2>8. \A i, j \in DOMAIN rules :
          TriedBefore(rules, i, j) <=> \/ rules[i].priority > rules[j].priority
                                       \/ rules[i].priority = rules[j].priority /\ i < j
    BY DEF TriedBefore
  <2> DEFINE best == {i \in able : \A j \in able \ {i} : TriedBefore(rules, i, j)}
  <2>9. able \subseteq EnabledRules /\ EnabledRules \subseteq DOMAIN rules
    BY <2>4 DEF EnabledRules
  <2>10. given = best
    <3>1. CASE places(r[1]) = {}
      <4>1. able = {}
        BY <2>3, <2>4, <3>1
      <4> HIDE DEF able, given
      <4> QED
        BY <2>7, <3>1, <4>1
    <3>2. CASE places(r[1]) # {}
      <4> DEFINE k == first(r[1])
      <4>1. k \in 1..N /\ Delegates(rules[tried[k]], r[1]) /\ \A l \in places(r[1]) : k <= l
        BY <2>3, <2>5, <3>2
      <4> HIDE DEF k
      <4>2. tried[k] \in able
        BY <2>3, <2>4, <4>1
      <4>3. \A j \in able \ {tried[k]} : TriedBefore(rules, tried[k], j)
        <5>1. SUFFICES ASSUME NEW j \in able, j # tried[k] PROVE TriedBefore(rules, tried[k], j)
          OBVIOUS
        <5>2. PICK l \in 1..N : tried[l] = j
          BY <2>3, <2>4
        <5>3. l \in places(r[1])
          BY <2>3, <2>4, <5>2
        <5>4. k < l
          BY <4>1, <5>1, <5>2, <5>3
        <5> QED
          BY <2>3, <4>1, <5>2, <5>4
      <4> HIDE DEF able, given, tried
      <4>4. best = {tried[k]}
        BY <2>1, <2>9, <4>2, <4>3, RulesTriedInOrder
      <4> QED
        BY <2>7, <3>2, <4>4 DEF k
    <3> QED
      BY <3>1, <3>2
  <2>11. best = {i \in able : \A j \in able \ {i} :
                   \/ rules[i].priority > rules[j].priority
                   \/ rules[i].priority = rules[j].priority /\ i < j}
    <3> HIDE DEF able
    <3> QED
      BY <2>8, <2>9
  <2> HIDE DEF best
  <2> QED
    BY <2>10, <2>11
<1> QED
  BY <1>1, PeopleTypeCorrect, PTL

=============================================================================
