--------------------------- MODULE TaskGraphProofs ---------------------------
(***************************************************************************)
(* Theorems of TaskGraph, for every set of task ids and every batch size:  *)
(* type correctness, the two acyclicity invariants for every backend, that *)
(* with finitely many tasks some unfinished one is not blocked, and the    *)
(* finished-parent invariant for the backends that keep no link to a       *)
(* deleted task.                                                           *)
(***************************************************************************)
EXTENDS TaskGraph, TLAPS, FiniteSetTheorems, WellFoundedInduction

(***************************************************************************)
(* Walks.                                                                  *)
(***************************************************************************)

(* A walk visits where it starts. *)
LEMMA ReachStart ==
  ASSUME NEW E, NEW x \in Task
  PROVE  x \in Reach(E, x)
BY DEF Reach

(* What a walk visits is closed under its edges. *)
LEMMA ReachClosed ==
  ASSUME NEW E \in SUBSET (Task \X Task), NEW x
  PROVE  ClosedUnder(Reach(E, x), E)
<1> SUFFICES ASSUME NEW e \in E, e[1] \in Reach(E, x),
                    NEW S \in SUBSET Task, x \in S, ClosedUnder(S, E)
             PROVE  e[2] \in S
  BY DEF ClosedUnder, Reach
<1> QED
  BY DEF ClosedUnder, Reach

(* A walk stays inside every closed set it starts in. *)
LEMMA ReachLeast ==
  ASSUME NEW E, NEW x, NEW S \in SUBSET Task, x \in S, ClosedUnder(S, E)
  PROVE  Reach(E, x) \subseteq S
BY DEF Reach

LEMMA ReachInTask ==
  ASSUME NEW E, NEW x
  PROVE  Reach(E, x) \in SUBSET Task
BY DEF Reach

(* A walk from a visited task visits nothing new. *)
LEMMA ReachTransitive ==
  ASSUME NEW E \in SUBSET (Task \X Task), NEW x, NEW y \in Reach(E, x)
  PROVE  Reach(E, y) \subseteq Reach(E, x)
BY ReachClosed, ReachLeast, ReachInTask

(* Fewer edges visit fewer tasks. *)
LEMMA ReachMonotone ==
  ASSUME NEW E \in SUBSET (Task \X Task), NEW F \in SUBSET E, NEW x \in Task
  PROVE  Reach(F, x) \subseteq Reach(E, x)
<1>1. ClosedUnder(Reach(E, x), F)
  BY ReachClosed DEF ClosedUnder
<1> QED
  BY <1>1, ReachLeast, ReachInTask, ReachStart

(* Dropping edges cannot close a cycle. *)
LEMMA AcyclicSubset ==
  ASSUME NEW E \in SUBSET (Task \X Task), NEW F \in SUBSET E, Acyclic(E)
  PROVE  Acyclic(F)
<1> SUFFICES ASSUME NEW e \in F
             PROVE  e[1] \notin Reach(F, e[2])
  BY DEF Acyclic
<1>1. e \in Task \X Task
  OBVIOUS
<1>2. Reach(F, e[2]) \subseteq Reach(E, e[2])
  BY <1>1, ReachMonotone
<1> QED
  BY <1>2 DEF Acyclic

(* The check of assertNoCycle is enough: edges from t to tasks whose walks *)
(* do not meet t keep the graph acyclic.                                   *)
LEMMA AcyclicFan ==
  ASSUME NEW E \in SUBSET (Task \X Task), Acyclic(E),
         NEW t \in Task, NEW D \in SUBSET Task,
         \A d \in D : t \notin Reach(E, d)
  PROVE  Acyclic(E \cup {<<t, d>> : d \in D})
<1> DEFINE F == E \cup {<<t, d>> : d \in D}
<1>0. F \in SUBSET (Task \X Task)
  OBVIOUS
\* A walk of E that does not meet t is not lengthened by the new edges.
<1>1. ASSUME NEW y \in Task, t \notin Reach(E, y)
      PROVE  Reach(F, y) \subseteq Reach(E, y)
  <2>1. ClosedUnder(Reach(E, y), F)
    <3> SUFFICES ASSUME NEW e \in F, e[1] \in Reach(E, y)
                 PROVE  e[2] \in Reach(E, y)
      BY DEF ClosedUnder
    <3>1. CASE e \in E
      BY <3>1, ReachClosed DEF ClosedUnder
    <3>2. CASE e \in {<<t, d>> : d \in D}
      BY <3>2, <1>1
    <3> QED
      BY <3>1, <3>2
  <2> QED
    BY <2>1, ReachLeast, ReachInTask, ReachStart
<1>2. ASSUME NEW e \in F
      PROVE  e[1] \notin Reach(F, e[2])
  <2>1. e \in Task \X Task /\ e[1] \in Task /\ e[2] \in Task
    BY <1>0
  <2>2. CASE e \in {<<t, d>> : d \in D}
    <3>1. e[1] = t /\ e[2] \in D
      BY <2>2
    <3> QED
      BY <3>1, <2>1, <1>1
  <2>3. CASE e \in E /\ t \notin Reach(E, e[2])
    BY <2>3, <2>1, <1>1 DEF Acyclic
  <2>4. CASE e \in E /\ t \in Reach(E, e[2])
    <3> DEFINE S == Reach(E, e[2]) \cup UNION {Reach(E, d) : d \in D}
    <3>1. S \in SUBSET Task
      BY ReachInTask
    <3>2. ClosedUnder(S, F)
      <4> SUFFICES ASSUME NEW f \in F, f[1] \in S
                   PROVE  f[2] \in S
        BY DEF ClosedUnder
      <4>1. CASE f \in E
        <5>1. CASE f[1] \in Reach(E, e[2])
          BY <4>1, <5>1, ReachClosed DEF ClosedUnder
        <5>2. ASSUME NEW d \in D, f[1] \in Reach(E, d)
              PROVE  f[2] \in S
          <6>1. f[2] \in Reach(E, d)
            BY <4>1, <5>2, ReachClosed DEF ClosedUnder
          <6> QED
            BY <6>1
        <5> QED
          BY <5>1, <5>2
      <4>2. CASE f \in {<<t, d>> : d \in D}
        <5>1. f[2] \in D /\ f[2] \in Task
          BY <4>2
        <5>2. f[2] \in Reach(E, f[2])
          BY <5>1, ReachStart
        <5> QED
          BY <5>1, <5>2
      <4> QED
        BY <4>1, <4>2
    <3>3. Reach(F, e[2]) \subseteq S
      <4>1. e[2] \in S
        BY <2>1, ReachStart
      <4> HIDE DEF S, F
      <4> QED
        BY <3>1, <3>2, <4>1, ReachLeast
    <3>4. ASSUME NEW d \in D, e[1] \in Reach(E, d)
          PROVE  FALSE
      <4>1. e[2] \in Reach(E, d)
        BY <2>4, <3>4, ReachClosed DEF ClosedUnder
      <4>2. t \in Reach(E, d)
        BY <2>4, <4>1, ReachTransitive
      <4> QED
        BY <4>2
    <3>5. e[1] \notin Reach(E, e[2])
      BY <2>4 DEF Acyclic
    <3> QED
      BY <3>3, <3>4, <3>5
  <2> QED
    BY <2>2, <2>3, <2>4
<1> QED
  BY <1>2 DEF Acyclic

(* The walk of a batch: if every new link's walk, taken over old and new   *)
(* links together, avoids its own start, the union stays acyclic.  New     *)
(* links replace those of S; every task has at most one.                   *)
LEMMA AcyclicBatch ==
  ASSUME NEW S \in SUBSET Task,
         NEW par \in [Task -> Task \cup {None}],
         NEW new \in [Task -> Task \cup {None}],
         Acyclic(ParentLinks(par)),
         \A t \in Task \ S : new[t] = par[t],
         \A t \in S : new[t] # None => ~ParentCycle(t, new[t], new)
  PROVE  Acyclic(ParentLinks(new))
<1> DEFINE E == ParentLinks(new)
           O == ParentLinks(par)
<1>0. E \in SUBSET (Task \X Task) /\ O \in SUBSET (Task \X Task)
  BY DEF ParentLinks
<1> SUFFICES ASSUME NEW e \in E, e[1] \in Reach(E, e[2])
             PROVE  FALSE
  BY DEF Acyclic
<1>1. /\ e[1] \in Task /\ e[2] \in Task
      /\ new[e[1]] = e[2] /\ e[2] # None
  BY IdsAssumption DEF ParentLinks
<1>2. e[1] \notin S
  BY <1>1 DEF ParentCycle
\* Everything the walk from e[2] visits walks on to e[1] ...
<1>3. \A x \in Reach(E, e[2]) : e[1] \in Reach(E, x)
  <2> DEFINE B == {x \in Reach(E, e[2]) : e[1] \in Reach(E, x)}
  <2>1. ClosedUnder(B, E)
    <3> SUFFICES ASSUME NEW f \in E, f[1] \in B
                 PROVE  f[2] \in B
      BY DEF ClosedUnder
    <3>1. f[1] \in Task /\ f[2] \in Task /\ new[f[1]] = f[2]
      BY DEF ParentLinks
    <3>2. f[2] \in Reach(E, e[2])
      BY <1>0, ReachClosed DEF ClosedUnder
    <3>3. CASE f[1] = e[1]
      BY <3>1, <3>2, <3>3, <1>1
    <3>4. CASE f[1] # e[1]
      <4>1. ClosedUnder({f[1]} \cup Reach(E, f[2]), E)
        <5> SUFFICES ASSUME NEW g \in E, g[1] \in {f[1]} \cup Reach(E, f[2])
                     PROVE  g[2] \in {f[1]} \cup Reach(E, f[2])
          BY DEF ClosedUnder
        <5>1. g[1] \in Task /\ g[2] \in Task /\ new[g[1]] = g[2]
          BY DEF ParentLinks
        <5>2. CASE g[1] = f[1]
          BY <5>1, <5>2, <3>1, ReachStart
        <5>3. CASE g[1] \in Reach(E, f[2])
          BY <5>3, <1>0, ReachClosed DEF ClosedUnder
        <5> QED
          BY <5>2, <5>3
      <4>2. Reach(E, f[1]) \subseteq {f[1]} \cup Reach(E, f[2])
        BY <4>1, <3>1, ReachLeast, ReachInTask
      <4> QED
        BY <4>2, <3>4, <3>2
    <3> QED
      BY <3>3, <3>4
  <2>2. e[2] \in B
    BY <1>1, ReachStart
  <2>3. B \in SUBSET Task
    BY ReachInTask
  <2> HIDE DEF B, E
  <2>4. Reach(E, e[2]) \subseteq B
    BY <2>1, <2>2, <2>3, ReachLeast
  <2> QED
    BY <2>4 DEF B
\* ... so it visits no task of S, whose own walk would come back to it.
<1>4. ASSUME NEW s \in S, s \in Reach(E, e[2])
      PROVE  FALSE
  <2>1. e[1] \in Reach(E, s) /\ s # e[1]
    BY <1>3, <1>4, <1>2
  <2>2. new[s] # None
    <3> SUFFICES ASSUME new[s] = None
                 PROVE  FALSE
      OBVIOUS
    <3>1. ClosedUnder({s}, E)
      BY IdsAssumption DEF ClosedUnder, ParentLinks
    <3>2. Reach(E, s) \subseteq {s}
      BY <3>1, ReachLeast
    <3> QED
      BY <3>2, <2>1
  <2>3. <<s, new[s]>> \in E /\ new[s] \in Task
    BY <2>2 DEF ParentLinks
  <2>4. new[s] \in Reach(E, e[2])
    BY <2>3, <1>4, <1>0, ReachClosed DEF ClosedUnder
  <2>5. e[1] \in Reach(E, new[s])
    BY <2>4, <1>3
  <2>6. e[2] \in Reach(E, new[s])
    BY <2>5, <1>0, ReachClosed DEF ClosedUnder
  <2>7. s \in Reach(E, new[s])
    BY <2>6, <1>4, <1>0, ReachTransitive
  <2> QED
    BY <2>7, <2>2 DEF ParentCycle
\* So the walk uses old links only, against their acyclicity.
<1>5. ClosedUnder(Reach(O, e[2]) \cap Reach(E, e[2]), E)
  <2> SUFFICES ASSUME NEW f \in E, f[1] \in Reach(O, e[2]), f[1] \in Reach(E, e[2])
               PROVE  f[2] \in Reach(O, e[2]) /\ f[2] \in Reach(E, e[2])
    BY DEF ClosedUnder
  <2>1. f[1] \notin S
    BY <1>4
  <2>2. f \in O
    BY <2>1 DEF ParentLinks
  <2>3. f[2] \in Reach(O, e[2])
    BY <2>2, <1>0, ReachClosed DEF ClosedUnder
  <2>4. f[2] \in Reach(E, e[2])
    BY <1>0, ReachClosed DEF ClosedUnder
  <2> QED
    BY <2>3, <2>4
<1>6. e[1] \in Reach(O, e[2])
  <2>1. e[2] \in Reach(O, e[2]) \cap Reach(E, e[2])
    BY <1>1, ReachStart
  <2>2. Reach(E, e[2]) \subseteq Reach(O, e[2]) \cap Reach(E, e[2])
    BY <2>1, <1>5, ReachLeast, ReachInTask
  <2> QED
    BY <2>2
<1>7. e \in O
  BY <1>2 DEF ParentLinks
<1> QED
  BY <1>6, <1>7 DEF Acyclic

-----------------------------------------------------------------------------
(* No method breaks the types, or a link between rows. *)
LEMMA TypeKept ==
  ASSUME TypeOK, [Next]_vars
  PROVE  TypeOK'
<1> USE DEF TypeOK
<1>1. ASSUME NEW t \in Task, NEW p \in Task \cup {None}, NEW l \in Lifecycle,
             Add(t, p, l)
      PROVE  TypeOK'
  BY <1>1 DEF Add
<1>2. ASSUME NEW S \in SUBSET Task, NEW par \in [S -> Task \cup {None}],
             NEW life \in [S -> Lifecycle], AddMany(S, par, life)
      PROVE  TypeOK'
  <2>1. tasks' \in SUBSET Task /\ tasks' = tasks \cup S /\ archived' = archived /\ deps' = deps
    BY <1>2 DEF AddMany
  <2>2. lifecycle' \in [Task -> Lifecycle]
    BY <1>2 DEF AddMany
  <2>3. parent' = [t \in Task |-> IF t \in S THEN par[t] ELSE parent[t]]
    BY <1>2 DEF AddMany
  <2>4. \A t \in S : par[t] # None => par[t] \in tasks'
    BY <1>2 DEF AddMany
  <2>5. parent' \in [Task -> Task \cup {None}]
    BY <2>3
  <2>6. \A t \in Task : parent'[t] # None =>
          t \in tasks' /\ (Store # "memory" => parent'[t] \in tasks')
    BY <2>1, <2>3, <2>4
  <2> QED
    BY <2>1, <2>2, <2>5, <2>6
<1>3. ASSUME NEW t \in Task, NEW p \in Task \cup {None, Keep}, NEW l \in Lifecycle,
             Edit(t, p, l)
      PROVE  TypeOK'
  BY <1>3, IdsAssumption DEF Edit
<1>4. ASSUME NEW t \in Task, Release(t)
      PROVE  TypeOK'
  BY <1>4 DEF Release, Lifecycle
<1>5. ASSUME NEW t \in Task, Archive(t)
      PROVE  TypeOK'
  BY <1>5 DEF Archive
<1>6. ASSUME NEW t \in Task, Restore(t)
      PROVE  TypeOK'
  BY <1>6 DEF Restore
<1>7. ASSUME NEW t \in Task, Delete(t)
      PROVE  TypeOK'
  <2>1. tasks' = tasks \ {t} /\ archived' \subseteq tasks' /\ lifecycle' \in [Task -> Lifecycle]
    BY <1>7 DEF Delete, Lifecycle
  <2>2. deps' \subseteq tasks' \X tasks'
    BY <1>7 DEF Delete
  <2>3. parent' = [c \in Task |-> IF c = t \/ (Store # "memory" /\ parent[c] = t)
                                  THEN None ELSE parent[c]]
    BY <1>7 DEF Delete, ParentsAfterDelete
  <2>4. parent' \in [Task -> Task \cup {None}]
    BY <2>3
  <2>5. \A c \in Task : parent'[c] # None =>
          c \in tasks' /\ (Store # "memory" => parent'[c] \in tasks')
    BY <2>1, <2>3
  <2> QED
    BY <2>1, <2>2, <2>4, <2>5
<1>8. ASSUME NEW t \in Task, NEW d \in Task, DependencyAdd(t, d)
      PROVE  TypeOK'
  BY <1>8 DEF DependencyAdd
<1>9. ASSUME NEW new \in SUBSET (Task \X Task), DependencyAddMany(new)
      PROVE  TypeOK'
  BY <1>9 DEF DependencyAddMany, ValidDependencyGraph
<1>10. ASSUME NEW t \in Task, NEW d \in Task, DependencyRemove(t, d)
       PROVE  TypeOK'
  BY <1>10 DEF DependencyRemove
<1>11. ASSUME NEW t \in Task, NEW D \in SUBSET Task, DependencySet(t, D)
       PROVE  TypeOK'
  BY <1>11 DEF DependencySet
<1>12. ASSUME NEW f \in Imports, Import(f)
       PROVE  TypeOK'
  <2>1. /\ tasks' = tasks \cup f.rows
        /\ archived' = (archived \ f.rows) \cup f.archived
        /\ lifecycle' = [t \in Task |-> IF t \in f.rows THEN f.lifecycle[t] ELSE lifecycle[t]]
        /\ parent' = [t \in Task |-> IF t \in f.rows THEN f.parent[t] ELSE parent[t]]
        /\ deps' \subseteq tasks' \X tasks'
        /\ \A t \in f.rows : parent'[t] # None => parent'[t] \in tasks'
    BY <1>12 DEF Import, ValidDependencyGraph
  <2>2. /\ f.rows \subseteq Task /\ f.archived \subseteq f.rows
        /\ f.lifecycle \in [f.rows -> Lifecycle] /\ f.parent \in [f.rows -> Task \cup {None}]
    BY ImportsAssumption
  <2>3. tasks' \subseteq Task /\ archived' \subseteq tasks'
    BY <2>1, <2>2
  <2>4. lifecycle' \in [Task -> Lifecycle] /\ parent' \in [Task -> Task \cup {None}]
    BY <2>1, <2>2
  <2>5. \A t \in Task : parent'[t] # None =>
          t \in tasks' /\ (Store # "memory" => parent'[t] \in tasks')
    BY <2>1
  <2> QED
    BY <2>1, <2>3, <2>4, <2>5
<1>13. CASE UNCHANGED vars
  BY <1>13 DEF vars
<1> QED
  BY <1>1, <1>2, <1>3, <1>4, <1>5, <1>6, <1>7, <1>8, <1>9, <1>10, <1>11, <1>12, <1>13
     DEF Next, TaskNext, DependencyNext, Batches

(* Type correctness; beyond the types it says that a dependency joins      *)
(* stored tasks and, except in the memory store, a parent link too.        *)
THEOREM TypeCorrect == Spec => []TypeOK
<1>1. Init => TypeOK
  BY DEF Init, TypeOK, Lifecycle
<1>2. TypeOK /\ [Next]_vars => TypeOK'
  BY TypeKept
<1> QED
  BY <1>1, <1>2, PTL DEF Spec

-----------------------------------------------------------------------------
(* Setting one task's parent to a task whose upward walk avoids it, or to  *)
(* none, keeps the links a forest.                                         *)
LEMMA ForestAfterSet ==
  ASSUME NEW par \in [Task -> Task \cup {None}], Acyclic(ParentLinks(par)),
         NEW t \in Task, NEW p \in Task \cup {None},
         p # None => ~ParentCycle(t, p, par)
  PROVE  Acyclic(ParentLinks([par EXCEPT ![t] = p]))
<1> DEFINE O == ParentLinks(par)
           N == ParentLinks([par EXCEPT ![t] = p])
           D == {p} \cap Task
           F == O \cup {<<t, d>> : d \in D}
<1>1. O \in SUBSET (Task \X Task) /\ F \in SUBSET (Task \X Task)
  BY DEF ParentLinks
<1>2. N \in SUBSET F
  BY IdsAssumption DEF ParentLinks
<1>3. Acyclic(F)
  <2>1. \A d \in D : t \notin Reach(O, d)
    BY IdsAssumption DEF ParentCycle
  <2> HIDE DEF D, O
  <2>2. D \in SUBSET Task
    BY DEF D
  <2> QED
    BY <2>1, <2>2, <1>1, AcyclicFan DEF O
<1> HIDE DEF F, N
<1> QED
  BY <1>1, <1>2, <1>3, AcyclicSubset DEF N

(* The import checks every row's walk over the merged links; a task that   *)
(* has no row after it has no link either.                                 *)
LEMMA ImportedForest ==
  ASSUME TypeOK, NEW f \in Imports, Import(f)
  PROVE  Acyclic(ParentLinks(parent'))
<1>1. /\ tasks' = tasks \cup f.rows
      /\ parent' = [t \in Task |-> IF t \in f.rows THEN f.parent[t] ELSE parent[t]]
      /\ \A t \in tasks' : parent'[t] # None => ~ParentCycle(t, parent'[t], parent')
  BY DEF Import
<1>2. \A t \in Task : parent'[t] # None => t \in tasks'
  BY <1>1 DEF TypeOK
<1> SUFFICES ASSUME NEW e \in ParentLinks(parent')
             PROVE  e[1] \notin Reach(ParentLinks(parent'), e[2])
  BY DEF Acyclic
<1>3. e[1] \in Task /\ e[2] \in Task /\ parent'[e[1]] = e[2] /\ e[2] # None
  BY IdsAssumption DEF ParentLinks
<1> QED
  BY <1>1, <1>2, <1>3 DEF ParentCycle

(* The parent links stay a forest whatever the backend does on delete:     *)
(* assertNoParentCycle walks the stored links, also those to deleted tasks.*)
THEOREM ParentForestInvariant == Spec => []ParentForest
<1>1. Init => ParentForest
  BY IdsAssumption DEF Init, ParentForest, Acyclic, ParentLinks
<1>2. TypeOK /\ ParentForest /\ [Next]_vars => ParentForest'
  <2> SUFFICES ASSUME TypeOK, ParentForest, [Next]_vars
               PROVE  ParentForest'
    OBVIOUS
  <2>0. parent \in [Task -> Task \cup {None}] /\ ParentLinks(parent) \in SUBSET (Task \X Task)
    BY DEF TypeOK, ParentLinks
  <2>1. ASSUME parent' = parent
        PROVE  ParentForest'
    BY <2>1 DEF ParentForest, Acyclic, Reach, ParentLinks, ClosedUnder
  <2>2. ASSUME NEW t \in Task, NEW p \in Task \cup {None},
               parent' = [parent EXCEPT ![t] = p],
               p # None => ~ParentCycle(t, p, parent)
        PROVE  ParentForest'
    BY <2>0, <2>2, ForestAfterSet DEF ParentForest
  <2>3. ASSUME NEW t \in Task, NEW p \in Task \cup {None}, NEW l \in Lifecycle,
               Add(t, p, l)
        PROVE  ParentForest'
    BY <2>2, <2>3 DEF Add
  <2>4. ASSUME NEW S \in SUBSET Task, NEW par \in [S -> Task \cup {None}],
               NEW life \in [S -> Lifecycle], AddMany(S, par, life)
        PROVE  ParentForest'
    <3>1. parent' = [t \in Task |-> IF t \in S THEN par[t] ELSE parent[t]]
      BY <2>4 DEF AddMany
    <3>2. \A t \in S : par[t] # None => ~ParentCycle(t, par[t], parent')
      BY <2>4, <3>1 DEF AddMany
    <3>3. parent' \in [Task -> Task \cup {None}]
      BY <3>1, <2>0
    <3>4. \A t \in Task \ S : parent'[t] = parent[t]
      BY <3>1
    <3>5. \A t \in S : parent'[t] # None => ~ParentCycle(t, parent'[t], parent')
      BY <3>1, <3>2
    <3> QED
      BY <2>0, <3>3, <3>4, <3>5, AcyclicBatch DEF ParentForest
  <2>5. ASSUME NEW t \in Task, NEW p \in Task \cup {None, Keep}, NEW l \in Lifecycle,
               Edit(t, p, l)
        PROVE  ParentForest'
    <3>1. CASE p = Keep
      <4>1. parent' = parent
        BY <2>0, <2>5, <3>1 DEF Edit
      <4> QED
        BY <4>1, <2>1
    <3>2. CASE p # Keep
      BY <2>2, <2>5, <3>2 DEF Edit
    <3> QED
      BY <3>1, <3>2
  <2>6. ASSUME NEW t \in Task, Delete(t)
        PROVE  ParentForest'
    <3>1. ParentLinks(parent') \in SUBSET ParentLinks(parent)
      BY <2>0, <2>6, IdsAssumption DEF Delete, ParentsAfterDelete, ParentLinks
    <3> QED
      BY <2>0, <3>1, AcyclicSubset DEF ParentForest
  <2>7. ASSUME NEW t \in Task, Release(t) \/ Archive(t) \/ Restore(t)
        PROVE  ParentForest'
    BY <2>1, <2>7 DEF Release, Archive, Restore
  <2>8. CASE DependencyNext
    BY <2>1, <2>8 DEF DependencyNext, DependencyAdd, DependencyRemove, DependencyAddMany, DependencySet
  <2>9. ASSUME NEW f \in Imports, Import(f)
        PROVE  ParentForest'
    BY <2>9, ImportedForest DEF ParentForest
  <2>10. CASE UNCHANGED vars
    BY <2>1, <2>10 DEF vars
  <2> QED
    BY <2>3, <2>4, <2>5, <2>6, <2>7, <2>8, <2>9, <2>10 DEF Next, TaskNext, Batches
<1> QED
  BY <1>1, <1>2, TypeCorrect, PTL DEF Spec

-----------------------------------------------------------------------------
(* The dependency graph stays acyclic under every mix of its three writers *)
(* and of hard deletes.                                                    *)
THEOREM DependencyDAGInvariant == Spec => []DependencyDAG
<1>1. Init => DependencyDAG
  BY DEF Init, DependencyDAG, Acyclic
<1>2. TypeOK /\ DependencyDAG /\ [Next]_vars => DependencyDAG'
  <2> SUFFICES ASSUME TypeOK, DependencyDAG, [Next]_vars
               PROVE  DependencyDAG'
    OBVIOUS
  <2>0. deps \in SUBSET (Task \X Task)
    BY DEF TypeOK
  <2>1. ASSUME deps' = deps
        PROVE  DependencyDAG'
    BY <2>1 DEF DependencyDAG, Acyclic, Reach, ClosedUnder
  <2>2. ASSUME deps' \in SUBSET deps
        PROVE  DependencyDAG'
    BY <2>0, <2>2, AcyclicSubset DEF DependencyDAG
  <2>3. ASSUME NEW t \in Task, NEW d \in Task, DependencyAdd(t, d)
        PROVE  DependencyDAG'
    <3>1. deps' = deps \cup {<<t, x>> : x \in {d}}
      BY <2>3 DEF DependencyAdd
    <3>2. \A x \in {d} : t \notin Reach(deps, x)
      BY <2>3 DEF DependencyAdd, DependencyCycle
    <3>3. Acyclic(deps \cup {<<t, x>> : x \in {d}})
      BY <2>0, <3>2, AcyclicFan DEF DependencyDAG
    <3> QED
      BY <3>1, <3>3 DEF DependencyDAG
  <2>4. ASSUME NEW new \in SUBSET (Task \X Task), DependencyAddMany(new)
        PROVE  DependencyDAG'
    BY <2>4 DEF DependencyAddMany, ValidDependencyGraph, DependencyDAG
  <2>5. ASSUME NEW t \in Task, NEW d \in Task, DependencyRemove(t, d)
        PROVE  DependencyDAG'
    BY <2>2, <2>5 DEF DependencyRemove
  <2>6. ASSUME NEW t \in Task, NEW D \in SUBSET Task, DependencySet(t, D)
        PROVE  DependencyDAG'
    <3> DEFINE others == {e \in deps : e[1] # t}
    <3>1. others \in SUBSET deps /\ others \in SUBSET (Task \X Task)
      BY <2>0
    <3>2. Acyclic(others)
      BY <2>0, <3>1, AcyclicSubset DEF DependencyDAG
    <3>3. \A d \in D : t \notin Reach(others, d)
      BY <2>6 DEF DependencySet, DependencyCycle
    <3>4. deps' = others \cup {<<t, d>> : d \in D}
      BY <2>6 DEF DependencySet
    <3> HIDE DEF others
    <3>5. Acyclic(others \cup {<<t, d>> : d \in D})
      BY <3>1, <3>2, <3>3, AcyclicFan
    <3> QED
      BY <3>4, <3>5 DEF DependencyDAG
  <2>7. ASSUME NEW t \in Task, Delete(t)
        PROVE  DependencyDAG'
    BY <2>2, <2>7 DEF Delete
  <2>8. ASSUME NEW t \in Task, Release(t) \/ Archive(t) \/ Restore(t)
        PROVE  DependencyDAG'
    BY <2>1, <2>8 DEF Release, Archive, Restore
  <2>9. ASSUME NEW t \in Task, NEW p, NEW l, Add(t, p, l) \/ Edit(t, p, l)
        PROVE  DependencyDAG'
    BY <2>1, <2>9 DEF Add, Edit
  <2>10. ASSUME NEW S, NEW par, NEW life, AddMany(S, par, life)
         PROVE  DependencyDAG'
    BY <2>1, <2>10 DEF AddMany
  <2>11. ASSUME NEW f \in Imports, Import(f)
         PROVE  DependencyDAG'
    BY <2>11 DEF Import, ValidDependencyGraph, DependencyDAG
  <2>12. CASE UNCHANGED vars
    BY <2>1, <2>12 DEF vars
  <2> QED
    BY <2>3, <2>4, <2>5, <2>6, <2>7, <2>8, <2>9, <2>10, <2>11, <2>12
       DEF Next, TaskNext, DependencyNext, Batches
<1> QED
  BY <1>1, <1>2, TypeCorrect, PTL DEF Spec

-----------------------------------------------------------------------------
(* A stored child is in its parent's scope. *)
LEMMA ChildInScope ==
  ASSUME NEW ts \in SUBSET Task, NEW par \in [Task -> Task \cup {None}],
         NEW t \in ts, NEW c \in ts, par[c] = t
  PROVE  c \in Descendants(ts, par, t)
<1>1. <<t, c>> \in ChildLinks(ts, par)
  BY DEF ChildLinks
<1>2. c \in Reach(ChildLinks(ts, par), c)
  BY ReachStart
<1> QED
  BY <1>1, <1>2 DEF Descendants, ReachBelow

(* No active unfinished task gets below a finished parent.  The memory     *)
(* store is left out: a child keeps its link to a deleted parent there,    *)
(* and a finished task added later under the same id becomes its parent.   *)
THEOREM FinishedParentsInvariant ==
  ASSUME Store # "memory"
  PROVE  Spec => []FinishedParentsClosed
<1>1. Init => FinishedParentsClosed
  BY DEF Init, FinishedParentsClosed, Unfinished
<1>2. TypeOK /\ FinishedParentsClosed /\ [Next]_vars => FinishedParentsClosed'
  <2> SUFFICES ASSUME TypeOK, FinishedParentsClosed, [Next]_vars
               PROVE  FinishedParentsClosed'
    OBVIOUS
  <2>0. /\ tasks \in SUBSET Task
        /\ lifecycle \in [Task -> Lifecycle]
        /\ parent \in [Task -> Task \cup {None}]
        /\ \A t \in Task : parent[t] # None => parent[t] \in tasks
        /\ None \notin tasks
    BY IdsAssumption DEF TypeOK
  <2> USE DEF FinishedParentsClosed, Unfinished
  <2>1. ASSUME NEW t \in Task, NEW p \in Task \cup {None}, NEW l \in Lifecycle,
               Add(t, p, l)
        PROVE  FinishedParentsClosed'
    BY <2>0, <2>1, IdsAssumption DEF Add, ParentTakesChild
  <2>2. ASSUME NEW S \in SUBSET Task, NEW par \in [S -> Task \cup {None}],
               NEW life \in [S -> Lifecycle], AddMany(S, par, life)
        PROVE  FinishedParentsClosed'
    <3> SUFFICES ASSUME NEW c \in Unfinished', parent'[c] \in tasks'
                 PROVE  lifecycle'[parent'[c]] # "finished"
      OBVIOUS
    <3>1. /\ tasks' = tasks \cup S /\ S \cap tasks = {} /\ archived' = archived
          /\ lifecycle' = [t \in Task |-> IF t \in S THEN life[t] ELSE lifecycle[t]]
          /\ parent' = [t \in Task |-> IF t \in S THEN par[t] ELSE parent[t]]
      BY <2>2 DEF AddMany
    <3>2. \A t \in S : par[t] # None => ParentTakesChild(par[t], life[t], lifecycle')
      BY <2>2, <3>1 DEF AddMany
    <3>3. c \in Task /\ parent'[c] \in Task /\ parent'[c] # None
      BY <2>0, <3>1, IdsAssumption
    <3>4. CASE c \in S
      BY <3>1, <3>2, <3>3, <3>4 DEF ParentTakesChild
    <3>5. CASE c \notin S
      BY <2>0, <3>1, <3>3, <3>5
    <3> QED
      BY <3>4, <3>5
  <2>3. ASSUME NEW t \in Task, NEW p \in Task \cup {None, Keep}, NEW l \in Lifecycle,
               Edit(t, p, l)
        PROVE  FinishedParentsClosed'
    <3> DEFINE q == IF p = Keep THEN parent[t] ELSE p
    <3> SUFFICES ASSUME NEW c \in Unfinished', parent'[c] \in tasks'
                 PROVE  lifecycle'[parent'[c]] # "finished"
      OBVIOUS
    <3>1. /\ t \in tasks /\ tasks' = tasks /\ archived' = archived
          /\ lifecycle' = [lifecycle EXCEPT ![t] = l]
          /\ parent' = [parent EXCEPT ![t] = q]
          /\ ParentTakesChild(q, l, lifecycle)
          /\ l = "finished" => ScopeFinished(t, tasks, lifecycle, archived, parent')
      BY <2>3 DEF Edit
    <3>2. q \in Task \cup {None} /\ parent' \in [Task -> Task \cup {None}]
      BY <2>0, <3>1
    <3> HIDE DEF q
    <3>3. CASE c = t
      BY <2>0, <3>1, <3>2, <3>3 DEF ParentTakesChild
    <3>4. CASE c # t /\ parent[c] = t
      <4>1. c \in tasks /\ c \notin archived /\ parent'[c] = t /\ lifecycle[c] # "finished"
        BY <2>0, <3>1, <3>4
      <4>2. c \in Descendants(tasks, parent', t)
        BY <2>0, <3>1, <3>2, <4>1, ChildInScope
      <4>3. l # "finished"
        BY <3>1, <4>1, <4>2 DEF ScopeFinished, Active
      <4> QED
        BY <2>0, <3>1, <4>1, <4>3
    <3>5. CASE c # t /\ parent[c] # t
      BY <2>0, <3>1, <3>5
    <3> QED
      BY <3>3, <3>4, <3>5
  <2>4. ASSUME NEW t \in Task, Release(t)
        PROVE  FinishedParentsClosed'
    BY <2>0, <2>4 DEF Release
  <2>5. ASSUME NEW t \in Task, Archive(t)
        PROVE  FinishedParentsClosed'
    BY <2>5 DEF Archive
  <2>6. ASSUME NEW t \in Task, Restore(t)
        PROVE  FinishedParentsClosed'
    <3> SUFFICES ASSUME NEW c \in Unfinished', parent'[c] \in tasks'
                 PROVE  lifecycle'[parent'[c]] # "finished"
      OBVIOUS
    <3>1. /\ tasks' = tasks /\ lifecycle' = lifecycle /\ parent' = parent
          /\ FinishedParentsValid(tasks, lifecycle, archived', parent)
      BY <2>6 DEF Restore
    <3>2. c \in Descendants(tasks, parent, parent[c])
      BY <2>0, <3>1, ChildInScope
    <3> QED
      BY <3>1, <3>2 DEF FinishedParentsValid, ScopeFinished, Active
  <2>7. ASSUME NEW t \in Task, Delete(t)
        PROVE  FinishedParentsClosed'
    BY <2>0, <2>7, IdsAssumption DEF Delete, ParentsAfterDelete
  <2>8. CASE DependencyNext
    BY <2>8 DEF DependencyNext, DependencyAdd, DependencyRemove, DependencyAddMany, DependencySet
  <2>9. ASSUME NEW f \in Imports, Import(f)
        PROVE  FinishedParentsClosed'
    <3> SUFFICES ASSUME NEW c \in Unfinished', parent'[c] \in tasks'
                 PROVE  lifecycle'[parent'[c]] # "finished"
      OBVIOUS
    <3>1. FinishedParentsValid(tasks', lifecycle', archived', parent')
      BY <2>9 DEF Import
    <3>2. tasks' \in SUBSET Task /\ parent' \in [Task -> Task \cup {None}]
      <4>1. TypeOK'
        BY <2>9, TypeKept DEF Next
      <4> QED
        BY <4>1 DEF TypeOK
    <3>3. c \in Descendants(tasks', parent', parent'[c])
      BY <3>2, ChildInScope
    <3> QED
      BY <3>1, <3>3 DEF FinishedParentsValid, ScopeFinished, Active
  <2>10. CASE UNCHANGED vars
    BY <2>10 DEF vars
  <2> QED
    BY <2>1, <2>2, <2>3, <2>4, <2>5, <2>6, <2>7, <2>8, <2>9, <2>10 DEF Next, TaskNext, Batches
<1> QED
  BY <1>1, <1>2, TypeCorrect, PTL DEF Spec

-----------------------------------------------------------------------------
(* Scopes.                                                                 *)

(* What lies below x is in any closed set that holds the children of x. *)
LEMMA BelowLeast ==
  ASSUME NEW E \in SUBSET (Task \X Task), NEW x, NEW S \in SUBSET Task, ClosedUnder(S, E),
         \A e \in E : e[1] = x => e[2] \in S
  PROVE  ReachBelow(E, x) \subseteq S
BY ReachLeast DEF ReachBelow

LEMMA BelowMonotone ==
  ASSUME NEW E \in SUBSET (Task \X Task), NEW F \in SUBSET E, NEW x
  PROVE  ReachBelow(F, x) \subseteq ReachBelow(E, x)
BY ReachMonotone DEF ReachBelow

LEMMA ChildLinksType ==
  ASSUME NEW ts \in SUBSET Task, NEW par
  PROVE  ChildLinks(ts, par) \in SUBSET (ts \X ts) /\ ChildLinks(ts, par) \in SUBSET (Task \X Task)
BY DEF ChildLinks

LEMMA ScopeStored ==
  ASSUME NEW ts \in SUBSET Task, NEW par, NEW t
  PROVE  Descendants(ts, par, t) \subseteq ts
<1>1. ClosedUnder(ts, ChildLinks(ts, par)) /\ \A e \in ChildLinks(ts, par) : e[2] \in ts
  BY ChildLinksType DEF ClosedUnder
<1> QED
  BY <1>1, BelowLeast, ChildLinksType DEF Descendants

(* New rows below stored ones bring no stored task into a stored scope. *)
LEMMA ScopeKept ==
  ASSUME NEW ts \in SUBSET Task, NEW par,
         NEW ts2 \in SUBSET Task, NEW par2, ts \subseteq ts2,
         \A k \in ts : par2[k] = par[k] /\ (par[k] \in Task => par[k] \in ts),
         NEW x \in ts
  PROVE  Descendants(ts2, par2, x) \cap ts \subseteq Descendants(ts, par, x)
<1> DEFINE E == ChildLinks(ts, par)
           E2 == ChildLinks(ts2, par2)
           U == ReachBelow(E, x) \cup (ts2 \ ts)
<1>1. E \in SUBSET (Task \X Task) /\ E2 \in SUBSET (Task \X Task)
  BY ChildLinksType
<1>2. \A e \in E2 : e[2] \in ts => e[1] \in ts /\ <<e[1], e[2]>> \in E
  BY DEF ChildLinks
<1>3. \A e \in E2 : e[2] \in ts2
  BY DEF ChildLinks
<1>4. \A e \in E2 : e[1] = x => e[2] \in U
  BY <1>1, <1>2, <1>3, ReachStart DEF ReachBelow
<1>5. ASSUME NEW e \in E2, e[1] \in U
      PROVE  e[2] \in U
  <2>1. CASE e[2] \notin ts
    BY <1>3, <2>1
  <2>2. CASE e[2] \in ts
    <3>1. e[1] \in ReachBelow(E, x) /\ <<e[1], e[2]>> \in E
      BY <1>2, <1>5, <2>2
    <3>2. PICK y \in Task : <<x, y>> \in E /\ e[1] \in Reach(E, y)
      BY <3>1 DEF ReachBelow
    <3>3. e[2] \in Reach(E, y)
      BY <1>1, <3>1, <3>2, ReachClosed DEF ClosedUnder
    <3> QED
      BY <1>1, <3>1, <3>2, <3>3 DEF ReachBelow
  <2> QED
    BY <2>1, <2>2
<1>6. U \in SUBSET Task
  BY DEF ReachBelow
<1>7. ReachBelow(E2, x) \subseteq U
  <2> HIDE DEF E2, U
  <2> QED
    BY <1>1, <1>4, <1>5, <1>6, BelowLeast DEF ClosedUnder
<1> QED
  BY <1>7 DEF Descendants

(* Finishing closes the scope, outside the memory store, where a stale     *)
(* link can put an open task below a task added as finished.               *)
THEOREM FinishingClosesScopeTheorem ==
  ASSUME Store # "memory"
  PROVE  Spec => FinishingClosesScope
<1>1. TypeOK /\ [Next]_vars => [ClosesScopes]_vars
  <2> SUFFICES ASSUME TypeOK, Next
               PROVE  ClosesScopes
    OBVIOUS
  <2>0. /\ tasks \in SUBSET Task
        /\ lifecycle \in [Task -> Lifecycle]
        /\ parent \in [Task -> Task \cup {None}]
        /\ \A t \in Task : parent[t] # None => parent[t] \in tasks
        /\ None \notin Task
    BY IdsAssumption DEF TypeOK
  <2>1. ASSUME \A t \in tasks' : t \in tasks /\ (lifecycle'[t] = "finished" => lifecycle[t] = "finished")
        PROVE  ClosesScopes
    BY <2>1 DEF ClosesScopes
  (* Added tasks: those of them that are finished are closed downwards. *)
  <2>2. ASSUME NEW S \in SUBSET Task, S \cap tasks = {}, tasks' = tasks \cup S,
               \A k \in tasks : parent'[k] = parent[k] /\ lifecycle'[k] = lifecycle[k],
               \A k \in S : parent'[k] \in Task => ParentTakesChild(parent'[k], lifecycle'[k], lifecycle')
        PROVE  ClosesScopes
    <3> SUFFICES ASSUME NEW t \in S, lifecycle'[t] = "finished"
                 PROVE  \A d \in Descendants(tasks', parent', t) : lifecycle'[d] = "finished"
      BY <2>2 DEF ClosesScopes
    <3> DEFINE F == {k \in S : lifecycle'[k] = "finished"}
               E == ChildLinks(tasks', parent')
    <3>1. \A e \in E : e[1] \in F => e[2] \in F
      <4> SUFFICES ASSUME NEW e \in E, e[1] \in F
                   PROVE  e[2] \in F
        OBVIOUS
      <4>1. e[2] \in tasks' /\ parent'[e[2]] = e[1] /\ e[1] \in S /\ lifecycle'[e[1]] = "finished"
        BY DEF ChildLinks
      <4>2. e[2] \in S
        BY <2>0, <2>2, <4>1
      <4> QED
        BY <2>0, <2>2, <4>1, <4>2 DEF ParentTakesChild
    <3>2. E \in SUBSET (Task \X Task)
      BY <2>0, <2>2, ChildLinksType
    <3>3. ReachBelow(E, t) \subseteq F
      <4>1. t \in F /\ F \in SUBSET Task
        OBVIOUS
      <4> HIDE DEF E, F
      <4> QED
        BY <3>1, <3>2, <4>1, BelowLeast DEF ClosedUnder
    <3> QED
      BY <3>3 DEF Descendants
  <2>3. ASSUME NEW t \in Task, NEW p \in Task \cup {None}, NEW l \in Lifecycle, Add(t, p, l)
        PROVE  ClosesScopes
    <3>1. /\ {t} \in SUBSET Task /\ {t} \cap tasks = {} /\ tasks' = tasks \cup {t}
          /\ \A k \in tasks : parent'[k] = parent[k] /\ lifecycle'[k] = lifecycle[k]
          /\ parent'[t] = p /\ lifecycle'[t] = l
          /\ p \in Task => p \in tasks /\ ParentTakesChild(p, l, lifecycle)
      BY <2>0, <2>3 DEF Add
    <3>2. p \in Task => ParentTakesChild(p, l, lifecycle')
      BY <3>1 DEF ParentTakesChild
    <3> QED
      BY <2>2, <3>1, <3>2
  <2>4. ASSUME NEW S \in SUBSET Task, NEW par \in [S -> Task \cup {None}],
               NEW life \in [S -> Lifecycle], AddMany(S, par, life)
        PROVE  ClosesScopes
    <3>1. /\ S \cap tasks = {} /\ tasks' = tasks \cup S
          /\ lifecycle' = [t \in Task |-> IF t \in S THEN life[t] ELSE lifecycle[t]]
          /\ parent' = [t \in Task |-> IF t \in S THEN par[t] ELSE parent[t]]
          /\ \A t \in S : par[t] # None => ParentTakesChild(par[t], life[t], lifecycle')
      BY <2>4 DEF AddMany
    <3>2. \A k \in tasks : parent'[k] = parent[k] /\ lifecycle'[k] = lifecycle[k]
      BY <2>0, <3>1
    <3>3. \A k \in S : parent'[k] \in Task => ParentTakesChild(parent'[k], lifecycle'[k], lifecycle')
      BY <2>0, <3>1
    <3> QED
      BY <2>2, <3>1, <3>2, <3>3
  <2>5. ASSUME NEW t \in Task, NEW p \in Task \cup {None, Keep}, NEW l \in Lifecycle, Edit(t, p, l)
        PROVE  ClosesScopes
    <3>1. /\ tasks' = tasks /\ archived' = archived /\ lifecycle' = [lifecycle EXCEPT ![t] = l]
          /\ l = "finished" => ScopeFinished(t, tasks, lifecycle, archived, parent')
      BY <2>5 DEF Edit
    <3> SUFFICES ASSUME NEW k \in tasks, lifecycle'[k] = "finished", lifecycle[k] # "finished",
                        NEW d \in Descendants(tasks, parent', k), d \notin archived
                 PROVE  lifecycle'[d] = "finished"
      BY <3>1 DEF ClosesScopes
    <3>2. k = t /\ l = "finished"
      BY <2>0, <3>1
    <3>3. d \in tasks
      BY <2>0, ScopeStored
    <3>4. lifecycle[d] = "finished"
      BY <3>1, <3>2, <3>3 DEF ScopeFinished, Active
    <3> QED
      BY <2>0, <3>1, <3>2, <3>3, <3>4
  <2>6. ASSUME NEW t \in Task, Release(t) \/ Archive(t) \/ Restore(t) \/ Delete(t)
        PROVE  ClosesScopes
    BY <2>0, <2>1, <2>6 DEF Release, Archive, Restore, Delete
  <2>7. CASE DependencyNext
    BY <2>1, <2>7 DEF DependencyNext, DependencyAdd, DependencyRemove, DependencyAddMany, DependencySet
  <2>8. ASSUME NEW f \in Imports, Import(f)
        PROVE  ClosesScopes
    <3>1. FinishedParentsValid(tasks', lifecycle', archived', parent')
      BY <2>8 DEF Import
    <3>2. tasks' \in SUBSET Task
      BY <2>0, <2>8, ImportsAssumption DEF Import
    <3>3. \A t \in tasks' : Descendants(tasks', parent', t) \subseteq tasks'
      BY <3>2, ScopeStored
    <3> QED
      BY <3>1, <3>3 DEF ClosesScopes, FinishedParentsValid, ScopeFinished, Active
  <2> QED
    BY <2>3, <2>4, <2>5, <2>6, <2>7, <2>8 DEF Next, TaskNext, Batches
<1> QED
  BY <1>1, TypeCorrect, PTL DEF Spec, FinishingClosesScope

-----------------------------------------------------------------------------
(* Overlaps.                                                               *)

(* Rows that stay in place do not come to overlap: new rows change no      *)
(* stored scope, and rows that go only shrink one.                         *)
LEMMA SameLineKept ==
  ASSUME NEW ts \in SUBSET Task, NEW par, NEW ts2 \in SUBSET Task, NEW par2,
         \/ /\ ts \subseteq ts2
            /\ \A k \in ts : par2[k] = par[k] /\ (par[k] \in Task => par[k] \in ts)
         \/ ts2 \subseteq ts /\ \A k \in ts2 : par2[k] = par[k],
         NEW x \in ts, NEW y \in ts, SameLine(x, y, ts2, par2)
  PROVE  SameLine(x, y, ts, par)
<1>1. ASSUME NEW a \in ts, NEW b \in ts, b \in Descendants(ts2, par2, a)
      PROVE  b \in Descendants(ts, par, a)
  <2>1. CASE ts \subseteq ts2 /\ \A k \in ts : par2[k] = par[k] /\ (par[k] \in Task => par[k] \in ts)
    BY <1>1, <2>1, ScopeKept
  <2>2. CASE ts2 \subseteq ts /\ \A k \in ts2 : par2[k] = par[k]
    <3>1. ChildLinks(ts2, par2) \subseteq ChildLinks(ts, par)
      BY <2>2 DEF ChildLinks
    <3> QED
      BY <1>1, <3>1, BelowMonotone, ChildLinksType DEF Descendants
  <2> QED
    BY <2>1, <2>2
<1> QED
  BY <1>1 DEF SameLine

(* Only a changed parent makes a dependency overlap with the hierarchy,    *)
(* outside the memory store, where a stale link can do it too.             *)
THEOREM OverlapTheorem ==
  ASSUME Store # "memory"
  PROVE  Spec => OverlapOnlyByReparenting
<1>1. TypeOK /\ [Next]_vars => [NoNewOverlap]_vars
  <2> SUFFICES ASSUME TypeOK, Next, \A t \in tasks \cap tasks' : parent'[t] = parent[t]
               PROVE  Overlaps' \subseteq Overlaps
    BY DEF NoNewOverlap
  <2>0. /\ tasks \in SUBSET Task
        /\ parent \in [Task -> Task \cup {None}]
        /\ deps \subseteq tasks \X tasks
        /\ \A t \in tasks : parent[t] \in Task => parent[t] \in tasks
    BY IdsAssumption DEF TypeOK
  <2>1. ASSUME tasks' \in SUBSET Task, tasks \subseteq tasks' \/ tasks' \subseteq tasks,
               deps' \subseteq deps
        PROVE  Overlaps' \subseteq Overlaps
    <3> SUFFICES ASSUME NEW e \in deps', SameLine(e[1], e[2], tasks', parent')
                 PROVE  SameLine(e[1], e[2], tasks, parent)
      BY <2>1 DEF Overlaps
    <3>1. e[1] \in tasks /\ e[2] \in tasks
      BY <2>0, <2>1
    <3>2. \/ tasks \subseteq tasks' /\ \A k \in tasks : parent'[k] = parent[k]
                                                      /\ (parent[k] \in Task => parent[k] \in tasks)
          \/ tasks' \subseteq tasks /\ \A k \in tasks' : parent'[k] = parent[k]
      BY <2>0, <2>1
    <3> QED
      BY <2>0, <2>1, <3>1, <3>2, SameLineKept
  <2>2. ASSUME NEW t \in Task, NEW p \in Task \cup {None}, NEW l \in Lifecycle, Add(t, p, l)
        PROVE  Overlaps' \subseteq Overlaps
    BY <2>0, <2>1, <2>2 DEF Add
  <2>3. ASSUME NEW S \in SUBSET Task, NEW par \in [S -> Task \cup {None}],
               NEW life \in [S -> Lifecycle], AddMany(S, par, life)
        PROVE  Overlaps' \subseteq Overlaps
    BY <2>0, <2>1, <2>3 DEF AddMany
  <2>4. ASSUME NEW t \in Task, NEW p \in Task \cup {None, Keep}, NEW l \in Lifecycle, Edit(t, p, l)
        PROVE  Overlaps' \subseteq Overlaps
    BY <2>0, <2>1, <2>4 DEF Edit
  <2>5. ASSUME NEW t \in Task, Release(t) \/ Archive(t) \/ Restore(t) \/ Delete(t)
        PROVE  Overlaps' \subseteq Overlaps
    BY <2>0, <2>1, <2>5 DEF Release, Archive, Restore, Delete
  <2>6. CASE DependencyNext
    <3> SUFFICES ASSUME NEW e \in deps', e \notin deps
                 PROVE  tasks' = tasks /\ parent' = parent /\ ~SameLine(e[1], e[2], tasks, parent)
      <4>1. tasks' = tasks /\ parent' = parent
        BY <2>6 DEF DependencyNext, DependencyAdd, DependencyRemove, DependencyAddMany, DependencySet
      <4> QED
        BY <4>1 DEF Overlaps
    <3>1. ASSUME NEW t \in Task, NEW d \in Task, DependencyAdd(t, d) \/ DependencyRemove(t, d)
          PROVE  tasks' = tasks /\ parent' = parent /\ ~SameLine(e[1], e[2], tasks, parent)
      BY <3>1 DEF DependencyAdd, DependencyRemove
    <3>2. ASSUME NEW new \in SUBSET (Task \X Task), DependencyAddMany(new)
          PROVE  tasks' = tasks /\ parent' = parent /\ ~SameLine(e[1], e[2], tasks, parent)
      BY <3>2 DEF DependencyAddMany, ValidDependencyGraph
    <3>3. ASSUME NEW t \in Task, NEW D \in SUBSET Task, DependencySet(t, D)
          PROVE  tasks' = tasks /\ parent' = parent /\ ~SameLine(e[1], e[2], tasks, parent)
      <4>1. tasks' = tasks /\ parent' = parent /\ (\A d \in D : ~SameLine(t, d, tasks, parent))
            /\ deps' = {x \in deps : x[1] # t} \cup {<<t, d>> : d \in D}
        BY <3>3 DEF DependencySet
      <4>2. PICK d \in D : e = <<t, d>>
        BY <4>1
      <4> QED
        BY <4>1, <4>2
    <3> QED
      BY <2>6, <3>1, <3>2, <3>3 DEF DependencyNext, Batches
  <2>7. ASSUME NEW f \in Imports, Import(f)
        PROVE  Overlaps' \subseteq Overlaps
    BY <2>7 DEF Import, ValidDependencyGraph, Overlaps
  <2> QED
    BY <2>2, <2>3, <2>4, <2>5, <2>6, <2>7 DEF Next, TaskNext, Batches
<1> QED
  BY <1>1, TypeCorrect, PTL DEF Spec, OverlapOnlyByReparenting

(* In an acyclic graph over finitely many tasks every set of tasks has one *)
(* with no edge into the set: one whose walk is minimal under inclusion.   *)
LEMMA AcyclicHasSink ==
  ASSUME IsFiniteSet(Task), NEW E \in SUBSET (Task \X Task), Acyclic(E),
         NEW S \in SUBSET Task, S # {}
  PROVE  \E x \in S : \A y \in S : <<x, y>> \notin E
<1> DEFINE walks == {Reach(E, x) : x \in S}
<1>1. walks \subseteq FiniteSubsetsOf(Task) /\ walks # {}
  BY ReachInTask, FS_Subset DEF FiniteSubsetsOf
<1>2. PICK w \in walks : \A v \in walks : <<v, w>> \notin StrictSubsetOrdering(Task)
  <2> HIDE DEF walks
  <2> QED
    BY <1>1, FS_StrictSubsetOrderingWellFounded, WFMin
<1>3. PICK x \in S : w = Reach(E, x)
  OBVIOUS
<1>4. ASSUME NEW y \in S, <<x, y>> \in E
      PROVE  FALSE
  <2>1. y \in Reach(E, x)
    BY <1>4, ReachStart, ReachClosed DEF ClosedUnder
  <2>2. Reach(E, y) \subseteq Reach(E, x)
    BY <2>1, ReachTransitive
  <2>3. x \in Reach(E, x) /\ x \notin Reach(E, y)
    BY <1>4, ReachStart DEF Acyclic
  <2>4. <<Reach(E, y), Reach(E, x)>> \in StrictSubsetOrdering(Task)
    BY <2>2, <2>3, ReachInTask DEF StrictSubsetOrdering
  <2> QED
    BY <1>2, <1>3, <2>4
<1> QED
  BY <1>4

(* The board is never stuck: while an unfinished active task remains, one   *)
(* of them waits for no other, however the dependencies were requested     *)
(* (services.ts, the cycle checks of DependencyService and TaskService).   *)
THEOREM SomeTaskUnblockedInvariant ==
  ASSUME IsFiniteSet(Task)
  PROVE  Spec => []SomeTaskUnblocked
<1>1. TypeOK /\ DependencyDAG => SomeTaskUnblocked
  <2> SUFFICES ASSUME TypeOK, DependencyDAG, Unfinished # {}
               PROVE  \E t \in Unfinished : ~Blocked(t)
    BY DEF SomeTaskUnblocked
  <2>1. Unfinished \in SUBSET Task /\ deps \in SUBSET (Task \X Task)
    BY DEF TypeOK, Unfinished
  <2>2. PICK t \in Unfinished : \A u \in Unfinished : <<t, u>> \notin deps
    BY <2>1, AcyclicHasSink DEF DependencyDAG
  <2>3. ASSUME Blocked(t)
        PROVE  FALSE
    <3>1. PICK e \in deps : e[1] = t /\ e[2] \notin archived /\ lifecycle[e[2]] # "finished"
      BY <2>3 DEF Blocked, ActiveDeps
    <3>2. e[2] \in Unfinished /\ e = <<t, e[2]>>
      BY <3>1 DEF TypeOK, Unfinished
    <3> QED
      BY <2>2, <3>1, <3>2
  <2> QED
    BY <2>3
<1> QED
  BY <1>1, TypeCorrect, DependencyDAGInvariant, PTL

=============================================================================
