------------------------------ MODULE TaskGraph ------------------------------
(***************************************************************************)
(* The task store of one project as the write side of packages/core sees   *)
(* it: TaskService, DependencyService and the JSON import (services.ts)    *)
(* over graph.ts.                                                          *)
(* Every action is one service method run to completion inside one store   *)
(* transaction; a method that throws leaves the store as it was, so a      *)
(* refused request is no step.  Interleaved transactions are the subject   *)
(* of TaskTransactions.                                                    *)
(*                                                                         *)
(* Titles, sources, priorities, timestamps, versions and the activity log  *)
(* are left out: no rule of these two services reads them.                 *)
(***************************************************************************)
EXTENDS FiniteSets, Naturals

CONSTANTS
  Task,      \* the task ids of the project
  None,      \* "parentTaskId: null"
  Keep,      \* an edit request that carries no parentTaskId
  Store,     \* the storage backend, which decides what a hard delete does
  MaxBatch,  \* bound: the largest batch of a bulk request
  Imports    \* the files a JSON import may be asked to read

ASSUME IdsAssumption      == None \notin Task /\ Keep \notin Task /\ None # Keep
ASSUME StoreAssumption    == Store \in {"memory", "sqlite", "postgres"}
ASSUME MaxBatchAssumption == MaxBatch \in Nat

Lifecycle == {"open", "started", "finished"}

ASSUME ImportsAssumption ==
  \A f \in Imports :
    /\ f.rows \subseteq Task /\ f.archived \subseteq f.rows /\ f.deps \subseteq Task \X Task
    /\ f.lifecycle \in [f.rows -> Lifecycle] /\ f.parent \in [f.rows -> Task \cup {None}]

VARIABLES
  tasks,      \* ids with a row in the tasks table
  lifecycle,  \* the lifecycle column
  archived,   \* ids whose archivedAt is set
  parent,     \* the parentTaskId column, None when null
  deps        \* <<t, d>>: task t depends on task d

vars == <<tasks, lifecycle, archived, parent, deps>>

-----------------------------------------------------------------------------
(* Graph walks.  The code keeps a stack and a visited set; what it visits  *)
(* is the least set that holds the start and is closed under the edges.    *)

ClosedUnder(S, E) == \A e \in E : e[1] \in S => e[2] \in S

(* Everything a walk along E from x visits, x included. *)
Reach(E, x) ==
  {y \in Task : \A S \in SUBSET Task : x \in S /\ ClosedUnder(S, E) => y \in S}

(* Everything at least one edge away from x. *)
ReachBelow(E, x) == {z \in Task : \E y \in Task : <<x, y>> \in E /\ z \in Reach(E, y)}

Acyclic(E) == \A e \in E : e[1] \notin Reach(E, e[2])

(* The parent column as edges child -> parent, whether or not the parent   *)
(* still has a row: assertNoParentCycle follows the stored value.          *)
ParentLinks(par) == {e \in Task \X Task : par[e[1]] = e[2]}

(* buildHierarchyIndexes: edges parent -> child, missing parents read as null. *)
ChildLinks(ts, par) == {e \in ts \X ts : par[e[2]] = e[1]}

Descendants(ts, par, t) == ReachBelow(ChildLinks(ts, par), t)

-----------------------------------------------------------------------------
(* Validation helpers of services.ts and graph.ts.  A definition whose     *)
(* comment says "faulty" is one of them with a bug put in: the properties  *)
(* must notice when it stands in for the right one.                        *)

(* assertNoParentCycle: walking up from the new parent p meets t.  The     *)
(* code's second test, a walk that meets one task twice, needs a stored    *)
(* cycle; ParentForest says there is none.                                 *)
ParentCycle(t, p, par) == t \in Reach(ParentLinks(par), p)

(* assertNoCycle: t is met walking on from d, d itself included.  The      *)
(* stores' hasDependencyPath starts behind d; there a task that depends on *)
(* itself is refused by the table's CHECK.                                 *)
DependencyCycle(t, d, E) == t \in Reach(E, d)

(* assertNoHierarchyDependency: one of the two contains the other. *)
SameLine(t, d, ts, par) ==
  \/ d \in Descendants(ts, par, t)
  \/ t \in Descendants(ts, par, d)

(* Faulty: validateDependencyGraph without its cycle test. *)
ValidWithoutCycleCheck(ts, par, E) ==
  /\ E \subseteq ts \X ts
  /\ \A e \in E : e[1] # e[2] /\ ~SameLine(e[1], e[2], ts, par)

(* Faulty: validateDependencyGraph without its hierarchy test. *)
ValidWithoutHierarchyCheck(ts, par, E) == E \subseteq ts \X ts /\ Acyclic(E)

(* validateDependencyGraph *)
ValidDependencyGraph(ts, par, E) ==
  /\ E \subseteq ts \X ts
  /\ Acyclic(E)
  /\ \A e \in E : ~SameLine(e[1], e[2], ts, par)

(* ensureFinishedParentDoesNotContainUnfinishedChild, for a child of       *)
(* lifecycle l under parent p: only the direct parent is looked at.        *)
ParentTakesChild(p, l, life) == p # None => ~(life[p] = "finished" /\ l # "finished")

Active(ts, arch) == ts \ arch

(* Faulty: only the children count. *)
ChildrenFinished(t, ts, life, arch, par) ==
  \A c \in Active(ts, arch) : par[c] = t => life[c] = "finished"

(* ensureTaskCanBeFinished: every active descendant, at any depth and also *)
(* below archived tasks, is finished.                                      *)
ScopeFinished(t, ts, life, arch, par) ==
  \A d \in Descendants(ts, par, t) \cap Active(ts, arch) : life[d] = "finished"

(* Faulty: the check left out. *)
NoFinishedParentCheck(ts, life, arch, par) == TRUE

(* validateFinishedParents, over the whole project. *)
FinishedParentsValid(ts, life, arch, par) ==
  \A t \in ts : life[t] = "finished" => ScopeFinished(t, ts, life, arch, par)

-----------------------------------------------------------------------------
Init ==
  /\ tasks = {}
  /\ lifecycle = [t \in Task |-> "open"]
  /\ archived = {}
  /\ parent = [t \in Task |-> None]
  /\ deps = {}

(* TaskService.add: ensureParentTask and the finished-parent rule apply to *)
(* a named parent only.                                                    *)
Add(t, p, l) ==
  /\ t \notin tasks
  /\ p # None => p \in tasks \ archived /\ ~ParentCycle(t, p, parent)
  /\ ParentTakesChild(p, l, lifecycle)
  /\ tasks' = tasks \cup {t}
  /\ lifecycle' = [lifecycle EXCEPT ![t] = l]
  /\ parent' = [parent EXCEPT ![t] = p]
  /\ UNCHANGED <<archived, deps>>

(* Faulty: the batch is checked against the stored tasks only. *)
AddManyChecksStoredParents(S, par, life) ==
  LET allPar  == [t \in Task |-> IF t \in S THEN par[t] ELSE parent[t]]
      allLife == [t \in Task |-> IF t \in S THEN life[t] ELSE lifecycle[t]]
  IN /\ S # {} /\ S \cap tasks = {}
     /\ \A t \in S : par[t] # None =>
          /\ par[t] \in (tasks \cup S) \ archived
          /\ ~ParentCycle(t, par[t], parent)
          /\ ParentTakesChild(par[t], life[t], lifecycle)
     /\ tasks' = tasks \cup S
     /\ lifecycle' = allLife
     /\ parent' = allPar
     /\ UNCHANGED <<archived, deps>>

(* TaskService.addMany: ids S with parents par and lifecycles life.  A     *)
(* parent may be another task of the batch, and the cycle walk runs over   *)
(* the stored tasks and the batch together.                                *)
AddMany(S, par, life) ==
  LET allPar  == [t \in Task |-> IF t \in S THEN par[t] ELSE parent[t]]
      allLife == [t \in Task |-> IF t \in S THEN life[t] ELSE lifecycle[t]]
  IN /\ S # {} /\ S \cap tasks = {}
     /\ \A t \in S : par[t] # None =>
          /\ par[t] \in (tasks \cup S) \ archived
          /\ ~ParentCycle(t, par[t], allPar)
          /\ ParentTakesChild(par[t], life[t], allLife)
     /\ tasks' = tasks \cup S
     /\ lifecycle' = allLife
     /\ parent' = allPar
     /\ UNCHANGED <<archived, deps>>

(* TaskService.edit (and start, finish, reopen): p is the requested parent *)
(* or Keep, l the requested lifecycle.  A named parent goes through        *)
(* ensureParentTask; a kept one must still have a row.  Dependencies are   *)
(* not looked at.                                                          *)
Edit(t, p, l) ==
  LET q   == IF p = Keep THEN parent[t] ELSE p
      par == [parent EXCEPT ![t] = q]
  IN /\ t \in tasks
     /\ p \in Task => p \in tasks \ archived /\ ~ParentCycle(t, p, parent)
     /\ q # None => q \in tasks
     /\ ParentTakesChild(q, l, lifecycle)
     /\ l = "finished" => ScopeFinished(t, tasks, lifecycle, archived, par)
     /\ lifecycle' = [lifecycle EXCEPT ![t] = l]
     /\ parent' = par
     /\ UNCHANGED <<tasks, archived, deps>>

(* TaskService.release *)
Release(t) ==
  /\ t \in tasks \ archived
  /\ lifecycle[t] = "started"
  /\ lifecycle' = [lifecycle EXCEPT ![t] = "open"]
  /\ UNCHANGED <<tasks, archived, parent, deps>>

(* TaskService.archive: children and dependents are not looked at. *)
Archive(t) ==
  /\ t \in tasks
  /\ archived' = archived \cup {t}
  /\ UNCHANGED <<tasks, lifecycle, parent, deps>>

(* TaskService.restore: a missing parent row does not stop it. *)
Restore(t) ==
  /\ t \in archived
  /\ parent[t] \notin archived
  /\ FinishedParentsValid(tasks, lifecycle, archived \ {t}, parent)
  /\ archived' = archived \ {t}
  /\ UNCHANGED <<tasks, lifecycle, parent, deps>>

(* repos.tasks.delete.  Postgres detaches the children first; the memory   *)
(* store leaves their parentTaskId as it is; in SQLite the composite       *)
(* foreign key's ON DELETE SET NULL would null the NOT NULL project_id of  *)
(* a child too, so the statement fails when there is one.                  *)
Children(t) == {c \in tasks : parent[c] = t}

DeleteAccepted(t) == Store = "sqlite" => Children(t) = {}

(* Faulty: the children are not detached. *)
ParentsKeptOnDelete(t) == [c \in Task |-> IF c = t THEN None ELSE parent[c]]

ParentsAfterDelete(t) ==
  [c \in Task |-> IF c = t \/ (Store # "memory" /\ parent[c] = t)
                  THEN None ELSE parent[c]]

(* TaskService.delete: refused while another task depends on t. *)
Delete(t) ==
  /\ t \in tasks
  /\ \A e \in deps : e[2] # t
  /\ DeleteAccepted(t)
  /\ tasks' = tasks \ {t}
  /\ archived' = archived \ {t}
  /\ lifecycle' = [lifecycle EXCEPT ![t] = "open"]
  /\ parent' = ParentsAfterDelete(t)
  /\ deps' = {e \in deps : e[1] # t}

-----------------------------------------------------------------------------
(* DependencyService.add *)
DependencyAdd(t, d) ==
  /\ t \in tasks \ archived /\ d \in tasks \ archived
  /\ <<t, d>> \notin deps
  /\ ~DependencyCycle(t, d, deps)
  /\ ~SameLine(t, d, tasks, parent)
  /\ deps' = deps \cup {<<t, d>>}
  /\ UNCHANGED <<tasks, lifecycle, archived, parent>>

(* DependencyService.addMany: only the edges not stored yet are checked    *)
(* for archived ends, the whole resulting graph is validated.              *)
DependencyAddMany(new) ==
  LET candidates == new \ deps
  IN /\ candidates # {}
     /\ \A e \in candidates : e[1] \in tasks \ archived /\ e[2] \in tasks \ archived
     /\ ValidDependencyGraph(tasks, parent, deps \cup candidates)
     /\ deps' = deps \cup candidates
     /\ UNCHANGED <<tasks, lifecycle, archived, parent>>

(* DependencyService.remove *)
DependencyRemove(t, d) ==
  /\ deps' = deps \ {<<t, d>>}
  /\ UNCHANGED <<tasks, lifecycle, archived, parent>>

(* Faulty: the walks start from the edges of t itself. *)
DependencySetWalksOwnEdges(t, D) ==
  /\ t \in tasks
  /\ D \subseteq tasks \ archived
  /\ \A d \in D : ~DependencyCycle(t, d, {e \in deps : e[1] = t})
  /\ \A d \in D : ~SameLine(t, d, tasks, parent)
  /\ deps' = {e \in deps : e[1] # t} \cup {<<t, d>> : d \in D}
  /\ UNCHANGED <<tasks, lifecycle, archived, parent>>

(* DependencyService.set: the edges of t become t -> D.  The new edges are *)
(* walked against the other tasks' edges; those of t pushed so far cannot  *)
(* add to a walk that stops at t.                                          *)
DependencySet(t, D) ==
  LET others == {e \in deps : e[1] # t}
  IN /\ t \in tasks
     /\ D \subseteq tasks \ archived
     /\ \A d \in D : ~DependencyCycle(t, d, others) /\ ~SameLine(t, d, tasks, parent)
     /\ deps' = others \cup {<<t, d>> : d \in D}
     /\ UNCHANGED <<tasks, lifecycle, archived, parent>>

-----------------------------------------------------------------------------
(* ImportService.json: the rows of the file replace or join the stored     *)
(* ones and its dependencies join the stored ones, in one transaction.     *)
(* The rules are checked on the merged project as a whole; archived ends   *)
(* and archived parents are taken.                                         *)
Import(f) ==
  LET ts   == tasks \cup f.rows
      life == [t \in Task |-> IF t \in f.rows THEN f.lifecycle[t] ELSE lifecycle[t]]
      par  == [t \in Task |-> IF t \in f.rows THEN f.parent[t] ELSE parent[t]]
      arch == (archived \ f.rows) \cup f.archived
  IN /\ \A t \in f.rows : par[t] # None => par[t] \in ts
     /\ \A t \in ts : par[t] # None => ~ParentCycle(t, par[t], par)
     /\ FinishedParentsValid(ts, life, arch, par)
     /\ ValidDependencyGraph(ts, par, deps \cup f.deps)
     /\ tasks' = ts
     /\ lifecycle' = life
     /\ parent' = par
     /\ archived' = arch
     /\ deps' = deps \cup f.deps

-----------------------------------------------------------------------------
Batches(S) == {B \in SUBSET S : B # {} /\ Cardinality(B) <= MaxBatch}

TaskNext ==
  \/ \E t \in Task, p \in Task \cup {None}, l \in Lifecycle : Add(t, p, l)
  \/ \E S \in Batches(Task) :
       \E par \in [S -> Task \cup {None}], life \in [S -> Lifecycle] :
         AddMany(S, par, life)
  \/ \E t \in Task, p \in Task \cup {None, Keep}, l \in Lifecycle : Edit(t, p, l)
  \/ \E t \in Task : Release(t) \/ Archive(t) \/ Restore(t) \/ Delete(t)

DependencyNext ==
  \/ \E t, d \in Task : DependencyAdd(t, d) \/ DependencyRemove(t, d)
  \/ \E new \in Batches(Task \X Task) : DependencyAddMany(new)
  \/ \E t \in Task, D \in SUBSET Task : DependencySet(t, D)

Next == TaskNext \/ DependencyNext \/ \E f \in Imports : Import(f)

Spec == Init /\ [][Next]_vars

-----------------------------------------------------------------------------
(* What QueryService derives for a reader (projectSnapshot).               *)

ActiveDeps == {e \in deps : e[1] \notin archived /\ e[2] \notin archived}

Unfinished == {t \in tasks \ archived : lifecycle[t] # "finished"}

Blocked(t) ==
  /\ lifecycle[t] # "finished"
  /\ \E e \in ActiveDeps : e[1] = t /\ lifecycle[e[2]] # "finished"

Overlaps == {e \in deps : SameLine(e[1], e[2], tasks, parent)}

-----------------------------------------------------------------------------
TypeOK ==
  /\ tasks \subseteq Task
  /\ lifecycle \in [Task -> Lifecycle]
  /\ archived \subseteq tasks
  /\ parent \in [Task -> Task \cup {None}]
  /\ deps \subseteq tasks \X tasks
  /\ \A t \in Task : parent[t] # None =>
       t \in tasks /\ (Store # "memory" => parent[t] \in tasks)

(* Parent links form a forest, through every add, batch, reparent and hard *)
(* delete, also where the memory store leaves links to deleted tasks that  *)
(* a later add may bring back (assertNoParentCycle).                       *)
ParentForest == Acyclic(ParentLinks(parent))

(* The dependency graph has no cycle, whatever mix of add, addMany and set *)
(* built it (assertNoCycle, validateDependencyGraph).                      *)
DependencyDAG == Acyclic(deps)

(* No active unfinished task sits directly under a finished parent, though *)
(* finish, reopen, reparent, archive and restore each check it differently *)
(* (ensureFinishedParentDoesNotContainUnfinishedChild and its relatives).  *)
FinishedParentsClosed ==
  \A c \in Unfinished : parent[c] \in tasks => lifecycle[parent[c]] # "finished"

(* Dependencies alone never make everybody wait on everybody: while work   *)
(* is left, some active task is not blocked, with blocked as the reader    *)
(* computes it from active edges only (projectSnapshot).                   *)
SomeTaskUnblocked == Unfinished # {} => \E t \in Unfinished : ~Blocked(t)

(* The step creates no overlap, unless it changes the parent of a task it  *)
(* finds and leaves in place.                                              *)
NoNewOverlap ==
  (\A t \in tasks \cap tasks' : parent'[t] = parent[t]) => Overlaps' \subseteq Overlaps

(* A dependency inside one hierarchy line can only come from moving a      *)
(* task: no add, batch, set, archive, restore or delete creates one.       *)
OverlapOnlyByReparenting == [][NoNewOverlap]_vars

(* Whatever the step finishes has its active scope finished. *)
ClosesScopes ==
  \A t \in tasks' :
    lifecycle'[t] = "finished" /\ (t \in tasks => lifecycle[t] # "finished")
      => \A d \in Descendants(tasks', parent', t) \ archived' : lifecycle'[d] = "finished"

(* A task becomes finished only with its whole active scope finished, at   *)
(* every depth, through edit as well as through batches of finished tasks  *)
(* (ensureTaskCanBeFinished, addMany).                                     *)
FinishingClosesScope == [][ClosesScopes]_vars

=============================================================================
