------------------------------ MODULE TaskViews ------------------------------
(***************************************************************************)
(* What QueryService derives from the stored tasks when it lists them:     *)
(* projectSnapshot and graph.ts.  A world w is a stored state:             *)
(*                                                                         *)
(*   w.lifecycle, w.parent  columns of the tasks; the parent may be None   *)
(*   w.archived             the tasks whose archivedAt is set              *)
(*   w.deps                 <<t, d>>: task t depends on task d             *)
(*                                                                         *)
(* The code's memo and visiting sets only spare it work where there is no  *)
(* cycle; the write side keeps dependencies and parents without (TaskGraph,*)
(* DependencyDAG and ParentForest).                                        *)
(***************************************************************************)
EXTENDS FiniteSets, Integers

CONSTANTS Task, None

ASSUME TaskAssumption == IsFiniteSet(Task) /\ None \notin Task

-----------------------------------------------------------------------------
(* Walks and paths. *)

MaxOf(S) == CHOOSE m \in S : \A n \in S : n <= m
MinOf(S) == CHOOSE m \in S : \A n \in S : m <= n

(* n steps along E that meet no task twice. *)
IsPath(E, p, n) ==
  /\ \A i \in 1..n : <<p[i - 1], p[i]>> \in E
  /\ \A i, j \in 0..n : p[i] = p[j] => i = j

PathLengths(E, s, x) ==
  {n \in 1..(Cardinality(Task) - 1) :
     \E p \in [0..n -> Task] : p[0] = s /\ p[n] = x /\ IsPath(E, p, n)}

Reachable(E, s) == {x \in Task : PathLengths(E, s, x) # {}}

Acyclic(E) == \A e \in E : e[1] # e[2] /\ e[1] \notin Reachable(E, e[2])

-----------------------------------------------------------------------------
(* projectSnapshot. *)

Active(w) == Task \ w.archived

Unfinished(w) == {t \in Task : w.lifecycle[t] # "finished"}

ActiveDependencies(w) == {e \in w.deps : e[1] \in Active(w) /\ e[2] \in Active(w)}

(* Faulty: looks at every stored dependency, an archived one included. *)
BlockedByArchived(w, t) ==
  t \in Unfinished(w) /\ \E d \in Unfinished(w) : <<t, d>> \in w.deps

Blocked(w, t) ==
  t \in Unfinished(w) /\ \E d \in Unfinished(w) : <<t, d>> \in ActiveDependencies(w)

Ready(w, t) == w.lifecycle[t] = "open" /\ ~Blocked(w, t) /\ t \in Active(w)

ComputedStatus(w, t) ==
  IF t \in w.archived THEN "archived"
  ELSE IF w.lifecycle[t] # "open" THEN w.lifecycle[t]
  ELSE IF Blocked(w, t) THEN "blocked" ELSE "ready"

(* computeDepths, over the active tasks. *)
DependencyDepth(w) ==
  LET depth[t \in Task] ==
        MaxOf({0} \cup {1 + depth[e[2]] : e \in {e \in ActiveDependencies(w) : e[1] = t}})
  IN depth

(* Faulty: no dependent of a dependent is counted. *)
DirectDependents(w) ==
  [t \in Task |-> {u \in Active(w) \cap Unfinished(w) : <<u, t>> \in ActiveDependencies(w)}]

(* computeTransitiveDependents, over the active tasks that are not         *)
(* finished.                                                               *)
TransitiveDependents(w) ==
  LET open == Active(w) \cap Unfinished(w)
      below[t \in Task] ==
        LET direct == {u \in open : <<u, t>> \in ActiveDependencies(w)}
        IN direct \cup UNION {below[u] : u \in direct}
  IN below

-----------------------------------------------------------------------------
(* computeHierarchyRollups: active children of active parents. *)

ActiveChildren(w, t) == {c \in Active(w) : t \in Active(w) /\ w.parent[c] = t}

SumOver(S, f) ==
  LET total[R \in SUBSET S] ==
        IF R = {} THEN 0 ELSE LET x == CHOOSE y \in R : TRUE IN f[x] + total[R \ {x}]
  IN total[S]

(* Faulty: a child that has children of its own counts as a leaf too. *)
LeafOrChild(w, c, below) == 1 + below.leaves

LeavesOf(w, c, below) == IF ActiveChildren(w, c) = {} THEN 1 ELSE below.leaves

FinishedLeavesOf(w, c, below) ==
  IF ActiveChildren(w, c) # {} THEN below.finishedLeaves
  ELSE IF ComputedStatus(w, c) = "finished" THEN 1 ELSE 0

CountedAs(w, c, status) == IF ComputedStatus(w, c) = status THEN 1 ELSE 0

Rollups(w) ==
  LET rollup[t \in Task] ==
        LET kids == ActiveChildren(w, t)
            Tally(status) == SumOver(kids, [c \in kids |-> CountedAs(w, c, status) + rollup[c][status]])
        IN [descendants    |-> SumOver(kids, [c \in kids |-> 1 + rollup[c].descendants]),
            leaves         |-> SumOver(kids, [c \in kids |-> LeavesOf(w, c, rollup[c])]),
            finishedLeaves |-> SumOver(kids, [c \in kids |-> FinishedLeavesOf(w, c, rollup[c])]),
            ready          |-> Tally("ready"),
            blocked        |-> Tally("blocked"),
            started        |-> Tally("started"),
            finished       |-> Tally("finished")]
  IN rollup

(* computeRollupStatus *)
RollupStatus(w, t) ==
  IF ActiveChildren(w, t) = {} THEN "leaf"
  ELSE IF Rollups(w)[t].descendants - Rollups(w)[t].finished > 0 THEN "blocked-by-children" ELSE "complete"

=============================================================================
