---------------------------- MODULE MatcherQueries ----------------------------
(***************************************************************************)
(* Listing the tasks that match a query, in three ways.  Without a native  *)
(* matcher QueryService evaluates the query itself (matcher-query.ts);     *)
(* Postgres gets it as SQL (postgres-matcher.ts), Prism as a fragment over *)
(* the surfaces of app.ts (matcher-fragment.ts).  The first is the meaning *)
(* the other two are to keep.                                              *)
(*                                                                         *)
(* A query is the tree the parser builds, as the sequence of its nodes:    *)
(* the operands of a node come before it, the root is last.  Texts are     *)
(* names, already in one case; times are numbers.  Beside the columns of   *)
(* TaskViews, a world says for each task                                   *)
(*                                                                         *)
(*   w.tags       its tags, records of an id, a name and archived          *)
(*   w.track      the track whose queue it is in (actor, ref = machine:    *)
(*                actor, archived), or None                                *)
(*   w.source     sourceDoc, or None                                       *)
(*   w.started    startedAt, or None                                       *)
(*   w.authors    who commented, one comment each                          *)
(*                                                                         *)
(* The filters of a request are includeFinished only.                      *)
(***************************************************************************)
EXTENDS TaskViews, Sequences

CONSTANT
  Instances \* sequence of stored states and the queries asked of them

TextField == {"id", "tag", "assigned", "actor", "status", "lifecycle", "parent", "source doc"}

Connectives == {"and", "or", "not"}

Leaves(q) == {i \in DOMAIN q : q[i].type \notin Connectives}

(* The columns of a stored state that the derivations follow. *)
IsWorld(w) ==
  /\ w.lifecycle \in [Task -> {"open", "started", "finished"}] /\ w.archived \subseteq Task
  /\ w.deps \subseteq Task \X Task /\ Acyclic(w.deps)
  /\ w.parent \in [Task -> Task \cup {None}]
  /\ Acyclic({e \in Task \X Task : w.parent[e[2]] = e[1]})

Comparisons == {"=", "!=", "<", "<=", ">", ">="}

(* The queries considered: trees the parser builds.  It compares any field by any operator. *)
IsQuery(q) ==
  /\ Len(q) \in Nat \ {0} /\ DOMAIN q = 1..Len(q)
  /\ \A i \in DOMAIN q : LET n == q[i] IN
       /\ n.type \in Connectives \cup {"field", "time", "comment", "graph", "hierarchy"}
       /\ n.type \in {"and", "or"} => n.nodes \subseteq 1..(i - 1)
       /\ n.type = "not" => n.node \in 1..(i - 1)
       /\ n.type = "field" =>
            /\ n.field \in TextField \cup {"comments"} /\ None \notin n.values
            /\ n.op \in Comparisons \cup {"in", "not in"}
            /\ n.op \in Comparisons => \E x \in n.values : n.values = {x}
       /\ n.type = "graph" => (n.depth # None => n.depth.value \in Int)

ASSUME RootAssumption == "root" \notin Task
ASSUME InstancesAssumption == \A i \in DOMAIN Instances :
  /\ \A w \in Instances[i].worlds : IsWorld(w)
  /\ \A q \in Instances[i].queries : IsQuery(q)

VARIABLES
  instance, world, \* the stored state, of Instances[instance]
  query,           \* the query asked, None before
  includeFinished,
  listed           \* the ids each way answers with, None for an error

vars == <<instance, world, query, includeFinished, listed>>

Ways == {"service", "postgres", "prism"}

Holds(op, a, b) ==
  CASE op \in {"=", "in"} -> a = b [] op = "!=" -> a # b
    [] op = ">"  -> a > b [] op = ">=" -> a >= b
    [] op = "<"  -> a < b [] op = "<=" -> a <= b

(* compareTime: a day is a start and an end, an instant has no end. *)
TimeHolds(q, at) ==
  CASE q.end # None /\ q.op = "="  -> at >= q.start /\ at < q.end
    [] q.end # None /\ q.op = "!=" -> at < q.start \/ at >= q.end
    [] OTHER -> Holds(q.op, at, q.start)

(* applyFilters *)
Kept(w, finished) == {t \in Active(w) : finished \/ t \in Unfinished(w)}

-----------------------------------------------------------------------------
(* Edges that the three ways walk.                                         *)

ParentEdges(w, T) == {e \in T \X T : w.parent[e[2]] = e[1]}

(* buildEffectiveGraph: tasks wait for their dependencies and children.    *)
EffectiveEdges(w, T) == {e \in w.deps : e[1] \in T /\ e[2] \in T} \cup ParentEdges(w, T)

(* Upward steps from tasks of T, to a parent that need not be in T. *)
Climbs(w, T) == {<<c, w.parent[c]>> : c \in {c \in T : w.parent[c] # None}}

Lengths(E, q, t) ==
  IF q.verb = "depends on" THEN PathLengths(E, t, q.target) ELSE PathLengths(E, q.target, t)

Counted(E, q, t) ==
  IF q.verb = "depends on" THEN Cardinality(Reachable(E, t))
  ELSE Cardinality({u \in Task : t \in Reachable(E, u)})

(* The depth rule is on the shortest walk (reachableWithDepth). *)
ShortestHolds(E, q, t) ==
  LET lengths == Lengths(E, q, t)
  IN lengths # {} /\ (q.depth # None => Holds(q.depth.op, MinOf(lengths), q.depth.value))

-----------------------------------------------------------------------------
(* matchMatcherQuery over the views that passed the filters.               *)

TagTexts(w, t) == UNION {{g.id, g.name} : g \in {g \in w.tags[t] : ~g.archived}}

FieldValues(w, t, field) ==
  CASE field = "id"         -> {t}
    [] field = "tag"        -> TagTexts(w, t)
    [] field = "assigned"   -> IF w.track[t] = None THEN {} ELSE {w.track[t].ref, w.track[t].actor}
    [] field = "actor"      -> IF w.track[t] = None THEN {} ELSE {w.track[t].actor}
    [] field = "status"     -> {ComputedStatus(w, t)}
    [] field = "lifecycle"  -> {w.lifecycle[t]}
    [] field = "parent"     -> {IF w.parent[t] = None THEN "root" ELSE w.parent[t]}
    [] field = "source doc" -> {w.source[t]} \ {None}
    [] field = "comments"   -> {Cardinality(w.authors[t])}

(* Of a text that is asked to be less or greater. *)
OrdersText(q) == q.field \in TextField /\ q.op \in Comparisons \ {"=", "!="}

(* compareAny: texts have no order. *)
FieldMatches(w, q, t) ==
  LET held == FieldValues(w, t, q.field)
  IN IF q.op = "not in" THEN held \cap q.values = {}
     ELSE ~OrdersText(q) /\ \E v \in held, x \in q.values : Holds(q.op, v, x)

TimeMatches(w, q, t) ==
  CASE q.op = "is empty"     -> w.started[t] = None
    [] q.op = "is not empty" -> w.started[t] # None
    [] OTHER -> w.started[t] # None /\ TimeHolds(q, w.started[t])

GraphMatches(E, q, t) ==
  IF q.target # None THEN ShortestHolds(E, q, t)
  ELSE Holds(q.count.op, Counted(E, q, t), q.count.value)

Matches(w, q, t, seen) ==
  CASE q.type = "field"   -> FieldMatches(w, q, t)
    [] q.type = "time"    -> TimeMatches(w, q, t)
    [] q.type = "comment" -> q.author \in w.authors[t]
    [] q.type = "graph"   -> GraphMatches(EffectiveEdges(w, seen), q, t)
    [] q.type = "hierarchy" -> t # q.target /\ q.target \in Reachable(Climbs(w, seen), t)

(* A query over what its leaves say. *)
Evaluate(q, leaf) ==
  LET matched[i \in DOMAIN q] ==
        CASE q[i].type = "and" -> \A j \in q[i].nodes : matched[j]
          [] q[i].type = "or"  -> \E j \in q[i].nodes : matched[j]
          [] q[i].type = "not" -> ~matched[q[i].node]
          [] OTHER -> leaf[i]
  IN  matched[Len(q)]

ServiceList(w, q, finished) ==
  LET seen == Kept(w, finished)
  IN  {t \in seen : Evaluate(q, [i \in Leaves(q) |-> Matches(w, q[i], t, seen)])}

-----------------------------------------------------------------------------
(* lowerPostgresMatcherTaskIds: SQL has a third truth value.               *)

Truth(b) == IF b THEN "true" ELSE "false"

SqlNot(v) == CASE v = "true" -> "false" [] v = "false" -> "true" [] OTHER -> "null"

SqlAnd(vs) == IF "false" \in vs THEN "false" ELSE IF "null" \in vs THEN "null" ELSE "true"

SqlOr(vs) == IF "true" \in vs THEN "true" ELSE IF "null" \in vs THEN "null" ELSE "false"

(* computedStatusSql *)
SqlStatus(w, t) ==
  CASE t \in w.archived -> "archived"
    [] t \notin w.archived /\ w.lifecycle[t] # "open" -> w.lifecycle[t]
    [] OTHER -> IF \E d \in Active(w) \cap Unfinished(w) : <<t, d>> \in w.deps THEN "blocked" ELSE "ready"

Column(value, x) == IF value = None THEN "null" ELSE Truth(value = x)

FieldEquals(w, field, x, t) ==
  CASE field = "tag" -> Truth(x \in TagTexts(w, t))
    [] field \in {"assigned", "actor"} ->
         Truth(w.track[t] # None /\ ~w.track[t].archived /\ x \in FieldValues(w, t, field))
    [] field = "status"     -> Truth(x = SqlStatus(w, t))
    [] field = "parent"     -> IF x = "root" THEN Truth(w.parent[t] = None) ELSE Column(w.parent[t], x)
    [] field = "source doc" -> Column(w.source[t], x)
    [] OTHER -> Truth(x \in FieldValues(w, t, field))

(* Fields that are compared in a way that is an error: a text in an order  *)
(* (lowerField), the number of comments with a list (compareNumeric).      *)
Untranslatable(n) ==
  /\ n.type = "field"
  /\ OrdersText(n) \/ (n.field = "comments" /\ n.op \in {"in", "not in"})

SqlField(w, q, t) ==
  LET equals == SqlOr({FieldEquals(w, q.field, x, t) : x \in q.values})
  IN CASE q.field = "comments" -> Truth(FieldMatches(w, q, t))
       [] q.field # "comments" /\ q.op \in {"=", "in"} -> equals
       [] OTHER -> SqlNot(equals)

SqlTime(w, q, t) ==
  IF q.op \notin {"is empty", "is not empty"} /\ w.started[t] = None THEN "null"
  ELSE Truth(TimeMatches(w, q, t))

(* Faulty: no task waits for its children. *)
SqlDependencies(w, q, t) ==
  LET E == ActiveDependencies(w)
  IN IF q.target = None THEN Truth(GraphMatches(E, q, t)) ELSE Truth(ShortestHolds(E, q, t))

(* Any walk without a repeated task counts for the depth rule. *)
SqlGraph(w, q, t) ==
  LET E == EffectiveEdges(w, Active(w))
  IN IF q.target = None THEN Truth(GraphMatches(E, q, t))
     ELSE Truth(\E n \in Lengths(E, q, t) : q.depth # None => Holds(q.depth.op, n, q.depth.value))

SqlLeaf(w, q, t) ==
  CASE q.type = "field"   -> SqlField(w, q, t)
    [] q.type = "time"    -> SqlTime(w, q, t)
    [] q.type = "comment" -> Truth(q.author \in w.authors[t])
    [] q.type = "graph"   -> SqlGraph(w, q, t)
    [] q.type = "hierarchy" -> Truth(q.target \in Reachable(Climbs(w, Active(w)), t))

Sql(q, leaf) ==
  LET value[i \in DOMAIN q] ==
        CASE q[i].type = "and" -> SqlAnd({value[j] : j \in q[i].nodes})
          [] q[i].type = "or"  -> SqlOr({value[j] : j \in q[i].nodes})
          [] q[i].type = "not" -> SqlNot(value[q[i].node])
          [] OTHER -> leaf[i]
  IN  value[Len(q)]

(* The whole query is translated before it is asked, and nothing answers in its place. *)
PostgresList(w, q, finished) ==
  IF \E i \in DOMAIN q : Untranslatable(q[i]) THEN None
  ELSE {t \in Kept(w, finished) : Sql(q, [i \in Leaves(q) |-> SqlLeaf(w, q[i], t)]) = "true"}

-----------------------------------------------------------------------------
(* lowerMatcherQueryToPrismFragment: surfaces know nothing of archives     *)
(* except the task's own, and a closure also holds walks that return.      *)

AllEdges(w) == EffectiveEdges(w, Task)

(* Faulty: a missing start time counts as the beginning of time. *)
FragmentTimeOrZero(w, q, t) == TimeMatches([w EXCEPT !.started[t] = IF @ = None THEN 0 ELSE @], q, t)

FragmentTime(w, q, t) == TimeMatches(w, q, t)

ClosureLengths(E, a, b) ==
  PathLengths(E, a, b) \cup
    (IF a # b THEN {} ELSE {n + 1 : n \in UNION {PathLengths(E, e[2], a) : e \in {e \in E : e[1] = a}}})

FragmentTag(w, q, t) ==
  LET named == {g \in w.tags[t] : {g.id, g.name} \cap q.values # {}}
  IN CASE q.op = "not in" -> named = {}
       [] q.op = "!="     -> w.tags[t] \ named # {}
       [] OTHER           -> named # {}

(* taskReadModel.computed_status, over unfinishedDirectDependencySummary. *)
FragmentStatus(w, t) ==
  CASE t \in w.archived -> "archived"
    [] t \notin w.archived /\ w.lifecycle[t] # "open" -> w.lifecycle[t]
    [] OTHER -> IF {e \in w.deps : e[1] = t /\ e[2] \in Unfinished(w) \ w.archived} # {} THEN "blocked" ELSE "ready"

FragmentField(w, q, t) ==
  LET held == IF q.field = "status" THEN {FragmentStatus(w, t)} ELSE FieldValues(w, t, q.field)
      equal == held \cap q.values # {}
  IN CASE q.field = "tag"      -> FragmentTag(w, q, t)
       [] q.field = "comments" -> FieldMatches(w, q, t)
       [] OTHER -> \/ (q.op \in {"=", "in"} /\ equal)
                   \/ (q.op = "not in" /\ ~equal)
                   \/ (q.op = "!=" /\ held # {} /\ ~equal)

FragmentGraph(w, q, t) ==
  LET between(a, b) == IF q.verb = "depends on" THEN ClosureLengths(AllEdges(w), a, b)
                       ELSE ClosureLengths(AllEdges(w), b, a)
  IN IF q.target = None
     THEN Holds(q.count.op, Cardinality({u \in Task : between(t, u) # {}}), q.count.value)
     ELSE /\ between(t, q.target) # {}
          /\ q.depth # None => Holds(q.depth.op, MinOf(between(t, q.target)), q.depth.value)

Fragment(w, q, t) ==
  CASE q.type = "field"   -> FragmentField(w, q, t)
    [] q.type = "time"    -> FragmentTime(w, q, t)
    [] q.type = "comment" -> q.author \in w.authors[t]
    [] q.type = "graph"   -> FragmentGraph(w, q, t)
    [] q.type = "hierarchy" -> q.target \in Reachable(Climbs(w, Task), t)

(* Its connectives are those of the service. *)
PrismList(w, q, finished) ==
  {t \in Kept(w, finished) : Evaluate(q, [i \in Leaves(q) |-> Fragment(w, q[i], t)])}

-----------------------------------------------------------------------------

Init ==
  /\ instance \in DOMAIN Instances
  /\ world \in Instances[instance].worlds
  /\ query = None
  /\ includeFinished = FALSE
  /\ listed = [way \in Ways |-> {}]

(* QueryService.list with a where, over each of the stores. *)
List(q, finished) ==
  /\ query = None
  /\ query' = q
  /\ includeFinished' = finished
  /\ listed' = [service  |-> ServiceList(world, q, finished),
                postgres |-> PostgresList(world, q, finished),
                prism    |-> PrismList(world, q, finished)]
  /\ UNCHANGED <<instance, world>>

Next == query = None /\ \E q \in Instances[instance].queries, finished \in BOOLEAN : List(q, finished)

Spec == Init /\ [][Next]_vars

-----------------------------------------------------------------------------
(* Properties. *)

Walks(q) == \E i \in DOMAIN q : q[i].type \in {"graph", "hierarchy"}

Operands(n) == CASE n.type \in {"and", "or"} -> n.nodes [] n.type = "not" -> {n.node} [] OTHER -> {}

(* Node i and what it is built from. *)
Within(q, i) ==
  {j \in 1..i : \A S \in SUBSET (1..i) : i \in S /\ (\A k \in S : Operands(q[k]) \subseteq S) => j \in S}

(* Whether a missing value can reach the condition of a node. *)
Nullable(n) ==
  \/ n.type = "time" /\ n.op \notin {"is empty", "is not empty"}
  \/ n.type = "field" /\ n.field \in {"parent", "source doc"}

(* Queries that mean the same in SQL.                                      *)
PlainInSql(q) == \A i \in DOMAIN q : LET n == q[i] IN
  /\ n.type = "not" => \A j \in Within(q, n.node) : ~Nullable(q[j])
  /\ ~Untranslatable(n)
  /\ n.type = "field" /\ n.op = "!=" => n.field \in {"id", "status", "lifecycle", "comments"}
  /\ n.type = "field" /\ n.op = "not in" => ~Nullable(n)
  /\ n.type = "graph" => (n.depth # None => n.depth.op \in {"<", "<="})

(* Queries that mean the same in a fragment. *)
PlainInPrism(q) == \A i \in DOMAIN q : LET n == q[i] IN
  n.type = "field" => n.field # "parent" /\ (n.op = "!=" => n.field # "assigned")
    /\ (n.field = "tag" => n.op \in {"=", "in", "not in"})

AssignedArchived(w) == \E t \in Task : w.track[t] # None /\ w.track[t].archived

NothingArchived(w) ==
  /\ w.archived = {} /\ ~AssignedArchived(w)
  /\ \A t \in Task : \A g \in w.tags[t] : ~g.archived

Agree(way) == listed[way] = listed["service"]

(* What Postgres lists is what the service would: for queries that it can  *)
(* translate, without negation of what may be missing and with upper depth *)
(* bounds, when finished tasks are asked for or no walk could meet one,    *)
(* and no assignment is to an archived track.                              *)
PostgresAgrees ==
  query # None /\ PlainInSql(query) /\ (includeFinished \/ ~Walks(query)) /\ ~AssignedArchived(world)
    => Agree("postgres")

(* What Prism lists is what the service would, negation and every depth    *)
(* rule included, while nothing is archived and nobody waits for itself.   *)
PrismAgrees ==
  /\ query # None /\ PlainInPrism(query) /\ (includeFinished \/ ~Walks(query))
  /\ NothingArchived(world) /\ \A t \in Task : ClosureLengths(AllEdges(world), t, t) = {}
  => Agree("prism")

(* Depths and dependents in a listing are those of the active, and the     *)
(* active unfinished, part of the dependency graph: no number goes through *)
(* an archived or finished task.                                           *)
DerivationsSound ==
  LET E == ActiveDependencies(world)
      open == Active(world) \cap Unfinished(world)
      O == {e \in E : e[1] \in open /\ e[2] \in open}
  IN query = None =>
     /\ \A t \in Active(world) : DependencyDepth(world)[t] = MaxOf({0} \cup UNION {PathLengths(E, t, x) : x \in Task})
     /\ \A t \in open : TransitiveDependents(world)[t] = {u \in Task : t \in Reachable(O, u)}

(* Rollups count each active descendant that is reached through active     *)
(* tasks once, in exactly one status, and the tasks without active         *)
(* children as leaves.                                                     *)
RollupsSound ==
  query = None => \A t \in Active(world) :
    LET below == Reachable(ParentEdges(world, Active(world)), t)
        With(status) == Cardinality({c \in below : ComputedStatus(world, c) = status})
        leaves == {c \in below : ActiveChildren(world, c) = {}}
        r == Rollups(world)[t]
    IN /\ r.descendants = Cardinality(below)
       /\ r.leaves = Cardinality(leaves)
       /\ r.finishedLeaves = Cardinality({c \in leaves : world.lifecycle[c] = "finished"})
       /\ <<r.ready, r.blocked, r.started, r.finished>> = <<With("ready"), With("blocked"), With("started"), With("finished")>>
       /\ RollupStatus(world, t) = "complete" <=> below # {} /\ With("finished") = Cardinality(below)

=============================================================================
