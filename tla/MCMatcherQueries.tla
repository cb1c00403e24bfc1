--------------------------- MODULE MCMatcherQueries ---------------------------
(* Instances of MatcherQueries for TLC. *)
EXTENDS MatcherQueries, TLC

(* Two families of worlds.  In the first, any acyclic dependencies and any *)
(* forest, at most one task finished and one archived.  In the second one  *)
(* task has columns of every kind and the others have none.                *)

Forests == {p \in [Task -> Task \cup {None}] : Acyclic({<<t, p[t]>> : t \in {t \in Task : p[t] # None}})}

Dags == {D \in SUBSET (Task \X Task) : Acyclic(D)}

AtMostOne == {{}} \cup {{t} : t \in Task}

Blank == [t \in Task |-> None]
Nobody == [t \in Task |-> {}]

GraphWorlds ==
  {[lifecycle |-> [t \in Task |-> IF t \in done THEN "finished" ELSE "open"],
    archived |-> gone, parent |-> p, deps |-> D,
    tags |-> Nobody, track |-> Blank, source |-> Blank, started |-> Blank, authors |-> Nobody] :
      done \in AtMostOne, gone \in AtMostOne, p \in Forests, D \in Dags}

Red  == [id |-> "tag-1", name |-> "red", archived |-> FALSE]
Blue == [id |-> "tag-2", name |-> "blue", archived |-> FALSE]
Gold == [id |-> "tag-3", name |-> "gold", archived |-> TRUE]

Track(archived) == [actor |-> "agent", ref |-> "host:agent", archived |-> archived]

Put(t, empty, value) == [u \in Task |-> IF u = t THEN value ELSE empty]

RowWorlds ==
  {[lifecycle |-> Put(t, "open", l), archived |-> {}, parent |-> Put(t, None, IF p = t THEN None ELSE p), deps |-> {},
    tags |-> Put(t, {}, g), track |-> Put(t, None, k), source |-> Put(t, None, s[1]),
    started |-> Put(t, None, s[2]), authors |-> Put(t, {}, a)] :
      t \in Task, l \in {"open", "finished"}, p \in {None} \cup Task,
      g \in {{}, {Red}, {Red, Blue}, {Gold}}, k \in {None, Track(FALSE), Track(TRUE)},
      s \in {<<None, None>>, <<"doc", 1>>, <<"doc", 3>>}, a \in {{}, {"host:agent"}}}

(* Queries of one node, and queries with one more. *)
Field(f, op, values) == <<[type |-> "field", field |-> f, op |-> op, values |-> values]>>
Time(op, from, to)   == <<[type |-> "time", op |-> op, start |-> from, end |-> to]>>
Not(q)    == Append(q, [type |-> "not", node |-> Len(q)])
Both(type, p, one) == p \o one \o <<[type |-> type, nodes |-> {Len(p), Len(p) + 1}]>>
And(p, one) == Both("and", p, one)
Or(p, one)  == Both("or", p, one)

Graph(verb, target, depth, count) ==
  <<[type |-> "graph", verb |-> verb, target |-> target, depth |-> depth, count |-> count]>>
Rule(op, value) == [op |-> op, value |-> value]
Under(t) == <<[type |-> "hierarchy", target |-> t]>>

Verbs == {"depends on", "unblocks"}

Walked == {Under(t) : t \in Task}
  \cup {Graph(v, t, d, None) : v \in Verbs, t \in Task,
                              d \in {None, Rule("<=", 1), Rule("=", 2), Rule(">=", 2)}}
  \cup {Graph(v, None, None, Rule(">", n)) : v \in Verbs, n \in {0, 1}}

GraphQueries == Walked \cup {Not(q) : q \in Walked} \cup {Field("status", "=", {s}) : s \in {"blocked", "ready"}}

Tested ==
  {Field("tag", op, {x}) : op \in {"=", "!="}, x \in {"tag-1", "red", "gold"}}
  \cup {Field("assigned", op, {x}) : op \in {"=", "!="}, x \in {"agent", "host:agent", "other"}}
  \cup {Field(f, op, {"doc", "other"}) : f \in {"tag", "source doc", "actor"}, op \in {"in", "not in"}}
  \cup {Field("lifecycle", "!=", {"open"}), Field("parent", "=", {"root"}),
        Field("source doc", "!=", {"doc"}), Field("comments", ">", {0}),
        Field("comments", "in", {1, 2, 3}), Field("comments", "not in", {0}), Field("actor", "<", {"other"}),
        Field("tag", "<=", {"red"}),
        <<[type |-> "comment", author |-> "host:agent"]>>}
  \cup {Time(op, 1, None) : op \in {"is empty", "is not empty", "=", ">", "<="}}
  \cup {Time(op, 1, 2) : op \in {"=", "!="}}

Combined == {Field("tag", "=", {"red"}), Time(">", 1, None), Field("source doc", "=", {"doc"})}

RowQueries == Tested \cup {Not(q) : q \in Tested}
  \cup {And(p, q) : p, q \in Combined} \cup {Or(Not(p), q) : p, q \in Combined}

MCInstances == <<[worlds |-> GraphWorlds, queries |-> GraphQueries],
                [worlds |-> RowWorlds, queries |-> RowQueries]>>

Symmetry == Permutations(Task)

=============================================================================
