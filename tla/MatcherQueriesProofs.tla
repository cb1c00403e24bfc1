------------------------ MODULE MatcherQueriesProofs ------------------------
(***************************************************************************)
(* Theorems of MatcherQueries, for any finite set of tasks, any stored     *)
(* states whose dependencies and parents have no cycle, and any queries:   *)
(* that the three ways of listing agree where they should, and that the    *)
(* derived depths, dependents and rollups are those of the stored graph.   *)
(***************************************************************************)
EXTENDS MatcherQueries, FiniteSetTheorems, WellFoundedInduction, TLAPS

(***************************************************************************)
(* Numbers.                                                                *)
(***************************************************************************)

(* Some natural numbers have a least one. *)
LEMMA LeastNumber ==
  ASSUME NEW I \in SUBSET Nat, I # {}
  PROVE  \E m \in I : \A k \in I : m <= k
<1> DEFINE R == OpToRel(<, Nat)
<1>1. \E m \in I : \A k \in I : ~(<<k, m>> \in R)
  BY NatLessThanWellFounded, WFMin
<1>2. R = {ss \in Nat \X Nat : ss[1] < ss[2]}
  BY Zenon DEF OpToRel
<1> HIDE DEF R
<1>3. PICK m \in I : \A k \in I : <<k, m>> \notin R
  BY <1>1
<1>4. \A k \in I : m <= k
  <2>1. SUFFICES ASSUME NEW k \in I, ~(m <= k) PROVE FALSE
    OBVIOUS
  <2>2. k \in Nat /\ m \in Nat /\ k < m
    BY <2>1
  <2>3. <<k, m>> \in R
    BY <1>2, <2>2
  <2> QED
    BY <1>3, <2>3
<1> QED
  BY <1>4

(* MinOf is the least member of a set of natural numbers.                  *)
LEMMA MinOfIsLeast ==
  ASSUME NEW I \in SUBSET Nat, I # {}
  PROVE  MinOf(I) \in I /\ \A k \in I : MinOf(I) <= k
BY LeastNumber, Zenon DEF MinOf

(* MaxOf is the greatest member of a bounded set of natural numbers.       *)
LEMMA MaxOfIsGreatest ==
  ASSUME NEW I \in SUBSET Nat, I # {}, NEW b \in Nat, \A k \in I : k <= b
  PROVE  MaxOf(I) \in I /\ \A k \in I : k <= MaxOf(I)
<1> DEFINE J == {n \in Nat : \A k \in I : k <= n}
<1>1. J # {}
  OBVIOUS
<1>2. PICK m \in J : \A n \in J : m <= n
  <2> HIDE DEF J
  <2>1. J \in SUBSET Nat
    BY DEF J
  <2> QED
    BY <1>1, <2>1, LeastNumber
<1>3. m \in I
  <2>1. SUFFICES ASSUME m \notin I PROVE FALSE
    OBVIOUS
  <2>2. PICK k \in I : TRUE
    OBVIOUS
  <2>3. \A i \in I : i < m
    BY <2>1
  <2>4. m - 1 \in J
    BY <2>2, <2>3
  <2> QED
    BY <1>2, <2>4
<1>4. \E n \in I : \A k \in I : k <= n
  BY <1>3
<1> QED
  BY <1>4, Zenon DEF MaxOf

(***************************************************************************)
(* Paths.                                                                  *)
(***************************************************************************)

(* Path p, of n steps, in the tasks. *)
Leads(E, p, n, s, x) == p \in [0..n -> Task] /\ p[0] = s /\ p[n] = x /\ IsPath(E, p, n)

(* A set of edges between tasks. *)
Edges(E) == E \subseteq Task \X Task

(* A path meets no task twice, so it is shorter than there are tasks. *)
LEMMA PathIsShort ==
  ASSUME NEW E, NEW n \in Nat, NEW p \in [0..n -> Task], IsPath(E, p, n)
  PROVE  Cardinality(Task) \in Nat /\ n <= Cardinality(Task) - 1
<1>1. p \in Injection(0..n, Task)
  BY DEF IsPath, Injection, IsInjective
<1>2. Cardinality(0..n) <= Cardinality(Task)
  BY <1>1, TaskAssumption, FS_Injection
<1>3. Cardinality(0..n) = n + 1
  BY FS_Interval, 0 \in Int, n \in Int
<1>4. Cardinality(Task) \in Nat
  BY TaskAssumption, FS_CardinalityType
<1> QED
  BY <1>2, <1>3, <1>4

(* The lengths of paths are those of the paths there are. *)
LEMMA LengthsOfPaths ==
  ASSUME NEW E, NEW s, NEW x, NEW n
  PROVE  n \in PathLengths(E, s, x) <=> n \in Nat \ {0} /\ \E p : Leads(E, p, n, s, x)
<1>1. ASSUME n \in PathLengths(E, s, x)
      PROVE  n \in Nat \ {0} /\ \E p : Leads(E, p, n, s, x)
  <2>1. n \in Nat \ {0}
    BY <1>1, TaskAssumption, FS_CardinalityType DEF PathLengths
  <2> QED
    BY <1>1, <2>1, Zenon DEF PathLengths, Leads
<1>2. ASSUME n \in Nat \ {0}, NEW p, Leads(E, p, n, s, x)
      PROVE  n \in PathLengths(E, s, x)
  <2>1. n \in 1..(Cardinality(Task) - 1)
    BY <1>2, PathIsShort DEF Leads
  <2> QED
    BY <1>2, <2>1, Zenon DEF PathLengths, Leads
<1> QED
  BY <1>1, <1>2

(* They are natural numbers, below the number of tasks. *)
LEMMA LengthsBounded ==
  ASSUME NEW E, NEW s, NEW x
  PROVE  /\ Cardinality(Task) \in Nat
         /\ PathLengths(E, s, x) \subseteq Nat
         /\ \A n \in PathLengths(E, s, x) : 1 <= n /\ n <= Cardinality(Task)
BY TaskAssumption, FS_CardinalityType DEF PathLengths

(* No path returns. *)
LEMMA NoPathReturns ==
  ASSUME NEW E, NEW s
  PROVE  PathLengths(E, s, s) = {}
<1>1. SUFFICES ASSUME NEW n \in PathLengths(E, s, s) PROVE FALSE
  OBVIOUS
<1>2. PICK p : Leads(E, p, n, s, s)
  BY <1>1, LengthsOfPaths
<1>3. n \in Nat \ {0}
  BY <1>1, LengthsOfPaths
<1>4. 0 \in 0..n /\ n \in 0..n /\ p[0] = p[n]
  BY <1>2, <1>3 DEF Leads
<1> QED
  BY <1>2, <1>3, <1>4 DEF Leads, IsPath

LEMMA NotReachableFromSelf ==
  ASSUME NEW E, NEW s
  PROVE  s \notin Reachable(E, s)
BY NoPathReturns DEF Reachable

(* An edge to another task is a path. *)
LEMMA EdgeIsPath ==
  ASSUME NEW E, NEW s \in Task, NEW x \in Task, <<s, x>> \in E, s # x
  PROVE  1 \in PathLengths(E, s, x)
<1> DEFINE p == [i \in 0..1 |-> IF i = 0 THEN s ELSE x]
<1>1. p \in [0..1 -> Task] /\ p[0] = s /\ p[1] = x
  OBVIOUS
<1>2. IsPath(E, p, 1)
  BY <1>1 DEF IsPath
<1>3. Leads(E, p, 1, s, x)
  BY <1>1, <1>2 DEF Leads
<1> QED
  BY <1>3, LengthsOfPaths

(* The tasks on a path are reached from where it starts. *)
LEMMA MetIsReached ==
  ASSUME NEW E, NEW s, NEW x, NEW n \in Nat, NEW p, Leads(E, p, n, s, x), NEW k \in 1..n
  PROVE  p[k] \in Reachable(E, s)
<1> DEFINE r == [i \in 0..k |-> p[i]]
<1>1. r \in [0..k -> Task] /\ r[0] = s /\ r[k] = p[k]
  BY DEF Leads
<1>2. IsPath(E, r, k)
  <2>1. \A i \in 0..k : i \in 0..n /\ r[i] = p[i]
    OBVIOUS
  <2>2. \A i \in 1..k : i \in 1..n /\ i \in 0..k /\ i - 1 \in 0..k
    OBVIOUS
  <2> HIDE DEF r
  <2> QED
    BY <2>1, <2>2 DEF IsPath, Leads
<1>3. Leads(E, r, k, s, p[k])
  BY <1>1, <1>2 DEF Leads
<1>4. k \in PathLengths(E, s, p[k]) /\ p[k] \in Task
  BY <1>3, LengthsOfPaths, <1>1
<1> QED
  BY <1>4 DEF Reachable

(* A step before a path is a path, unless it meets where it came from. *)
LEMMA StepBeforePath ==
  ASSUME NEW E, NEW s \in Task, NEW d \in Task, NEW x, <<s, d>> \in E, s # d, s \notin Reachable(E, d),
         NEW n \in PathLengths(E, d, x)
  PROVE  n + 1 \in PathLengths(E, s, x)
<1>1. n \in Nat \ {0}
  BY LengthsOfPaths
<1>2. PICK p : Leads(E, p, n, d, x)
  BY LengthsOfPaths
<1> DEFINE r == [i \in 0..(n + 1) |-> IF i = 0 THEN s ELSE p[i - 1]]
<1>3. r \in [0..(n + 1) -> Task] /\ r[0] = s /\ r[n + 1] = x
  <2>1. \A i \in 0..(n + 1) : i # 0 => i - 1 \in 0..n
    BY <1>1
  <2>2. n + 1 \in 0..(n + 1) /\ 0 \in 0..(n + 1) /\ n + 1 # 0 /\ (n + 1) - 1 = n
    BY <1>1
  <2> QED
    BY <1>2, <2>1, <2>2 DEF Leads
<1>4. \A i \in 1..(n + 1) : <<r[i - 1], r[i]>> \in E
  <2>1. SUFFICES ASSUME NEW i \in 1..(n + 1) PROVE <<r[i - 1], r[i]>> \in E
    OBVIOUS
  <2>2. CASE i = 1
    BY <1>1, <1>2, <2>2 DEF Leads
  <2>3. CASE i # 1
    <3>1. i - 1 \in 1..n /\ r[i - 1] = p[(i - 1) - 1] /\ r[i] = p[i - 1]
      BY <1>1, <2>3
    <3> QED
      BY <1>2, <3>1 DEF Leads, IsPath
  <2> QED
    BY <2>2, <2>3
<1>5. \A i \in 0..n : p[i] # s
  <2>1. \A i \in 1..n : p[i] # s
    BY <1>1, <1>2, MetIsReached
  <2>2. p[0] # s
    BY <1>2 DEF Leads
  <2> QED
    BY <1>1, <2>1, <2>2
<1>6. \A i, j \in 0..(n + 1) : r[i] = r[j] => i = j
  <2>1. SUFFICES ASSUME NEW i \in 0..(n + 1), NEW j \in 0..(n + 1), r[i] = r[j] PROVE i = j
    OBVIOUS
  <2>2. CASE i = 0 \/ j = 0
    BY <1>1, <1>5, <2>1, <2>2
  <2>3. CASE i # 0 /\ j # 0
    <3>1. i - 1 \in 0..n /\ j - 1 \in 0..n /\ p[i - 1] = p[j - 1]
      BY <1>1, <2>1, <2>3
    <3>2. i - 1 = j - 1
      BY <1>2, <3>1 DEF Leads, IsPath
    <3> QED
      BY <3>2
  <2> QED
    BY <2>2, <2>3
<1>7. Leads(E, r, n + 1, s, x)
  <2> HIDE DEF r
  <2> QED
    BY <1>3, <1>4, <1>6 DEF Leads, IsPath
<1>8. n + 1 \in Nat \ {0}
  BY <1>1
<1> QED
  BY <1>7, <1>8, LengthsOfPaths

(* The first step of a path leads to where it ends, or to a shorter path. *)
LEMMA FirstStep ==
  ASSUME NEW E, NEW s, NEW x, NEW n \in PathLengths(E, s, x)
  PROVE  \E d \in Task : /\ <<s, d>> \in E
                         /\ \/ n = 1 /\ d = x
                            \/ n - 1 \in PathLengths(E, d, x)
<1>1. n \in Nat \ {0}
  BY LengthsOfPaths
<1>2. PICK p : Leads(E, p, n, s, x)
  BY LengthsOfPaths
<1>3. p[1] \in Task /\ <<s, p[1]>> \in E
  BY <1>1, <1>2 DEF Leads, IsPath
<1>4. CASE n = 1
  BY <1>2, <1>3, <1>4 DEF Leads
<1>5. CASE n # 1
  <2> DEFINE r == [i \in 0..(n - 1) |-> p[i + 1]]
  <2>1. \A i \in 0..(n - 1) : i + 1 \in 0..n /\ r[i] = p[i + 1]
    BY <1>1
  <2>2. r \in [0..(n - 1) -> Task]
    BY <1>1, <1>2 DEF Leads
  <2>3. r[0] = p[1] /\ r[n - 1] = x
    BY <1>1, <1>2 DEF Leads
  <2>4. \A i \in 1..(n - 1) : i + 1 \in 1..n /\ r[i - 1] = p[(i + 1) - 1] /\ r[i] = p[i + 1]
    BY <1>1
  <2> HIDE DEF r
  <2>5. \A i \in 1..(n - 1) : <<r[i - 1], r[i]>> \in E
    BY <1>2, <2>4 DEF Leads, IsPath
  <2>6. \A i, j \in 0..(n - 1) : r[i] = r[j] => i = j
    <3>1. SUFFICES ASSUME NEW i \in 0..(n - 1), NEW j \in 0..(n - 1), r[i] = r[j] PROVE i = j
      OBVIOUS
    <3>2. i + 1 = j + 1
      BY <1>2, <2>1, <3>1 DEF Leads, IsPath
    <3> QED
      BY <3>2
  <2>7. Leads(E, r, n - 1, p[1], x)
    BY <2>2, <2>3, <2>5, <2>6 DEF Leads, IsPath
  <2>8. n - 1 \in Nat \ {0}
    BY <1>1, <1>5
  <2>9. n - 1 \in PathLengths(E, p[1], x)
    BY <2>7, <2>8, LengthsOfPaths
  <2> QED
    BY <1>3, <2>9
<1> QED
  BY <1>4, <1>5

(* With fewer edges there are fewer paths. *)
LEMMA FewerEdges ==
  ASSUME NEW F, NEW E \in SUBSET F
  PROVE  /\ \A s, x : PathLengths(E, s, x) \subseteq PathLengths(F, s, x)
         /\ \A s : Reachable(E, s) \subseteq Reachable(F, s)
         /\ Acyclic(F) => Acyclic(E)
<1>1. \A p, n : IsPath(E, p, n) => IsPath(F, p, n)
  BY DEF IsPath
<1>2. \A s, x : PathLengths(E, s, x) \subseteq PathLengths(F, s, x)
  BY <1>1, Zenon DEF PathLengths
<1>3. \A s : Reachable(E, s) \subseteq Reachable(F, s)
  BY <1>2 DEF Reachable
<1>4. Acyclic(F) => Acyclic(E)
  BY <1>3 DEF Acyclic
<1> QED
  BY <1>2, <1>3, <1>4

(* The same edges, walked the other way. *)
Back(E) == {e \in Task \X Task : <<e[2], e[1]>> \in E}

LEMMA BackIsSymmetric ==
  ASSUME NEW E, Edges(E)
  PROVE  /\ Edges(Back(E)) /\ Back(Back(E)) = E
         /\ \A s, x : <<s, x>> \in E <=> <<x, s>> \in Back(E)
BY DEF Back, Edges

LEMMA PathBack ==
  ASSUME NEW E, Edges(E), NEW s, NEW x, NEW n \in PathLengths(E, s, x)
  PROVE  n \in PathLengths(Back(E), x, s)
<1>1. n \in Nat \ {0}
  BY LengthsOfPaths
<1>2. PICK p : Leads(E, p, n, s, x)
  BY LengthsOfPaths
<1> DEFINE r == [i \in 0..n |-> p[n - i]]
<1>3. \A i \in 0..n : n - i \in 0..n /\ r[i] = p[n - i]
  BY <1>1
<1>4. r \in [0..n -> Task]
  BY <1>2, <1>3 DEF Leads
<1>5. r[0] = x /\ r[n] = s
  BY <1>1, <1>2 DEF Leads
<1>6. \A i \in 1..n : (n - i) + 1 \in 1..n /\ r[i - 1] = p[(n - i) + 1] /\ r[i] = p[((n - i) + 1) - 1]
  BY <1>1
<1> HIDE DEF r
<1>7. \A i \in 1..n : <<r[i - 1], r[i]>> \in Back(E)
  BY <1>2, <1>6, BackIsSymmetric DEF Leads, IsPath
<1>8. \A i, j \in 0..n : r[i] = r[j] => i = j
  <2>1. SUFFICES ASSUME NEW i \in 0..n, NEW j \in 0..n, r[i] = r[j] PROVE i = j
    OBVIOUS
  <2>2. n - i = n - j
    BY <1>2, <1>3, <2>1 DEF Leads, IsPath
  <2> QED
    BY <1>1, <2>2
<1>9. Leads(Back(E), r, n, x, s)
  BY <1>4, <1>5, <1>7, <1>8 DEF Leads, IsPath
<1> QED
  BY <1>1, <1>9, LengthsOfPaths

LEMMA ReachedBack ==
  ASSUME NEW E, Edges(E), NEW s \in Task, NEW x \in Task
  PROVE  x \in Reachable(E, s) <=> s \in Reachable(Back(E), x)
BY BackIsSymmetric, PathBack DEF Reachable

LEMMA AcyclicBack ==
  ASSUME NEW E, Edges(E), Acyclic(E)
  PROVE  Acyclic(Back(E))
<1>1. SUFFICES ASSUME NEW e \in Back(E) PROVE e[1] # e[2] /\ e[1] \notin Reachable(Back(E), e[2])
  BY DEF Acyclic
<1>2. e[1] \in Task /\ e[2] \in Task /\ <<e[2], e[1]>> \in E
  BY DEF Back
<1>3. e[2] # e[1] /\ e[2] \notin Reachable(E, e[1])
  BY <1>2 DEF Acyclic
<1> QED
  BY <1>2, <1>3, ReachedBack

(* Without cycles, what a task reaches is next to it or reached from there. *)
LEMMA ReachedByStep ==
  ASSUME NEW E, Edges(E), Acyclic(E), NEW s, NEW x
  PROVE  x \in Reachable(E, s) <=>
           \E d \in Task : <<s, d>> \in E /\ (x = d \/ x \in Reachable(E, d))
<1>1. ASSUME x \in Reachable(E, s)
      PROVE  \E d \in Task : <<s, d>> \in E /\ (x = d \/ x \in Reachable(E, d))
  <2>1. PICK n \in PathLengths(E, s, x) : TRUE
    BY <1>1 DEF Reachable
  <2>2. x \in Task
    BY <1>1 DEF Reachable
  <2> QED
    BY <2>1, <2>2, FirstStep DEF Reachable
<1>2. ASSUME NEW d \in Task, <<s, d>> \in E, x = d \/ x \in Reachable(E, d)
      PROVE  x \in Reachable(E, s)
  <2>1. s \in Task /\ s # d /\ s \notin Reachable(E, d)
    BY <1>2 DEF Acyclic, Edges
  <2>2. CASE x = d
    BY <1>2, <2>1, <2>2, EdgeIsPath DEF Reachable
  <2>3. CASE x \in Reachable(E, d)
    BY <1>2, <2>1, <2>3, StepBeforePath DEF Reachable
  <2> QED
    BY <1>2, <2>2, <2>3
<1> QED
  BY <1>1, <1>2

(* Without cycles, some task of a set has no step to another of the set. *)
LEMMA SomeTaskIsLast ==
  ASSUME NEW E, Edges(E), Acyclic(E), NEW B \in SUBSET Task, B # {}
  PROVE  \E t \in B : \A d \in B : <<t, d>> \notin E
<1> DEFINE R == {Reachable(E, t) : t \in B}
<1>1. R \subseteq FiniteSubsetsOf(Task)
  BY TaskAssumption, FS_Subset DEF Reachable, FiniteSubsetsOf
<1>2. R # {}
  OBVIOUS
<1>3. PICK r \in R : \A q \in R : <<q, r>> \notin StrictSubsetOrdering(Task)
  <2> HIDE DEF R
  <2> QED
    BY <1>1, <1>2, FS_StrictSubsetOrderingWellFounded, WFMin
<1>4. PICK t \in B : r = Reachable(E, t)
  OBVIOUS
<1>5. ASSUME NEW d \in B, <<t, d>> \in E PROVE FALSE
  <2>1. Reachable(E, d) \subseteq Reachable(E, t) /\ d \in Reachable(E, t)
    BY <1>5, ReachedByStep
  <2>2. d \notin Reachable(E, d)
    BY NotReachableFromSelf
  <2>3. Reachable(E, t) \subseteq Task /\ Reachable(E, d) \subseteq Task
    BY DEF Reachable
  <2>4. <<Reachable(E, d), Reachable(E, t)>> \in StrictSubsetOrdering(Task)
    BY <2>1, <2>2, <2>3 DEF StrictSubsetOrdering
  <2> QED
    BY <1>3, <1>4, <2>4
<1> QED
  BY <1>5

(***************************************************************************)
(* Depths and dependents.                                                  *)
(***************************************************************************)

(* The longest path from a task has as many steps. *)
DepthOf(E, t) == MaxOf({0} \cup UNION {PathLengths(E, t, x) : x \in Task})

LEMMA DepthIsLongest ==
  ASSUME NEW E, NEW t
  PROVE  /\ DepthOf(E, t) \in Nat /\ DepthOf(E, t) <= Cardinality(Task)
         /\ DepthOf(E, t) # 0 => \E x \in Task : DepthOf(E, t) \in PathLengths(E, t, x)
         /\ \A x \in Task : \A n \in PathLengths(E, t, x) : n <= DepthOf(E, t)
<1> DEFINE S == {0} \cup UNION {PathLengths(E, t, x) : x \in Task}
<1>1. S \in SUBSET Nat /\ S # {} /\ Cardinality(Task) \in Nat /\ \A k \in S : k <= Cardinality(Task)
  BY LengthsBounded, TaskAssumption, FS_CardinalityType
<1>2. DepthOf(E, t) = MaxOf(S)
  BY DEF DepthOf
<1>3. MaxOf(S) \in S /\ \A k \in S : k <= MaxOf(S)
  <2> HIDE DEF S
  <2> QED
    BY <1>1, MaxOfIsGreatest
<1> QED
  BY <1>1, <1>2, <1>3

(* Without cycles, it is one more than the greatest depth a step leads to. *)
LEMMA DepthByStep ==
  ASSUME NEW E, Edges(E), Acyclic(E), NEW t \in Task
  PROVE  DepthOf(E, t) = MaxOf({0} \cup {1 + DepthOf(E, e[2]) : e \in {e \in E : e[1] = t}})
<1> DEFINE S == {0} \cup {1 + DepthOf(E, e[2]) : e \in {e \in E : e[1] = t}}
<1>1. S \in SUBSET Nat /\ S # {} /\ Cardinality(Task) + 1 \in Nat /\ \A k \in S : k <= Cardinality(Task) + 1
  BY DepthIsLongest, TaskAssumption, FS_CardinalityType
<1>2. MaxOf(S) \in S /\ \A k \in S : k <= MaxOf(S)
  <2> HIDE DEF S
  <2> QED
    BY <1>1, MaxOfIsGreatest
<1>3. MaxOf(S) \in Nat
  BY <1>1, <1>2
<1>4. MaxOf(S) <= DepthOf(E, t)
  <2>1. CASE MaxOf(S) = 0
    BY <2>1, DepthIsLongest
  <2>2. CASE MaxOf(S) # 0
    <3>1. PICK e \in E : e[1] = t /\ MaxOf(S) = 1 + DepthOf(E, e[2])
      BY <1>2, <2>2
    <3>2. e[2] \in Task /\ <<t, e[2]>> \in E /\ t # e[2] /\ t \notin Reachable(E, e[2])
      BY <3>1 DEF Edges, Acyclic
    <3>3. CASE DepthOf(E, e[2]) = 0
      <4>1. 1 \in PathLengths(E, t, e[2])
        BY <3>2, EdgeIsPath
      <4> QED
        BY <3>1, <3>2, <3>3, <4>1, DepthIsLongest
    <3>4. CASE DepthOf(E, e[2]) # 0
      <4>1. PICK x \in Task : DepthOf(E, e[2]) \in PathLengths(E, e[2], x)
        BY <3>4, DepthIsLongest
      <4>2. DepthOf(E, e[2]) + 1 \in PathLengths(E, t, x)
        BY <3>2, <4>1, StepBeforePath
      <4>3. DepthOf(E, e[2]) \in Nat
        BY DepthIsLongest
      <4> QED
        BY <3>1, <4>2, <4>3, DepthIsLongest
    <3> QED
      BY <3>3, <3>4
  <2> QED
    BY <2>1, <2>2
<1>5. DepthOf(E, t) <= MaxOf(S)
  <2>1. CASE DepthOf(E, t) = 0
    BY <1>3, <2>1
  <2>2. CASE DepthOf(E, t) # 0
    <3>1. PICK x \in Task : DepthOf(E, t) \in PathLengths(E, t, x)
      BY <2>2, DepthIsLongest
    <3>2. PICK d \in Task : /\ <<t, d>> \in E
                            /\ DepthOf(E, t) = 1 \/ DepthOf(E, t) - 1 \in PathLengths(E, d, x)
      BY <3>1, FirstStep
    <3>3. 1 + DepthOf(E, d) \in S
      BY <3>2
    <3>4. 1 + DepthOf(E, d) <= MaxOf(S) /\ DepthOf(E, d) \in Nat /\ DepthOf(E, t) \in Nat
      <4> HIDE DEF S
      <4> QED
        BY <1>2, <3>3, DepthIsLongest
    <3>5. DepthOf(E, t) <= 1 + DepthOf(E, d)
      BY <3>2, <3>4, DepthIsLongest
    <3> HIDE DEF S
    <3> QED
      BY <1>3, <3>4, <3>5
  <2> QED
    BY <2>1, <2>2
<1>6. DepthOf(E, t) = MaxOf(S)
  <2> HIDE DEF S
  <2> QED
    BY <1>3, <1>4, <1>5, DepthIsLongest
<1> QED
  BY <1>6

(* The dependencies of a stored state, and parts of them, have no cycle. *)
LEMMA WorldEdges ==
  ASSUME NEW w, IsWorld(w), NEW E \in SUBSET w.deps
  PROVE  Edges(E) /\ Acyclic(E)
BY FewerEdges DEF IsWorld, Edges

(* The depth in a listing is the longest chain of active dependencies.     *)
LEMMA DepthOfActive ==
  ASSUME NEW w, IsWorld(w), NEW t \in Task
  PROVE  DependencyDepth(w)[t] = DepthOf(ActiveDependencies(w), t)
<1> DEFINE E == ActiveDependencies(w)
           Step(f) == [s \in Task |-> MaxOf({0} \cup {1 + f[e[2]] : e \in {e \in E : e[1] = s}})]
           g == [s \in Task |-> DepthOf(E, s)]
           depth == CHOOSE f : f = Step(f)
<1>1. Edges(E) /\ Acyclic(E)
  BY WorldEdges DEF ActiveDependencies
<1>2. DependencyDepth(w) = depth
  BY DEF DependencyDepth
<1>3. g = Step(g)
  <2>1. \A s \in Task : DepthOf(E, s) = MaxOf({0} \cup {1 + DepthOf(E, e[2]) : e \in {e \in E : e[1] = s}})
    BY <1>1, DepthByStep
  <2>2. \A s \in Task : {1 + g[e[2]] : e \in {e \in E : e[1] = s}} = {1 + DepthOf(E, e[2]) : e \in {e \in E : e[1] = s}}
    BY <1>1 DEF Edges
  <2> HIDE DEF E
  <2> QED
    BY <2>1, <2>2
<1>4. depth = Step(depth)
  <2> HIDE DEF g, Step
  <2> QED
    BY <1>3
<1>5. ASSUME NEW f, f = Step(f) PROVE f = g
  <2> DEFINE B == {s \in Task : f[s] # g[s]}
  <2>1. SUFFICES ASSUME B # {} PROVE FALSE
    <3>1. DOMAIN f = Task /\ f = [s \in Task |-> f[s]]
      BY <1>5
    <3> QED
      BY <3>1
  <2>2. PICK s \in B : \A d \in B : <<s, d>> \notin E
    <3> HIDE DEF E, B
    <3>1. B \in SUBSET Task
      BY DEF B
    <3> QED
      BY <1>1, <2>1, <3>1, SomeTaskIsLast
  <2>3. \A e \in E : e[1] = s => f[e[2]] = g[e[2]]
    BY <1>1, <2>2 DEF Edges
  <2>4. {1 + f[e[2]] : e \in {e \in E : e[1] = s}} = {1 + g[e[2]] : e \in {e \in E : e[1] = s}}
    <3> HIDE DEF E, g
    <3> QED
      BY <2>3
  <2>5. f[s] = Step(f)[s] /\ g[s] = Step(g)[s]
    <3> HIDE DEF Step, g
    <3> QED
      BY <1>3, <1>5
  <2>6. Step(f)[s] = Step(g)[s]
    <3> HIDE DEF E, g
    <3> QED
      BY <2>4
  <2> QED
    BY <2>2, <2>5, <2>6
<1>6. depth = g
  <2> HIDE DEF g, Step, depth
  <2> QED
    BY <1>4, <1>5
<1> QED
  BY <1>2, <1>6

(* The tasks from which others are unblocked: what is still to be done. *)
Open(w) == Active(w) \cap Unfinished(w)

(* Active dependencies of tasks that are still to be done. *)
Waiting(w) == {e \in ActiveDependencies(w) : e[1] \in Open(w)}

(* A path of waiting tasks to one that is still to be done meets no other. *)
LEMMA OpenPath ==
  ASSUME NEW w, NEW t \in Open(w), NEW u
  PROVE  t \in Reachable(Waiting(w), u) <=>
           t \in Reachable({e \in ActiveDependencies(w) : e[1] \in Open(w) /\ e[2] \in Open(w)}, u)
<1> DEFINE O == {e \in ActiveDependencies(w) : e[1] \in Open(w) /\ e[2] \in Open(w)}
<1>1. O \in SUBSET Waiting(w)
  BY DEF Waiting
<1>2. ASSUME t \in Reachable(Waiting(w), u)
      PROVE  t \in Reachable(O, u)
  <2>1. PICK n \in PathLengths(Waiting(w), u, t) : TRUE
    BY <1>2 DEF Reachable
  <2>2. n \in Nat \ {0}
    BY LengthsOfPaths
  <2>3. PICK p : Leads(Waiting(w), p, n, u, t)
    BY LengthsOfPaths
  <2>4. \A i \in 1..n : <<p[i - 1], p[i]>> \in Waiting(w)
    BY <2>3 DEF Leads, IsPath
  <2>5. \A i \in 1..n : p[i] \in Open(w)
    <3>1. SUFFICES ASSUME NEW i \in 1..n PROVE p[i] \in Open(w)
      OBVIOUS
    <3>2. CASE i = n
      BY <2>3, <3>2 DEF Leads
    <3>3. CASE i # n
      <4>1. i + 1 \in 1..n /\ (i + 1) - 1 = i
        BY <2>2, <3>3
      <4> QED
        BY <2>4, <4>1 DEF Waiting
    <3> QED
      BY <3>2, <3>3
  <2>6. \A i \in 1..n : <<p[i - 1], p[i]>> \in O
    BY <2>4, <2>5 DEF Waiting
  <2>7. Leads(O, p, n, u, t)
    BY <2>3, <2>6 DEF Leads, IsPath
  <2>8. n \in PathLengths(O, u, t)
    BY <2>2, <2>7, LengthsOfPaths
  <2> QED
    BY <1>2, <2>8 DEF Reachable
<1> QED
  BY <1>1, <1>2, FewerEdges

(* The dependents in a listing are the tasks whose chains of dependencies  *)
(* that are active and not finished lead to the task.                      *)
LEMMA DependentsOfOpen ==
  ASSUME NEW w, IsWorld(w), NEW t \in Open(w)
  PROVE  TransitiveDependents(w)[t] =
           {u \in Task : t \in Reachable({e \in ActiveDependencies(w) : e[1] \in Open(w) /\ e[2] \in Open(w)}, u)}
<1> DEFINE W == Waiting(w)
           B == Back(W)
           Direct(s) == {u \in Open(w) : <<u, s>> \in ActiveDependencies(w)}
           Step(f) == [s \in Task |-> Direct(s) \cup UNION {f[u] : u \in Direct(s)}]
           g == [s \in Task |-> Reachable(B, s)]
           below == CHOOSE f : f = Step(f)
<1>1. Edges(W) /\ Acyclic(W)
  BY WorldEdges DEF ActiveDependencies, Waiting
<1>2. Edges(B) /\ Acyclic(B)
  BY <1>1, BackIsSymmetric, AcyclicBack
<1>3. TransitiveDependents(w) = below
  BY DEF TransitiveDependents, Open
<1>4. Open(w) \subseteq Task
  BY DEF Open, Active
<1>5. \A s, u \in Task : u \in Direct(s) <=> <<s, u>> \in B
  BY DEF Back, Waiting
<1>6. \A s \in Task : Direct(s) \subseteq Task
  BY <1>4
<1>7. \A s \in Task : Reachable(B, s) = Direct(s) \cup UNION {Reachable(B, u) : u \in Direct(s)}
  <2>1. SUFFICES ASSUME NEW s \in Task, NEW x
                 PROVE  x \in Reachable(B, s) <=> x \in Direct(s) \cup UNION {Reachable(B, u) : u \in Direct(s)}
    OBVIOUS
  <2>2. x \in Reachable(B, s) <=> \E d \in Task : <<s, d>> \in B /\ (x = d \/ x \in Reachable(B, d))
    BY <1>2, ReachedByStep
  <2> HIDE DEF B, Direct
  <2> QED
    BY <1>5, <1>6, <2>2
<1>8. g = Step(g)
  <2>1. \A s \in Task : {g[u] : u \in Direct(s)} = {Reachable(B, u) : u \in Direct(s)}
    <3> HIDE DEF B, Direct
    <3> QED
      BY <1>6
  <2> HIDE DEF B, Direct
  <2> QED
    BY <1>7, <2>1
<1>9. below = Step(below)
  <2> HIDE DEF g, Step
  <2> QED
    BY <1>8
<1>10. ASSUME NEW f, f = Step(f) PROVE f = g
  <2> DEFINE D == {s \in Task : f[s] # g[s]}
  <2>1. SUFFICES ASSUME D # {} PROVE FALSE
    <3>1. DOMAIN f = Task /\ f = [s \in Task |-> f[s]]
      BY <1>10
    <3> QED
      BY <3>1
  <2>2. PICK s \in D : \A d \in D : <<s, d>> \notin B
    <3> HIDE DEF B, D
    <3>1. D \in SUBSET Task
      BY DEF D
    <3> QED
      BY <1>2, <2>1, <3>1, SomeTaskIsLast
  <2>3. \A u \in Direct(s) : f[u] = g[u]
    <3> HIDE DEF B, Direct, g
    <3> QED
      BY <1>5, <1>6, <2>2
  <2>4. UNION {f[u] : u \in Direct(s)} = UNION {g[u] : u \in Direct(s)}
    <3> HIDE DEF Direct, g
    <3> QED
      BY <2>3
  <2>5. f[s] = Step(f)[s] /\ g[s] = Step(g)[s]
    <3> HIDE DEF Step, g
    <3> QED
      BY <1>8, <1>10
  <2>6. Step(f)[s] = Step(g)[s]
    <3> HIDE DEF Direct, g
    <3> QED
      BY <2>4
  <2> QED
    BY <2>2, <2>5, <2>6
<1>11. below = g
  <2> HIDE DEF g, Step, below
  <2> QED
    BY <1>9, <1>10
<1>12. t \in Task
  BY <1>4
<1>13. Reachable(B, t) = {u \in Task : t \in Reachable(W, u)}
  <2>1. \A u \in Task : u \in Reachable(B, t) <=> t \in Reachable(W, u)
    BY <1>1, <1>12, ReachedBack
  <2> QED
    BY <2>1 DEF Reachable
<1>14. \A u : t \in Reachable(W, u) <=>
                t \in Reachable({e \in ActiveDependencies(w) : e[1] \in Open(w) /\ e[2] \in Open(w)}, u)
  BY OpenPath
<1>15. TransitiveDependents(w)[t] = Reachable(B, t)
  <2> HIDE DEF B, below
  <2> QED
    BY <1>3, <1>11, <1>12
<1> QED
  <2> HIDE DEF B, W
  <2> QED
    BY <1>13, <1>14, <1>15

(* The numbers in a listing, as DerivationsSound says. *)
LEMMA DerivationsOfWorld ==
  ASSUME IsWorld(world)
  PROVE  DerivationsSound
<1>1. \A t \in Active(world) :
        DependencyDepth(world)[t] = MaxOf({0} \cup UNION {PathLengths(ActiveDependencies(world), t, x) : x \in Task})
  BY DepthOfActive DEF DepthOf, Active
<1>2. \A t \in Open(world) : TransitiveDependents(world)[t] =
        {u \in Task : t \in Reachable({e \in ActiveDependencies(world) : e[1] \in Open(world) /\ e[2] \in Open(world)}, u)}
  BY DependentsOfOpen
<1> QED
  BY <1>1, <1>2, Zenon DEF DerivationsSound, Open

(***************************************************************************)
(* Rollups.                                                                *)
(***************************************************************************)

(* The sets of tasks D[c] have nothing in common, and f[c] is their size.  *)
SizesApart(S, D, f) ==
  /\ \A c \in S : D[c] \subseteq Task /\ f[c] = Cardinality(D[c])
  /\ \A c, d \in S : c # d => D[c] \cap D[d] = {}

(* The sum of their sizes is the size of their union. *)
LEMMA SumOfSizes ==
  ASSUME NEW S \in SUBSET Task, NEW D, NEW f, SizesApart(S, D, f)
  PROVE  SumOver(S, f) = Cardinality(UNION {D[c] : c \in S})
<1> USE DEF SizesApart
<1> DEFINE U(R) == UNION {D[c] : c \in R}
           Step(h) == [R \in SUBSET S |-> IF R = {} THEN 0
                                          ELSE LET x == CHOOSE y \in R : TRUE IN f[x] + h[R \ {x}]]
           g == [R \in SUBSET S |-> Cardinality(U(R))]
           total == CHOOSE h : h = Step(h)
<1>1. SumOver(S, f) = total[S]
  BY DEF SumOver
<1>2. \A R \in SUBSET S : R # {} => \A x \in R : Cardinality(U(R)) = f[x] + Cardinality(U(R \ {x}))
  <2>1. SUFFICES ASSUME NEW R \in SUBSET S, NEW x \in R
                 PROVE  Cardinality(U(R)) = f[x] + Cardinality(U(R \ {x}))
    OBVIOUS
  <2>2. U(R) = D[x] \cup U(R \ {x}) /\ D[x] \cap U(R \ {x}) = {}
    OBVIOUS
  <2>3. D[x] \subseteq Task /\ U(R \ {x}) \subseteq Task
    OBVIOUS
  <2>4. f[x] = Cardinality(D[x])
    OBVIOUS
  <2> HIDE DEF U
  <2>5. IsFiniteSet(D[x]) /\ IsFiniteSet(U(R \ {x}))
    BY <2>3, TaskAssumption, FS_Subset
  <2>6. Cardinality(D[x] \cup U(R \ {x})) =
          Cardinality(D[x]) + Cardinality(U(R \ {x})) - Cardinality(D[x] \cap U(R \ {x}))
    BY <2>5, FS_Union
  <2>8. Cardinality(D[x] \cap U(R \ {x})) = 0
    BY <2>2, FS_EmptySet
  <2>9. Cardinality(U(R)) = Cardinality(D[x] \cup U(R \ {x}))
    BY <2>2
  <2>7. Cardinality(D[x]) \in Nat /\ Cardinality(U(R \ {x})) \in Nat
    BY <2>5, FS_CardinalityType
  <2> QED
    BY <2>4, <2>6, <2>7, <2>8, <2>9
<1>3. U({}) = {}
  OBVIOUS
<1>4. g = Step(g)
  <2>1. \A R \in SUBSET S : g[R] = Step(g)[R]
    <3>1. SUFFICES ASSUME NEW R \in SUBSET S PROVE g[R] = Step(g)[R]
      OBVIOUS
    <3>2. CASE R = {}
      BY <1>3, <3>2, FS_EmptySet
    <3>3. CASE R # {}
      <4> DEFINE x == CHOOSE y \in R : TRUE
      <4>1. x \in R
        BY <3>3
      <4>2. g[R] = Cardinality(U(R)) /\ g[R \ {x}] = Cardinality(U(R \ {x}))
        OBVIOUS
      <4>3. Step(g)[R] = f[x] + g[R \ {x}]
        BY <3>3
      <4> QED
        BY <1>2, <3>3, <4>1, <4>2, <4>3
    <3> QED
      BY <3>2, <3>3
  <2> HIDE DEF U
  <2> QED
    BY <2>1
<1>5. total = Step(total)
  <2> HIDE DEF g, Step
  <2> QED
    BY <1>4
<1>6. \A R \in SUBSET S : total[R] = Cardinality(U(R))
  <2> DEFINE bad == {R \in SUBSET S : total[R] # Cardinality(U(R))}
  <2>1. SUFFICES ASSUME bad # {} PROVE FALSE
    OBVIOUS
  <2>2. bad \subseteq FiniteSubsetsOf(S)
    BY TaskAssumption, FS_Subset DEF FiniteSubsetsOf
  <2>3. PICK R \in bad : \A Q \in bad : <<Q, R>> \notin StrictSubsetOrdering(S)
    <3> HIDE DEF bad
    <3> QED
      BY <2>1, <2>2, FS_StrictSubsetOrderingWellFounded, WFMin
  <2> HIDE DEF total
  <2>4. total[R] = Step(total)[R]
    <3> HIDE DEF Step
    <3> QED
      BY <1>5
  <2>5. CASE R = {}
    BY <1>3, <2>3, <2>4, <2>5, FS_EmptySet
  <2>6. CASE R # {}
    <3> DEFINE x == CHOOSE y \in R : TRUE
    <3>1. x \in R
      BY <2>6
    <3>2. total[R] = f[x] + total[R \ {x}]
      BY <2>4, <2>6
    <3> HIDE DEF x
    <3>3. <<R \ {x}, R>> \in StrictSubsetOrdering(S)
      BY <3>1 DEF StrictSubsetOrdering
    <3>4. total[R \ {x}] = Cardinality(U(R \ {x}))
      <4> HIDE DEF U
      <4> QED
        BY <2>3, <3>3
    <3> QED
      BY <1>2, <2>3, <2>6, <3>1, <3>2, <3>4
  <2> QED
    BY <2>5, <2>6
<1> QED
  BY <1>1, <1>6

(* The active tasks below a task, reached through active tasks. *)
Family(w) == ParentEdges(w, Active(w))
Below(w, t) == Reachable(Family(w), t)
Branch(w, c) == {c} \cup Below(w, c)

LEMMA FamilyOfWorld ==
  ASSUME NEW w, IsWorld(w)
  PROVE  /\ Edges(Family(w)) /\ Acyclic(Family(w))
         /\ \A t, c \in Task : c \in ActiveChildren(w, t) <=> <<t, c>> \in Family(w)
         /\ \A y, z, x : <<y, x>> \in Family(w) /\ <<z, x>> \in Family(w) => y = z
<1>1. Family(w) \in SUBSET {e \in Task \X Task : w.parent[e[2]] = e[1]}
  BY DEF Family, ParentEdges, Active
<1>2. Edges(Family(w)) /\ Acyclic(Family(w))
  BY <1>1, FewerEdges DEF IsWorld, Edges
<1>3. \A t, c \in Task : c \in ActiveChildren(w, t) <=> <<t, c>> \in Family(w)
  BY DEF ActiveChildren, Family, ParentEdges
<1>4. \A y, z, x : <<y, x>> \in Family(w) /\ <<z, x>> \in Family(w) => y = z
  BY DEF Family, ParentEdges
<1> QED
  BY <1>2, <1>3, <1>4

(* What is below a task is a child of the task or of a task below it. *)
LEMMA BelowByParent ==
  ASSUME NEW w, IsWorld(w), NEW c \in Task, NEW x \in Branch(w, c), x # c
  PROVE  \E y \in Branch(w, c) : <<y, x>> \in Family(w)
<1> DEFINE F == Family(w)
<1>1. Edges(F) /\ Acyclic(F) /\ Edges(Back(F)) /\ Acyclic(Back(F))
  BY FamilyOfWorld, BackIsSymmetric, AcyclicBack
<1>2. x \in Reachable(F, c) /\ x \in Task
  BY DEF Branch, Below, Reachable
<1> HIDE DEF F
<1>3. c \in Reachable(Back(F), x)
  BY <1>1, <1>2, ReachedBack
<1>4. PICK y \in Task : <<x, y>> \in Back(F) /\ (c = y \/ c \in Reachable(Back(F), y))
  BY <1>1, <1>3, ReachedByStep
<1>5. <<y, x>> \in F
  BY <1>1, <1>4, BackIsSymmetric
<1>6. c = y \/ y \in Reachable(F, c)
  BY <1>1, <1>4, ReachedBack
<1> QED
  BY <1>5, <1>6 DEF F, Branch, Below

(* Nothing is below two children of a task. *)
LEMMA BranchesApart ==
  ASSUME NEW w, IsWorld(w), NEW t \in Task, NEW c \in ActiveChildren(w, t), NEW d \in ActiveChildren(w, t), c # d
  PROVE  Branch(w, c) \cap Branch(w, d) = {}
<1> DEFINE F == Family(w)
           both == Branch(w, c) \cap Branch(w, d)
<1>1. Edges(F) /\ Acyclic(F) /\ Edges(Back(F)) /\ Acyclic(Back(F))
  BY FamilyOfWorld, BackIsSymmetric, AcyclicBack
<1>2. c \in Task /\ d \in Task /\ <<t, c>> \in F /\ <<t, d>> \in F
  <2>1. c \in Task /\ d \in Task
    BY DEF ActiveChildren, Active
  <2> QED
    BY <2>1, FamilyOfWorld
<1>3. both \in SUBSET Task
  BY <1>2 DEF Branch, Below, Reachable
<1>4. SUFFICES ASSUME both # {} PROVE FALSE
  OBVIOUS
<1>5. PICK x \in both : \A y \in both : <<x, y>> \notin Back(F)
  <2> HIDE DEF both, F
  <2> QED
    BY <1>1, <1>3, <1>4, SomeTaskIsLast
<1>6. t \notin Branch(w, c) /\ t \notin Branch(w, d)
  BY <1>1, <1>2 DEF Acyclic, Branch, Below
<1>7. \A y, z : <<y, x>> \in F /\ <<z, x>> \in F => y = z
  BY FamilyOfWorld
<1>8. x # c
  <2>1. SUFFICES ASSUME x = c PROVE FALSE
    OBVIOUS
  <2>2. PICK y \in Branch(w, d) : <<y, x>> \in F
    BY <1>2, <1>5, <2>1, BelowByParent
  <2> QED
    BY <1>2, <1>6, <1>7, <2>1, <2>2
<1>9. x # d
  <2>1. SUFFICES ASSUME x = d PROVE FALSE
    OBVIOUS
  <2>2. PICK y \in Branch(w, c) : <<y, x>> \in F
    BY <1>2, <1>5, <2>1, BelowByParent
  <2> QED
    BY <1>2, <1>6, <1>7, <2>1, <2>2
<1>10. PICK y \in Branch(w, c) : <<y, x>> \in F
  BY <1>2, <1>5, <1>8, BelowByParent
<1>11. PICK z \in Branch(w, d) : <<z, x>> \in F
  BY <1>2, <1>5, <1>9, BelowByParent
<1>12. y \in both /\ <<x, y>> \in Back(F)
  <2>1. y \in both
    BY <1>7, <1>10, <1>11
  <2> HIDE DEF both, F
  <2> QED
    BY <1>1, <1>10, <2>1, BackIsSymmetric
<1> QED
  BY <1>5, <1>12

(* The marked tasks below a task. *)
Marked(w, A, t) == Cardinality(A \cap Below(w, t))

LEMMA MarkedInBranch ==
  ASSUME NEW w, NEW A \in SUBSET Task, NEW c \in Task
  PROVE  /\ Marked(w, A, c) \in Nat
         /\ Cardinality(A \cap Branch(w, c)) = (IF c \in A THEN 1 ELSE 0) + Marked(w, A, c)
<1>1. c \notin Below(w, c)
  BY NotReachableFromSelf DEF Below
<1>2. IsFiniteSet(A \cap Below(w, c))
  BY TaskAssumption, FS_Subset
<1>3. A \cap Branch(w, c) = IF c \in A THEN (A \cap Below(w, c)) \cup {c} ELSE A \cap Below(w, c)
  BY DEF Branch
<1>4. Cardinality(A \cap Below(w, c)) \in Nat
  BY <1>2, FS_CardinalityType
<1>5. CASE c \in A
  <2>1. Cardinality((A \cap Below(w, c)) \cup {c}) = Cardinality(A \cap Below(w, c)) + 1
    BY <1>1, <1>2, FS_AddElement
  <2> QED
    BY <1>3, <1>4, <1>5, <2>1 DEF Marked
<1>6. CASE c \notin A
  BY <1>3, <1>4, <1>6 DEF Marked
<1> QED
  BY <1>4, <1>5, <1>6 DEF Marked

(* They are counted child by child. *)
LEMMA MarkedByChildren ==
  ASSUME NEW w, IsWorld(w), NEW A \in SUBSET Task, NEW t \in Task, NEW f,
         \A c \in ActiveChildren(w, t) : f[c] = (IF c \in A THEN 1 ELSE 0) + Marked(w, A, c)
  PROVE  SumOver(ActiveChildren(w, t), f) = Marked(w, A, t)
<1> DEFINE kids == ActiveChildren(w, t)
           D == [c \in kids |-> A \cap Branch(w, c)]
<1>1. kids \in SUBSET Task
  BY DEF ActiveChildren, Active
<1>2. \A c \in kids : D[c] \subseteq Task /\ f[c] = Cardinality(D[c])
  BY <1>1, MarkedInBranch
<1>3. \A c, d \in kids : c # d => D[c] \cap D[d] = {}
  <2>1. SUFFICES ASSUME NEW c \in kids, NEW d \in kids, c # d PROVE D[c] \cap D[d] = {}
    OBVIOUS
  <2>2. Branch(w, c) \cap Branch(w, d) = {}
    BY <2>1, BranchesApart
  <2> QED
    BY <2>2
<1>4. UNION {D[c] : c \in kids} = A \cap Below(w, t)
  <2>1. \A x : x \in Below(w, t) <=> \E c \in Task : <<t, c>> \in Family(w) /\ (x = c \/ x \in Below(w, c))
    BY FamilyOfWorld, ReachedByStep DEF Below
  <2>2. \A c : c \in kids <=> c \in Task /\ <<t, c>> \in Family(w)
    BY <1>1, FamilyOfWorld
  <2>3. \A x : x \in Below(w, t) <=> \E c \in kids : x \in Branch(w, c)
    <3> HIDE DEF kids
    <3> QED
      BY <2>1, <2>2 DEF Branch
  <2> QED
    BY <2>3
<1>5. SumOver(kids, f) = Cardinality(UNION {D[c] : c \in kids})
  <2>1. SizesApart(kids, D, f)
    BY <1>2, <1>3 DEF SizesApart
  <2> HIDE DEF D, kids
  <2> QED
    BY <1>1, <2>1, SumOfSizes
<1> QED
  BY <1>4, <1>5 DEF Marked

(* What a rollup counts. *)
Childless(w) == {c \in Task : ActiveChildren(w, c) = {}}
HasStatus(w, status) == {c \in Task : ComputedStatus(w, c) = status}

RollupOf(w, t) ==
  [descendants    |-> Marked(w, Task, t),
   leaves         |-> Marked(w, Childless(w), t),
   finishedLeaves |-> Marked(w, Childless(w) \cap HasStatus(w, "finished"), t),
   ready          |-> Marked(w, HasStatus(w, "ready"), t),
   blocked        |-> Marked(w, HasStatus(w, "blocked"), t),
   started        |-> Marked(w, HasStatus(w, "started"), t),
   finished       |-> Marked(w, HasStatus(w, "finished"), t)]

(* Nothing is below a task without children. *)
LEMMA ChildlessMarks ==
  ASSUME NEW w, IsWorld(w), NEW c \in Task, NEW A \in SUBSET Task
  PROVE  /\ ActiveChildren(w, c) = {} <=> Below(w, c) = {}
         /\ ActiveChildren(w, c) = {} => Marked(w, A, c) = 0
<1> DEFINE kids == ActiveChildren(w, c)
<1>1. kids \in SUBSET Task
  BY DEF ActiveChildren, Active
<1>2. \A d : d \in kids <=> d \in Task /\ <<c, d>> \in Family(w)
  BY <1>1, FamilyOfWorld
<1>3. \A x : x \in Below(w, c) <=> \E d \in Task : <<c, d>> \in Family(w) /\ (x = d \/ x \in Below(w, d))
  BY FamilyOfWorld, ReachedByStep DEF Below
<1>4. kids = {} <=> Below(w, c) = {}
  <2> HIDE DEF kids
  <2> QED
    BY <1>2, <1>3
<1>5. Below(w, c) = {} => Marked(w, A, c) = 0
  <2>1. Below(w, c) = {} => A \cap Below(w, c) = {}
    OBVIOUS
  <2> QED
    BY <2>1, FS_EmptySet DEF Marked
<1> QED
  BY <1>4, <1>5

(* The counts of a task, from those of its children. *)
LEMMA RollupByChildren ==
  ASSUME NEW w, IsWorld(w), NEW t \in Task,
         NEW g, \A c \in ActiveChildren(w, t) : g[c] = RollupOf(w, c)
  PROVE  LET kids == ActiveChildren(w, t)
             Tally(status) == SumOver(kids, [c \in kids |-> CountedAs(w, c, status) + g[c][status]])
         IN  RollupOf(w, t) =
               [descendants    |-> SumOver(kids, [c \in kids |-> 1 + g[c].descendants]),
                leaves         |-> SumOver(kids, [c \in kids |-> LeavesOf(w, c, g[c])]),
                finishedLeaves |-> SumOver(kids, [c \in kids |-> FinishedLeavesOf(w, c, g[c])]),
                ready          |-> Tally("ready"),
                blocked        |-> Tally("blocked"),
                started        |-> Tally("started"),
                finished       |-> Tally("finished")]
<1> DEFINE kids == ActiveChildren(w, t)
<1>1. kids \in SUBSET Task
  BY DEF ActiveChildren, Active
<1>2. ASSUME NEW A \in SUBSET Task, NEW f,
             \A c \in kids : f[c] = (IF c \in A THEN 1 ELSE 0) + Marked(w, A, c)
      PROVE  SumOver(kids, f) = Marked(w, A, t)
  BY <1>2, MarkedByChildren
<1>3. Childless(w) \in SUBSET Task /\ \A s : HasStatus(w, s) \in SUBSET Task
  BY DEF Childless, HasStatus
<1>4. \A A \in SUBSET Task : \A c \in kids : Marked(w, A, c) \in Nat
  BY <1>1, MarkedInBranch
<1>5. \A c \in kids : /\ g[c].descendants = Marked(w, Task, c)
                       /\ g[c].leaves = Marked(w, Childless(w), c)
                       /\ g[c].finishedLeaves = Marked(w, Childless(w) \cap HasStatus(w, "finished"), c)
                       /\ \A s \in {"ready", "blocked", "started", "finished"} : g[c][s] = Marked(w, HasStatus(w, s), c)
  <2>1. SUFFICES ASSUME NEW c \in kids, NEW r, r = RollupOf(w, c)
                 PROVE  /\ r.descendants = Marked(w, Task, c)
                        /\ r.leaves = Marked(w, Childless(w), c)
                        /\ r.finishedLeaves = Marked(w, Childless(w) \cap HasStatus(w, "finished"), c)
                        /\ \A s \in {"ready", "blocked", "started", "finished"} : r[s] = Marked(w, HasStatus(w, s), c)
    OBVIOUS
  <2>2. /\ r["ready"] = Marked(w, HasStatus(w, "ready"), c)
        /\ r["blocked"] = Marked(w, HasStatus(w, "blocked"), c)
        /\ r["started"] = Marked(w, HasStatus(w, "started"), c)
        /\ r["finished"] = Marked(w, HasStatus(w, "finished"), c)
    BY <2>1 DEF RollupOf
  <2>3. /\ r.descendants = Marked(w, Task, c)
        /\ r.leaves = Marked(w, Childless(w), c)
        /\ r.finishedLeaves = Marked(w, Childless(w) \cap HasStatus(w, "finished"), c)
    BY <2>1 DEF RollupOf
  <2> QED
    BY <2>2, <2>3
<1>6. \A c \in kids : c \in Childless(w) <=> ActiveChildren(w, c) = {}
  BY <1>1 DEF Childless
<1> HIDE DEF kids
<1>7. SumOver(kids, [c \in kids |-> 1 + g[c].descendants]) = Marked(w, Task, t)
  <2> DEFINE f == [c \in kids |-> 1 + g[c].descendants]
  <2>1. \A c \in kids : f[c] = (IF c \in Task THEN 1 ELSE 0) + Marked(w, Task, c)
    BY <1>1, <1>4, <1>5
  <2> HIDE DEF f
  <2>2. SumOver(kids, f) = Marked(w, Task, t)
    BY <1>2, <2>1
  <2> QED
    BY <2>2 DEF f
<1>8. SumOver(kids, [c \in kids |-> LeavesOf(w, c, g[c])]) = Marked(w, Childless(w), t)
  <2> DEFINE f == [c \in kids |-> LeavesOf(w, c, g[c])]
             A == Childless(w)
  <2>1. \A c \in kids : f[c] = (IF c \in A THEN 1 ELSE 0) + Marked(w, A, c)
    <3>1. SUFFICES ASSUME NEW c \in kids PROVE f[c] = (IF c \in A THEN 1 ELSE 0) + Marked(w, A, c)
      OBVIOUS
    <3>2. f[c] = IF c \in A THEN 1 ELSE Marked(w, A, c)
      BY <1>5, <1>6 DEF LeavesOf
    <3>3. c \in A => Marked(w, A, c) = 0
      BY <1>1, <1>3, ChildlessMarks DEF Childless
    <3> QED
      BY <1>3, <1>4, <3>2, <3>3
  <2> HIDE DEF f, A
  <2>2. SumOver(kids, f) = Marked(w, A, t)
    BY <1>2, <1>3, <2>1 DEF A
  <2> QED
    BY <2>2 DEF f, A
<1>9. SumOver(kids, [c \in kids |-> FinishedLeavesOf(w, c, g[c])]) =
        Marked(w, Childless(w) \cap HasStatus(w, "finished"), t)
  <2> DEFINE f == [c \in kids |-> FinishedLeavesOf(w, c, g[c])]
             A == Childless(w) \cap HasStatus(w, "finished")
  <2>1. A \in SUBSET Task
    BY <1>3
  <2>2. \A c \in kids : f[c] = (IF c \in A THEN 1 ELSE 0) + Marked(w, A, c)
    <3>1. SUFFICES ASSUME NEW c \in kids PROVE f[c] = (IF c \in A THEN 1 ELSE 0) + Marked(w, A, c)
      OBVIOUS
    <3>2. f[c] = IF c \notin Childless(w) THEN Marked(w, A, c) ELSE IF c \in A THEN 1 ELSE 0
      BY <1>1, <1>5, <1>6 DEF FinishedLeavesOf, HasStatus
    <3>3. c \in Childless(w) => Marked(w, A, c) = 0
      BY <1>1, <2>1, ChildlessMarks DEF Childless
    <3> QED
      BY <1>4, <2>1, <3>2, <3>3
  <2> HIDE DEF f, A
  <2>3. SumOver(kids, f) = Marked(w, A, t)
    BY <1>2, <2>1, <2>2
  <2> QED
    BY <2>3 DEF f, A
<1>10. ASSUME NEW s \in {"ready", "blocked", "started", "finished"}
      PROVE  SumOver(kids, [c \in kids |-> CountedAs(w, c, s) + g[c][s]]) = Marked(w, HasStatus(w, s), t)
  <2> DEFINE f == [c \in kids |-> CountedAs(w, c, s) + g[c][s]]
             A == HasStatus(w, s)
  <2>1. \A c \in kids : f[c] = (IF c \in A THEN 1 ELSE 0) + Marked(w, A, c)
    <3>1. SUFFICES ASSUME NEW c \in kids PROVE f[c] = (IF c \in A THEN 1 ELSE 0) + Marked(w, A, c)
      OBVIOUS
    <3>2. g[c][s] = Marked(w, A, c)
      BY <1>10, <1>5
    <3>3. CountedAs(w, c, s) = IF c \in A THEN 1 ELSE 0
      BY <1>1 DEF CountedAs, HasStatus
    <3> QED
      BY <3>2, <3>3
  <2> HIDE DEF f, A
  <2>2. SumOver(kids, f) = Marked(w, A, t)
    BY <1>2, <1>3, <2>1 DEF A
  <2> QED
    BY <2>2 DEF f, A
<1> QED
  BY <1>7, <1>8, <1>9, <1>10, Zenon DEF RollupOf, kids

(* A rollup in a listing is these counts. *)
LEMMA RollupsOfTasks ==
  ASSUME NEW w, IsWorld(w), NEW t \in Task
  PROVE  Rollups(w)[t] = RollupOf(w, t)
<1> DEFINE Tally(f, s, status) ==
             LET kids == ActiveChildren(w, s) IN SumOver(kids, [c \in kids |-> CountedAs(w, c, status) + f[c][status]])
           Counts(f, s) ==
             LET kids == ActiveChildren(w, s)
             IN [descendants    |-> SumOver(kids, [c \in kids |-> 1 + f[c].descendants]),
                 leaves         |-> SumOver(kids, [c \in kids |-> LeavesOf(w, c, f[c])]),
                 finishedLeaves |-> SumOver(kids, [c \in kids |-> FinishedLeavesOf(w, c, f[c])]),
                 ready          |-> Tally(f, s, "ready"),
                 blocked        |-> Tally(f, s, "blocked"),
                 started        |-> Tally(f, s, "started"),
                 finished       |-> Tally(f, s, "finished")]
           Step(f) == [s \in Task |-> Counts(f, s)]
           g == [s \in Task |-> RollupOf(w, s)]
           rollup == CHOOSE f : f = Step(f)
<1>1. Rollups(w) = rollup
  BY Zenon DEF Rollups
<1>2. \A s \in Task : \A c \in ActiveChildren(w, s) : c \in Task /\ <<s, c>> \in Family(w)
  <2>1. \A s \in Task : \A c \in ActiveChildren(w, s) : c \in Task
    BY DEF ActiveChildren, Active
  <2> QED
    BY <2>1, FamilyOfWorld
<1>3. ASSUME NEW f, NEW s \in Task, \A c \in ActiveChildren(w, s) : f[c] = RollupOf(w, c)
      PROVE  Counts(f, s) = RollupOf(w, s)
  BY <1>3, RollupByChildren, Zenon
<1> HIDE DEF Tally, Counts
<1>4. g = Step(g)
  BY <1>2, <1>3
<1>5. rollup = Step(rollup)
  <2> HIDE DEF g, Step
  <2> QED
    BY <1>4
<1>6. ASSUME NEW f, f = Step(f) PROVE \A s \in Task : f[s] = RollupOf(w, s)
  <2> DEFINE B == {s \in Task : f[s] # RollupOf(w, s)}
  <2>1. SUFFICES ASSUME B # {} PROVE FALSE
    OBVIOUS
  <2>2. PICK s \in B : \A d \in B : <<s, d>> \notin Family(w)
    <3>1. B \in SUBSET Task
      OBVIOUS
    <3> HIDE DEF B
    <3> QED
      BY <2>1, <3>1, SomeTaskIsLast, FamilyOfWorld
  <2>3. \A c \in ActiveChildren(w, s) : f[c] = RollupOf(w, c)
    BY <1>2, <2>2
  <2>4. f[s] = Counts(f, s)
    BY <1>6
  <2> QED
    BY <1>3, <2>2, <2>3, <2>4
<1>7. rollup[t] = RollupOf(w, t)
  <2> HIDE DEF rollup, Step
  <2> QED
    BY <1>5, <1>6
<1> QED
  BY <1>1, <1>7

(* Tasks below a task are active, and finished when their lifecycle is. *)
LEMMA BelowIsActive ==
  ASSUME NEW w, IsWorld(w), NEW t \in Task, NEW c \in Below(w, t)
  PROVE  /\ c \in Active(w)
         /\ ComputedStatus(w, c) = "finished" <=> w.lifecycle[c] = "finished"
<1>1. c # t /\ c \in Branch(w, t)
  BY NotReachableFromSelf DEF Below, Branch
<1>2. PICK y \in Branch(w, t) : <<y, c>> \in Family(w)
  BY <1>1, BelowByParent
<1>3. c \in Active(w)
  BY <1>2 DEF Family, ParentEdges
<1> QED
  BY <1>3 DEF ComputedStatus, Active

(* The counts in a listing, as RollupsSound says. *)
LEMMA RollupsOfWorld ==
  ASSUME IsWorld(world)
  PROVE  RollupsSound
<1>1. SUFFICES ASSUME NEW t \in Active(world)
               PROVE  LET below == Reachable(ParentEdges(world, Active(world)), t)
                          With(status) == Cardinality({c \in below : ComputedStatus(world, c) = status})
                          leaves == {c \in below : ActiveChildren(world, c) = {}}
                          r == Rollups(world)[t]
                      IN /\ r.descendants = Cardinality(below)
                         /\ r.leaves = Cardinality(leaves)
                         /\ r.finishedLeaves = Cardinality({c \in leaves : world.lifecycle[c] = "finished"})
                         /\ <<r.ready, r.blocked, r.started, r.finished>> = <<With("ready"), With("blocked"), With("started"), With("finished")>>
                         /\ RollupStatus(world, t) = "complete" <=> below # {} /\ With("finished") = Cardinality(below)
  BY Zenon DEF RollupsSound
<1> DEFINE below == Below(world, t)
           leaves == {c \in below : ActiveChildren(world, c) = {}}
           With(status) == Cardinality({c \in below : ComputedStatus(world, c) = status})
           r == Rollups(world)[t]
<1>2. t \in Task
  BY DEF Active
<1>3. r = RollupOf(world, t)
  BY <1>2, RollupsOfTasks
<1>4. below \subseteq Task /\ \A c \in below : ComputedStatus(world, c) = "finished" <=> world.lifecycle[c] = "finished"
  <2>1. below \subseteq Task
    BY DEF Below, Reachable
  <2> QED
    BY <1>2, <2>1, BelowIsActive
<1>5. /\ Task \cap below = below
      /\ Childless(world) \cap below = leaves
      /\ (Childless(world) \cap HasStatus(world, "finished")) \cap below = {c \in leaves : world.lifecycle[c] = "finished"}
      /\ \A s : HasStatus(world, s) \cap below = {c \in below : ComputedStatus(world, c) = s}
  <2> HIDE DEF below
  <2> QED
    BY <1>4 DEF Childless, HasStatus
<1>6. \A A : Marked(world, A, t) = Cardinality(A \cap below)
  BY DEF Marked
<1> HIDE DEF r, below
<1>7. /\ r.descendants = Cardinality(below)
      /\ r.leaves = Cardinality(leaves)
      /\ r.finishedLeaves = Cardinality({c \in leaves : world.lifecycle[c] = "finished"})
  <2>1. /\ r.descendants = Marked(world, Task, t)
        /\ r.leaves = Marked(world, Childless(world), t)
        /\ r.finishedLeaves = Marked(world, Childless(world) \cap HasStatus(world, "finished"), t)
    BY <1>3 DEF RollupOf
  <2> HIDE DEF leaves
  <2> QED
    BY <1>5, <1>6, <2>1
<1>8. r.ready = With("ready") /\ r.blocked = With("blocked") /\ r.started = With("started") /\ r.finished = With("finished")
  <2>1. /\ r.ready = Marked(world, HasStatus(world, "ready"), t)
        /\ r.blocked = Marked(world, HasStatus(world, "blocked"), t)
        /\ r.started = Marked(world, HasStatus(world, "started"), t)
        /\ r.finished = Marked(world, HasStatus(world, "finished"), t)
    BY <1>3 DEF RollupOf
  <2>2. \A s : Marked(world, HasStatus(world, s), t) = With(s)
    BY <1>5, <1>6
  <2> HIDE DEF With
  <2> QED
    BY <2>1, <2>2
<1>9. RollupStatus(world, t) = "complete" <=> below # {} /\ With("finished") = Cardinality(below)
  <2>1. IsFiniteSet(below)
    BY <1>4, TaskAssumption, FS_Subset
  <2>2. Cardinality(below) \in Nat /\ With("finished") \in Nat /\ With("finished") <= Cardinality(below)
    <3> DEFINE F == {c \in below : ComputedStatus(world, c) = "finished"}
    <3>1. F \in SUBSET below
      OBVIOUS
    <3> HIDE DEF F
    <3>2. IsFiniteSet(F) /\ Cardinality(F) <= Cardinality(below)
      BY <2>1, <3>1, FS_Subset
    <3>3. Cardinality(F) \in Nat /\ Cardinality(below) \in Nat
      BY <2>1, <3>2, FS_CardinalityType
    <3> QED
      BY <3>2, <3>3 DEF F
  <2>3. ActiveChildren(world, t) = {} <=> below = {}
    BY <1>2, ChildlessMarks DEF below
  <2> HIDE DEF With
  <2>4. r.descendants - r.finished > 0 <=> With("finished") # Cardinality(below)
    BY <1>7, <1>8, <2>2
  <2> QED
    BY <2>3, <2>4 DEF RollupStatus, r
<1> QED
  <2>1. below = Reachable(ParentEdges(world, Active(world)), t)
    BY DEF below, Below, Family
  <2> HIDE DEF leaves, With
  <2>2. <<r.ready, r.blocked, r.started, r.finished>> = <<With("ready"), With("blocked"), With("started"), With("finished")>>
    BY <1>8
  <2> QED
    BY <1>7, <1>9, <2>1, <2>2, Zenon DEF leaves, With, r

(***************************************************************************)
(* What the connectives of a query do.                                     *)
(***************************************************************************)

(* The value of node i, from those of the nodes before it. *)
NodeHolds(q, leaf, m, i) ==
  CASE q[i].type = "and" -> \A j \in q[i].nodes : m[j]
    [] q[i].type = "or"  -> \E j \in q[i].nodes : m[j]
    [] q[i].type = "not" -> ~m[q[i].node]
    [] OTHER -> leaf[i]

NodeInSql(q, leaf, v, i) ==
  CASE q[i].type = "and" -> SqlAnd({v[j] : j \in q[i].nodes})
    [] q[i].type = "or"  -> SqlOr({v[j] : j \in q[i].nodes})
    [] q[i].type = "not" -> SqlNot(v[q[i].node])
    [] OTHER -> leaf[i]

LEMMA QueryNodes ==
  ASSUME NEW q, IsQuery(q)
  PROVE  /\ Len(q) \in Nat \ {0} /\ DOMAIN q = 1..Len(q)
         /\ \A i \in 1..Len(q) : /\ q[i].type \in {"and", "or"} => q[i].nodes \subseteq 1..(i - 1)
                                 /\ q[i].type = "not" => q[i].node \in 1..(i - 1)
                                 /\ Operands(q[i]) \subseteq 1..(i - 1)
<1>1. /\ Len(q) \in Nat \ {0} /\ DOMAIN q = 1..Len(q)
      /\ \A i \in 1..Len(q) : /\ q[i].type \in {"and", "or"} => q[i].nodes \subseteq 1..(i - 1)
                              /\ q[i].type = "not" => q[i].node \in 1..(i - 1)
  BY DEF IsQuery
<1>2. \A i \in 1..Len(q) : Operands(q[i]) \subseteq 1..(i - 1)
  BY <1>1 DEF Operands
<1> QED
  BY <1>1, <1>2

(* A node depends on its operands only. *)
LEMMA NodesBefore ==
  ASSUME NEW q, IsQuery(q), NEW leaf, NEW i \in 1..Len(q), NEW f, NEW g, \A j \in 1..(i - 1) : f[j] = g[j]
  PROVE  /\ NodeHolds(q, leaf, f, i) = NodeHolds(q, leaf, g, i)
         /\ NodeInSql(q, leaf, f, i) = NodeInSql(q, leaf, g, i)
<1>1. CASE q[i].type \in {"and", "or"}
  <2>1. \A j \in q[i].nodes : f[j] = g[j]
    BY <1>1, QueryNodes
  <2>2. {f[j] : j \in q[i].nodes} = {g[j] : j \in q[i].nodes}
    BY <2>1
  <2> QED
    BY <1>1, <2>1, <2>2 DEF NodeHolds, NodeInSql
<1>2. CASE q[i].type = "not"
  <2>1. f[q[i].node] = g[q[i].node]
    BY <1>2, QueryNodes
  <2> QED
    BY <1>2, <2>1 DEF NodeHolds, NodeInSql
<1>3. CASE q[i].type \notin Connectives
  BY <1>3 DEF NodeHolds, NodeInSql, Connectives
<1> QED
  BY <1>1, <1>2, <1>3 DEF Connectives

(* The value of a node, in SQL or in the service. *)
NodeValue(sql, q, leaf, v, i) == IF sql THEN NodeInSql(q, leaf, v, i) ELSE NodeHolds(q, leaf, v, i)

(* The nodes of a query have values, in either. *)
LEMMA NodesHaveValues ==
  ASSUME NEW sql \in BOOLEAN, NEW q, IsQuery(q), NEW leaf
  PROVE  \E v : v = [i \in DOMAIN q |-> NodeValue(sql, q, leaf, v, i)]
<1> DEFINE Upto(k) == \E f : \A i \in 1..k : f[i] = NodeValue(sql, q, leaf, f, i)
           bad == {k \in Nat : k <= Len(q) /\ ~Upto(k)}
<1>1. Len(q) \in Nat /\ DOMAIN q = 1..Len(q)
  BY QueryNodes
<1>2. bad = {}
  <2>1. SUFFICES ASSUME bad # {} PROVE FALSE
    OBVIOUS
  <2>2. PICK k \in bad : \A n \in bad : k <= n
    <3>1. bad \in SUBSET Nat
      OBVIOUS
    <3> HIDE DEF bad
    <3> QED
      BY <2>1, <3>1, LeastNumber
  <2>3. k # 0
    BY <2>2
  <2>4. k - 1 \in Nat /\ k - 1 <= Len(q) /\ k - 1 \notin bad
    <3> HIDE DEF Upto
    <3> QED
      BY <1>1, <2>2, <2>3
  <2>5. PICK f : \A i \in 1..(k - 1) : f[i] = NodeValue(sql, q, leaf, f, i)
    BY <2>4
  <2> DEFINE g == [i \in 1..k |-> IF i = k THEN NodeValue(sql, q, leaf, f, k) ELSE f[i]]
  <2>6. \A i \in 1..(k - 1) : g[i] = f[i]
    BY <1>1, <2>2
  <2>7. g[k] = NodeValue(sql, q, leaf, f, k)
    BY <2>3
  <2> HIDE DEF g
  <2>8. \A i \in 1..k : g[i] = NodeValue(sql, q, leaf, g, i)
    <3>1. SUFFICES ASSUME NEW i \in 1..k PROVE g[i] = NodeValue(sql, q, leaf, g, i)
      OBVIOUS
    <3>2. i \in 1..Len(q) /\ \A j \in 1..(i - 1) : f[j] = g[j]
      <4> HIDE DEF Upto
      <4> QED
        BY <1>1, <2>2, <2>6
    <3>3. NodeValue(sql, q, leaf, f, i) = NodeValue(sql, q, leaf, g, i)
      BY <3>2, NodesBefore DEF NodeValue
    <3> QED
      BY <2>5, <2>6, <2>7, <3>3
  <2> QED
    BY <2>2, <2>8
<1>3. PICK f : \A i \in 1..Len(q) : f[i] = NodeValue(sql, q, leaf, f, i)
  BY <1>1, <1>2
<1> DEFINE g == [i \in 1..Len(q) |-> f[i]]
<1>4. g = [i \in DOMAIN q |-> NodeValue(sql, q, leaf, g, i)]
  <2>1. \A i \in 1..Len(q) : NodeValue(sql, q, leaf, f, i) = NodeValue(sql, q, leaf, g, i)
    <3>1. SUFFICES ASSUME NEW i \in 1..Len(q) PROVE NodeValue(sql, q, leaf, f, i) = NodeValue(sql, q, leaf, g, i)
      OBVIOUS
    <3>2. \A j \in 1..(i - 1) : f[j] = g[j]
      BY <1>1
    <3> HIDE DEF g
    <3> QED
      BY <3>2, NodesBefore DEF NodeValue
  <2> QED
    BY <1>1, <1>3, <2>1
<1> QED
  BY <1>4

(* The value of a query is that of its root, in the service. *)
LEMMA EvaluateByNodes ==
  ASSUME NEW q, IsQuery(q), NEW leaf
  PROVE  \E v : Evaluate(q, leaf) = v[Len(q)] /\ \A i \in 1..Len(q) : v[i] = NodeHolds(q, leaf, v, i)
<1> DEFINE Step(v) == [i \in DOMAIN q |-> NodeHolds(q, leaf, v, i)]
           value == CHOOSE v : v = Step(v)
<1>1. DOMAIN q = 1..Len(q)
  BY QueryNodes
<1>2. PICK v : v = [i \in DOMAIN q |-> NodeValue(FALSE, q, leaf, v, i)]
  BY NodesHaveValues
<1>3. v = Step(v)
  BY <1>2 DEF NodeValue
<1>4. value = Step(value)
  <2> HIDE DEF Step
  <2> QED
    BY <1>3
<1>5. Evaluate(q, leaf) = value[Len(q)]
  BY Zenon DEF Evaluate, NodeHolds
<1>6. \A i \in 1..Len(q) : value[i] = NodeHolds(q, leaf, value, i)
  <2> HIDE DEF value
  <2> QED
    BY <1>1, <1>4
<1> QED
  BY <1>5, <1>6

(* And in SQL. *)
LEMMA SqlByNodes ==
  ASSUME NEW q, IsQuery(q), NEW leaf
  PROVE  \E v : Sql(q, leaf) = v[Len(q)] /\ \A i \in 1..Len(q) : v[i] = NodeInSql(q, leaf, v, i)
<1> DEFINE Step(v) == [i \in DOMAIN q |-> NodeInSql(q, leaf, v, i)]
           value == CHOOSE v : v = Step(v)
<1>1. DOMAIN q = 1..Len(q)
  BY QueryNodes
<1>2. PICK v : v = [i \in DOMAIN q |-> NodeValue(TRUE, q, leaf, v, i)]
  BY NodesHaveValues
<1>3. v = Step(v)
  BY <1>2 DEF NodeValue
<1>4. value = Step(value)
  <2> HIDE DEF Step
  <2> QED
    BY <1>3
<1>5. Sql(q, leaf) = value[Len(q)]
  BY Zenon DEF Sql, NodeInSql
<1>6. \A i \in 1..Len(q) : value[i] = NodeInSql(q, leaf, value, i)
  <2> HIDE DEF value
  <2> QED
    BY <1>1, <1>4
<1> QED
  BY <1>5, <1>6

(* A node is built from itself, and from what its operands are built from. *)
LEMMA WithinOperands ==
  ASSUME NEW q, IsQuery(q), NEW i \in 1..Len(q)
  PROVE  /\ i \in Within(q, i)
         /\ \A j \in Operands(q[i]) : Within(q, j) \subseteq Within(q, i)
<1>1. Len(q) \in Nat
  BY QueryNodes
<1>2. i \in Within(q, i)
  BY <1>1 DEF Within
<1>3. ASSUME NEW j \in Operands(q[i]), NEW x \in Within(q, j)
      PROVE  x \in Within(q, i)
  <2>1. j \in 1..(i - 1)
    BY <1>3, QueryNodes
  <2>2. x \in 1..j
    BY <1>3 DEF Within
  <2>3. ASSUME NEW S \in SUBSET (1..i), i \in S, \A k \in S : Operands(q[k]) \subseteq S
        PROVE  x \in S
    <3> DEFINE R == S \cap (1..j)
    <3>1. j \in R
      BY <1>3, <2>1, <2>3
    <3>2. \A k \in R : Operands(q[k]) \subseteq R
      <4>1. SUFFICES ASSUME NEW k \in R, NEW o \in Operands(q[k]) PROVE o \in R
        OBVIOUS
      <4>2. o \in S
        BY <2>3, <4>1
      <4>3. k \in 1..Len(q) /\ k <= j
        BY <1>1, <2>1, <4>1
      <4>4. o \in 1..(k - 1)
        BY <4>1, <4>3, QueryNodes
      <4> QED
        BY <2>1, <4>2, <4>3, <4>4
    <3>3. R \in SUBSET (1..j)
      OBVIOUS
    <3> HIDE DEF R
    <3>4. x \in R
      BY <1>3, <3>1, <3>2, <3>3 DEF Within
    <3> QED
      BY <3>4 DEF R
  <2> QED
    BY <1>1, <2>1, <2>2, <2>3 DEF Within
<1> QED
  BY <1>2, <1>3

(***************************************************************************)
(* What the tests of a query do, in Prism.                                 *)
(***************************************************************************)

(* What the parser says of a test of a field. *)
IsFieldTest(n) ==
  /\ n.field \in TextField \cup {"comments"} /\ None \notin n.values
  /\ n.op \in Comparisons \cup {"in", "not in"}
  /\ n.op \in Comparisons => \E x \in n.values : n.values = {x}

LEMMA FieldsOfQuery ==
  ASSUME NEW q, IsQuery(q), NEW i \in DOMAIN q
  PROVE  /\ q[i].type = "field" => IsFieldTest(q[i])
         /\ q[i].type \in Connectives \cup {"field", "time", "comment", "graph", "hierarchy"}
         /\ q[i].type = "graph" => (q[i].depth # None => q[i].depth.value \in Int)
BY DEF IsQuery, IsFieldTest

(* Only tags and assignments give a field more than one value. *)
LEMMA OneValue ==
  ASSUME NEW w, NEW t, NEW field \in TextField \ {"tag", "assigned"}
  PROVE  \A a, b \in FieldValues(w, t, field) : a = b
BY DEF FieldValues, TextField

(* A finished dependency does not block, and an archived one neither. *)
LEMMA StatusAgrees ==
  ASSUME NEW w, IsWorld(w), NEW t \in Task
  PROVE  SqlStatus(w, t) = ComputedStatus(w, t) /\ FragmentStatus(w, t) = ComputedStatus(w, t)
<1>1. \A d : <<t, d>> \in w.deps => d \in Task
  BY DEF IsWorld
<1>2. CASE t \in w.archived
  BY <1>2 DEF SqlStatus, FragmentStatus, ComputedStatus
<1>3. CASE t \notin w.archived /\ w.lifecycle[t] # "open"
  BY <1>3 DEF SqlStatus, FragmentStatus, ComputedStatus
<1>4. CASE t \notin w.archived /\ w.lifecycle[t] = "open"
  <2>1. Blocked(w, t) <=> \E d \in Active(w) \cap Unfinished(w) : <<t, d>> \in w.deps
    BY <1>1, <1>4 DEF Blocked, Unfinished, ActiveDependencies, Active
  <2>2. Blocked(w, t) <=> {e \in w.deps : e[1] = t /\ e[2] \in Unfinished(w) \ w.archived} # {}
    <3>1. \A e \in w.deps : e = <<e[1], e[2]>> /\ e[2] \in Task
      BY DEF IsWorld
    <3> QED
      BY <2>1, <3>1 DEF Active
  <2>3. SqlStatus(w, t) = IF Blocked(w, t) THEN "blocked" ELSE "ready"
    BY <1>4, <2>1 DEF SqlStatus
  <2>4. FragmentStatus(w, t) = IF Blocked(w, t) THEN "blocked" ELSE "ready"
    BY <1>4, <2>2 DEF FragmentStatus
  <2>5. ComputedStatus(w, t) = IF Blocked(w, t) THEN "blocked" ELSE "ready"
    BY <1>4 DEF ComputedStatus
  <2> QED
    BY <2>3, <2>4, <2>5
<1> QED
  BY <1>2, <1>3, <1>4

LEMMA FragmentFieldAgrees ==
  ASSUME NEW w, IsWorld(w), NothingArchived(w), NEW t \in Task, NEW n, IsFieldTest(n),
         n.field # "parent", n.op = "!=" => n.field # "assigned",
         n.field = "tag" => n.op \in {"=", "in", "not in"}
  PROVE  FragmentField(w, n, t) <=> FieldMatches(w, n, t)
<1> DEFINE held == FieldValues(w, t, n.field)
<1>1. CASE n.field = "comments"
  BY <1>1 DEF FragmentField
<1>2. CASE n.field = "tag"
  <2> DEFINE named == {g \in w.tags[t] : {g.id, g.name} \cap n.values # {}}
  <2>1. held = TagTexts(w, t) /\ \A v : v \in TagTexts(w, t) <=> \E g \in w.tags[t] : v \in {g.id, g.name}
    BY <1>2 DEF FieldValues, TagTexts, NothingArchived
  <2>2. held \cap n.values = {} <=> named = {}
    <3> HIDE DEF held
    <3>1. \A v \in held : \E g \in w.tags[t] : v \in {g.id, g.name}
      BY <2>1
    <3>2. \A g \in w.tags[t] : g.id \in held /\ g.name \in held
      BY <2>1
    <3> QED
      BY <3>1, <3>2
  <2>3. n.op \in {"=", "in", "not in"}
    BY <1>2
  <2>4. CASE n.op = "not in"
    BY <1>2, <2>2, <2>4 DEF FragmentField, FragmentTag, FieldMatches
  <2>5. CASE n.op \in {"=", "in"}
    <3>1. FieldMatches(w, n, t) <=> held \cap n.values # {}
      BY <2>5 DEF FieldMatches, Holds, OrdersText, Comparisons
    <3>2. FragmentField(w, n, t) <=> named # {}
      BY <1>2, <2>5 DEF FragmentField, FragmentTag
    <3> QED
      BY <2>2, <3>1, <3>2
  <2> QED
    BY <2>3, <2>4, <2>5
<1>3. CASE n.field \notin {"tag", "comments"}
  <2>1. (IF n.field = "status" THEN {FragmentStatus(w, t)} ELSE FieldValues(w, t, n.field)) = held
    BY StatusAgrees DEF FieldValues
  <2>2. n.op \in Comparisons \cup {"in", "not in"} /\ n.field \in TextField
    BY <1>3 DEF IsFieldTest
  <2> HIDE DEF held
  <2>3. CASE n.op = "not in"
    BY <1>3, <2>1, <2>3 DEF FragmentField, FieldMatches, held
  <2>4. CASE n.op \in {"=", "in"}
    <3>1. FieldMatches(w, n, t) <=> held \cap n.values # {}
      BY <2>4 DEF FieldMatches, Holds, OrdersText, Comparisons, held
    <3>2. FragmentField(w, n, t) <=> held \cap n.values # {}
      BY <1>3, <2>1, <2>4 DEF FragmentField
    <3> QED
      BY <3>1, <3>2
  <2>5. CASE n.op = "!="
    <3>1. PICK x \in n.values : n.values = {x}
      BY <2>5 DEF IsFieldTest, Comparisons
    <3>2. FieldMatches(w, n, t) <=> \E v \in held : v # x
      BY <2>5, <3>1 DEF FieldMatches, Holds, OrdersText, Comparisons, held
    <3>3. FragmentField(w, n, t) <=> held # {} /\ ~(held \cap n.values # {})
      BY <1>3, <2>1, <2>5 DEF FragmentField
    <3>4. \A a, b \in held : a = b
      BY <1>3, <2>2, <2>5, OneValue DEF held
    <3> QED
      BY <3>1, <3>2, <3>3, <3>4
  <2>6. CASE n.op \in Comparisons \ {"=", "!="}
    BY <1>3, <2>2, <2>6 DEF FragmentField, FieldMatches, OrdersText, Comparisons
  <2> QED
    BY <2>2, <2>3, <2>4, <2>5, <2>6
<1> QED
  BY <1>1, <1>2, <1>3

(* Without walks that return, a closure knows the lengths of the paths.    *)
LEMMA ClosureOfPaths ==
  ASSUME NEW E, \A t \in Task : ClosureLengths(E, t, t) = {}, NEW a, NEW b, a \in Task \/ b \in Task
  PROVE  ClosureLengths(E, a, b) = PathLengths(E, a, b)
<1>1. CASE a = b
  BY <1>1, NoPathReturns
<1>2. CASE a # b
  BY <1>2 DEF ClosureLengths
<1> QED
  BY <1>1, <1>2

LEMMA FragmentGraphAgrees ==
  ASSUME NEW E, \A t \in Task : ClosureLengths(E, t, t) = {}, NEW w, AllEdges(w) = E,
         NEW t \in Task, NEW n
  PROVE  FragmentGraph(w, n, t) <=> GraphMatches(E, n, t)
<1> DEFINE between(a, b) == IF n.verb = "depends on" THEN ClosureLengths(E, a, b) ELSE ClosureLengths(E, b, a)
<1>1. \A u : ClosureLengths(E, t, u) = PathLengths(E, t, u) /\ ClosureLengths(E, u, t) = PathLengths(E, u, t)
  BY ClosureOfPaths
<1>2. \A u : between(t, u) = IF n.verb = "depends on" THEN PathLengths(E, t, u) ELSE PathLengths(E, u, t)
  BY <1>1
<1> HIDE DEF between
<1>3. between(t, n.target) = Lengths(E, n, t)
  BY <1>2 DEF Lengths
<1>4. Cardinality({u \in Task : between(t, u) # {}}) = Counted(E, n, t)
  <2>1. CASE n.verb = "depends on"
    <3>1. {u \in Task : between(t, u) # {}} = Reachable(E, t)
      BY <1>2, <2>1 DEF Reachable
    <3> QED
      BY <2>1, <3>1 DEF Counted
  <2>2. CASE n.verb # "depends on"
    <3>1. {u \in Task : between(t, u) # {}} = {u \in Task : t \in Reachable(E, u)}
      BY <1>2, <2>2 DEF Reachable
    <3> QED
      BY <2>2, <3>1 DEF Counted
  <2> QED
    BY <2>1, <2>2
<1>5. CASE n.target = None
  <2>1. FragmentGraph(w, n, t) <=> Holds(n.count.op, Cardinality({u \in Task : between(t, u) # {}}), n.count.value)
    BY <1>5, Zenon DEF FragmentGraph, between
  <2> QED
    BY <1>4, <1>5, <2>1 DEF GraphMatches
<1>6. CASE n.target # None
  <2>1. FragmentGraph(w, n, t) <=>
          /\ between(t, n.target) # {}
          /\ n.depth # None => Holds(n.depth.op, MinOf(between(t, n.target)), n.depth.value)
    BY <1>6, Zenon DEF FragmentGraph, between
  <2> QED
    BY <1>3, <1>6, <2>1 DEF GraphMatches, ShortestHolds
<1> QED
  BY <1>5, <1>6

(* A test says the same in a fragment, for a task that the service sees,   *)
(* while nothing is archived and nobody waits for itself.                  *)
LEMMA FragmentAgrees ==
  ASSUME NEW w, IsWorld(w), NothingArchived(w), \A u \in Task : ClosureLengths(AllEdges(w), u, u) = {},
         NEW q, IsQuery(q), PlainInPrism(q), NEW i \in Leaves(q), NEW t \in Task,
         NEW seen, q[i].type \in {"graph", "hierarchy"} => seen = Task
  PROVE  Fragment(w, q[i], t) <=> Matches(w, q[i], t, seen)
<1> DEFINE n == q[i]
<1>1. i \in DOMAIN q /\ n.type \in {"field", "time", "comment", "graph", "hierarchy"}
  BY FieldsOfQuery DEF Leaves
<1>2. CASE n.type = "field"
  <2>1. IsFieldTest(n) /\ n.field # "parent" /\ (n.op = "!=" => n.field # "assigned")
        /\ (n.field = "tag" => n.op \in {"=", "in", "not in"})
    BY <1>1, <1>2, FieldsOfQuery DEF PlainInPrism
  <2>2. FragmentField(w, n, t) <=> FieldMatches(w, n, t)
    BY <2>1, FragmentFieldAgrees
  <2> QED
    BY <1>2, <2>2 DEF Fragment, Matches
<1>3. CASE n.type = "time"
  BY <1>3 DEF Fragment, Matches, FragmentTime
<1>4. CASE n.type = "comment"
  BY <1>4 DEF Fragment, Matches
<1>5. CASE n.type = "graph"
  <2>1. AllEdges(w) = EffectiveEdges(w, seen)
    BY <1>5 DEF AllEdges
  <2>2. FragmentGraph(w, n, t) <=> GraphMatches(EffectiveEdges(w, seen), n, t)
    <3> HIDE DEF n
    <3> QED
      BY <2>1, FragmentGraphAgrees
  <2> QED
    BY <1>5, <2>2 DEF Fragment, Matches
<1>6. CASE n.type = "hierarchy"
  BY <1>6, NotReachableFromSelf DEF Fragment, Matches
<1> QED
  BY <1>1, <1>2, <1>3, <1>4, <1>5, <1>6

(* Tests that agree give a query the same value. *)
LEMMA EvaluateAgrees ==
  ASSUME NEW q, IsQuery(q), NEW a, NEW b, \A i \in Leaves(q) : a[i] <=> b[i]
  PROVE  Evaluate(q, a) <=> Evaluate(q, b)
<1>1. PICK m : Evaluate(q, a) = m[Len(q)] /\ \A i \in 1..Len(q) : m[i] = NodeHolds(q, a, m, i)
  BY EvaluateByNodes
<1>2. PICK k : Evaluate(q, b) = k[Len(q)] /\ \A i \in 1..Len(q) : k[i] = NodeHolds(q, b, k, i)
  BY EvaluateByNodes
<1>3. Len(q) \in Nat \ {0} /\ DOMAIN q = 1..Len(q)
  BY QueryNodes
<1> DEFINE bad == {i \in 1..Len(q) : ~(m[i] <=> k[i])}
<1>4. bad = {}
  <2>1. SUFFICES ASSUME bad # {} PROVE FALSE
    OBVIOUS
  <2>2. PICK i \in bad : \A j \in bad : i <= j
    <3>1. bad \in SUBSET Nat
      OBVIOUS
    <3> HIDE DEF bad
    <3> QED
      BY <2>1, <3>1, LeastNumber
  <2>3. \A j \in 1..(i - 1) : m[j] <=> k[j]
    BY <1>3, <2>2
  <2>4. m[i] = NodeHolds(q, a, m, i) /\ k[i] = NodeHolds(q, b, k, i)
    BY <1>1, <1>2
  <2>5. NodeHolds(q, a, m, i) <=> NodeHolds(q, b, k, i)
    <3>1. CASE q[i].type \in {"and", "or"}
      <4>1. \A j \in q[i].nodes : m[j] <=> k[j]
        BY <2>3, <3>1, QueryNodes
      <4> QED
        BY <3>1, <4>1 DEF NodeHolds
    <3>2. CASE q[i].type = "not"
      <4>1. m[q[i].node] <=> k[q[i].node]
        BY <2>3, <3>2, QueryNodes
      <4> QED
        BY <3>2, <4>1 DEF NodeHolds
    <3>3. CASE q[i].type \notin Connectives
      <4>1. i \in Leaves(q)
        BY <1>3, <3>3 DEF Leaves
      <4> QED
        BY <3>3, <4>1 DEF NodeHolds, Connectives
    <3> QED
      BY <3>1, <3>2, <3>3 DEF Connectives
  <2> QED
    BY <2>2, <2>4, <2>5
<1> QED
  BY <1>1, <1>2, <1>3, <1>4

(* With finished tasks, and nothing archived, the service sees every task. *)
LEMMA EverythingKept ==
  ASSUME NEW w
  PROVE  /\ Kept(w, TRUE) = Active(w)
         /\ NothingArchived(w) => Active(w) = Task
         /\ \A finished : Kept(w, finished) \subseteq Task
BY DEF Kept, Active, NothingArchived

LEMMA PrismListAgrees ==
  ASSUME NEW w, IsWorld(w), NothingArchived(w), \A u \in Task : ClosureLengths(AllEdges(w), u, u) = {},
         NEW q, IsQuery(q), PlainInPrism(q), NEW finished \in BOOLEAN, finished \/ ~Walks(q)
  PROVE  PrismList(w, q, finished) = ServiceList(w, q, finished)
<1> DEFINE seen == Kept(w, finished)
<1>1. \A i \in Leaves(q) : q[i].type \in {"graph", "hierarchy"} => seen = Task
  BY EverythingKept DEF Walks, Leaves
<1>2. seen \subseteq Task
  BY EverythingKept
<1> HIDE DEF seen
<1>3. ASSUME NEW t \in seen
      PROVE  Evaluate(q, [i \in Leaves(q) |-> Fragment(w, q[i], t)]) <=>
               Evaluate(q, [i \in Leaves(q) |-> Matches(w, q[i], t, seen)])
  <2> DEFINE a == [i \in Leaves(q) |-> Fragment(w, q[i], t)]
             b == [i \in Leaves(q) |-> Matches(w, q[i], t, seen)]
  <2>1. \A i \in Leaves(q) : Fragment(w, q[i], t) <=> Matches(w, q[i], t, seen)
    BY <1>1, <1>2, <1>3, FragmentAgrees
  <2>2. \A i \in Leaves(q) : a[i] <=> b[i]
    BY <2>1
  <2> HIDE DEF a, b
  <2>3. Evaluate(q, a) <=> Evaluate(q, b)
    BY <2>2, EvaluateAgrees
  <2> QED
    BY <2>3 DEF a, b
<1> QED
  BY <1>3, Zenon DEF PrismList, ServiceList, seen

(***************************************************************************)
(* What the tests of a query do, in SQL.                                   *)
(***************************************************************************)

TruthValues == {"true", "false", "null"}

LEMMA SqlConnectives ==
  ASSUME NEW vs \in SUBSET TruthValues
  PROVE  /\ SqlAnd(vs) \in TruthValues /\ SqlOr(vs) \in TruthValues
         /\ SqlAnd(vs) = "true" <=> \A u \in vs : u = "true"
         /\ SqlOr(vs) = "true" <=> \E u \in vs : u = "true"
         /\ "null" \notin vs => SqlAnd(vs) # "null" /\ SqlOr(vs) # "null"
BY DEF TruthValues, SqlAnd, SqlOr

LEMMA SqlNegation ==
  ASSUME NEW v \in TruthValues
  PROVE  /\ SqlNot(v) \in TruthValues
         /\ SqlNot(v) = "true" <=> v = "false"
         /\ SqlNot(v) = "null" <=> v = "null"
BY DEF TruthValues, SqlNot

(* Comparing a column for equality, without assignments to archived tracks. *)
LEMMA EqualsAgrees ==
  ASSUME NEW w, IsWorld(w), ~AssignedArchived(w), NEW t \in Task, NEW field \in TextField, NEW x, x # None
  PROVE  /\ FieldEquals(w, field, x, t) \in TruthValues
         /\ FieldEquals(w, field, x, t) = "true" <=> x \in FieldValues(w, t, field)
         /\ field \notin {"parent", "source doc"} => FieldEquals(w, field, x, t) # "null"
<1>1. CASE field = "tag"
  BY <1>1 DEF FieldEquals, FieldValues, Truth, TruthValues
<1>2. CASE field \in {"assigned", "actor"}
  <2>1. w.track[t] # None => ~w.track[t].archived
    BY DEF AssignedArchived
  <2>2. FieldEquals(w, field, x, t) = Truth(w.track[t] # None /\ ~w.track[t].archived /\ x \in FieldValues(w, t, field))
    BY <1>2 DEF FieldEquals
  <2>3. w.track[t] = None => x \notin FieldValues(w, t, field)
    BY <1>2 DEF FieldValues
  <2> QED
    BY <1>2, <2>1, <2>2, <2>3 DEF Truth, TruthValues
<1>3. CASE field = "status"
  BY <1>3, StatusAgrees DEF FieldEquals, FieldValues, Truth, TruthValues
<1>4. CASE field = "parent"
  <2>1. w.parent[t] \in Task \cup {None}
    BY DEF IsWorld
  <2>2. FieldValues(w, t, field) = {IF w.parent[t] = None THEN "root" ELSE w.parent[t]}
    BY <1>4 DEF FieldValues
  <2>3. FieldEquals(w, field, x, t) = IF x = "root" THEN Truth(w.parent[t] = None) ELSE Column(w.parent[t], x)
    BY <1>4 DEF FieldEquals
  <2> QED
    BY <1>4, <2>1, <2>2, <2>3, RootAssumption, TaskAssumption DEF Column, Truth, TruthValues
<1>5. CASE field = "source doc"
  BY <1>5 DEF FieldEquals, FieldValues, Column, Truth, TruthValues
<1>6. CASE field \in {"id", "lifecycle"}
  BY <1>6 DEF FieldEquals, Truth, TruthValues
<1> QED
  BY <1>1, <1>2, <1>3, <1>4, <1>5, <1>6 DEF TextField

LEMMA SqlFieldAgrees ==
  ASSUME NEW w, IsWorld(w), ~AssignedArchived(w), NEW t \in Task, NEW n, n.type = "field", IsFieldTest(n),
         ~Untranslatable(n), n.op = "!=" => n.field \in {"id", "status", "lifecycle", "comments"},
         n.op = "not in" => ~Nullable(n)
  PROVE  /\ SqlField(w, n, t) \in TruthValues
         /\ SqlField(w, n, t) = "true" <=> FieldMatches(w, n, t)
         /\ ~Nullable(n) => SqlField(w, n, t) # "null"
<1> DEFINE held == FieldValues(w, t, n.field)
           vs == {FieldEquals(w, n.field, x, t) : x \in n.values}
<1>1. CASE n.field = "comments"
  BY <1>1 DEF SqlField, Truth, TruthValues
<1>2. CASE n.field # "comments"
  <2>1. n.field \in TextField /\ n.op \in {"=", "!=", "in", "not in"}
    <3>1. n.field \in TextField /\ n.op \in Comparisons \cup {"in", "not in"} /\ ~OrdersText(n)
      BY <1>2 DEF IsFieldTest, Untranslatable
    <3> QED
      BY <3>1 DEF OrdersText, Comparisons
  <2>2. \A x \in n.values : x # None
    BY DEF IsFieldTest
  <2>3. \A x \in n.values : /\ FieldEquals(w, n.field, x, t) \in TruthValues
                            /\ FieldEquals(w, n.field, x, t) = "true" <=> x \in held
                            /\ n.field \notin {"parent", "source doc"} => FieldEquals(w, n.field, x, t) # "null"
    BY <2>1, <2>2, EqualsAgrees
  <2> HIDE DEF held
  <2>4. /\ vs \in SUBSET TruthValues
        /\ (\E v \in vs : v = "true") <=> held \cap n.values # {}
        /\ ~Nullable(n) => "null" \notin vs
    BY <2>3 DEF Nullable
  <2> HIDE DEF vs
  <2>5. /\ SqlOr(vs) \in TruthValues
        /\ SqlOr(vs) = "true" <=> held \cap n.values # {}
        /\ ~Nullable(n) => SqlOr(vs) # "null"
    BY <2>4, SqlConnectives
  <2>6. CASE n.op \in {"=", "in"}
    <3>1. SqlField(w, n, t) = SqlOr(vs)
      BY <1>2, <2>6 DEF SqlField, vs
    <3>2. FieldMatches(w, n, t) <=> held \cap n.values # {}
      BY <2>6 DEF FieldMatches, Holds, OrdersText, Comparisons, held
    <3> QED
      BY <2>5, <3>1, <3>2
  <2>7. CASE n.op \in {"!=", "not in"}
    <3>1. SqlField(w, n, t) = SqlNot(SqlOr(vs))
      BY <1>2, <2>7 DEF SqlField, vs
    <3>2. ~Nullable(n)
      BY <1>2, <2>7 DEF Nullable
    <3>3. /\ SqlNot(SqlOr(vs)) \in TruthValues /\ SqlNot(SqlOr(vs)) # "null"
          /\ SqlNot(SqlOr(vs)) = "true" <=> held \cap n.values = {}
      BY <2>5, <3>2, SqlNegation DEF TruthValues
    <3>4. FieldMatches(w, n, t) <=> held \cap n.values = {}
      <4>1. CASE n.op = "not in"
        BY <4>1 DEF FieldMatches, held
      <4>2. CASE n.op = "!="
        <5>1. PICK x \in n.values : n.values = {x}
          BY <4>2 DEF IsFieldTest, Comparisons
        <5>2. FieldMatches(w, n, t) <=> \E v \in held : v # x
          BY <4>2, <5>1 DEF FieldMatches, Holds, OrdersText, Comparisons, held
        <5>3. \E v : held = {v}
          BY <1>2, <4>2 DEF FieldValues, held
        <5> QED
          BY <5>1, <5>2, <5>3
      <4> QED
        BY <2>7, <4>1, <4>2
    <3> QED
      BY <3>1, <3>3, <3>4
  <2> QED
    BY <2>1, <2>6, <2>7
<1> QED
  BY <1>1, <1>2

(* An upper bound on the depth holds for some path if for the shortest.    *)
LEMMA SqlGraphAgrees ==
  ASSUME NEW w, NEW t, NEW n, n.depth # None => n.depth.value \in Int /\ n.depth.op \in {"<", "<="}
  PROVE  /\ SqlGraph(w, n, t) \in {"true", "false"}
         /\ SqlGraph(w, n, t) = "true" <=> GraphMatches(EffectiveEdges(w, Active(w)), n, t)
<1> DEFINE E == EffectiveEdges(w, Active(w))
           L == Lengths(E, n, t)
<1>1. L \subseteq Nat
  BY LengthsBounded DEF Lengths
<1>2. L # {} => MinOf(L) \in L /\ \A k \in L : MinOf(L) <= k
  <2> HIDE DEF L
  <2> QED
    BY <1>1, MinOfIsLeast
<1>3. CASE n.target = None
  BY <1>3 DEF SqlGraph, Truth
<1>4. CASE n.target # None
  <2>1. SqlGraph(w, n, t) = Truth(\E k \in L : n.depth # None => Holds(n.depth.op, k, n.depth.value))
    BY <1>4 DEF SqlGraph
  <2>2. GraphMatches(E, n, t) <=> L # {} /\ (n.depth # None => Holds(n.depth.op, MinOf(L), n.depth.value))
    BY <1>4 DEF GraphMatches, ShortestHolds
  <2>3. (\E k \in L : n.depth # None => Holds(n.depth.op, k, n.depth.value)) <=>
          L # {} /\ (n.depth # None => Holds(n.depth.op, MinOf(L), n.depth.value))
    <3> HIDE DEF L
    <3>1. CASE n.depth = None
      BY <3>1
    <3>2. CASE n.depth # None
      <4>1. CASE n.depth.op = "<"
        BY <1>1, <1>2, <3>2, <4>1 DEF Holds
      <4>2. CASE n.depth.op = "<="
        BY <1>1, <1>2, <3>2, <4>2 DEF Holds
      <4> QED
        BY <3>2, <4>1, <4>2
    <3> QED
      BY <3>1, <3>2
  <2> HIDE DEF L
  <2> QED
    BY <2>1, <2>2, <2>3 DEF Truth
<1> QED
  BY <1>3, <1>4

(* A test that is plain says in SQL what it says in the service, for a     *)
(* task that the service sees; it is unknown only where something may be   *)
(* missing.                                                                *)
LEMMA SqlLeafAgrees ==
  ASSUME NEW w, IsWorld(w), ~AssignedArchived(w), NEW q, IsQuery(q), PlainInSql(q),
         NEW i \in Leaves(q), NEW t \in Task,
         NEW seen, q[i].type \in {"graph", "hierarchy"} => seen = Active(w)
  PROVE  /\ SqlLeaf(w, q[i], t) \in TruthValues
         /\ SqlLeaf(w, q[i], t) = "true" <=> Matches(w, q[i], t, seen)
         /\ ~Nullable(q[i]) => SqlLeaf(w, q[i], t) # "null"
<1> DEFINE n == q[i]
<1>1. i \in DOMAIN q /\ n.type \in {"field", "time", "comment", "graph", "hierarchy"}
  BY FieldsOfQuery DEF Leaves
<1>2. CASE n.type = "field"
  <2>1. IsFieldTest(n) /\ ~Untranslatable(n) /\ (n.op = "!=" => n.field \in {"id", "status", "lifecycle", "comments"})
        /\ (n.op = "not in" => ~Nullable(n))
    BY <1>1, <1>2, FieldsOfQuery DEF PlainInSql
  <2>2. /\ SqlField(w, n, t) \in TruthValues
        /\ SqlField(w, n, t) = "true" <=> FieldMatches(w, n, t)
        /\ ~Nullable(n) => SqlField(w, n, t) # "null"
    <3> HIDE DEF n
    <3> QED
      BY <1>2, <2>1, SqlFieldAgrees
  <2> QED
    BY <1>2, <2>2 DEF SqlLeaf, Matches
<1>3. CASE n.type = "time"
  <2> DEFINE empty == n.op \in {"is empty", "is not empty"}
  <2>1. CASE ~empty /\ w.started[t] = None
    BY <1>3, <2>1 DEF SqlLeaf, SqlTime, Matches, TimeMatches, Nullable, TruthValues
  <2>2. CASE empty \/ w.started[t] # None
    <3>1. SqlTime(w, n, t) = Truth(TimeMatches(w, n, t))
      BY <2>2 DEF SqlTime
    <3>2. SqlLeaf(w, n, t) = SqlTime(w, n, t) /\ (Matches(w, n, t, seen) <=> TimeMatches(w, n, t))
      BY <1>3 DEF SqlLeaf, Matches
    <3> QED
      BY <3>1, <3>2 DEF Truth, TruthValues
  <2> QED
    BY <2>1, <2>2
<1>4. CASE n.type = "comment"
  BY <1>4 DEF SqlLeaf, Matches, Truth, TruthValues
<1>5. CASE n.type = "graph"
  <2>1. n.depth # None => n.depth.value \in Int /\ n.depth.op \in {"<", "<="}
    BY <1>1, <1>5, FieldsOfQuery DEF PlainInSql
  <2>2. /\ SqlGraph(w, n, t) \in {"true", "false"}
        /\ SqlGraph(w, n, t) = "true" <=> GraphMatches(EffectiveEdges(w, seen), n, t)
    <3> HIDE DEF n
    <3> QED
      BY <1>5, <2>1, SqlGraphAgrees DEF n
  <2> QED
    BY <1>5, <2>2 DEF SqlLeaf, Matches, TruthValues
<1>6. CASE n.type = "hierarchy"
  BY <1>6, NotReachableFromSelf DEF SqlLeaf, Matches, Truth, TruthValues
<1> QED
  BY <1>1, <1>2, <1>3, <1>4, <1>5, <1>6

(* What is asked without a value that may be missing. *)
NothingMissing(q, i) == \A j \in Within(q, i) : ~Nullable(q[j])

(* Node by node: true in SQL where it is in the service, and unknown only  *)
(* where something may be missing.                                         *)
LEMMA SqlAgrees ==
  ASSUME NEW q, IsQuery(q), PlainInSql(q), NEW a, NEW s,
         \A i \in Leaves(q) : /\ s[i] \in TruthValues
                              /\ s[i] = "true" <=> a[i]
                              /\ ~Nullable(q[i]) => s[i] # "null"
  PROVE  Sql(q, s) = "true" <=> Evaluate(q, a)
<1>1. PICK m : Evaluate(q, a) = m[Len(q)] /\ \A i \in 1..Len(q) : m[i] = NodeHolds(q, a, m, i)
  BY EvaluateByNodes
<1>2. PICK v : Sql(q, s) = v[Len(q)] /\ \A i \in 1..Len(q) : v[i] = NodeInSql(q, s, v, i)
  BY SqlByNodes
<1>3. Len(q) \in Nat \ {0} /\ DOMAIN q = 1..Len(q)
  BY QueryNodes
<1> DEFINE Same(i) == /\ v[i] \in TruthValues
                      /\ v[i] = "true" <=> m[i]
                      /\ NothingMissing(q, i) => v[i] # "null"
           bad == {i \in 1..Len(q) : ~Same(i)}
<1>4. bad = {}
  <2>1. SUFFICES ASSUME bad # {} PROVE FALSE
    OBVIOUS
  <2>2. PICK i \in bad : \A j \in bad : i <= j
    <3>1. bad \in SUBSET Nat
      OBVIOUS
    <3> HIDE DEF bad
    <3> QED
      BY <2>1, <3>1, LeastNumber
  <2>3. i \in 1..Len(q) /\ ~Same(i)
    BY <2>2
  <2>4. \A j \in 1..(i - 1) : Same(j)
    <3>1. SUFFICES ASSUME NEW j \in 1..(i - 1) PROVE Same(j)
      OBVIOUS
    <3>2. j \in 1..Len(q) /\ ~(i <= j)
      BY <1>3, <2>3
    <3> HIDE DEF Same
    <3> QED
      BY <2>2, <3>2
  <2>5. v[i] = NodeInSql(q, s, v, i) /\ m[i] = NodeHolds(q, a, m, i)
    BY <1>1, <1>2, <2>3
  <2>6. i \in Within(q, i) /\ \A j \in Operands(q[i]) : NothingMissing(q, i) => NothingMissing(q, j)
    BY <2>3, WithinOperands DEF NothingMissing
  <2>7. CASE q[i].type \in {"and", "or"}
    <3> DEFINE vs == {v[j] : j \in q[i].nodes}
    <3>1. q[i].nodes \subseteq 1..(i - 1) /\ Operands(q[i]) = q[i].nodes
      BY <2>3, <2>7, QueryNodes DEF Operands
    <3>2. \A j \in q[i].nodes : v[j] \in TruthValues /\ (v[j] = "true" <=> m[j])
      BY <2>4, <3>1
    <3>3. vs \in SUBSET TruthValues
      BY <3>2
    <3>4. NothingMissing(q, i) => "null" \notin vs
      BY <2>4, <2>6, <3>1
    <3>5. (\A u \in vs : u = "true") <=> \A j \in q[i].nodes : m[j]
      BY <3>2
    <3>6. (\E u \in vs : u = "true") <=> \E j \in q[i].nodes : m[j]
      BY <3>2
    <3> HIDE DEF vs
    <3>7. /\ SqlAnd(vs) \in TruthValues /\ SqlOr(vs) \in TruthValues
          /\ SqlAnd(vs) = "true" <=> \A u \in vs : u = "true"
          /\ SqlOr(vs) = "true" <=> \E u \in vs : u = "true"
          /\ "null" \notin vs => SqlAnd(vs) # "null" /\ SqlOr(vs) # "null"
      BY <3>3, SqlConnectives
    <3>8. CASE q[i].type = "and"
      <4>1. v[i] = SqlAnd(vs) /\ (m[i] <=> \A j \in q[i].nodes : m[j])
        BY <2>5, <3>8 DEF NodeInSql, NodeHolds, vs
      <4> QED
        BY <2>3, <3>4, <3>5, <3>7, <4>1
    <3>9. CASE q[i].type = "or"
      <4>1. v[i] = SqlOr(vs) /\ (m[i] <=> \E j \in q[i].nodes : m[j])
        BY <2>5, <3>9 DEF NodeInSql, NodeHolds, vs
      <4> QED
        BY <2>3, <3>4, <3>6, <3>7, <4>1
    <3> QED
      BY <2>7, <3>8, <3>9
  <2>8. CASE q[i].type = "not"
    <3> DEFINE j == q[i].node
    <3>1. j \in 1..(i - 1)
      BY <2>3, <2>8, QueryNodes
    <3>2. v[i] = SqlNot(v[j]) /\ (m[i] <=> ~m[j])
      BY <2>5, <2>8 DEF NodeInSql, NodeHolds
    <3>3. NothingMissing(q, j)
      BY <1>3, <2>3, <2>8 DEF PlainInSql, NothingMissing
    <3> HIDE DEF j
    <3>4. v[j] \in TruthValues /\ (v[j] = "true" <=> m[j]) /\ v[j] # "null"
      BY <2>4, <3>1, <3>3
    <3>5. SqlNot(v[j]) \in TruthValues /\ SqlNot(v[j]) # "null" /\ (SqlNot(v[j]) = "true" <=> v[j] = "false")
      BY <3>4, SqlNegation
    <3> QED
      BY <2>3, <3>2, <3>4, <3>5 DEF TruthValues
  <2>9. CASE q[i].type \notin Connectives
    <3>1. i \in Leaves(q)
      BY <1>3, <2>3, <2>9 DEF Leaves
    <3>2. v[i] = s[i] /\ (m[i] <=> a[i])
      BY <2>5, <2>9 DEF NodeInSql, NodeHolds, Connectives
    <3> QED
      BY <2>3, <2>6, <3>1, <3>2 DEF NothingMissing
  <2> QED
    BY <2>7, <2>8, <2>9 DEF Connectives
<1>5. Len(q) \in 1..Len(q)
  BY <1>3
<1>6. Same(Len(q))
  <2> HIDE DEF Same
  <2> QED
    BY <1>4, <1>5
<1> QED
  BY <1>1, <1>2, <1>6

LEMMA PostgresListAgrees ==
  ASSUME NEW w, IsWorld(w), ~AssignedArchived(w),
         NEW q, IsQuery(q), PlainInSql(q), NEW finished \in BOOLEAN, finished \/ ~Walks(q)
  PROVE  PostgresList(w, q, finished) = ServiceList(w, q, finished)
<1> DEFINE seen == Kept(w, finished)
<1>1. \A i \in Leaves(q) : q[i].type \in {"graph", "hierarchy"} => seen = Active(w)
  BY EverythingKept DEF Walks, Leaves
<1>2. seen \subseteq Task
  BY EverythingKept
<1>4. ~\E i \in DOMAIN q : Untranslatable(q[i])
  BY DEF PlainInSql
<1> HIDE DEF seen
<1>3. ASSUME NEW t \in seen
      PROVE  Sql(q, [i \in Leaves(q) |-> SqlLeaf(w, q[i], t)]) = "true" <=>
               Evaluate(q, [i \in Leaves(q) |-> Matches(w, q[i], t, seen)])
  <2> DEFINE s == [i \in Leaves(q) |-> SqlLeaf(w, q[i], t)]
             a == [i \in Leaves(q) |-> Matches(w, q[i], t, seen)]
  <2>1. \A i \in Leaves(q) : /\ SqlLeaf(w, q[i], t) \in TruthValues
                             /\ SqlLeaf(w, q[i], t) = "true" <=> Matches(w, q[i], t, seen)
                             /\ ~Nullable(q[i]) => SqlLeaf(w, q[i], t) # "null"
    BY <1>1, <1>2, <1>3, SqlLeafAgrees
  <2>2. \A i \in Leaves(q) : s[i] \in TruthValues /\ (s[i] = "true" <=> a[i]) /\ (~Nullable(q[i]) => s[i] # "null")
    BY <2>1
  <2> HIDE DEF s, a
  <2>3. Sql(q, s) = "true" <=> Evaluate(q, a)
    BY <2>2, SqlAgrees
  <2> QED
    BY <2>3 DEF s, a
<1> QED
  BY <1>3, <1>4, Zenon DEF PostgresList, ServiceList, seen

(***************************************************************************)
(* The theorems.                                                           *)
(***************************************************************************)

(* The stored state and the query are those of the instance, and what is   *)
(* listed is what the three ways make of them.                             *)
ListInv ==
  /\ instance \in DOMAIN Instances /\ world \in Instances[instance].worlds
  /\ query # None =>
       /\ query \in Instances[instance].queries /\ includeFinished \in BOOLEAN
       /\ listed = [service  |-> ServiceList(world, query, includeFinished),
                    postgres |-> PostgresList(world, query, includeFinished),
                    prism    |-> PrismList(world, query, includeFinished)]

LEMMA ListInvariant == Spec => []ListInv
<1>1. Init => ListInv
  BY DEF Init, ListInv
<1>2. ListInv /\ [Next]_vars => ListInv'
  <2>1. SUFFICES ASSUME ListInv, [Next]_vars PROVE ListInv'
    OBVIOUS
  <2>2. ASSUME NEW q \in Instances[instance].queries, NEW finished \in BOOLEAN, List(q, finished)
        PROVE  ListInv'
    BY <2>1, <2>2 DEF List, ListInv
  <2>3. CASE UNCHANGED vars
    BY <2>1, <2>3 DEF ListInv, vars
  <2> QED
    BY <2>1, <2>2, <2>3 DEF Next
<1> QED
  BY <1>1, <1>2, PTL DEF Spec

LEMMA InstancesOfInv ==
  ASSUME ListInv
  PROVE  IsWorld(world) /\ (query # None => IsQuery(query))
BY InstancesAssumption DEF ListInv

(* Listing over Postgres answers what the service itself would answer, for *)
(* every query of the plain kind and any number of tasks: the query is     *)
(* translated, no row is lost to an unknown truth value and none gained,   *)
(* whatever is nested in what.                                             *)
THEOREM PostgresAgreesInvariant == Spec => []PostgresAgrees
<1>1. ListInv => PostgresAgrees
  <2>1. SUFFICES ASSUME ListInv, query # None, PlainInSql(query), includeFinished \/ ~Walks(query),
                        ~AssignedArchived(world)
                 PROVE  Agree("postgres")
    BY DEF PostgresAgrees
  <2>2. PostgresList(world, query, includeFinished) = ServiceList(world, query, includeFinished)
    BY <2>1, InstancesOfInv, PostgresListAgrees DEF ListInv
  <2> QED
    BY <2>1, <2>2 DEF ListInv, Agree
<1> QED
  BY <1>1, ListInvariant, PTL

(* Listing over Prism answers what the service itself would answer, while  *)
(* nothing is archived and no walk returns.                                *)
THEOREM PrismAgreesInvariant == Spec => []PrismAgrees
<1>1. ListInv => PrismAgrees
  <2>1. SUFFICES ASSUME ListInv, query # None, PlainInPrism(query), includeFinished \/ ~Walks(query),
                        NothingArchived(world), \A t \in Task : ClosureLengths(AllEdges(world), t, t) = {}
                 PROVE  Agree("prism")
    BY DEF PrismAgrees
  <2>2. PrismList(world, query, includeFinished) = ServiceList(world, query, includeFinished)
    BY <2>1, InstancesOfInv, PrismListAgrees DEF ListInv
  <2> QED
    BY <2>1, <2>2 DEF ListInv, Agree
<1> QED
  BY <1>1, ListInvariant, PTL

(* Depths and dependents in a listing are those of the paths of active     *)
(* dependencies: the memoised recursion of graph.ts computes the longest   *)
(* path, and the closure, of any graph without cycles.                     *)
THEOREM DerivationsSoundInvariant == Spec => []DerivationsSound
<1>1. ListInv => DerivationsSound
  BY InstancesOfInv, DerivationsOfWorld
<1> QED
  BY <1>1, ListInvariant, PTL

(* Rollups count each active descendant once, in one status, in any forest *)
(* of tasks.                                                               *)
THEOREM RollupsSoundInvariant == Spec => []RollupsSound
<1>1. ListInv => RollupsSound
  BY InstancesOfInv, RollupsOfWorld
<1> QED
  BY <1>1, ListInvariant, PTL

=============================================================================
