--------------------------- MODULE StoreReadsProofs ---------------------------
(***************************************************************************)
(* What a request was told is written shows in every later read that the   *)
(* tables forget with all it derives from, for any reads, any tables and   *)
(* any number of requests.                                                 *)
(***************************************************************************)
EXTENDS StoreReads, TLAPS

(* Every write of what e derives from makes the store forget e. *)
Complete(e) == \A f \in DependsOn[e] : e \in InvalidatedBy[f]

TablesComplete == \A e \in Fresh : Complete(e)

-----------------------------------------------------------------------------
(* Types, of what the argument looks at. *)

WriterOK(w) ==
  \/ writer[w] = Idle
  \/ /\ writer[w] \in [pc : {"submitted"}, touches : BOOLEAN, forgets : BOOLEAN]
     /\ Complete(entry) /\ writer[w].touches => writer[w].forgets
  \/ /\ writer[w] \in [pc : {"landed"}, forgets : BOOLEAN, at : 1..Len(log)]
     /\ Complete(entry) /\ log[writer[w].at] => writer[w].forgets

ReaderOK(r) ==
  \/ reader[r] = Idle
  \/ backend = "prism" /\ reader[r] = [pc |-> "asked"]
  \/ backend = "prism" /\ reader[r] \in [pc : {"computed"}, at : 0..Len(log)]
  \/ backend = "postgres" /\ reader[r] \in [pc : {"version"}, version : 0..Len(log)]
  \/ /\ backend = "postgres"
     /\ reader[r] \in [pc : {"listed"}, version : 0..Len(log), list : 0..Len(log)]
     /\ reader[r].version <= reader[r].list

SnapshotOK(r) ==
  /\ snapshot[r] \in [kept : BOOLEAN, version : 0..Len(log), list : 0..Len(log)]
  /\ snapshot[r].version <= snapshot[r].list

Types ==
  /\ entry \in Entry
  /\ backend \in {"prism", "postgres"}
  /\ log \in Seq(BOOLEAN)
  /\ Len(log) <= MaxCommits
  /\ acked \subseteq 1..Len(log)
  /\ \A w \in Writer : WriterOK(w)
  /\ writer = [w \in Writer |-> writer[w]]
  /\ \A r \in Reader : ReaderOK(r)
  /\ reader = [r \in Reader |-> reader[r]]
  /\ \A r \in Reader : SnapshotOK(r)
  /\ snapshot = [r \in Reader |-> snapshot[r]]

(* What the cache holds: nothing, the rejected or pending promise of a     *)
(* read under way, or a value.                                             *)
CacheOK ==
  \/ cache \in {Empty, Rejected}
  \/ backend = "prism" /\ \E r \in Reader : cache = Promised(r) /\ reader[r].pc \in {"asked", "computed"}
  \/ backend = "prism" /\ cache \in [kind : {"value"}, at : 0..Len(log)]

(* Each answered commit that matters is in the value kept, or in what the  *)
(* pending promise has computed, if the tables are complete for the entry. *)
AckedCovered ==
  \A m \in acked : log[m] /\ Complete(entry) =>
    /\ cache.kind = "value" => m <= cache.at
    /\ \A r \in Reader : cache = Promised(r) /\ reader[r].pc = "computed" => m <= reader[r].at

Inv == Types /\ CacheOK /\ AckedCovered

-----------------------------------------------------------------------------
LEMMA TouchesForgets ==
  ASSUME Complete(entry), NEW ops, Touches(ops)
  PROVE  Forgets(ops)
  BY DEF Complete, Touches, Forgets

(* A commit lands behind the others. *)
LEMMA Landed ==
  ASSUME log \in Seq(BOOLEAN), NEW b \in BOOLEAN, log' = Append(log, b)
  PROVE  /\ log' \in Seq(BOOLEAN)
         /\ Len(log') = Len(log) + 1
         /\ Len(log) \in Nat
         /\ log'[Len(log) + 1] = b
         /\ \A m \in 1..Len(log) : log'[m] = log[m]
  OBVIOUS

LEMMA InitInv == Init => Inv
  BY BoundAssumption DEF Init, Inv, Types, CacheOK, AckedCovered, WriterOK, ReaderOK, SnapshotOK,
     Idle, Empty, NoSnapshot

(* The log only grows, and what there is of requests, reads and snapshots  *)
(* stays well formed. *)
LEMMA LogGrows ==
  ASSUME Inv, NEW b \in BOOLEAN, log' = Append(log, b), Len(log) < MaxCommits,
         UNCHANGED <<backend, entry, acked, cache, reader, snapshot>>
  PROVE  /\ log' \in Seq(BOOLEAN) /\ Len(log') <= MaxCommits /\ acked' \subseteq 1..Len(log')
         /\ \A w \in Writer : writer'[w] = writer[w] => WriterOK(w)'
         /\ \A r \in Reader : ReaderOK(r)'
         /\ \A r \in Reader : SnapshotOK(r)'
         /\ CacheOK'
         /\ AckedCovered'
<1>1. /\ log' \in Seq(BOOLEAN) /\ Len(log') = Len(log) + 1 /\ Len(log) \in Nat
      /\ \A m \in 1..Len(log) : log'[m] = log[m]
  BY Landed DEF Inv, Types
<1>2. log' \in Seq(BOOLEAN) /\ Len(log') <= MaxCommits /\ acked' \subseteq 1..Len(log')
  BY <1>1, BoundAssumption DEF Inv, Types
<1>3. ASSUME NEW w \in Writer, writer'[w] = writer[w]  PROVE WriterOK(w)'
  BY <1>1, <1>3 DEF Inv, Types, WriterOK
<1>4. ASSUME NEW r \in Reader  PROVE ReaderOK(r)'
  BY <1>1 DEF Inv, Types, ReaderOK
<1>5. ASSUME NEW r \in Reader  PROVE SnapshotOK(r)'
  BY <1>1 DEF Inv, Types, SnapshotOK
<1>6. CacheOK'
  BY <1>1 DEF Inv, CacheOK
<1>7. AckedCovered'
  BY <1>1 DEF Inv, Types, AckedCovered
<1> QED
  BY <1>2, <1>3, <1>4, <1>5, <1>6, <1>7

-----------------------------------------------------------------------------
LEMMA SubmitInv ==
  ASSUME Inv, NEW w \in Writer, Submit(w)
  PROVE  Inv'
<1>1. PICK ops \in Writes :
        writer' = [writer EXCEPT ![w] =
                     [pc |-> "submitted", touches |-> Touches(ops), forgets |-> Forgets(ops)]]
  BY DEF Submit
<1>2. Touches(ops) \in BOOLEAN /\ Forgets(ops) \in BOOLEAN /\ (Complete(entry) /\ Touches(ops) => Forgets(ops))
  BY TouchesForgets DEF Touches, Forgets
<1>3. \A v \in Writer : WriterOK(v)'
  BY <1>1, <1>2 DEF Inv, Types, WriterOK, Submit
<1> QED
  BY <1>1, <1>3 DEF Inv, Types, Submit, CacheOK, AckedCovered, ReaderOK, SnapshotOK

LEMMA LandInv ==
  ASSUME Inv, NEW w \in Writer, Land(w)
  PROVE  Inv'
<1>1. /\ writer[w] \in [pc : {"submitted"}, touches : BOOLEAN, forgets : BOOLEAN]
      /\ Complete(entry) /\ writer[w].touches => writer[w].forgets
  BY DEF Inv, Types, WriterOK, Land, Idle
<1>2. /\ Len(log') = Len(log) + 1 /\ Len(log) \in Nat
      /\ log'[Len(log) + 1] = writer[w].touches
  BY <1>1, Landed DEF Inv, Types, Land
<1>3. \A v \in Writer \ {w} : writer'[v] = writer[v]
  BY DEF Inv, Types, Land
<1>4. WriterOK(w)'
  BY <1>1, <1>2 DEF Inv, Types, Land, WriterOK
<1> QED
  BY <1>1, <1>3, <1>4, LogGrows DEF Inv, Types, Land

LEMMA AcknowledgeInv ==
  ASSUME Inv, NEW w \in Writer, Acknowledge(w)
  PROVE  Inv'
<1>1. /\ writer[w] \in [pc : {"landed"}, forgets : BOOLEAN, at : 1..Len(log)]
      /\ Complete(entry) /\ log[writer[w].at] => writer[w].forgets
  BY DEF Inv, Types, WriterOK, Acknowledge, Idle
<1>2. Types'
  <2>1. \A v \in Writer : WriterOK(v)'
    BY DEF Inv, Types, WriterOK, Acknowledge
  <2>2. \A r \in Reader : ReaderOK(r)' /\ SnapshotOK(r)'
    BY DEF Inv, Types, ReaderOK, SnapshotOK, Acknowledge
  <2> QED
    BY <1>1, <2>1, <2>2 DEF Inv, Types, Acknowledge
<1>3. CacheOK'
  BY DEF Inv, CacheOK, Acknowledge, CacheAfter
<1>4. AckedCovered'
  <2>1. CASE backend = "prism" /\ writer[w].forgets
    BY <2>1 DEF AckedCovered, Acknowledge, CacheAfter, Empty, Promised
  <2>2. CASE backend # "prism"
    BY <2>2 DEF Inv, CacheOK, AckedCovered, Acknowledge, CacheAfter, Empty, Rejected, Promised
  <2>3. CASE ~writer[w].forgets
    BY <1>1, <2>3 DEF Inv, AckedCovered, Acknowledge, CacheAfter
  <2> QED
    BY <2>1, <2>2, <2>3
<1> QED
  BY <1>2, <1>3, <1>4 DEF Inv

LEMMA WriteFailsInv ==
  ASSUME Inv, NEW w \in Writer, WriteFails(w)
  PROVE  Inv'
<1>1. \A v \in Writer : WriterOK(v)'
  BY DEF Inv, Types, WriterOK, WriteFails
<1> QED
  BY <1>1 DEF Inv, Types, WriteFails, CacheOK, AckedCovered, ReaderOK, SnapshotOK

LEMMA LandElsewhereInv ==
  ASSUME Inv, LandElsewhere
  PROVE  Inv'
<1>1. PICK ops \in Writes : log' = Append(log, Touches(ops))
  BY DEF LandElsewhere
<1>2. Touches(ops) \in BOOLEAN
  BY DEF Touches
<1> QED
  BY <1>1, <1>2, LogGrows DEF Inv, Types, LandElsewhere

-----------------------------------------------------------------------------
LEMMA AskInv ==
  ASSUME Inv, NEW r \in Reader, Ask(r)
  PROVE  Inv'
<1>1. CASE cache # Empty
  BY <1>1 DEF Inv, Types, Ask, CacheOK, AckedCovered, WriterOK, ReaderOK, SnapshotOK
<1>2. CASE cache = Empty
  <2>1. Types'
    <3>1. \A q \in Reader : ReaderOK(q)'
      BY <1>2 DEF Inv, Types, ReaderOK, Ask
    <3> QED
      BY <1>2, <3>1 DEF Inv, Types, Ask, WriterOK, SnapshotOK
  <2>2. CacheOK'
    BY <1>2 DEF Inv, Types, CacheOK, Ask
  <2>3. AckedCovered'
    <3>1. reader'[r].pc = "asked"
      BY <1>2 DEF Inv, Types, Ask
    <3> QED
      BY <1>2, <3>1 DEF AckedCovered, Ask, Promised
  <2> QED
    BY <2>1, <2>2, <2>3 DEF Inv
<1> QED
  BY <1>1, <1>2

LEMMA ComputeInv ==
  ASSUME Inv, NEW r \in Reader, Compute(r)
  PROVE  Inv'
<1>1. Len(log) \in Nat
  BY DEF Inv, Types
<1>2. Types'
  <2>1. \A q \in Reader : ReaderOK(q)'
    BY <1>1 DEF Inv, Types, ReaderOK, Compute
  <2> QED
    BY <2>1 DEF Inv, Types, Compute, WriterOK, SnapshotOK
<1>3. CacheOK'
  BY DEF Inv, Types, CacheOK, Compute, Promised
<1>4. AckedCovered'
  BY <1>1 DEF Inv, Types, AckedCovered, Compute, Promised
<1> QED
  BY <1>2, <1>3, <1>4 DEF Inv

LEMMA AnswerInv ==
  ASSUME Inv, NEW r \in Reader, Answer(r)
  PROVE  Inv'
<1>1. reader[r] \in [pc : {"computed"}, at : 0..Len(log)]
  BY DEF Inv, Types, ReaderOK, Answer, Idle
<1>2. Types'
  <2>1. \A q \in Reader : ReaderOK(q)'
    BY DEF Inv, Types, ReaderOK, Answer
  <2> QED
    BY <2>1 DEF Inv, Types, Answer, WriterOK, SnapshotOK
<1>3. CASE cache = Promised(r)
  <2>1. CacheOK'
    BY <1>1, <1>3 DEF CacheOK, Answer, CacheAnswered
  <2>2. AckedCovered'
    BY <1>1, <1>3 DEF Inv, AckedCovered, Answer, CacheAnswered, Promised
  <2> QED
    BY <1>2, <2>1, <2>2 DEF Inv
<1>4. CASE cache # Promised(r)
  <2>1. CacheOK'
    BY <1>4 DEF Inv, Types, CacheOK, Answer, CacheAnswered, Promised
  <2>2. AckedCovered'
    BY <1>4 DEF Inv, Types, AckedCovered, Answer, CacheAnswered, Idle
  <2> QED
    BY <1>2, <2>1, <2>2 DEF Inv
<1> QED
  BY <1>3, <1>4

LEMMA FailInv ==
  ASSUME Inv, NEW r \in Reader, Fail(r)
  PROVE  Inv'
<1>1. Types'
  <2>1. \A q \in Reader : ReaderOK(q)'
    BY DEF Inv, Types, ReaderOK, Fail
  <2> QED
    BY <2>1 DEF Inv, Types, Fail, WriterOK, SnapshotOK
<1>2. CASE cache = Promised(r)
  <2>1. cache' \in {Empty, Rejected}
    BY <1>2 DEF Fail
  <2> QED
    BY <1>1, <2>1 DEF Inv, CacheOK, AckedCovered, Empty, Rejected, Promised
<1>3. CASE cache # Promised(r)
  <2>1. CacheOK'
    BY <1>3 DEF Inv, Types, CacheOK, Fail, Promised
  <2>2. AckedCovered'
    BY <1>3 DEF Inv, Types, AckedCovered, Fail, Idle
  <2> QED
    BY <1>1, <2>1, <2>2 DEF Inv
<1> QED
  BY <1>2, <1>3

LEMMA ExpireInv ==
  ASSUME Inv, Expire
  PROVE  Inv'
  BY DEF Inv, Types, Expire, CacheOK, AckedCovered, WriterOK, ReaderOK, SnapshotOK, Empty, Promised

LEMMA SnapshotReadInv ==
  ASSUME Inv, NEW r \in Reader, ReadVersion(r) \/ ReuseSnapshot(r) \/ ListEntry(r) \/ KeepSnapshot(r)
  PROVE  Inv'
<1>1. backend = "postgres" /\ Len(log) \in Nat
  BY DEF Inv, Types, ReadVersion, ReuseSnapshot, ListEntry, KeepSnapshot
<1>2. \A q \in Reader : ReaderOK(q)' /\ SnapshotOK(q)'
  <2>1. CASE ReadVersion(r)
    BY <1>1, <2>1 DEF Inv, Types, ReaderOK, SnapshotOK, ReadVersion
  <2>2. CASE ReuseSnapshot(r)
    BY <1>1, <2>2 DEF Inv, Types, ReaderOK, SnapshotOK, ReuseSnapshot
  <2>3. CASE ListEntry(r)
    <3>1. reader[r] \in [pc : {"version"}, version : 0..Len(log)]
      BY <2>3 DEF Inv, Types, ReaderOK, ListEntry, Idle
    <3> QED
      BY <1>1, <2>3, <3>1 DEF Inv, Types, ReaderOK, SnapshotOK, ListEntry
  <2>4. CASE KeepSnapshot(r)
    <3>1. /\ reader[r] \in [pc : {"listed"}, version : 0..Len(log), list : 0..Len(log)]
          /\ reader[r].version <= reader[r].list
      BY <2>4 DEF Inv, Types, ReaderOK, KeepSnapshot, Idle
    <3> QED
      BY <1>1, <2>4, <3>1 DEF Inv, Types, ReaderOK, SnapshotOK, KeepSnapshot, VersionKept
  <2> QED
    BY <2>1, <2>2, <2>3, <2>4
<1>3. Types'
  BY <1>2 DEF Inv, Types, WriterOK, ReadVersion, ReuseSnapshot, ListEntry, KeepSnapshot
<1>4. cache \in {Empty, Rejected} /\ cache' = cache
  BY <1>1 DEF Inv, CacheOK, ReadVersion, ReuseSnapshot, ListEntry, KeepSnapshot
<1> QED
  BY <1>3, <1>4 DEF Inv, CacheOK, AckedCovered, Empty, Rejected, Promised

LEMMA StepInv ==
  ASSUME Inv, [Next]_vars
  PROVE  Inv'
<1>1. CASE Next
  BY <1>1, SubmitInv, LandInv, AcknowledgeInv, WriteFailsInv, LandElsewhereInv, AskInv, ComputeInv,
     AnswerInv, FailInv, ExpireInv, SnapshotReadInv DEF Next
<1>2. CASE UNCHANGED vars
  BY <1>2 DEF Inv, Types, CacheOK, AckedCovered, WriterOK, ReaderOK, SnapshotOK, vars
<1> QED
  BY <1>1, <1>2

-----------------------------------------------------------------------------
(* No kept value of a fresh entry is older than an answered commit that    *)
(* matters, if the tables are complete for the fresh entries               *)
(* (PrismStore.flush, cachedRows).                                         *)
THEOREM AnsweredCommitsShowTheorem ==
  ASSUME TablesComplete
  PROVE  Spec => []AnsweredCommitsShow
<1>1. Init => Inv
  BY InitInv
<1>2. Inv /\ [Next]_vars => Inv'
  BY StepInv
<1>3. Inv => AnsweredCommitsShow
  BY DEF Inv, AckedCovered, AnsweredCommitsShow, TablesComplete
<1> QED
  BY <1>1, <1>2, <1>3, PTL DEF Spec

(* A snapshot whose version is still current has every commit counted in   *)
(* that version (projectSnapshot).                                         *)
THEOREM SnapshotCurrentTheorem == Spec => []SnapshotCurrent
<1>1. Init => Inv
  BY InitInv
<1>2. Inv /\ [Next]_vars => Inv'
  BY StepInv
<1>3. Inv => SnapshotCurrent
  BY DEF Inv, Types, SnapshotOK, SnapshotCurrent, Hit
<1> QED
  BY <1>1, <1>2, <1>3, PTL DEF Spec

(* Types, and the positions, versions and promises in them. *)
THEOREM ReadsTypeCorrect == Spec => []ReadsTypeOK
<1>1. Init => Inv
  BY InitInv
<1>2. Inv /\ [Next]_vars => Inv'
  BY StepInv
<1>3. Inv => ReadsTypeOK
  BY DEF Inv, Types, CacheOK, WriterOK, SnapshotOK, ReadsTypeOK, Idle
<1> QED
  BY <1>1, <1>2, <1>3, PTL DEF Spec

=============================================================================
