----------------------------- MODULE MCTaskGraph -----------------------------
(* Instances of TaskGraph for TLC. *)
EXTENDS TaskGraph, TLC

(* No task id is treated specially. *)
TaskSymmetry == Permutations(Task)

(* Exports of small projects: one task of any kind, or a task below        *)
(* another, with a dependency on or of a third.                            *)
File(rows, life, par, arch, d) ==
  [rows |-> rows, lifecycle |-> life, parent |-> par, archived |-> arch, deps |-> d]

FileTable ==
  {File({t}, [x \in {t} |-> l], [x \in {t} |-> p], {}, {}) :
     t \in Task, l \in {"open", "finished"}, p \in Task \cup {None}}
  \cup {File({t}, [x \in {t} |-> "open"], [x \in {t} |-> None], {t}, {}) : t \in Task}
  \cup UNION {{File({t, u}, [x \in {t, u} |-> IF x = t THEN "open" ELSE "finished"],
                   [x \in {t, u} |-> IF x = t THEN p ELSE None], {}, d) :
                p \in {None, u}, d \in {{<<u, v>>}, {<<v, u>>, <<u, t>>}}} :
              <<t, u, v>> \in {s \in Task \X Task \X Task : Cardinality({s[1], s[2], s[3]}) = 3}}

(* TLC computes what a constant stands for at each use, and a definition   *)
(* just once.                                                              *)
SmallFiles == FileTable

=============================================================================
