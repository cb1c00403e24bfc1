--------------------------- MODULE MCProjectRecords ---------------------------
(* Instances of ProjectRecords for TLC. *)
EXTENDS ProjectRecords, TLC

File(ts, rs, ls) ==
  [tasks |-> ts, rows |-> rs, place |-> [i \in DOMAIN rs |-> 1], links |-> ls]

Named(i, n) == i :> [name |-> n, archived |-> FALSE]

(* A tag or queue with a link; a link alone or with its task; a comment    *)
(* alone or with its task; two records, one of which may take the name the *)
(* other gives up.                                                         *)
FileTable ==
  UNION {{File(<<>>, Named(i, n), {[row |-> i, task |-> t]}),
          File(<<>>, <<>>, {[row |-> i, task |-> t]}),
          File(t :> "finished", <<>>, {[row |-> i, task |-> t]}),
          File(<<>>, Named(i, t), {}), File(t :> "finished", Named(i, t), {})} :
           i \in Id, n \in Name, t \in Task}
  \cup
  {[tasks |-> <<>>, links |-> {}, place |-> (i :> 1) @@ (j :> 2), rows |-> Named(i, p[1]) @@ Named(j, p[2])] :
     <<i, j>> \in {q \in Id \X Id : q[1] # q[2]}, p \in {q \in Name \X Name : q[1] # q[2]}}

(* TLC computes what a constant stands for at each use, and a definition   *)
(* just once.                                                              *)
SmallFiles == FileTable

(* No task, id, name or client is treated specially. *)
RecordSymmetry ==
  Permutations(Task) \cup Permutations(Id) \cup Permutations(Name) \cup Permutations(Client)

=============================================================================
