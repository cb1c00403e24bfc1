-------------------------- MODULE MCTaskTransactions --------------------------
(* Instances of TaskTransactions for TLC. *)
EXTENDS TaskTransactions, TLC

(* Neither a task id nor a client is treated specially. *)
TxSymmetry == Permutations(Task) \cup Permutations(Client)

=============================================================================
