----------------------------- MODULE MCStoreReads -----------------------------
(* Instances of StoreReads, with the tables of the Prism app, for TLC. *)
EXTENDS StoreReads, TLC

Surfaces == INSTANCE PrismSurfaces

SurfaceFacts == Surfaces!AppFact

CachedReads == Surfaces!CachedReads

FreshTable == CachedReads \ Surfaces!StaleReads

(* Just the fresh reads are forgotten by every write that matters to them: *)
(* TablesComplete, which the proofs assume.                                *)
ASSUME TablesAssumption == FreshTable = {e \in CachedReads : Surfaces!Forgotten(e)}

DependsTable == [e \in CachedReads |-> Surfaces!AppDependsOn[e]]

ForgottenTable == Surfaces!AppInvalidatedBy

(* matcherResultCache and tagReadCache have no time to live, and no        *)
(* handler that drops a promise that fails.                                *)
TimedTable == CachedReads \ ({"matcherResults"} \cup Surfaces!TagReads)

(* A service commits a fact with its activity record; a reparenting two.   *)
WriteTable ==
  {{f, "ActivityEvent"} : f \in SurfaceFacts}
    \cup {{"Task", "TaskContainsTask", "ActivityEvent"}}

(* TLC computes what a constant stands for at each use, and a definition   *)
(* just once.                                                              *)
FreshReads == FreshTable

ReadDependsOn == DependsTable

ForgottenBy == ForgottenTable

TimedReads == TimedTable

ServiceWrites == WriteTable

ReadSymmetry == Permutations(Writer) \cup Permutations(Reader)

=============================================================================
