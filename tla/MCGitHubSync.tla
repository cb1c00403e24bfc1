----------------------------- MODULE MCGitHubSync -----------------------------
(* Instances of GitHubSync for TLC. *)
EXTENDS GitHubSync, TLC

(* Neither an issue nor a handler is treated specially.  Not for runs with *)
(* liveness.                                                               *)
SyncSymmetry == Permutations(Issue) \cup Permutations(Handler)

=============================================================================
