-------------------------- MODULE MCConnectorOutbox --------------------------
(* Instances of ConnectorOutbox for TLC; the run has liveness, so no       *)
(* symmetry.                                                               *)
EXTENDS ConnectorOutbox

=============================================================================
