----------------------------- MODULE MCEdgeSync -----------------------------
(* Constant values for model checking EdgeSync.                            *)
EXTENDS EdgeSync

CONSTANTS a1, s1, s2

=============================================================================
