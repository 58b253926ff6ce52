------------------------- MODULE MCEvidenceRetention -------------------------
(* Constant values for model checking EvidenceRetention.                   *)
EXTENDS EvidenceRetention, TLC

CONSTANTS r1, r2

\* Two alerts of one rule and track.
MCPrefixOf == [k \in Keys |-> "rule-track"]

\* Runners are interchangeable, and only safety is checked.
Symmetry == Permutations(Runners)

=============================================================================
