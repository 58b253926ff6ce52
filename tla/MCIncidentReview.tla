--------------------------- MODULE MCIncidentReview ---------------------------
(* Constant values for model checking IncidentReview.                      *)
EXTENDS IncidentReview, TLC

CONSTANTS c1, c2, k1

\* Clients are interchangeable, and only safety is checked.
Symmetry == Permutations(Clients)

=============================================================================
