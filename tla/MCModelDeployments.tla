-------------------------- MODULE MCModelDeployments --------------------------
(* Constant values for model checking ModelDeployments.                    *)
EXTENDS ModelDeployments, TLC

CONSTANTS a1, a2, t1, t2

\* Administrators and targets are interchangeable, and only safety is checked.
Symmetry == Permutations(Admins) \cup Permutations(Targets)

=============================================================================
