------------------------ MODULE MCCameraConfiguration ------------------------
(* Constant values for model checking CameraConfiguration.                 *)
EXTENDS CameraConfiguration, TLC

CONSTANTS a1, a2, z1

\* Administrators are interchangeable, and only safety is checked.
Symmetry == Permutations(Admins)

=============================================================================
