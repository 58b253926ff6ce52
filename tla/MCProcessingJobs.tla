-------------------------- MODULE MCProcessingJobs --------------------------
(* Constant values for model checking ProcessingJobs.                      *)
EXTENDS ProcessingJobs

CONSTANTS w1, a1, c1, k1, k2, t1

OneJob  == {1}
TwoJobs == {1, 2}

AnyType == {"aircraft_on_block", "unclassified_service_vehicle_present"}
OnBlockOnly == {"aircraft_on_block"}

\* All jobs are about the same turnaround.
SharedTurnaround == [j \in Jobs |-> t1]

OneFrame   == [j \in Jobs |-> 1]
TwoFrames  == [j \in Jobs |-> 2]
TwoThenOne == [j \in Jobs |-> IF j = 1 THEN 2 ELSE 1]

=============================================================================
