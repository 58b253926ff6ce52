-------------------------- MODULE MCTurnaroundReview --------------------------
(* Constant values for model checking TurnaroundReview.                    *)
EXTENDS TurnaroundReview, TLC

CONSTANTS r1, r2

AllTypes == FoundTypes \cup RequiredTypes

\* One milestone, both types, one type on two tracks.
SomeFindings ==
    {{<<"aircraft_on_block", 1>>},
     {<<"aircraft_on_block", 1>>, <<"unclassified_service_vehicle_present", 1>>},
     {<<"aircraft_on_block", 1>>, <<"aircraft_on_block", 2>>}}

\* New types with and without a new time, the time alone, and a row made the
\* aircraft on block.
SomeCorrections ==
    {[type |-> "service_vehicle_clear", time |-> 2],
     [type |-> "pushback_path_clear", time |-> 1],
     [type |-> "aircraft_on_block", time |-> 1],
     [type |-> NoType, time |-> 2]}

\* Reviewers are interchangeable, and only safety is checked.
Symmetry == Permutations(Reviewers)

=============================================================================
