--------------------------- MODULE MCVideoAnalysis ---------------------------
(* Four places in a row with the zone in the middle, and one rule of each  *)
(* family; the alerts of a finished video are evaluated against some truths. *)
EXTENDS VideoEvaluation

MCClasses == {"vehicle", "person"}
MCPlaces  == 0..3

Rule == [type |-> "restricted_zone_entry", classes |-> {}, zone |-> {1, 2},
         debounce |-> 2, cooldown |-> 3, limit |-> 0, dwell |-> 0, heading |-> 1]

MCRules ==
    {Rule,
     [Rule EXCEPT !.type = "excess_speed", !.zone = {}, !.limit = 1],
     [Rule EXCEPT !.type = "wrong_way", !.zone = {}, !.limit = 1],
     [Rule EXCEPT !.type = "equipment_left_behind", !.dwell = 2],
     [Rule EXCEPT !.type = "candidate_near_miss", !.zone = {}, !.limit = 2,
                  !.dwell = 2, !.classes = {"vehicle"}]}

MilestoneOf(zone, dwell) ==
    [type |-> "unclassified_service_vehicle_present", class |-> "vehicle",
     zone |-> zone, dwell |-> dwell]

MCMilestoneRules == <<MilestoneOf({1}, 2), MilestoneOf({1, 2}, 3)>>

Vehicle(p) == [class |-> "vehicle", at |-> p]
Person(p)  == [class |-> "person", at |-> p]

MCScenes ==
    {<<>>, <<Vehicle(0)>>, <<Vehicle(1)>>, <<Vehicle(2)>>,
     <<Person(1), Vehicle(2)>>, <<Vehicle(3), Vehicle(1)>>}

-----------------------------------------------------------------------------
(* Evaluation of the alerts. *)

MCEventNames == RuleTypes

EventAt(type, time) == [type |-> type, time |-> time]

MCGroundTruths ==
    {[certain |-> TRUE,
      truths |-> <<EventAt("restricted_zone_entry", 3),
                   EventAt("restricted_zone_entry", 4)>>],
     [certain |-> FALSE,
      truths |-> <<EventAt("wrong_way", 2), EventAt("candidate_near_miss", 1),
                   EventAt("excess_speed", 2), EventAt("excess_speed", 1)>>]}

=============================================================================
