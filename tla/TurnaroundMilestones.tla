------------------------- MODULE TurnaroundMilestones -------------------------
(***************************************************************************)
(* TurnaroundMilestoneEngine of vision/milestones.py: a milestone of a     *)
(* type once per track, when the track has enough time between its first   *)
(* and its last point in a zone.                                           *)
(***************************************************************************)
EXTENDS Tracker

CONSTANT MilestoneRules   \* the list of MilestoneRule records

MilestoneRule == [type : {"aircraft_on_block",
                          "unclassified_service_vehicle_present"},
                  class : Classes, zone : SUBSET Places, dwell : Nat]

ASSUME MilestoneRulesAssumption == MilestoneRules \in Seq(MilestoneRule)

VARIABLES
    emitted,     \* <<milestone type, track id>>
    milestones   \* MilestoneCandidates of the run

milestoneEngine == <<emitted, milestones>>

-----------------------------------------------------------------------------

PointsInside(rule, track) ==
    {n \in DOMAIN track.points : track.points[n].at \in rule.zone}

\* Two points in the zone, `dwell` apart: also if the track left in between.
Visits(rule, track) ==
    /\ track.class = rule.class
    /\ \E m, n \in PointsInside(rule, track) :
        m < n /\ track.points[n].time - track.points[m].time >= rule.dwell

FirstInside(rule, track) ==
    track.points[CHOOSE n \in PointsInside(rule, track) :
                    \A m \in PointsInside(rule, track) : n <= m].time

MilestonesInit == emitted = {} /\ milestones = {}

\* The rules that add a milestone for <<type, track>>.
Fulfilled(ts, key) ==
    {n \in DOMAIN MilestoneRules :
        /\ MilestoneRules[n].type = key[1]
        /\ Visits(MilestoneRules[n], ts[key[2]])}

Types == {MilestoneRules[n].type : n \in DOMAIN MilestoneRules}

\* The first rule that is fulfilled makes the candidate.
MilestoneCandidate(ts, key) ==
    LET n == CHOOSE n \in Fulfilled(ts, key) :
                \A m \in Fulfilled(ts, key) : n <= m
    IN [type |-> key[1], track |-> key[2],
        time |-> FirstInside(MilestoneRules[n], ts[key[2]])]

\* (mutant) A type is emitted once for all tracks.
DueOncePerType(ts) ==
    {key \in Types \X Active(ts) :
        Fulfilled(ts, key) # {} /\ \A other \in emitted : other[1] # key[1]}

Due(ts) ==
    {key \in Types \X Active(ts) : key \notin emitted /\ Fulfilled(ts, key) # {}}

\* evaluate, over the tracks `ts` the tracker has just returned.
EvaluateMilestones(ts) ==
    /\ emitted' = emitted \cup Due(ts)
    /\ milestones' = milestones \cup
                        {MilestoneCandidate(ts, key) : key \in Due(ts)}

=============================================================================
