----------------------------- MODULE SafetyRules -----------------------------
(***************************************************************************)
(* SafetyRuleEngine of vision/rules.py: the rules of a camera evaluated    *)
(* over the active tracks of each frame, with debounce and cooldown.       *)
(*                                                                         *)
(* On the line of Tracker a polygon is a set of places, an angle one of    *)
(* the two directions, and a speed is compared as distance against         *)
(* threshold times time.  Confidences are left out.                        *)
(***************************************************************************)
EXTENDS Tracker

CONSTANTS
    Rules,        \* the RuleConfig records
    MetricScale   \* is the camera's calibration metric?

ZoneTypes == {"person_in_restricted_zone", "restricted_zone_entry",
              "pushback_path_obstruction"}
RuleTypes == ZoneTypes \cup {"excess_speed", "wrong_way",
                             "equipment_left_behind", "candidate_near_miss"}

\* `classes` is empty for "all", `zone` for "no polygon"; `limit` is the
\* threshold on speed or distance, `dwell` the one on time, `heading` the
\* expected direction.
RuleConfig == [type : RuleTypes, classes : SUBSET Classes,
               zone : SUBSET Places, debounce : Nat, cooldown : Nat,
               limit : Nat, dwell : Nat, heading : {-1, 1}]

ASSUME RulesAssumption ==
    /\ Rules \subseteq RuleConfig /\ IsFiniteSet(Rules)
    /\ MetricScale \in BOOLEAN

VARIABLES
    firstSeen,        \* first_seen, a dict from <<rule, track id>> to times
    lastAlert,        \* last_alert
    stationarySince,  \* stationary_since
    alerts            \* AlertCandidates of the run (`other` is 0, or the
                      \* second track of a near miss)

engine == <<firstSeen, lastAlert, stationarySince, alerts>>

-----------------------------------------------------------------------------

Eligible(rule, track) == rule.classes = {} \/ track.class \in rule.classes

\* The last two points of a track that has two.
Moved(track) == Len(track.points) >= 2
From(track)  == track.points[Len(track.points) - 1]
Step(track)  == Latest(track).at - From(track).at
Lapse(track) == Latest(track).time - From(track).time

\* The entries of dict `d` that a frame leaves alone, and one for each of
\* `keys`: the old one, or `now` (setdefault); the others of `seen` are popped.
KeepOrSet(d, seen, keys, now) ==
    [k \in (DOMAIN d \ seen) \cup keys |-> IF k \in DOMAIN d THEN d[k] ELSE now]

Keys(types, ts) ==
    {k \in Rules \X Active(ts) :
        k[1].type \in types /\ Eligible(k[1], ts[k[2]])}

ZoneKeys(ts) == {k \in Keys(ZoneTypes, ts) : k[1].zone # {}}

Inside(ts) == {k \in ZoneKeys(ts) : Latest(ts[k[2]]).at \in k[1].zone}

\* (mutant) Leaving the zone does not forget the first sighting.
FirstSeenForever(ts, now) == KeepOrSet(firstSeen, {}, Inside(ts), now)

FirstSeen(ts, now) == KeepOrSet(firstSeen, ZoneKeys(ts), Inside(ts), now)

StationaryKeys(ts) ==
    {k \in Keys({"equipment_left_behind"}, ts) : Moved(ts[k[2]])}

Still(ts) ==
    {k \in StationaryKeys(ts) :
        /\ Dist(Step(ts[k[2]]), 0) <= k[1].limit
        /\ k[1].zone = {} \/ Latest(ts[k[2]]).at \in k[1].zone}

StationarySince(ts, now) ==
    KeepOrSet(stationarySince, StationaryKeys(ts), Still(ts), now)

TooFast(rule, track) ==
    /\ MetricScale /\ Moved(track)
    /\ Lapse(track) > 0
    /\ Dist(Step(track), 0) > rule.limit * Lapse(track)

WrongWay(rule, track) ==
    LET way == Latest(track).at - track.points[1].at IN
    /\ Moved(track)
    /\ Dist(way, 0) >= rule.limit
    /\ IF rule.heading = 1 THEN way < 0 ELSE way >= 0

\* The closest point of approach within `dwell`, nearer than `limit`: at once,
\* or (on a line) at distance 0 when the two close in.
NearMiss(rule, a, b) ==
    LET apart == Latest(a).at - Latest(b).at
        closing == Step(a) * Lapse(b) - Step(b) * Lapse(a)  \* times both lapses
        approach == apart * closing < 0
    IN
    /\ Moved(a) /\ Moved(b)
    /\ IF approach
       THEN /\ 0 < rule.limit
            /\ Dist(apart, 0) * Lapse(a) * Lapse(b) < rule.dwell * Dist(closing, 0)
       ELSE /\ Dist(apart, 0) < rule.limit
            /\ 0 < rule.dwell

\* The candidates of a frame before the cooldown.
Candidate(ts, first, since, now) ==
    LET Of(keys, other) ==
            {[rule |-> k[1], track |-> k[2], time |-> now, other |-> other] :
                k \in keys}
    IN
    Of({k \in Inside(ts) : now - first[k] >= k[1].debounce}, 0)
    \cup Of({k \in Still(ts) : now - since[k] >= k[1].dwell}, 0)
    \cup Of({k \in Keys({"excess_speed"}, ts) : TooFast(k[1], ts[k[2]])}, 0)
    \cup Of({k \in Keys({"wrong_way"}, ts) : WrongWay(k[1], ts[k[2]])}, 0)
    \cup UNION {Of({k \in Keys({"candidate_near_miss"}, ts) :
                      /\ k[2] < j /\ Eligible(k[1], ts[j])
                      /\ NearMiss(k[1], ts[k[2]], ts[j])}, j) : j \in Active(ts)}

Key(c) == <<c.rule, c.track>>

\* (mutant) The cooldown is one of the rule, not of the rule and the track.
CooledByRule(c) ==
    \A k \in DOMAIN lastAlert :
        k[1] = c.rule => c.time - lastAlert[k] >= c.rule.cooldown

\* (mutant) The debounce is taken for the cooldown.
CooledByDebounce(c) ==
    \/ Key(c) \notin DOMAIN lastAlert
    \/ c.time - lastAlert[Key(c)] >= c.rule.debounce

Cooled(c) ==
    \/ Key(c) \notin DOMAIN lastAlert
    \/ c.time - lastAlert[Key(c)] >= c.rule.cooldown

\* The partner that comes first in the order of the tracks.
FirstPartner(candidates, key) ==
    CHOOSE c \in candidates :
        /\ Key(c) = key
        /\ \A d \in candidates : Key(d) = key => c.other <= d.other

\* _emit, in the order of the tracks: with a cooldown only the first partner
\* of a near miss counts.
Emitted(candidates) ==
    {c \in candidates :
        /\ Cooled(c)
        /\ c.rule.cooldown = 0 \/ c = FirstPartner(candidates, Key(c))}

-----------------------------------------------------------------------------

RulesInit ==
    /\ firstSeen = <<>> /\ lastAlert = <<>> /\ stationarySince = <<>>
    /\ alerts = {}

\* evaluate, over the tracks `ts` the tracker has just returned.
Evaluate(ts, now) ==
    LET first == FirstSeen(ts, now)
        since == StationarySince(ts, now)
        new == Emitted(Candidate(ts, first, since, now))
        keys == {Key(c) : c \in new}
    IN
    /\ firstSeen' = first
    /\ stationarySince' = since
    /\ lastAlert' = [k \in DOMAIN lastAlert \cup keys |->
                        IF k \in keys THEN now ELSE lastAlert[k]]
    /\ alerts' = alerts \cup new

=============================================================================
