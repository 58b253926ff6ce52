---------------------------- MODULE VideoAnalysis ----------------------------
(***************************************************************************)
(* The frame loop of process_video (vision/pipeline.py): each sampled      *)
(* frame goes through the detector, the tracker, the rules and the         *)
(* milestones, in this order.  ProcessingJobs models what surrounds the    *)
(* loop (sampling, progress, cancellation) and what becomes of its result. *)
(***************************************************************************)
EXTENDS SafetyRules, TurnaroundMilestones

CONSTANTS
    Scenes,      \* what the detector can find in a frame: lists of detections
    FrameTime,   \* ticks between two sampled frames: sample_every / source_fps
    MaxFrames    \* bound on the sampled frames of a video

ASSUME AnalysisAssumption ==
    /\ Scenes \subseteq Seq(Detection)
    /\ FrameTime \in Nat \ {0}
    /\ MaxFrames \in Nat

VARIABLES
    observations,  \* the archive: time and detections of every frame
    finalized      \* the loop has ended

vars == <<tracker, engine, milestoneEngine, observations, finalized>>

-----------------------------------------------------------------------------

\* timestamp_seconds of the frame after `n` sampled ones.
Time(n) == n * FrameTime

Init ==
    /\ TrackerInit /\ RulesInit /\ MilestonesInit
    /\ observations = <<>> /\ finalized = FALSE

\* One pass through the loop.
Analyse(detections) ==
    LET now == Time(Len(observations)) IN
    /\ ~finalized
    /\ Len(observations) < MaxFrames
    /\ Update(detections, now)
    /\ Evaluate(tracks', now)
    /\ EvaluateMilestones(tracks')
    /\ observations' = Append(observations, [time |-> now, found |-> detections])
    /\ UNCHANGED finalized

\* The video has no more frames.
EndOfVideo ==
    /\ ~finalized
    /\ finalized' = TRUE
    /\ Finalize
    /\ UNCHANGED <<engine, milestoneEngine, observations>>

Next == EndOfVideo \/ \E detections \in Scenes : Analyse(detections)

Spec == Init /\ [][Next]_vars

-----------------------------------------------------------------------------
(* Properties. *)

\* The time of the last frame.
Now == Time(Len(observations) - 1)

\* The tracks are a partition of the detections: every detection of every
\* frame is a point of exactly one track of its class, and tracks have no
\* other points.
TracksPartitionDetections ==
    \A n \in DOMAIN observations, x \in Classes \X Places :
        LET o == observations[n] IN
        Cardinality({k \in DOMAIN o.found :
                        <<o.found[k].class, o.found[k].at>> = x})
        = Cardinality({i \in DOMAIN tracks :
                        /\ tracks[i].class = x[1]
                        /\ [time |-> o.time, at |-> x[2]] \in
                              {tracks[i].points[p] : p \in DOMAIN tracks[i].points}})

\* "Short occlusion recovery": before the end of the video exactly the tracks
\* that have been unseen in more than MaxMissed frames have ended.
TracksSurviveOcclusion ==
    ~finalized =>
        \A i \in DOMAIN tracks :
            tracks[i].active
                <=> Now - Latest(tracks[i]).time <= MaxMissed * FrameTime

\* Where track `i` was last seen at time `t`, from its points.
PlaceAt(i, t) ==
    LET points == tracks[i].points
        past == {n \in DOMAIN points : points[n].time <= t}
    IN points[CHOOSE n \in past : \A m \in past : m <= n].at

\* The times of the frames.
Frames == {observations[n].time : n \in DOMAIN observations}

\* Track `i` was in the zone of a rule in every frame from `t` to `u`.
InZone(rule, i, t, u) ==
    /\ tracks[i].points[1].time <= t
    /\ \A f \in Frames \cap t..u : PlaceAt(i, f) \in rule.zone

\* docs/safety-rule-engine.md: "a condition must remain true for its
\* configured debounce duration before an alert can be emitted".  It does so
\* for zone rules, with the last known place of a track that is not seen.
ZoneAlertsAreDebounced ==
    \A a \in alerts :
        a.rule.type \in ZoneTypes =>
            InZone(a.rule, a.track, a.time - a.rule.debounce, a.time)

\* Equipment is left behind when it has not moved, in the zone if there is
\* one, for the dwell time.
StationaryAlertsAreDebounced ==
    \A a \in alerts :
        a.rule.type = "equipment_left_behind" =>
            LET points == tracks[a.track].points IN
            \A n \in 2..Len(points) :
                points[n].time \in (a.time - a.rule.dwell)..a.time =>
                    /\ Dist(points[n].at, points[n - 1].at) <= a.rule.limit
                    /\ a.rule.zone = {} \/ points[n].at \in a.rule.zone

\* No alert is early: what it reports has lasted for the debounce or the dwell of
\* its rule.  For the other families the code reads neither.
AlertsAreDebounced == ZoneAlertsAreDebounced /\ StationaryAlertsAreDebounced

\* A presence that lasts, from a frame a debounce or longer ago, is reported:
\* debounce and cooldown hold no alert of another track or of an earlier stay
\* against it.
LastingPresenceIsReported ==
    \A rule \in Rules, i \in Active(tracks), t \in Frames :
        (/\ ~finalized
         /\ rule.type \in ZoneTypes
         /\ Eligible(rule, tracks[i])
         /\ Now - t >= rule.debounce
         /\ InZone(rule, i, t, Now))
        => \E a \in alerts :
                /\ a.rule = rule /\ a.track = i
                /\ a.time = Now \/ Now - a.time < rule.cooldown

\* "Cooldown suppresses repeated alerts for the same rule/track".
AlertsKeepCooldown ==
    \A a, b \in alerts :
        Key(a) = Key(b) /\ a # b =>
            Dist(a.time, b.time) >= a.rule.cooldown

\* A track has one milestone of a type exactly if its points fulfil a rule of
\* that type, also when it ends before it could be looked at again.
MilestonesMatchTracks ==
    \A key \in Types \X DOMAIN tracks :
        Cardinality({m \in milestones : <<m.type, m.track>> = key})
        = IF Fulfilled(tracks, key) # {} THEN 1 ELSE 0

=============================================================================
