-------------------------- MODULE CameraConfiguration --------------------------
(***************************************************************************)
(* Calibrations, zones and safety rules of one camera (create_calibration, *)
(* create_zone and create_rule of api/router.py), changed by several       *)
(* administrators at once, and the configuration that run_processing_job   *)
(* reads with one query after the other.                                   *)
(*                                                                         *)
(* Each query sees what is committed when it runs.  Rows of calibrations   *)
(* are numbered in the order of their commits; zones and rules are never   *)
(* changed or deleted, so that one look-up of a zone stays true.           *)
(***************************************************************************)
EXTENDS Integers, Sequences

CONSTANTS
    Admins,          \* API threads that serve administrators
    Zones,           \* zones that can be drawn
    NoZone,          \* zone_id is NULL
    MaxCalibrations, \* bound on calibration rows
    MaxRules         \* bound on rule rows

ASSUME ConfigurationAssumption ==
    /\ NoZone \notin Zones
    /\ MaxCalibrations \in Nat
    /\ MaxRules \in Nat

VARIABLES
    calibrations,     \* committed camera_calibrations rows
    calibrationState, \* the column of the cameras row
    zones,            \* committed camera_zones rows
    rules,            \* committed safety_rules rows, in the order of commits
    admin,            \* admin[a]: where a request is, and what it has read
    run,              \* the configuration a run has read so far
    overlapped        \* two requests have ever been open at the same time

stored == <<calibrations, calibrationState, zones, rules>>
vars   == <<stored, admin, run, overlapped>>

-----------------------------------------------------------------------------
(* Types. *)

CalibrationRow == [version : Nat, metric : BOOLEAN, active : BOOLEAN]

States == {"calibration_required", "calibrated_metric", "calibrated_image_space"}

\* `speed`: the rule_type is excess_speed; `seen` is the calibration the rule
\* was accepted on (0 for other rules), remembered for the properties.
RuleRow == [speed : BOOLEAN, zone : Zones \cup {NoZone}, seen : Nat]

Request == [at : {"idle", "camera", "previous", "rule"},
            metric : BOOLEAN,              \* the payload
            state : States,                \* calibration_state as loaded
            previous : Nat,                \* row number, 0 if none
            rule : RuleRow]

NoRule == [speed |-> FALSE, zone |-> NoZone, seen |-> 0]

IdleRequest == [at |-> "idle", metric |-> FALSE,
                state |-> "calibration_required", previous |-> 0, rule |-> NoRule]

Run == [at : {"zones", "rules", "calibration", "done"}, zones : SUBSET Zones,
        rules : Seq(RuleRow), calibration : Nat]

NewRun == [at |-> "zones", zones |-> {}, rules |-> <<>>, calibration |-> 0]

-----------------------------------------------------------------------------

ActiveRows == {n \in DOMAIN calibrations : calibrations[n].active}

Newest(rows) ==
    {n \in rows : \A m \in rows :
        calibrations[m].version <= calibrations[n].version}

\* (mutant) The query for one active row, in no particular order.
AnyActive(n) == IF ActiveRows = {} THEN n = 0 ELSE n \in ActiveRows

\* ORDER BY version DESC and the first row (0 if there is none); with equal
\* versions the database may return either.
NewestActive(n) ==
    IF ActiveRows = {} THEN n = 0 ELSE n \in Newest(ActiveRows)

OpenRequest(a, request) ==
    /\ admin[a].at = "idle"
    /\ admin' = [admin EXCEPT ![a] = request]
    /\ overlapped' = (overlapped \/ \E b \in Admins \ {a} : admin[b].at # "idle")

Close(a) == admin' = [admin EXCEPT ![a] = IdleRequest]

\* create_calibration loads the camera.
LoadCamera(a) ==
    /\ Len(calibrations) < MaxCalibrations
    /\ \E metric \in BOOLEAN :
        OpenRequest(a, [IdleRequest EXCEPT !.at = "camera", !.metric = metric,
                            !.state = calibrationState])
    /\ UNCHANGED <<stored, run>>

\* create_calibration loads the previous calibration.
LoadPrevious(a) ==
    /\ admin[a].at = "camera"
    /\ \E n \in 0..Len(calibrations) :
        /\ NewestActive(n)
        /\ admin' = [admin EXCEPT ![a].at = "previous", ![a].previous = n]
    /\ UNCHANGED <<stored, run, overlapped>>

StateOf(metric) ==
    IF metric THEN "calibrated_metric" ELSE "calibrated_image_space"

NextVersion(previous) ==
    IF previous = 0 THEN 1 ELSE calibrations[previous].version + 1

\* (mutant) All calibrations of the camera are deactivated.
DeactivateAll(previous) ==
    [n \in DOMAIN calibrations |-> [calibrations[n] EXCEPT !.active = FALSE]]

Deactivate(previous) ==
    [n \in DOMAIN calibrations |->
        IF n = previous THEN [calibrations[n] EXCEPT !.active = FALSE]
                        ELSE calibrations[n]]

\* (mutant) The state of the camera is set for metric calibrations only.
NewStateIfMetric(a) ==
    IF admin[a].metric THEN "calibrated_metric" ELSE calibrationState

\* calibration_state is written if it differs from what was loaded.
NewState(a) ==
    IF StateOf(admin[a].metric) = admin[a].state
    THEN calibrationState ELSE StateOf(admin[a].metric)

\* The commit of create_calibration.
CommitCalibration(a) ==
    LET previous == admin[a].previous IN
    /\ admin[a].at = "previous"
    /\ Len(calibrations) < MaxCalibrations
    /\ calibrations' = Append(Deactivate(previous),
            [version |-> NextVersion(previous), metric |-> admin[a].metric,
             active |-> TRUE])
    /\ calibrationState' = NewState(a)
    /\ Close(a)
    /\ UNCHANGED <<zones, rules, run, overlapped>>

\* create_zone: one insert.
CreateZone(a, z) ==
    /\ admin[a].at = "idle"
    /\ zones' = zones \cup {z}
    /\ UNCHANGED <<calibrations, calibrationState, rules, admin, run, overlapped>>

\* create_rule for a rule that needs no calibration.
OpenRule(a, zone) ==
    /\ Len(rules) < MaxRules
    /\ zone \in zones \cup {NoZone}
    /\ OpenRequest(a, [IdleRequest EXCEPT !.at = "rule", !.rule.zone = zone])
    /\ UNCHANGED <<stored, run>>

\* create_rule for excess_speed: any active calibration is metric (this query
\* has no order); otherwise the request is refused.
OpenSpeedRule(a, zone) ==
    /\ Len(rules) < MaxRules
    /\ zone \in zones \cup {NoZone}
    /\ \E n \in ActiveRows :
        /\ calibrations[n].metric
        /\ OpenRequest(a, [IdleRequest EXCEPT !.at = "rule",
                            !.rule = [speed |-> TRUE, zone |-> zone, seen |-> n]])
    /\ UNCHANGED <<stored, run>>

\* The commit of create_rule.
CommitRule(a) ==
    /\ admin[a].at = "rule"
    /\ Len(rules) < MaxRules
    /\ rules' = Append(rules, admin[a].rule)
    /\ Close(a)
    /\ UNCHANGED <<calibrations, calibrationState, zones, run, overlapped>>

\* A request fails and is rolled back.
Fail(a) ==
    /\ admin[a].at # "idle"
    /\ Close(a)
    /\ UNCHANGED <<stored, run, overlapped>>

-----------------------------------------------------------------------------
(* The configuration of a run: zones, then rules, then the calibration. *)

ReadZones ==
    /\ run.at = "zones"
    /\ run' = [run EXCEPT !.at = "rules", !.zones = zones]
    /\ UNCHANGED <<stored, admin, overlapped>>

ReadRules ==
    /\ run.at = "rules"
    /\ run' = [run EXCEPT !.at = "calibration", !.rules = rules]
    /\ UNCHANGED <<stored, admin, overlapped>>

ReadCalibration ==
    /\ run.at = "calibration"
    /\ \E n \in 0..Len(calibrations) :
        /\ NewestActive(n)
        /\ run' = [run EXCEPT !.at = "done", !.calibration = n]
    /\ UNCHANGED <<stored, admin, overlapped>>

\* The run ends, and another begins.
EndRun ==
    /\ run.at = "done"
    /\ run' = NewRun
    /\ UNCHANGED <<stored, admin, overlapped>>

-----------------------------------------------------------------------------

Init ==
    /\ calibrations = <<>> /\ calibrationState = "calibration_required"
    /\ zones = {} /\ rules = <<>>
    /\ admin = [a \in Admins |-> IdleRequest]
    /\ run = NewRun
    /\ overlapped = FALSE

Next ==
    \/ \E a \in Admins :
        \/ LoadCamera(a) \/ LoadPrevious(a) \/ CommitCalibration(a)
        \/ \E z \in Zones : CreateZone(a, z)
        \/ \E zone \in Zones \cup {NoZone} :
            OpenRule(a, zone) \/ OpenSpeedRule(a, zone)
        \/ CommitRule(a) \/ Fail(a)
    \/ ReadZones \/ ReadRules \/ ReadCalibration \/ EndRun

Spec == Init /\ [][Next]_vars

-----------------------------------------------------------------------------
(* Properties. *)

\* Rows, zones, requests and the run are well typed.
TypeOK ==
    /\ calibrations \in Seq(CalibrationRow)
    /\ calibrationState \in States
    /\ zones \subseteq Zones
    /\ rules \in Seq(RuleRow)
    /\ admin \in [Admins -> Request]
    /\ run \in Run
    /\ overlapped \in BOOLEAN

\* Whatever requests overlap, a row of the highest version is active: it is the
\* one the next run and the next calibration start from.
LatestCalibrationIsActive ==
    calibrations # <<>> => Newest(DOMAIN calibrations) \cap ActiveRows # {}

\* docs/camera-calibration.md:3, "Saving a new calibration deactivates the
\* previous version": true of requests one after the other.  Then also versions
\* are unique, and the camera shows the state of the active calibration.
SerialCalibrationsAgree ==
    ~overlapped =>
        /\ \A m, n \in DOMAIN calibrations :
            m # n => calibrations[m].version # calibrations[n].version
        /\ \A n \in DOMAIN calibrations :
            calibrations[n].active <=> n = Len(calibrations)
        /\ calibrations # <<>> =>
            calibrationState = StateOf(calibrations[Len(calibrations)].metric)

\* No run measures with a calibration that is older than the one a speed rule
\* of its was accepted on: rules are read first, calibrations are taken by
\* version, and the newest is never inactive.
RunIsNotOlderThanItsRules ==
    run.at = "done" =>
        \A k \in DOMAIN run.rules :
            run.rules[k].speed =>
                /\ run.rules[k].seen # 0 /\ run.calibration # 0
                /\ calibrations[run.calibration].version
                    >= calibrations[run.rules[k].seen].version

=============================================================================
