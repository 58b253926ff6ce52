----------------------- MODULE CameraConfiguration_proofs -----------------------
(***************************************************************************)
(* Proofs about CameraConfiguration, for any number of administrators,     *)
(* calibrations, zones and rules.                                          *)
(***************************************************************************)
EXTENDS CameraConfiguration, TLAPS

\* The rows that requests, rules and runs refer to exist.
RowsExist ==
    /\ \A a \in Admins :
        /\ admin[a].previous \in 0..Len(calibrations)
        /\ admin[a].rule.speed => admin[a].rule.seen \in 1..Len(calibrations)
    /\ \A k \in DOMAIN rules :
        rules[k].speed => rules[k].seen \in 1..Len(calibrations)
    /\ \A k \in DOMAIN run.rules :
        run.rules[k].speed => run.rules[k].seen \in 1..Len(calibrations)
    /\ run.calibration \in 0..Len(calibrations)

ConfigurationInv ==
    /\ TypeOK
    /\ RowsExist
    /\ LatestCalibrationIsActive
    /\ RunIsNotOlderThanItsRules

-----------------------------------------------------------------------------

\* Rows are rows, and their versions numbers.
LEMMA RowsAreTyped ==
    ASSUME NEW s \in Seq(CalibrationRow), NEW n \in 1..Len(s)
    PROVE  /\ s[n] \in CalibrationRow
           /\ s[n].version \in Nat
<1>1. s[n] \in CalibrationRow
    OBVIOUS
<1> QED
    BY <1>1 DEF CalibrationRow

\* A commit of create_calibration appends a row, keeps all versions, and keeps
\* every row but the previous one as it is.
LEMMA CommitAppends ==
    ASSUME TypeOK, RowsExist, NEW a \in Admins, CommitCalibration(a)
    PROVE  /\ calibrations' \in Seq(CalibrationRow)
           /\ Len(calibrations') = Len(calibrations) + 1
           /\ calibrations'[Len(calibrations) + 1].active
           /\ \A n \in 1..Len(calibrations) :
                /\ calibrations'[n].version = calibrations[n].version
                /\ n # admin[a].previous => calibrations'[n] = calibrations[n]
           /\ admin[a].previous # 0 =>
                calibrations'[Len(calibrations) + 1].version
                    = calibrations[admin[a].previous].version + 1
<1> DEFINE p   == admin[a].previous
           old == Deactivate(p)
           new == [version |-> NextVersion(p), metric |-> admin[a].metric, active |-> TRUE]
<1>1. p \in 0..Len(calibrations) /\ calibrations \in Seq(CalibrationRow)
    BY DEF TypeOK, RowsExist
<1>2. \A n \in 1..Len(calibrations) :
        /\ calibrations[n] \in CalibrationRow
        /\ calibrations[n].version \in Nat
    BY <1>1, RowsAreTyped
<1>3. NextVersion(p) \in Nat
    BY <1>1, <1>2 DEF NextVersion
<1>4. new \in CalibrationRow
    BY <1>3 DEF TypeOK, Request, CalibrationRow
<1>5. /\ old \in Seq(CalibrationRow) /\ Len(old) = Len(calibrations)
      /\ \A n \in 1..Len(calibrations) :
            /\ old[n].version = calibrations[n].version
            /\ n # p => old[n] = calibrations[n]
    <2>1. \A n \in 1..Len(calibrations) :
            [calibrations[n] EXCEPT !.active = FALSE] \in CalibrationRow
        BY <1>2 DEF CalibrationRow
    <2>2. old = [n \in 1..Len(calibrations) |->
                    IF n = p THEN [calibrations[n] EXCEPT !.active = FALSE]
                             ELSE calibrations[n]]
        BY <1>1 DEF Deactivate
    <2>3. old \in [1..Len(calibrations) -> CalibrationRow]
        BY <2>1, <2>2, <1>2
    <2>4. old \in Seq(CalibrationRow) /\ Len(old) = Len(calibrations)
        BY <2>3, <1>1
    <2>5. \A n \in 1..Len(calibrations) :
            /\ old[n].version = calibrations[n].version
            /\ n # p => old[n] = calibrations[n]
        BY <2>2, <1>2 DEF CalibrationRow
    <2> QED
        BY <2>4, <2>5
<1>6. calibrations' = Append(old, new)
    BY DEF CommitCalibration
<1>7. /\ calibrations' \in Seq(CalibrationRow)
      /\ Len(calibrations') = Len(calibrations) + 1
      /\ calibrations'[Len(calibrations) + 1] = new
      /\ \A n \in 1..Len(calibrations) : calibrations'[n] = old[n]
    <2> HIDE DEF old, new
    <2> QED
        BY <1>4, <1>5, <1>6, <1>1
<1>8. p # 0 => new.version = calibrations[p].version + 1
    BY DEF NextVersion
<1> QED
    BY <1>5, <1>7, <1>8

\* The new row has the payload, the first one version 1, and the row that the
\* request counts from is deactivated.
LEMMA CommitReplaces ==
    ASSUME TypeOK, RowsExist, NEW a \in Admins, CommitCalibration(a)
    PROVE  /\ calibrations'[Len(calibrations) + 1].metric = admin[a].metric
           /\ admin[a].previous = 0 =>
                calibrations'[Len(calibrations) + 1].version = 1
           /\ admin[a].previous # 0 => ~calibrations'[admin[a].previous].active
<1>1. PICK p \in 0..Len(calibrations) : p = admin[a].previous
    BY DEF RowsExist
<1>2. PICK old : old = Deactivate(p)
    OBVIOUS
<1>3. PICK new : new = [version |-> NextVersion(p), metric |-> admin[a].metric,
                        active |-> TRUE]
    OBVIOUS
<1>4. calibrations' = Append(old, new)
    BY <1>1, <1>2, <1>3 DEF CommitCalibration
<1>5. \A n \in 1..Len(calibrations) : calibrations[n] \in CalibrationRow
    BY RowsAreTyped DEF TypeOK
<1>6. /\ old = [n \in 1..Len(calibrations) |->
                    IF n = p THEN [calibrations[n] EXCEPT !.active = FALSE]
                             ELSE calibrations[n]]
      /\ Len(calibrations) \in Nat
    BY <1>2 DEF Deactivate, TypeOK
<1>7. \A n \in 1..Len(calibrations) :
            [calibrations[n] EXCEPT !.active = FALSE] \in CalibrationRow
    BY <1>5 DEF CalibrationRow
<1>8. old \in Seq(CalibrationRow) /\ Len(old) = Len(calibrations)
    <2>1. old \in [1..Len(calibrations) -> CalibrationRow]
        BY <1>5, <1>6, <1>7
    <2> QED
        BY <2>1, <1>6
<1>9. p # 0 => ~old[p].active
    BY <1>1, <1>5, <1>6 DEF CalibrationRow
<1>10. /\ calibrations'[Len(calibrations) + 1] = new
       /\ \A n \in 1..Len(calibrations) : calibrations'[n] = old[n]
    BY <1>4, <1>6, <1>8
<1>11. p # 0 => calibrations'[p] = old[p]
    <2>1. Len(calibrations) \in Nat
        BY <1>6
    <2>2. p # 0 => p \in 1..Len(calibrations)
        BY <2>1
    <2> QED
        BY <1>10, <2>2
<1>12. p = 0 => new.version = 1
    BY <1>3 DEF NextVersion
<1> QED
    BY <1>1, <1>3, <1>9, <1>10, <1>11, <1>12

\* The newest row stays active: either the new row is as new as any, or the
\* newest one is not the row that the commit deactivates.
LEMMA CommitKeepsLatestActive ==
    ASSUME TypeOK, RowsExist, LatestCalibrationIsActive,
           NEW a \in Admins, CommitCalibration(a)
    PROVE  LatestCalibrationIsActive'
<1> DEFINE last == Len(calibrations) + 1
<1>1. /\ calibrations \in Seq(CalibrationRow)
      /\ calibrations' \in Seq(CalibrationRow)
      /\ Len(calibrations') = last
    BY CommitAppends DEF TypeOK
<1>2. /\ \A n \in 1..Len(calibrations) : calibrations[n].version \in Nat
      /\ \A n \in 1..last : calibrations'[n].version \in Nat
    BY <1>1, RowsAreTyped
<1>3. CASE \A m \in 1..Len(calibrations) :
            calibrations[m].version <= calibrations'[last].version
    <2>1. \A m \in 1..last :
            calibrations'[m].version <= calibrations'[last].version
        BY <1>1, <1>2, <1>3, CommitAppends
    <2>2. last \in Newest(DOMAIN calibrations)'
        BY <1>1, <2>1 DEF Newest
    <2>3. last \in ActiveRows'
        BY <1>1, CommitAppends DEF ActiveRows
    <2> QED
        BY <2>2, <2>3 DEF LatestCalibrationIsActive
<1>4. CASE \E m \in 1..Len(calibrations) :
            calibrations[m].version > calibrations'[last].version
    <2>1. PICK m \in 1..Len(calibrations) :
            calibrations[m].version > calibrations'[last].version
        BY <1>4
    <2>2. calibrations # <<>>
        BY <2>1, <1>1
    <2>3. PICK n \in Newest(DOMAIN calibrations) : n \in ActiveRows
        BY <2>2 DEF LatestCalibrationIsActive
    <2>4. /\ n \in 1..Len(calibrations) /\ calibrations[n].active
          /\ \A k \in 1..Len(calibrations) :
                calibrations[k].version <= calibrations[n].version
        BY <2>3, <1>1 DEF Newest, ActiveRows
    <2>5. calibrations[n].version > calibrations'[last].version
        BY <2>1, <2>4, <1>1, <1>2
    <2>6. n # admin[a].previous
        BY <2>4, <2>5, <1>1, <1>2, CommitAppends
    <2>7. n \in ActiveRows'
        BY <2>4, <2>6, <1>1, CommitAppends DEF ActiveRows
    <2>8. n \in Newest(DOMAIN calibrations)'
        <3>1. \A k \in 1..last : calibrations'[k].version <= calibrations'[n].version
            BY <2>4, <2>5, <1>1, <1>2, CommitAppends
        <3> QED
            BY <3>1, <2>4, <1>1 DEF Newest
    <2> QED
        BY <2>7, <2>8 DEF LatestCalibrationIsActive
<1> QED
    BY <1>3, <1>4, <1>1, <1>2

-----------------------------------------------------------------------------

LEMMA InitHolds == Init => ConfigurationInv
<1> SUFFICES ASSUME Init PROVE ConfigurationInv
    OBVIOUS
<1>1. IdleRequest \in Request
    BY DEF IdleRequest, Request, NoRule, RuleRow, States
<1>2. NewRun \in Run
    BY DEF NewRun, Run
<1>3. TypeOK
    <2>1. /\ calibrations \in Seq(CalibrationRow) /\ rules \in Seq(RuleRow)
          /\ zones \subseteq Zones
        BY DEF Init
    <2>2. calibrationState \in States /\ overlapped \in BOOLEAN
        BY DEF Init, States
    <2>3. admin \in [Admins -> Request] /\ run \in Run
        BY <1>1, <1>2 DEF Init
    <2> QED
        BY <2>1, <2>2, <2>3 DEF TypeOK
<1>4. RowsExist
    BY DEF Init, RowsExist, IdleRequest, NoRule, NewRun
<1>5. LatestCalibrationIsActive
    BY DEF Init, LatestCalibrationIsActive
<1>6. RunIsNotOlderThanItsRules
    BY DEF Init, RunIsNotOlderThanItsRules, NewRun
<1> QED
    BY <1>3, <1>4, <1>5, <1>6 DEF ConfigurationInv

\* What a request does before its commit, and a request that ends, changes
\* neither rows nor runs.
LEMMA RequestStep ==
    ASSUME ConfigurationInv, NEW a \in Admins, NEW zone \in Zones \cup {NoZone},
           \/ LoadCamera(a) \/ LoadPrevious(a) \/ Fail(a)
           \/ OpenRule(a, zone) \/ OpenSpeedRule(a, zone)
    PROVE  /\ admin' \in [Admins -> Request]
           /\ overlapped' \in BOOLEAN
           /\ \A b \in Admins :
                /\ admin'[b].previous \in 0..Len(calibrations)
                /\ admin'[b].rule.speed =>
                    admin'[b].rule.seen \in 1..Len(calibrations)
           /\ UNCHANGED <<stored, run>>
<1> USE DEF ConfigurationInv
<1> DEFINE Good(request) ==
        /\ request \in Request
        /\ request.previous \in 0..Len(calibrations)
        /\ request.rule.speed => request.rule.seen \in 1..Len(calibrations)
<1>1. calibrations \in Seq(CalibrationRow) /\ \A b \in Admins : Good(admin[b])
    BY DEF TypeOK, RowsExist
<1>2. Good(IdleRequest)
    BY <1>1 DEF IdleRequest, Request, NoRule, RuleRow, States
<1>3. UNCHANGED <<stored, run>> /\ overlapped' \in BOOLEAN
    BY DEF LoadCamera, LoadPrevious, Fail, OpenRule, OpenSpeedRule,
           OpenRequest, TypeOK
<1>4. \E request : Good(request) /\ admin' = [admin EXCEPT ![a] = request]
    <2>1. CASE LoadCamera(a)
        <3>1. PICK metric \in BOOLEAN :
                admin' = [admin EXCEPT ![a] =
                    [IdleRequest EXCEPT !.at = "camera", !.metric = metric,
                        !.state = calibrationState]]
            BY <2>1 DEF LoadCamera, OpenRequest
        <3>2. calibrationState \in States
            BY DEF TypeOK
        <3>3. Good([IdleRequest EXCEPT !.at = "camera", !.metric = metric,
                        !.state = calibrationState])
            BY <1>2, <3>2 DEF Request
        <3> QED
            BY <3>1, <3>3
    <2>2. CASE LoadPrevious(a)
        <3>1. PICK n \in 0..Len(calibrations) :
                admin' = [admin EXCEPT ![a].at = "previous", ![a].previous = n]
            BY <2>2 DEF LoadPrevious
        <3>2. Good([admin[a] EXCEPT !.at = "previous", !.previous = n])
            <4>1. Good(admin[a]) /\ n \in Nat
                BY <1>1
            <4> QED
                BY <4>1 DEF Request
        <3>3. admin' = [admin EXCEPT ![a] =
                            [admin[a] EXCEPT !.at = "previous", !.previous = n]]
            BY <3>1 DEF TypeOK
        <3> QED
            BY <3>2, <3>3
    <2>3. CASE Fail(a)
        BY <2>3, <1>2 DEF Fail, Close
    <2>4. CASE OpenRule(a, zone)
        <3>1. Good([IdleRequest EXCEPT !.at = "rule", !.rule.zone = zone])
            BY <1>2 DEF Request, RuleRow
        <3> QED
            BY <2>4, <3>1 DEF OpenRule, OpenRequest
    <2>5. CASE OpenSpeedRule(a, zone)
        <3>1. PICK n \in ActiveRows : admin' = [admin EXCEPT ![a] =
                    [IdleRequest EXCEPT !.at = "rule",
                        !.rule = [speed |-> TRUE, zone |-> zone, seen |-> n]]]
            BY <2>5 DEF OpenSpeedRule, OpenRequest
        <3>2. n \in 1..Len(calibrations)
            BY <1>1 DEF ActiveRows
        <3>3. Good([IdleRequest EXCEPT !.at = "rule",
                        !.rule = [speed |-> TRUE, zone |-> zone, seen |-> n]])
            <4>1. [speed |-> TRUE, zone |-> zone, seen |-> n] \in RuleRow
                BY <3>2 DEF RuleRow
            <4> QED
                BY <1>2, <3>2, <4>1 DEF Request
        <3> QED
            BY <3>1, <3>3
    <2> QED
        BY <2>1, <2>2, <2>3, <2>4, <2>5
<1>5. PICK request : Good(request) /\ admin' = [admin EXCEPT ![a] = request]
    BY <1>4
<1>6. \A b \in Admins : Good(admin'[b])
    <2> HIDE DEF Good
    <2> QED
        BY <1>1, <1>5 DEF TypeOK
<1>7. admin' \in [Admins -> Request]
    BY <1>5 DEF TypeOK
<1> QED
    BY <1>3, <1>6, <1>7

\* The admins and the runs of an unchanged store.
LEMMA RequestKeepsInv ==
    ASSUME ConfigurationInv, NEW a \in Admins, NEW zone \in Zones \cup {NoZone},
           \/ LoadCamera(a) \/ LoadPrevious(a) \/ Fail(a)
           \/ OpenRule(a, zone) \/ OpenSpeedRule(a, zone)
    PROVE  ConfigurationInv'
<1>1. /\ admin' \in [Admins -> Request]
      /\ overlapped' \in BOOLEAN
      /\ \A b \in Admins :
            /\ admin'[b].previous \in 0..Len(calibrations)
            /\ admin'[b].rule.speed =>
                admin'[b].rule.seen \in 1..Len(calibrations)
      /\ UNCHANGED <<stored, run>>
    BY RequestStep
<1>2. TypeOK'
    BY <1>1 DEF ConfigurationInv, TypeOK, stored
<1>3. RowsExist'
    BY <1>1 DEF ConfigurationInv, RowsExist, stored
<1>4. LatestCalibrationIsActive' /\ RunIsNotOlderThanItsRules'
    BY <1>1 DEF ConfigurationInv, LatestCalibrationIsActive, Newest, ActiveRows,
                RunIsNotOlderThanItsRules, stored
<1> QED
    BY <1>2, <1>3, <1>4 DEF ConfigurationInv

\* create_calibration commits: row numbers stay, and versions do.
LEMMA CommitCalibrationKeepsInv ==
    ASSUME ConfigurationInv, NEW a \in Admins, CommitCalibration(a)
    PROVE  ConfigurationInv'
<1> USE DEF ConfigurationInv
<1>1. /\ admin' = [admin EXCEPT ![a] = IdleRequest]
      /\ UNCHANGED <<zones, rules, run, overlapped>>
    BY DEF CommitCalibration, Close
<1>2. IdleRequest \in Request
    BY DEF IdleRequest, Request, NoRule, RuleRow, States
<1>3. calibrationState' \in States
    BY DEF CommitCalibration, NewState, StateOf, States, TypeOK
<1>4. /\ calibrations' \in Seq(CalibrationRow)
      /\ Len(calibrations) \in Nat
      /\ Len(calibrations') = Len(calibrations) + 1
    BY CommitAppends DEF TypeOK
<1>5. TypeOK'
    <2>1. admin' \in [Admins -> Request]
        BY <1>1, <1>2 DEF TypeOK
    <2> QED
        BY <2>1, <1>1, <1>3, <1>4 DEF TypeOK
<1>6. RowsExist'
    <2>1. \A n : n \in 0..Len(calibrations) => n \in 0..Len(calibrations')
        BY <1>4
    <2>2. \A n : n \in 1..Len(calibrations) => n \in 1..Len(calibrations')
        BY <1>4
    <2>3. \A b \in Admins :
            /\ admin'[b].previous \in 0..Len(calibrations')
            /\ admin'[b].rule.speed =>
                admin'[b].rule.seen \in 1..Len(calibrations')
        <3> SUFFICES ASSUME NEW b \in Admins
                     PROVE  /\ admin'[b].previous \in 0..Len(calibrations')
                            /\ admin'[b].rule.speed =>
                                admin'[b].rule.seen \in 1..Len(calibrations')
            OBVIOUS
        <3>1. CASE b = a
            BY <3>1, <1>1, <1>4 DEF IdleRequest, NoRule, TypeOK
        <3>2. CASE b # a
            BY <3>2, <1>1, <2>1, <2>2 DEF RowsExist, TypeOK
        <3> QED
            BY <3>1, <3>2
    <2> QED
        BY <2>1, <2>2, <2>3, <1>1 DEF RowsExist
<1>7. RunIsNotOlderThanItsRules'
    <2> SUFFICES ASSUME run.at = "done", NEW k \in DOMAIN run.rules,
                        run.rules[k].speed
                 PROVE  /\ run.rules[k].seen # 0 /\ run.calibration # 0
                        /\ calibrations'[run.calibration].version
                            >= calibrations'[run.rules[k].seen].version
        BY <1>1 DEF RunIsNotOlderThanItsRules
    <2>1. /\ run.rules[k].seen # 0 /\ run.calibration # 0
          /\ calibrations[run.calibration].version
                >= calibrations[run.rules[k].seen].version
        BY DEF RunIsNotOlderThanItsRules
    <2>2. /\ run.rules[k].seen \in 1..Len(calibrations)
          /\ run.calibration \in 1..Len(calibrations)
        BY <2>1, <1>4 DEF RowsExist
    <2> QED
        BY <2>1, <2>2, CommitAppends
<1> QED
    BY <1>5, <1>6, <1>7, CommitKeepsLatestActive

\* create_rule commits: the rule has been accepted on an existing row.
LEMMA CommitRuleKeepsInv ==
    ASSUME ConfigurationInv, NEW a \in Admins, CommitRule(a)
    PROVE  ConfigurationInv'
<1> USE DEF ConfigurationInv
<1>1. /\ rules' = Append(rules, admin[a].rule)
      /\ admin' = [admin EXCEPT ![a] = IdleRequest]
      /\ UNCHANGED <<calibrations, calibrationState, zones, run, overlapped>>
    BY DEF CommitRule, Close
<1>2. IdleRequest \in Request /\ admin[a].rule \in RuleRow
    BY DEF IdleRequest, Request, NoRule, RuleRow, States, TypeOK
<1>3. rules \in Seq(RuleRow) /\ rules' \in Seq(RuleRow)
    BY <1>1, <1>2 DEF TypeOK
<1>4. TypeOK'
    BY <1>1, <1>2, <1>3 DEF TypeOK
<1>5. RowsExist'
    <2>1. Len(calibrations) \in Nat
        BY DEF TypeOK
    <2>2. \A b \in Admins :
            /\ admin'[b].previous \in 0..Len(calibrations)
            /\ admin'[b].rule.speed =>
                admin'[b].rule.seen \in 1..Len(calibrations)
        BY <1>1, <2>1 DEF RowsExist, TypeOK, IdleRequest, NoRule
    <2>3. \A k \in DOMAIN rules' :
            rules'[k].speed => rules'[k].seen \in 1..Len(calibrations)
        <3> SUFFICES ASSUME NEW k \in DOMAIN rules', rules'[k].speed
                     PROVE  rules'[k].seen \in 1..Len(calibrations)
            OBVIOUS
        <3>1. CASE k = Len(rules) + 1
            BY <3>1, <1>1, <1>3 DEF RowsExist
        <3>2. CASE k # Len(rules) + 1
            BY <3>2, <1>1, <1>2, <1>3 DEF RowsExist
        <3> QED
            BY <3>1, <3>2
    <2> QED
        BY <1>1, <2>2, <2>3 DEF RowsExist
<1>6. LatestCalibrationIsActive' /\ RunIsNotOlderThanItsRules'
    BY <1>1 DEF LatestCalibrationIsActive, Newest, ActiveRows,
                RunIsNotOlderThanItsRules
<1> QED
    BY <1>4, <1>5, <1>6

\* create_zone changes nothing that rules and runs are accepted on.
LEMMA CreateZoneKeepsInv ==
    ASSUME ConfigurationInv, NEW a \in Admins, NEW z \in Zones, CreateZone(a, z)
    PROVE  ConfigurationInv'
<1>1. /\ zones' \subseteq Zones
      /\ UNCHANGED <<calibrations, calibrationState, rules, admin, run, overlapped>>
    BY DEF CreateZone, ConfigurationInv, TypeOK
<1> QED
    BY <1>1 DEF ConfigurationInv, TypeOK, RowsExist, LatestCalibrationIsActive,
                Newest, ActiveRows, RunIsNotOlderThanItsRules

\* Reading zones and rules: a run knows no rule that is not stored.
LEMMA ReadKeepsInv ==
    ASSUME ConfigurationInv, ReadZones \/ ReadRules \/ EndRun
    PROVE  ConfigurationInv'
<1> USE DEF ConfigurationInv
<1>1. UNCHANGED <<stored, admin, overlapped>>
    BY DEF ReadZones, ReadRules, EndRun
<1>2. /\ run' \in Run /\ run'.at # "done"
      /\ run'.calibration \in {0, run.calibration}
      /\ run'.rules \in {<<>>, run.rules, rules}
    <2>1. /\ run \in Run /\ run.rules \in Seq(RuleRow) /\ rules \in Seq(RuleRow)
          /\ zones \subseteq Zones /\ NewRun \in Run
        BY DEF TypeOK, Run, NewRun
    <2>2. CASE ReadZones
        <3>1. run' = [run EXCEPT !.at = "rules", !.zones = zones]
            BY <2>2 DEF ReadZones
        <3> QED
            BY <3>1, <2>1 DEF Run
    <2>3. CASE ReadRules
        <3>1. run' = [run EXCEPT !.at = "calibration", !.rules = rules]
            BY <2>3 DEF ReadRules
        <3> QED
            BY <3>1, <2>1 DEF Run
    <2>4. CASE EndRun
        BY <2>4, <2>1 DEF EndRun, NewRun
    <2> QED
        BY <2>2, <2>3, <2>4
<1>3. TypeOK'
    BY <1>1, <1>2 DEF TypeOK, stored
<1>5. RowsExist'
    <2>1. Len(calibrations) \in Nat
        BY DEF TypeOK
    <2>2. run'.calibration \in 0..Len(calibrations)
        BY <1>2, <2>1 DEF RowsExist
    <2>3. \A k \in DOMAIN run'.rules :
            run'.rules[k].speed => run'.rules[k].seen \in 1..Len(calibrations)
        BY <1>2 DEF RowsExist
    <2> QED
        BY <1>1, <2>2, <2>3 DEF RowsExist, stored
<1>6. LatestCalibrationIsActive' /\ RunIsNotOlderThanItsRules'
    BY <1>1, <1>2 DEF LatestCalibrationIsActive, Newest, ActiveRows,
                RunIsNotOlderThanItsRules, stored
<1> QED
    BY <1>3, <1>5, <1>6

\* Reading the calibration: the newest active row is as new as any row, also
\* as those that rules were accepted on.
LEMMA ReadCalibrationKeepsInv ==
    ASSUME ConfigurationInv, ReadCalibration
    PROVE  ConfigurationInv'
<1> USE DEF ConfigurationInv
<1>1. PICK n \in 0..Len(calibrations) :
        /\ NewestActive(n)
        /\ run' = [run EXCEPT !.at = "done", !.calibration = n]
    BY DEF ReadCalibration
<1>2. UNCHANGED <<stored, admin, overlapped>>
    BY DEF ReadCalibration
<1>3. calibrations \in Seq(CalibrationRow) /\ run \in Run /\ n \in Nat
    BY DEF TypeOK
<1>4. /\ run' \in Run /\ run'.calibration = n /\ run'.rules = run.rules
    BY <1>1, <1>3 DEF Run
<1>5. TypeOK'
    BY <1>2, <1>4 DEF TypeOK, stored
<1>6. RowsExist'
    BY <1>1, <1>2, <1>4 DEF RowsExist, stored
<1>7. LatestCalibrationIsActive'
    BY <1>2 DEF LatestCalibrationIsActive, Newest, ActiveRows, stored
<1>8. RunIsNotOlderThanItsRules'
    <2> SUFFICES ASSUME NEW k \in DOMAIN run.rules, run.rules[k].speed
                 PROVE  /\ run.rules[k].seen # 0 /\ n # 0
                        /\ calibrations[n].version
                            >= calibrations[run.rules[k].seen].version
        BY <1>2, <1>4 DEF RunIsNotOlderThanItsRules, stored
    <2> DEFINE seen == run.rules[k].seen
    <2>1. seen \in 1..Len(calibrations)
        BY DEF RowsExist
    <2>2. calibrations # <<>>
        BY <2>1, <1>3
    <2>3. PICK m \in Newest(DOMAIN calibrations) : m \in ActiveRows
        BY <2>2 DEF LatestCalibrationIsActive
    <2>4. n \in Newest(ActiveRows)
        BY <1>1, <2>3 DEF NewestActive
    <2>5. /\ n \in 1..Len(calibrations) /\ m \in 1..Len(calibrations)
          /\ calibrations[m].version <= calibrations[n].version
          /\ calibrations[seen].version <= calibrations[m].version
        BY <2>1, <2>3, <2>4, <1>3 DEF Newest, ActiveRows
    <2>6. /\ calibrations[n].version \in Nat
          /\ calibrations[m].version \in Nat
          /\ calibrations[seen].version \in Nat
        BY <2>1, <2>5, <1>3, RowsAreTyped
    <2> QED
        BY <2>1, <2>5, <2>6, <1>3
<1> QED
    BY <1>5, <1>6, <1>7, <1>8

LEMMA StepHolds == ConfigurationInv /\ [Next]_vars => ConfigurationInv'
<1> SUFFICES ASSUME ConfigurationInv, [Next]_vars PROVE ConfigurationInv'
    OBVIOUS
<1>1. CASE UNCHANGED vars
    BY <1>1 DEF vars, stored, ConfigurationInv, TypeOK, RowsExist,
                LatestCalibrationIsActive, Newest, ActiveRows,
                RunIsNotOlderThanItsRules
<1>2. ASSUME NEW a \in Admins,
             \/ LoadCamera(a) \/ LoadPrevious(a) \/ Fail(a)
             \/ \E zone \in Zones \cup {NoZone} :
                    OpenRule(a, zone) \/ OpenSpeedRule(a, zone)
      PROVE  ConfigurationInv'
    BY <1>2, RequestKeepsInv
<1>3. ASSUME NEW a \in Admins,
             CommitCalibration(a) \/ CommitRule(a)
                \/ \E z \in Zones : CreateZone(a, z)
      PROVE  ConfigurationInv'
    BY <1>3, CommitCalibrationKeepsInv, CommitRuleKeepsInv, CreateZoneKeepsInv
<1>4. CASE ReadZones \/ ReadRules \/ ReadCalibration \/ EndRun
    BY <1>4, ReadKeepsInv, ReadCalibrationKeepsInv
<1> QED
    BY <1>1, <1>2, <1>3, <1>4 DEF Next

LEMMA ConfigurationHolds == Spec => []ConfigurationInv
    BY InitHolds, StepHolds, PTL DEF Spec

\* Rows and requests stay well typed, for any administrators and zones.
THEOREM TypeTheorem == Spec => []TypeOK
<1>1. ConfigurationInv => TypeOK
    BY DEF ConfigurationInv
<1> QED
    BY <1>1, ConfigurationHolds, PTL

\* Whatever calibration requests overlap, a row of the highest version is
\* active (create_calibration deactivates the row it counts from).
THEOREM LatestCalibrationTheorem == Spec => []LatestCalibrationIsActive
<1>1. ConfigurationInv => LatestCalibrationIsActive
    BY DEF ConfigurationInv
<1> QED
    BY <1>1, ConfigurationHolds, PTL

\* No run measures with a calibration older than the one a speed rule of its
\* was accepted on (the order of the queries of run_processing_job).
THEOREM RunCalibrationTheorem == Spec => []RunIsNotOlderThanItsRules
<1>1. ConfigurationInv => RunIsNotOlderThanItsRules
    BY DEF ConfigurationInv
<1> QED
    BY <1>1, ConfigurationHolds, PTL

-----------------------------------------------------------------------------
(* Requests one after the other.                                           *)

OneRequest ==
    \A a, b \in Admins : admin[a].at # "idle" /\ admin[b].at # "idle" => a = b

\* What create_calibration has loaded is still stored.
Current(request) ==
    /\ request.at \in {"camera", "previous"} => request.state = calibrationState
    /\ request.at = "previous" => request.previous = Len(calibrations)

\* Versions count the rows, and the last row is the active one.
VersionsCount ==
    \A n \in 1..Len(calibrations) :
        /\ calibrations[n].version = n
        /\ calibrations[n].active <=> n = Len(calibrations)

StateShown ==
    calibrations # <<>> =>
        calibrationState = StateOf(calibrations[Len(calibrations)].metric)

SerialInv ==
    ~overlapped =>
        /\ OneRequest
        /\ \A a \in Admins : Current(admin[a])
        /\ VersionsCount
        /\ StateShown

LEMMA SerialInit == Init => SerialInv
<1> SUFFICES ASSUME Init PROVE SerialInv
    OBVIOUS
<1>1. calibrations = <<>> /\ \A a \in Admins : admin[a].at = "idle"
    BY DEF Init, IdleRequest
<1> QED
    BY <1>1 DEF SerialInv, OneRequest, Current, VersionsCount, StateShown

\* A request loads something, or ends, and the calibrations stay as they are.
LEMMA RequestSerial ==
    ASSUME ConfigurationInv, SerialInv, NEW a \in Admins, NEW request,
           admin' = [admin EXCEPT ![a] = request],
           calibrations' = calibrations, calibrationState' = calibrationState,
           ~overlapped' => ~overlapped,
           ~overlapped' => Current(request),
           ~overlapped' /\ request.at # "idle" =>
                \A b \in Admins : b = a \/ admin[b].at = "idle"
    PROVE  SerialInv'
<1> SUFFICES ASSUME ~overlapped' PROVE (OneRequest /\ VersionsCount /\ StateShown
                /\ \A b \in Admins : Current(admin[b]))'
    BY DEF SerialInv
<1>1. OneRequest /\ VersionsCount /\ StateShown /\ \A b \in Admins : Current(admin[b])
    BY DEF SerialInv
<1>2. \A b \in Admins : admin'[b] = IF b = a THEN request ELSE admin[b]
    BY DEF ConfigurationInv, TypeOK
<1>3. OneRequest'
    BY <1>1, <1>2 DEF OneRequest
<1>4. VersionsCount' /\ StateShown'
    BY <1>1 DEF VersionsCount, StateShown
<1>5. \A b \in Admins : Current(admin'[b])
    BY <1>1, <1>2
<1>6. \A b \in Admins : Current(admin[b])'
    BY <1>5 DEF Current
<1> QED
    BY <1>3, <1>4, <1>6

LEMMA OpenSerial ==
    ASSUME ConfigurationInv, SerialInv, NEW a \in Admins, NEW request,
           ~overlapped => Current(request), OpenRequest(a, request), UNCHANGED stored
    PROVE  SerialInv'
<1>1. /\ admin' = [admin EXCEPT ![a] = request]
      /\ calibrations' = calibrations /\ calibrationState' = calibrationState
      /\ ~overlapped' => ~overlapped /\ \A b \in Admins : b = a \/ admin[b].at = "idle"
    BY DEF OpenRequest, stored, ConfigurationInv, TypeOK
<1> QED
    BY <1>1, RequestSerial

LEMMA LoadCameraSerial ==
    ASSUME ConfigurationInv, SerialInv, NEW a \in Admins, LoadCamera(a)
    PROVE  SerialInv'
<1>1. PICK metric \in BOOLEAN :
        OpenRequest(a, [IdleRequest EXCEPT !.at = "camera", !.metric = metric,
                            !.state = calibrationState])
    BY DEF LoadCamera
<1>2. PICK request : request = [IdleRequest EXCEPT !.at = "camera", !.metric = metric,
                            !.state = calibrationState]
    OBVIOUS
<1>3. Current(request)
    BY <1>2 DEF Current, IdleRequest
<1>4. UNCHANGED stored
    BY DEF LoadCamera
<1> QED
    BY <1>1, <1>2, <1>3, <1>4, OpenSerial

\* The one row that the query may return is the last one.
LEMMA LoadPreviousSerial ==
    ASSUME ConfigurationInv, SerialInv, NEW a \in Admins, LoadPrevious(a)
    PROVE  SerialInv'
<1>1. PICK n \in 0..Len(calibrations) :
        /\ NewestActive(n)
        /\ admin' = [admin EXCEPT ![a].at = "previous", ![a].previous = n]
    BY DEF LoadPrevious
<1>2. /\ admin[a].at = "camera" /\ overlapped' = overlapped
      /\ calibrations' = calibrations /\ calibrationState' = calibrationState
      /\ admin[a] \in Request
    BY DEF LoadPrevious, stored, ConfigurationInv, TypeOK
<1>3. PICK request : request = [admin[a] EXCEPT !.at = "previous", !.previous = n]
    OBVIOUS
<1>4. /\ request.at = "previous" /\ request.previous = n
      /\ request.state = admin[a].state
      /\ admin' = [admin EXCEPT ![a] = request]
    BY <1>1, <1>2, <1>3 DEF Request, ConfigurationInv, TypeOK
<1>5. ASSUME ~overlapped
      PROVE  Current(request) /\ \A b \in Admins : b = a \/ admin[b].at = "idle"
    <2>1. OneRequest /\ VersionsCount /\ Current(admin[a])
        BY <1>5 DEF SerialInv
    <2>2. DOMAIN calibrations = 1..Len(calibrations) /\ Len(calibrations) \in Nat
        BY DEF ConfigurationInv, TypeOK
    <2>3. n = Len(calibrations)
        <3>1. CASE Len(calibrations) = 0
            BY <3>1
        <3>2. CASE Len(calibrations) # 0
            <4>1. \A m \in 1..Len(calibrations) :
                    calibrations[m].active <=> m = Len(calibrations)
                BY <2>1 DEF VersionsCount
            <4>2. Len(calibrations) \in 1..Len(calibrations)
                BY <2>2, <3>2
            <4>3. ActiveRows = {Len(calibrations)}
                BY <2>2, <4>1, <4>2 DEF ActiveRows
            <4> QED
                BY <1>1, <4>3 DEF NewestActive, Newest
        <3> QED
            BY <3>1, <3>2
    <2>4. Current(request)
        BY <1>2, <1>4, <2>1, <2>3 DEF Current
    <2>5. \A b \in Admins : b = a \/ admin[b].at = "idle"
        BY <1>2, <2>1 DEF OneRequest
    <2> QED
        BY <2>4, <2>5
<1> QED
    BY <1>2, <1>4, <1>5, RequestSerial

\* The commit deactivates the last row and appends the next one.
LEMMA CommitCalibrationSerial ==
    ASSUME ConfigurationInv, SerialInv, NEW a \in Admins, CommitCalibration(a)
    PROVE  SerialInv'
<1> SUFFICES ASSUME ~overlapped' PROVE (OneRequest /\ VersionsCount /\ StateShown
                /\ \A b \in Admins : Current(admin[b]))'
    BY DEF SerialInv
<1>1. /\ admin' = [admin EXCEPT ![a] = IdleRequest] /\ overlapped' = overlapped
      /\ admin[a].at = "previous" /\ calibrationState' = NewState(a)
    BY DEF CommitCalibration, Close
<1>2. OneRequest /\ VersionsCount /\ Current(admin[a])
    BY <1>1 DEF SerialInv
<1>3. PICK p \in Nat : p = Len(calibrations)
    BY DEF ConfigurationInv, TypeOK
<1>4. /\ admin[a].previous = p /\ admin[a].state = calibrationState
      /\ \A b \in Admins : b = a \/ admin[b].at = "idle"
    BY <1>1, <1>2, <1>3 DEF Current, OneRequest
<1>5. /\ Len(calibrations') = p + 1 /\ calibrations' \in Seq(CalibrationRow)
      /\ calibrations'[p + 1].active
      /\ calibrations'[p + 1].version = p + 1
      /\ calibrations'[p + 1].metric = admin[a].metric
      /\ \A n \in 1..p : /\ calibrations'[n].version = calibrations[n].version
                         /\ calibrations'[n].active <=>
                                n # p /\ calibrations[n].active
    <2>1. /\ Len(calibrations') = p + 1 /\ calibrations'[p + 1].active
          /\ calibrations' \in Seq(CalibrationRow)
          /\ \A n \in 1..p : /\ calibrations'[n].version = calibrations[n].version
                             /\ n # p => calibrations'[n] = calibrations[n]
          /\ p # 0 => calibrations'[p + 1].version = calibrations[p].version + 1
        BY <1>3, <1>4, CommitAppends DEF ConfigurationInv
    <2>2. /\ calibrations'[p + 1].metric = admin[a].metric
          /\ p = 0 => calibrations'[p + 1].version = 1
          /\ p # 0 => ~calibrations'[p].active
        BY <1>3, <1>4, CommitReplaces DEF ConfigurationInv
    <2>3. p # 0 => calibrations[p].version = p
        BY <1>2, <1>3 DEF VersionsCount
    <2>4. calibrations'[p + 1].version = p + 1
        BY <2>1, <2>2, <2>3
    <2> QED
        BY <2>1, <2>2, <2>4
<1>6. VersionsCount'
    <2> SUFFICES ASSUME NEW n \in 1..(p + 1)
                 PROVE  /\ calibrations'[n].version = n
                        /\ calibrations'[n].active <=> n = p + 1
        BY <1>5 DEF VersionsCount
    <2>1. CASE n = p + 1
        BY <2>1, <1>5
    <2>2. CASE n \in 1..p
        BY <2>2, <1>2, <1>3, <1>5 DEF VersionsCount
    <2> QED
        BY <2>1, <2>2
<1>7. StateShown'
    BY <1>1, <1>4, <1>5 DEF StateShown, NewState
<1>8. \A b \in Admins : admin'[b].at = "idle"
    BY <1>1, <1>4 DEF ConfigurationInv, TypeOK, IdleRequest
<1> QED
    BY <1>6, <1>7, <1>8 DEF OneRequest, Current

LEMMA RuleSerial ==
    ASSUME ConfigurationInv, SerialInv, NEW a \in Admins,
           NEW zone \in Zones \cup {NoZone},
           OpenRule(a, zone) \/ OpenSpeedRule(a, zone)
    PROVE  SerialInv'
<1>1. PICK request : request.at = "rule" /\ OpenRequest(a, request)
    <2>1. CASE OpenRule(a, zone)
        BY <2>1 DEF OpenRule, IdleRequest
    <2>2. CASE OpenSpeedRule(a, zone)
        BY <2>2 DEF OpenSpeedRule, IdleRequest
    <2> QED
        BY <2>1, <2>2
<1>2. Current(request) /\ UNCHANGED stored
    BY <1>1 DEF Current, OpenRule, OpenSpeedRule
<1> QED
    BY <1>1, <1>2, OpenSerial

LEMMA EndSerial ==
    ASSUME ConfigurationInv, SerialInv, NEW a \in Admins, CommitRule(a) \/ Fail(a)
    PROVE  SerialInv'
<1>1. /\ admin' = [admin EXCEPT ![a] = IdleRequest] /\ overlapped' = overlapped
      /\ calibrations' = calibrations /\ calibrationState' = calibrationState
    BY DEF CommitRule, Fail, Close, stored
<1>2. Current(IdleRequest) /\ IdleRequest.at = "idle"
    BY DEF Current, IdleRequest
<1> QED
    BY <1>1, <1>2, RequestSerial

LEMMA SerialStep == ConfigurationInv /\ SerialInv /\ [Next]_vars => SerialInv'
<1> SUFFICES ASSUME ConfigurationInv, SerialInv, [Next]_vars PROVE SerialInv'
    OBVIOUS
<1>1. ASSUME UNCHANGED <<calibrations, calibrationState, admin, overlapped>>
      PROVE  SerialInv'
    BY <1>1 DEF SerialInv, OneRequest, Current, VersionsCount, StateShown
<1>2. CASE \/ UNCHANGED vars
           \/ ReadZones \/ ReadRules \/ ReadCalibration \/ EndRun
           \/ \E a \in Admins, z \in Zones : CreateZone(a, z)
    BY <1>1, <1>2 DEF vars, stored, ReadZones, ReadRules, ReadCalibration, EndRun,
                      CreateZone
<1> QED
    BY <1>2, LoadCameraSerial, LoadPreviousSerial, CommitCalibrationSerial,
       RuleSerial, EndSerial DEF Next


\* As long as no two requests have been open at once, versions are unique, the
\* last calibration is the active one, and the camera shows its state.
THEOREM SerialCalibrationsTheorem == Spec => []SerialCalibrationsAgree
<1>1. Spec => []SerialInv
    BY SerialInit, SerialStep, ConfigurationHolds, PTL DEF Spec
<1>2. ConfigurationInv /\ SerialInv => SerialCalibrationsAgree
    <2> SUFFICES ASSUME ConfigurationInv, SerialInv, ~overlapped
                 PROVE  SerialCalibrationsAgree
        BY DEF SerialCalibrationsAgree
    <2>1. VersionsCount /\ StateShown
        BY DEF SerialInv
    <2>2. DOMAIN calibrations = 1..Len(calibrations)
        BY DEF ConfigurationInv, TypeOK
    <2>3. \A n \in DOMAIN calibrations :
            /\ calibrations[n].version = n
            /\ calibrations[n].active <=> n = Len(calibrations)
        BY <2>1, <2>2 DEF VersionsCount
    <2>4. \A m, n \in DOMAIN calibrations :
            m # n => calibrations[m].version # calibrations[n].version
        BY <2>3
    <2>5. calibrations # <<>> =>
            calibrationState = StateOf(calibrations[Len(calibrations)].metric)
        BY <2>1 DEF StateShown
    <2> QED
        BY <2>3, <2>4, <2>5 DEF SerialCalibrationsAgree
<1> QED
    BY <1>1, <1>2, ConfigurationHolds, PTL

=============================================================================
