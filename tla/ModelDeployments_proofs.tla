----------------------- MODULE ModelDeployments_proofs -----------------------
(***************************************************************************)
(* Proofs about ModelDeployments, for any number of administrators,        *)
(* targets, models and deployments.                                        *)
(***************************************************************************)
EXTENDS ModelDeployments, TLAPS

-----------------------------------------------------------------------------
(* The inductive invariant. *)

\* The status of deployment n is explained, for a rollback with row r.
Shown(n, r) ==
    \/ deployments[n].status = "rolled_back"
    \/ /\ deployments[n].status = "superseded"
       /\ \E j \in OnTarget(deployments[n].target) :
            ~IsRollback(j) /\ n <= deployments[j].seen /\ deployments[j].seen < r

\* Requests look at rows, and roll rows back, that were there before their own.
RowsFit ==
    \A n \in DOMAIN deployments :
        /\ deployments[n].seen < n
        /\ IsRollback(n) => deployments[n].rollbackOf \in 1..(n - 1)

\* What a request has loaded.  Its previous deployments are all of those it saw
\* that are active still: no deployment becomes active again.
Fits(q) ==
    /\ q.at \in {"supersede", "rollback"} => q.seen <= Len(deployments)
    /\ q.at = "supersede" =>
        /\ \A i \in q.previous :
            /\ i \in 1..q.seen
            /\ deployments[i].target = q.target
            /\ \A r \in 1..q.seen : deployments[r].rollbackOf # i
        /\ \A i \in 1..q.seen :
            (i \in Active /\ deployments[i].target = q.target) => i \in q.previous
    /\ q.at = "rollback" =>
        /\ q.current \in 1..Len(deployments)
        /\ q.loaded = "rolled_back" => Shown(q.current, Len(deployments) + 1)

DeploymentInv ==
    /\ TypeOK
    /\ RowsFit
    /\ \A a \in Admins : Fits(request[a])
    /\ NewestIsActive
    /\ SecondActiveIsExplained
    /\ RollbackIsShown

-----------------------------------------------------------------------------
(* Lemmas about rows. *)

LEMMA RowsAreTyped ==
    ASSUME TypeOK
    PROVE  /\ Len(deployments) \in Nat
           /\ DOMAIN deployments = 1..Len(deployments)
           /\ deployments = [n \in 1..Len(deployments) |-> deployments[n]]
           /\ \A n \in 1..Len(deployments) :
                /\ deployments[n] \in DeploymentRow
                /\ deployments[n].target \in Targets
                /\ deployments[n].status \in Statuses
                /\ deployments[n].seen \in Nat
                /\ deployments[n].rollbackOf \in Nat \cup {NoDeployment}
<1>1. deployments \in Seq(DeploymentRow)
    BY DEF TypeOK
<1>2. \A n \in 1..Len(deployments) : deployments[n] \in DeploymentRow
    BY <1>1
<1> QED
    BY <1>1, <1>2 DEF DeploymentRow

\* Some rows get another status, and an active one is appended.
Extended(rows, status, m, t, rollbackOf, seen) ==
    /\ deployments' \in Seq(DeploymentRow)
    /\ Len(deployments') = Len(deployments) + 1
    /\ deployments'[Len(deployments) + 1] =
        [model |-> m, target |-> t, status |-> "active",
         rollbackOf |-> rollbackOf, seen |-> seen]
    /\ \A n \in 1..Len(deployments) :
        /\ deployments'[n].target = deployments[n].target
        /\ deployments'[n].seen = deployments[n].seen
        /\ deployments'[n].rollbackOf = deployments[n].rollbackOf
        /\ deployments'[n].status =
                IF n \in rows THEN status ELSE deployments[n].status

LEMMA InsertAppends ==
    ASSUME TypeOK,
           NEW rows, rows \subseteq 1..Len(deployments), NEW status \in Statuses,
           NEW m \in Nat, NEW t \in Targets, NEW seen \in Nat,
           NEW rollbackOf \in Nat \cup {NoDeployment},
           deployments' = Insert(SetStatus(rows, status), m, t, rollbackOf, seen)
    PROVE  Extended(rows, status, m, t, rollbackOf, seen)
<1> DEFINE old == SetStatus(rows, status)
           new == [model |-> m, target |-> t, status |-> "active",
                   rollbackOf |-> rollbackOf, seen |-> seen]
<1>1. new \in DeploymentRow
    BY DEF DeploymentRow, Statuses
<1>2. \A n \in 1..Len(deployments) :
        /\ deployments[n] \in DeploymentRow
        /\ [deployments[n] EXCEPT !.status = status] \in DeploymentRow
    BY RowsAreTyped DEF DeploymentRow
<1>3. old = [n \in 1..Len(deployments) |-> IF n \in rows
                THEN [deployments[n] EXCEPT !.status = status] ELSE deployments[n]]
    BY RowsAreTyped DEF SetStatus
<1>4. old \in [1..Len(deployments) -> DeploymentRow] /\ Len(deployments) \in Nat
    BY <1>2, <1>3, RowsAreTyped
<1>5. old \in Seq(DeploymentRow) /\ Len(old) = Len(deployments)
    BY <1>4
<1>6. \A n \in 1..Len(deployments) :
        /\ old[n].target = deployments[n].target
        /\ old[n].seen = deployments[n].seen
        /\ old[n].rollbackOf = deployments[n].rollbackOf
        /\ old[n].status = IF n \in rows THEN status ELSE deployments[n].status
    BY <1>2, <1>3 DEF DeploymentRow
<1>7. deployments' = Append(old, new)
    BY DEF Insert
<1>8. /\ deployments' \in Seq(DeploymentRow)
      /\ Len(deployments') = Len(deployments) + 1
      /\ deployments'[Len(deployments) + 1] = new
      /\ \A n \in 1..Len(deployments) : deployments'[n] = old[n]
    <2> HIDE DEF old, new
    <2> QED
        BY <1>1, <1>5, <1>7
<1> QED
    BY <1>6, <1>8 DEF Extended

\* Marking a model keeps the models typed.
LEMMA MarkKeepsModels ==
    ASSUME TypeOK, NEW m \in Nat, models' = MarkDeployed(m)
    PROVE  models' \in Seq(ModelRow)
<1>1. models \in Seq(ModelRow) /\ Len(models) \in Nat
    BY DEF TypeOK
<1>2. \A n \in 1..Len(models) :
        /\ models[n] \in ModelRow
        /\ [models[n] EXCEPT !.status = "deployed"] \in ModelRow
    <2>1. \A n \in 1..Len(models) : models[n] \in ModelRow
        BY <1>1
    <2> QED
        BY <2>1 DEF ModelRow
<1>3. models' = [n \in 1..Len(models) |-> IF n = m
                    THEN [models[n] EXCEPT !.status = "deployed"] ELSE models[n]]
    <2>1. DOMAIN models = 1..Len(models)
        BY <1>1
    <2> QED
        BY <2>1 DEF MarkDeployed
<1>4. models' \in [1..Len(models) -> ModelRow]
    BY <1>2, <1>3
<1> QED
    BY <1>1, <1>4

-----------------------------------------------------------------------------
(* What a commit keeps: the common part of a deployment, which supersedes   *)
(* rows that its request saw, and of a rollback, which names the one row.   *)

MayCommit(rows, status, m, t, rollbackOf, seen) ==
    /\ rows \subseteq 1..Len(deployments)
    /\ status \in {"superseded", "rolled_back"}
    /\ m \in Nat /\ t \in Targets
    /\ seen \in 0..Len(deployments)
    /\ rollbackOf \in 1..Len(deployments) \cup {NoDeployment}
    /\ \A n \in rows : deployments[n].target = t
    /\ status = "superseded" =>
        /\ rollbackOf = NoDeployment
        /\ \A n \in rows :
            n <= seen /\ \A r \in 1..seen : deployments[r].rollbackOf # n
    /\ rollbackOf # NoDeployment =>
        /\ status = "rolled_back"
        /\ rollbackOf \in rows \/ Shown(rollbackOf, Len(deployments) + 1)
    /\ \A i \in Active \ rows : deployments[i].target = t =>
        IF rollbackOf # NoDeployment THEN rollbackOf # i ELSE i > seen

LEMMA CommitKeepsRows ==
    ASSUME DeploymentInv,
           NEW rows, NEW status, NEW m, NEW t, NEW rollbackOf, NEW seen,
           MayCommit(rows, status, m, t, rollbackOf, seen),
           deployments' = Insert(SetStatus(rows, status), m, t, rollbackOf, seen)
    PROVE  /\ RowsFit' /\ NewestIsActive' /\ SecondActiveIsExplained'
           /\ RollbackIsShown'
           /\ deployments' \in Seq(DeploymentRow)
           /\ \A q \in Request : Fits(q) => Fits(q)'
<1>0. PICK N \in Nat : N = Len(deployments)
    BY RowsAreTyped DEF DeploymentInv
<1>1. /\ TypeOK /\ RowsFit /\ NewestIsActive /\ SecondActiveIsExplained
      /\ RollbackIsShown
    BY DEF DeploymentInv
<1>a. /\ rows \subseteq 1..N /\ seen \in 0..N /\ m \in Nat /\ t \in Targets
      /\ status \in {"superseded", "rolled_back"}
      /\ rollbackOf \in 1..N \cup {NoDeployment}
      /\ \A n \in rows : deployments[n].target = t
      /\ status = "superseded" => \A n \in rows :
            n <= seen /\ \A r \in 1..seen : deployments[r].rollbackOf # n
      /\ status = "superseded" => rollbackOf = NoDeployment
      /\ rollbackOf # NoDeployment =>
            /\ status = "rolled_back"
            /\ rollbackOf \in rows \/ Shown(rollbackOf, N + 1)
      /\ \A i \in Active \ rows : deployments[i].target = t =>
            IF rollbackOf # NoDeployment THEN rollbackOf # i ELSE i > seen
    BY <1>0 DEF MayCommit
<1>2. /\ N \in Nat /\ DOMAIN deployments = 1..N
      /\ \A n \in 1..N :
            /\ deployments[n].target \in Targets
            /\ deployments[n].status \in Statuses
            /\ deployments[n].seen \in Nat
            /\ deployments[n].rollbackOf \in Nat \cup {NoDeployment}
    BY <1>0, <1>1, RowsAreTyped
<1>3. status \in Statuses /\ rollbackOf \in Nat \cup {NoDeployment} /\ seen \in Nat
    BY <1>2, <1>a DEF Statuses
<1>4. /\ deployments' \in Seq(DeploymentRow)
      /\ Len(deployments') = N + 1
      /\ deployments'[N + 1] =
            [model |-> m, target |-> t, status |-> "active",
             rollbackOf |-> rollbackOf, seen |-> seen]
      /\ \A n \in 1..N :
            /\ deployments'[n].target = deployments[n].target
            /\ deployments'[n].seen = deployments[n].seen
            /\ deployments'[n].rollbackOf = deployments[n].rollbackOf
            /\ deployments'[n].status =
                    IF n \in rows THEN status ELSE deployments[n].status
    <2>1. TypeOK /\ m \in Nat /\ t \in Targets /\ rows \subseteq 1..Len(deployments)
        BY <1>0, <1>1, <1>a
    <2>2. deployments' = Insert(SetStatus(rows, status), m, t, rollbackOf, seen)
        OBVIOUS
    <2>3. status \in Statuses /\ seen \in Nat /\ rollbackOf \in Nat \cup {NoDeployment}
        BY <1>3
    <2>4. Extended(rows, status, m, t, rollbackOf, seen)
        BY <2>1, <2>2, <2>3, InsertAppends
    <2> QED
        BY <1>0, <2>4 DEF Extended
<1>5. DOMAIN deployments' = 1..(N + 1)
    BY <1>4
<1>6. /\ deployments'[N + 1].target = t /\ deployments'[N + 1].status = "active"
      /\ deployments'[N + 1].rollbackOf = rollbackOf
      /\ deployments'[N + 1].seen = seen
    BY <1>4
<1>7. Active' = (Active \ rows) \cup {N + 1}
    BY <1>2, <1>a, <1>4, <1>5, <1>6 DEF Active
<1>8. \A n \in 1..N : IsRollback(n)' <=> IsRollback(n)
    BY <1>4 DEF IsRollback
<1>9. RowsFit'
    BY <1>1, <1>2, <1>a, <1>4, <1>5, <1>6, <1>8 DEF RowsFit, IsRollback
<1>10. NewestIsActive'
    <2> SUFFICES ASSUME NEW n \in 1..(N + 1),
                        \A k \in OnTarget(deployments[n].target)' : k <= n
                 PROVE  n \in Active'
        BY <1>5 DEF NewestIsActive
    <2>1. CASE n = N + 1
        BY <2>1, <1>7
    <2>2. CASE n # N + 1
        <3>1. n \in 1..N
            BY <2>2, <1>2, <1>a
        <3>2. deployments[n].target # t
            <4>1. N + 1 \in OnTarget(deployments[n].target)' => N + 1 <= n
                OBVIOUS
            <4>2. N + 1 \notin OnTarget(deployments[n].target)'
                BY <3>1, <4>1
            <4> QED
                BY <3>1, <4>2, <1>4, <1>5, <1>6 DEF OnTarget
        <3>3. \A k \in OnTarget(deployments[n].target) : k <= n
            <4> SUFFICES ASSUME NEW k \in OnTarget(deployments[n].target)
                         PROVE  k <= n
                OBVIOUS
            <4>1. k \in 1..N /\ deployments[k].target = deployments[n].target
                BY <1>2, <1>a DEF OnTarget
            <4>2. k \in OnTarget(deployments[n].target)'
                BY <4>1, <3>1, <1>2, <1>a, <1>4, <1>5 DEF OnTarget
            <4> QED
                BY <4>2
        <3>4. n \in Active /\ n \notin rows
            BY <3>1, <3>2, <3>3, <1>1, <1>2, <1>a DEF NewestIsActive
        <3> QED
            BY <3>4, <1>7
    <2> QED
        BY <2>1, <2>2
<1>11. SecondActiveIsExplained'
    <2> SUFFICES ASSUME NEW i \in Active', NEW j \in Active', i < j,
                        deployments'[i].target = deployments'[j].target
                 PROVE  IF IsRollback(j)' THEN deployments'[j].rollbackOf # i
                                          ELSE i > deployments'[j].seen
        BY DEF SecondActiveIsExplained
    <2>1. i \in 1..N /\ i \in Active \ rows
        BY <1>2, <1>a, <1>5, <1>7 DEF Active
    <2>2. CASE j = N + 1
        <3>1. deployments[i].target = t
            BY <2>1, <2>2, <1>4, <1>6
        <3>2. IF rollbackOf # NoDeployment THEN rollbackOf # i ELSE i > seen
            BY <2>1, <3>1, <1>a
        <3> QED
            BY <2>2, <3>2, <1>6 DEF IsRollback
    <2>3. CASE j # N + 1
        <3>1. j \in Active /\ j \in 1..N
            BY <2>3, <1>2, <1>a, <1>7 DEF Active
        <3> QED
            BY <2>1, <3>1, <1>1, <1>4, <1>8 DEF SecondActiveIsExplained
    <2> QED
        BY <2>2, <2>3
<1>12. \A n \in 1..N : \A r, u \in Nat :
        (Shown(n, r) /\ r <= u /\ (n \in rows /\ status = "superseded" => seen < u))
        => Shown(n, u)'
    <2> SUFFICES ASSUME NEW n \in 1..N, NEW r \in Nat, NEW u \in Nat,
                        Shown(n, r), r <= u,
                        n \in rows /\ status = "superseded" => seen < u
                 PROVE  Shown(n, u)'
        OBVIOUS
    <2>1. CASE n \in rows /\ status = "rolled_back"
        BY <2>1, <1>a, <1>4 DEF Shown
    <2>2. CASE n \in rows /\ status = "superseded"
        <3>1. /\ deployments'[n].status = "superseded"
              /\ deployments'[n].target = t
              /\ n <= seen /\ seen < u /\ ~IsRollback(N + 1)'
            BY <2>2, <1>a, <1>4, <1>6 DEF IsRollback
        <3>2. N + 1 \in OnTarget(deployments[n].target)'
            BY <3>1, <1>2, <1>a, <1>5, <1>6 DEF OnTarget
        <3> QED
            BY <3>1, <3>2, <1>6 DEF Shown
    <2>3. CASE n \notin rows /\ deployments[n].status = "rolled_back"
        BY <2>3, <1>4 DEF Shown
    <2>4. CASE n \notin rows /\ deployments[n].status # "rolled_back"
        <3>1. PICK j \in OnTarget(deployments[n].target) :
                ~IsRollback(j) /\ n <= deployments[j].seen /\ deployments[j].seen < r
            BY <2>4 DEF Shown
        <3>2. j \in 1..N /\ deployments[j].target = deployments[n].target
            BY <3>1, <1>2, <1>a DEF OnTarget
        <3>3. /\ j \in OnTarget(deployments[n].target)'
              /\ ~IsRollback(j)'
              /\ n <= deployments'[j].seen /\ deployments'[j].seen < u
            BY <3>1, <3>2, <1>2, <1>a, <1>4, <1>5, <1>8 DEF OnTarget
        <3>4. deployments'[n].status = "superseded"
            BY <2>4, <1>4 DEF Shown
        <3> QED
            BY <3>3, <3>4 DEF Shown
    <2> QED
        BY <2>1, <2>2, <2>3, <2>4, <1>a
<1>13. RollbackIsShown'
    <2> SUFFICES ASSUME NEW r \in 1..(N + 1), IsRollback(r)'
                 PROVE  Shown(deployments[r].rollbackOf, r)'
        BY <1>5 DEF RollbackIsShown, Shown
    <2>1. CASE r = N + 1
        <3>1. /\ rollbackOf \in 1..N /\ status = "rolled_back"
              /\ rollbackOf \in rows \/ Shown(rollbackOf, N + 1)
            <4>1. rollbackOf # NoDeployment
                BY <2>1, <1>6 DEF IsRollback
            <4> QED
                BY <4>1, <1>2, <1>a
        <3>2. CASE rollbackOf \in rows
            BY <2>1, <3>1, <3>2, <1>4, <1>6 DEF Shown
        <3>3. CASE Shown(rollbackOf, N + 1)
            <4>1. Shown(rollbackOf, N + 1)'
                BY <3>1, <3>3, <1>12, N + 1 \in Nat, N + 1 <= N + 1
            <4> QED
                BY <4>1, <2>1, <1>6 DEF Shown
        <3> QED
            BY <3>1, <3>2, <3>3, <1>2, <1>a
    <2>2. CASE r # N + 1
        <3>1. r \in 1..N /\ IsRollback(r)
            BY <2>2, <1>2, <1>a, <1>8
        <3> DEFINE n == deployments[r].rollbackOf
        <3>2. n \in 1..N /\ Shown(n, r)
            BY <3>1, <1>1, <1>2, <1>a DEF RowsFit, RollbackIsShown, Shown
        <3>3. n \in rows /\ status = "superseded" => seen < r
            BY <3>1, <3>2, <1>a, <1>3
        <3> QED
            BY <3>1, <3>2, <3>3, <1>4, <1>12
    <2> QED
        BY <2>1, <2>2
<1>14. \A q \in Request : Fits(q) => Fits(q)'
    <2> SUFFICES ASSUME NEW q \in Request, Fits(q)
                 PROVE  Fits(q)'
        OBVIOUS
    <2>1. q.at \in {"supersede", "rollback"} => q.seen \in Nat /\ q.seen <= N
        BY <1>0 DEF Request, Fits
    <2>2. ASSUME q.at = "supersede"
          PROVE  /\ \A i \in q.previous :
                    /\ i \in 1..q.seen
                    /\ deployments'[i].target = q.target
                    /\ \A r \in 1..q.seen : deployments'[r].rollbackOf # i
                 /\ \A i \in 1..q.seen :
                    (i \in Active' /\ deployments'[i].target = q.target)
                    => i \in q.previous
        <3>1. \A i \in 1..q.seen :
                /\ i \in 1..N
                /\ deployments'[i].target = deployments[i].target
                /\ deployments'[i].rollbackOf = deployments[i].rollbackOf
                /\ i \in Active' => i \in Active
            BY <2>1, <2>2, <1>2, <1>a, <1>4, <1>7
        <3> QED
            BY <2>2, <3>1 DEF Fits
    <2>3. ASSUME q.at = "rollback"
          PROVE  /\ q.current \in 1..(N + 1)
                 /\ q.loaded = "rolled_back" => Shown(q.current, N + 2)'
        <3>1. q.current \in 1..N
            BY <1>0, <2>3 DEF Fits
        <3>2. q.loaded = "rolled_back" => Shown(q.current, N + 1)
            BY <1>0, <2>3 DEF Fits
        <3>3. N + 1 \in Nat /\ N + 2 \in Nat /\ N + 1 <= N + 2 /\ seen < N + 2
            BY <1>2, <1>a
        <3> QED
            BY <3>1, <3>2, <3>3, <1>2, <1>a, <1>12
    <2>4. Len(deployments') = N + 1 /\ Len(deployments') + 1 = N + 2
        BY <1>2, <1>a, <1>4
    <2> QED
        BY <2>1, <2>2, <2>3, <2>4, <1>2, <1>a DEF Fits
<1> QED
    BY <1>4, <1>9, <1>10, <1>11, <1>13, <1>14

-----------------------------------------------------------------------------
(* The steps. *)

LEMMA InitHolds == Init => DeploymentInv
<1> SUFFICES ASSUME Init PROVE DeploymentInv
    OBVIOUS
<1>1. TypeOK
    BY DEF Init, TypeOK, Idle, Request
<1>2. \A a \in Admins : Fits(request[a])
    BY DEF Init, Idle, Fits
<1>3. RowsFit /\ NewestIsActive /\ SecondActiveIsExplained /\ RollbackIsShown
    BY DEF Init, RowsFit, NewestIsActive, SecondActiveIsExplained, RollbackIsShown,
           Active
<1> QED
    BY <1>1, <1>2, <1>3 DEF DeploymentInv

\* A request loads something, or ends, and the store stays as it is.
LEMMA RequestStep ==
    ASSUME DeploymentInv, UNCHANGED stored, NEW a \in Admins,
           NEW q \in Request, Fits(q), request' = [request EXCEPT ![a] = q]
    PROVE  DeploymentInv'
<1>1. UNCHANGED <<models, deployments>>
    BY DEF stored
<1>2. TypeOK'
    BY <1>1 DEF DeploymentInv, TypeOK
<1>3. \A b \in Admins : Fits(request[b])'
    <2>1. \A b \in Admins : Fits(request'[b])
        BY DEF DeploymentInv, TypeOK
    <2> QED
        BY <2>1, <1>1 DEF Fits, Active, Shown, OnTarget, IsRollback
<1>4. RowsFit' /\ NewestIsActive' /\ SecondActiveIsExplained' /\ RollbackIsShown'
    BY <1>1 DEF DeploymentInv, RowsFit, NewestIsActive, SecondActiveIsExplained,
                RollbackIsShown, Active, OnTarget, IsRollback
<1> QED
    BY <1>2, <1>3, <1>4 DEF DeploymentInv

LEMMA RegisterKeepsInv ==
    ASSUME DeploymentInv, NEW a \in Admins, NEW safe \in BOOLEAN, Register(a, safe)
    PROVE  DeploymentInv'
<1>1. UNCHANGED <<deployments, request>>
    BY DEF Register
<1>2. [safe |-> safe, status |-> "registered"] \in ModelRow
    BY DEF ModelRow
<1>3. models' \in Seq(ModelRow)
    BY <1>2 DEF Register, DeploymentInv, TypeOK
<1>4. TypeOK'
    BY <1>1, <1>3 DEF DeploymentInv, TypeOK
<1>5. \A b \in Admins : Fits(request[b])'
    BY <1>1 DEF DeploymentInv, Fits, Active, Shown, OnTarget, IsRollback
<1>6. RowsFit' /\ NewestIsActive' /\ SecondActiveIsExplained' /\ RollbackIsShown'
    BY <1>1 DEF DeploymentInv, RowsFit, NewestIsActive, SecondActiveIsExplained,
                RollbackIsShown, Active, OnTarget, IsRollback
<1> QED
    BY <1>4, <1>5, <1>6 DEF DeploymentInv

LEMMA IdleFits == Idle \in Request /\ Fits(Idle)
BY DEF Idle, Request, Fits

LEMMA OpenDeployKeepsInv ==
    ASSUME DeploymentInv, NEW a \in Admins, NEW m \in DOMAIN models,
           NEW t \in Targets, OpenDeploy(a, m, t)
    PROVE  DeploymentInv'
<1> DEFINE q == [at |-> "deploy", model |-> m, target |-> t]
<1>1. m \in Nat
    BY DEF DeploymentInv, TypeOK
<1>2. q \in Request /\ Fits(q)
    BY <1>1 DEF Request, Fits
<1>3. request' = [request EXCEPT ![a] = q] /\ UNCHANGED stored
    BY DEF OpenDeploy, Open
<1> QED
    BY <1>2, <1>3, RequestStep

\* What is active now, was seen now; a deployment that has been rolled back is
\* not active.
LEMMA FindPreviousKeepsInv ==
    ASSUME DeploymentInv, NEW a \in Admins, FindPrevious(a)
    PROVE  DeploymentInv'
<1> DEFINE p == request[a]
           q == [at |-> "supersede", model |-> p.model, target |-> p.target,
                 previous |-> ActiveOn(p.target), seen |-> Len(deployments)]
<1>1. p \in Request /\ p.at = "deploy"
    BY DEF FindPrevious, DeploymentInv, TypeOK
<1>2. p.model \in Nat /\ p.target \in Targets
    BY <1>1 DEF Request
<1>3. DOMAIN deployments = 1..Len(deployments) /\ Len(deployments) \in Nat
    BY RowsAreTyped DEF DeploymentInv
<1>4. q \in Request
    <2>1. ActiveOn(p.target) \in SUBSET Nat
        BY <1>3 DEF ActiveOn, Active
    <2> QED
        BY <1>2, <1>3, <2>1 DEF Request
<1>5. \A i \in ActiveOn(p.target) : \A r \in 1..Len(deployments) :
        deployments[r].rollbackOf # i
    <2> SUFFICES ASSUME NEW i \in ActiveOn(p.target), NEW r \in 1..Len(deployments),
                        deployments[r].rollbackOf = i
                 PROVE  FALSE
        OBVIOUS
    <2>1. deployments[i].status = "active" /\ i \in 1..Len(deployments)
        BY <1>3 DEF ActiveOn, Active
    <2>2. IsRollback(r)
        BY <2>1, <1>3, DeploymentAssumption DEF IsRollback
    <2> QED
        BY <2>1, <2>2, <1>3 DEF DeploymentInv, RollbackIsShown
<1>6. Fits(q)
    BY <1>3, <1>5 DEF Fits, ActiveOn, Active
<1>7. request' = [request EXCEPT ![a] = q] /\ UNCHANGED stored
    BY DEF FindPrevious, ReadPrevious
<1> HIDE DEF q
<1> QED
    BY <1>4, <1>6, <1>7, RequestStep

LEMMA OpenRollbackKeepsInv ==
    ASSUME DeploymentInv, NEW a \in Admins, NEW n \in DOMAIN deployments,
           NEW m \in DOMAIN models, OpenRollback(a, n, m)
    PROVE  DeploymentInv'
<1> DEFINE q == [at |-> "rollback", model |-> m, current |-> n,
                 loaded |-> deployments[n].status, seen |-> Len(deployments)]
<1>1. m \in Nat
    BY DEF DeploymentInv, TypeOK
<1>2. /\ n \in 1..Len(deployments) /\ n \in Nat /\ Len(deployments) \in Nat
      /\ deployments[n].status \in Statuses
    BY RowsAreTyped DEF DeploymentInv
<1>3. q \in Request
    BY <1>1, <1>2 DEF Request
<1>4. Fits(q)
    BY <1>2 DEF Fits, Shown
<1>5. request' = [request EXCEPT ![a] = q] /\ UNCHANGED stored
    BY DEF OpenRollback, Open
<1> HIDE DEF q
<1> QED
    BY <1>3, <1>4, <1>5, RequestStep

\* The rows and requests after a commit.
LEMMA CommitKeepsRequests ==
    ASSUME DeploymentInv, NEW a \in Admins, request' = [request EXCEPT ![a] = Idle],
           deployments' \in Seq(DeploymentRow), models' \in Seq(ModelRow),
           \A q \in Request : Fits(q) => Fits(q)'
    PROVE  TypeOK' /\ \A b \in Admins : Fits(request[b])'
<1>1. TypeOK'
    BY IdleFits DEF DeploymentInv, TypeOK
<1>2. SUFFICES ASSUME NEW b \in Admins PROVE Fits(request[b])'
    BY <1>1
<1>3. CASE b = a
    BY <1>3 DEF DeploymentInv, TypeOK, Idle, Fits
<1>4. CASE b # a
    <2>1. request[b] \in Request /\ Fits(request[b]) /\ request'[b] = request[b]
        BY <1>4 DEF DeploymentInv, TypeOK
    <2> QED
        BY <2>1 DEF Fits
<1> QED
    BY <1>3, <1>4

LEMMA CommitDeployKeepsInv ==
    ASSUME DeploymentInv, NEW a \in Admins, CommitDeploy(a)
    PROVE  DeploymentInv'
<1> DEFINE q == request[a]
<1>1. q \in Request /\ q.at = "supersede" /\ Fits(q)
    BY DEF CommitDeploy, DeploymentInv, TypeOK
<1>2. /\ q.model \in Nat /\ q.target \in Targets /\ q.seen \in Nat
      /\ Len(deployments) \in Nat /\ q.seen <= Len(deployments)
    BY <1>1, RowsAreTyped DEF Request, Fits, DeploymentInv
<1>3. /\ q.previous \subseteq 1..Len(deployments)
      /\ \A n \in q.previous :
            /\ deployments[n].target = q.target
            /\ n <= q.seen /\ \A r \in 1..q.seen : deployments[r].rollbackOf # n
    BY <1>1, <1>2 DEF Fits
<1>4. \A i \in Active \ q.previous : deployments[i].target = q.target => i > q.seen
    <2>1. Active \subseteq 1..Len(deployments)
        BY RowsAreTyped DEF Active, DeploymentInv
    <2> QED
        BY <2>1, <1>1, <1>2 DEF Fits
<1>5. /\ deployments' = Insert(SetStatus(q.previous, "superseded"),
                               q.model, q.target, NoDeployment, q.seen)
      /\ models' = MarkDeployed(q.model)
      /\ request' = [request EXCEPT ![a] = Idle]
    BY DEF CommitDeploy
<1>6. /\ RowsFit' /\ NewestIsActive' /\ SecondActiveIsExplained' /\ RollbackIsShown'
      /\ deployments' \in Seq(DeploymentRow)
      /\ \A r \in Request : Fits(r) => Fits(r)'
    <2>1. MayCommit(q.previous, "superseded", q.model, q.target, NoDeployment, q.seen)
        BY <1>2, <1>3, <1>4 DEF MayCommit
    <2> QED
        BY <2>1, <1>5, CommitKeepsRows
<1>7. models' \in Seq(ModelRow)
    BY <1>2, <1>5, MarkKeepsModels DEF DeploymentInv
<1> QED
    BY <1>5, <1>6, <1>7, CommitKeepsRequests DEF DeploymentInv

LEMMA CommitRollbackKeepsInv ==
    ASSUME DeploymentInv, NEW a \in Admins, CommitRollback(a)
    PROVE  DeploymentInv'
<1> DEFINE q == request[a]
           rows == IF q.loaded = "rolled_back" THEN {} ELSE {q.current}
           t == deployments[q.current].target
<1>1. q \in Request /\ q.at = "rollback" /\ Fits(q)
    BY DEF CommitRollback, DeploymentInv, TypeOK
<1>2. /\ q.model \in Nat /\ q.loaded \in Statuses /\ q.seen \in Nat
      /\ Len(deployments) \in Nat /\ q.seen <= Len(deployments)
      /\ q.current \in 1..Len(deployments) /\ t \in Targets
      /\ q.loaded = "rolled_back" => Shown(q.current, Len(deployments) + 1)
    BY <1>1, RowsAreTyped DEF Request, Fits, DeploymentInv
<1>3. RollBack(q.current, q.loaded) = SetStatus(rows, "rolled_back")
    <2>1. SetStatus({}, "rolled_back") = deployments
        BY RowsAreTyped DEF SetStatus, DeploymentInv
    <2> QED
        BY <2>1 DEF RollBack
<1>4. /\ deployments' = Insert(SetStatus(rows, "rolled_back"), q.model, t,
                               q.current, q.seen)
      /\ models' = MarkDeployed(q.model)
      /\ request' = [request EXCEPT ![a] = Idle]
    BY <1>3 DEF CommitRollback
<1>5. /\ rows \subseteq 1..Len(deployments)
      /\ \A n \in rows : deployments[n].target = t
      /\ q.current \in rows \/ Shown(q.current, Len(deployments) + 1)
    BY <1>2
<1>6. \A i \in Active \ rows : q.current # i
    <2>1. CASE q.loaded = "rolled_back"
        BY <2>1, <1>2 DEF Shown, Active
    <2> QED
        BY <2>1
<1>7. q.current # NoDeployment
    BY <1>2, DeploymentAssumption
<1>8. /\ RowsFit' /\ NewestIsActive' /\ SecondActiveIsExplained' /\ RollbackIsShown'
      /\ deployments' \in Seq(DeploymentRow)
      /\ \A r \in Request : Fits(r) => Fits(r)'
    <2>1. MayCommit(rows, "rolled_back", q.model, t, q.current, q.seen)
        BY <1>2, <1>5, <1>6, <1>7 DEF MayCommit
    <2> QED
        BY <2>1, <1>4, CommitKeepsRows
<1>9. models' \in Seq(ModelRow)
    BY <1>2, <1>4, MarkKeepsModels DEF DeploymentInv
<1>10. TypeOK' /\ \A b \in Admins : Fits(request[b])'
    BY <1>4, <1>8, <1>9, CommitKeepsRequests
<1> QED
    BY <1>8, <1>10 DEF DeploymentInv

LEMMA NextKeepsInv == DeploymentInv /\ [Next]_vars => DeploymentInv'
<1> SUFFICES ASSUME DeploymentInv, [Next]_vars PROVE DeploymentInv'
    OBVIOUS
<1>1. CASE UNCHANGED vars
    <2>1. UNCHANGED <<models, deployments, request>>
        BY <1>1 DEF vars, stored
    <2>2. TypeOK' /\ RowsFit' /\ NewestIsActive' /\ SecondActiveIsExplained'
          /\ RollbackIsShown'
        BY <2>1 DEF DeploymentInv, TypeOK, RowsFit, NewestIsActive, RollbackIsShown,
                    SecondActiveIsExplained, Active, OnTarget, IsRollback
    <2>3. \A a \in Admins : Fits(request[a])'
        BY <2>1 DEF DeploymentInv, Fits, Shown, Active, OnTarget, IsRollback
    <2> QED
        BY <2>2, <2>3 DEF DeploymentInv
<1>2. ASSUME NEW a \in Admins, NEW safe \in BOOLEAN, Register(a, safe)
      PROVE  DeploymentInv'
    BY <1>2, RegisterKeepsInv
<1>3. ASSUME NEW a \in Admins, NEW m \in DOMAIN models, NEW t \in Targets,
             OpenDeploy(a, m, t)
      PROVE  DeploymentInv'
    BY <1>3, OpenDeployKeepsInv
<1>4. ASSUME NEW a \in Admins, NEW m \in DOMAIN models, NEW n \in DOMAIN deployments,
             OpenRollback(a, n, m)
      PROVE  DeploymentInv'
    BY <1>4, OpenRollbackKeepsInv
<1>5. ASSUME NEW a \in Admins, FindPrevious(a) PROVE DeploymentInv'
    BY <1>5, FindPreviousKeepsInv
<1>6. ASSUME NEW a \in Admins, CommitDeploy(a) PROVE DeploymentInv'
    BY <1>6, CommitDeployKeepsInv
<1>7. ASSUME NEW a \in Admins, CommitRollback(a) PROVE DeploymentInv'
    BY <1>7, CommitRollbackKeepsInv
<1>8. ASSUME NEW a \in Admins, Fail(a) PROVE DeploymentInv'
    BY <1>8, IdleFits, RequestStep DEF Fail
<1> QED
    BY <1>1, <1>2, <1>3, <1>4, <1>5, <1>6, <1>7, <1>8 DEF Next

-----------------------------------------------------------------------------
(* The theorems. *)

LEMMA DeploymentInvariant == Spec => []DeploymentInv
<1>1. Init => DeploymentInv
    BY InitHolds
<1>2. DeploymentInv /\ [Next]_vars => DeploymentInv'
    BY NextKeepsInv
<1> QED
    BY <1>1, <1>2, PTL DEF Spec

\* Rows and requests stay well typed.
THEOREM TypeTheorem == Spec => []TypeOK
BY DeploymentInvariant, PTL DEF DeploymentInv

\* create_model_deployment and rollback_model_deployment leave no target without
\* a model: its last deployment is active, whatever requests overlap.
THEOREM NewestTheorem == Spec => []NewestIsActive
BY DeploymentInvariant, PTL DEF DeploymentInv

\* A second active deployment of a target comes from requests that overlapped
\* or from a rollback that does not look for the active one.
THEOREM SecondActiveTheorem == Spec => []SecondActiveIsExplained
BY DeploymentInvariant, PTL DEF DeploymentInv

\* A deployment that has been rolled back shows it, unless an overlapping
\* deployment has written over it.
THEOREM RollbackTheorem == Spec => []RollbackIsShown
BY DeploymentInvariant, PTL DEF DeploymentInv

=============================================================================
