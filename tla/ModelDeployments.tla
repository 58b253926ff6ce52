--------------------------- MODULE ModelDeployments ---------------------------
(***************************************************************************)
(* Models that are deployed to cameras and edge nodes and rolled back      *)
(* (register_model, create_model_deployment and rollback_model_deployment  *)
(* of api/router.py), by several administrators at once.                   *)
(*                                                                         *)
(* A handler reads in one step and commits in a later one.  Rows that it   *)
(* has loaded are written column by column: a status is written if it      *)
(* differs from the one that was loaded.                                   *)
(***************************************************************************)
EXTENDS Integers, Sequences, FiniteSets

CONSTANTS
    Admins,         \* API threads that serve administrators
    Targets,        \* cameras and edge nodes
    MaxModels,      \* bound on model versions
    MaxDeployments, \* bound on deployments, committed and open
    NoDeployment    \* rollback_of_id is NULL

ASSUME DeploymentAssumption ==
    /\ MaxModels \in Nat /\ MaxDeployments \in Nat
    /\ NoDeployment \notin Nat

VARIABLES
    models,      \* committed model_versions rows
    deployments, \* committed model_deployments rows
    request      \* request[a]: what a thread works on

stored == <<models, deployments>>
vars   == <<stored, request>>

-----------------------------------------------------------------------------
(* Types. *)

ModelRow == [safe : BOOLEAN, status : {"registered", "deployed"}]

Statuses == {"active", "superseded", "rolled_back"}

\* `seen` is the number of deployments that were committed when the handler read
\* the present ones, remembered for the properties.
DeploymentRow == [model : Nat, target : Targets, status : Statuses,
                  rollbackOf : Nat \cup {NoDeployment}, seen : Nat]

Request == [at : {"idle"}]
    \cup [at : {"deploy"}, model : Nat, target : Targets]
    \cup [at : {"supersede"}, model : Nat, target : Targets,
          previous : SUBSET Nat, seen : Nat]
    \cup [at : {"rollback"}, model : Nat, current : Nat, loaded : Statuses,
          seen : Nat]

Idle == [at |-> "idle"]

-----------------------------------------------------------------------------

OpenRequests == {a \in Admins : request[a].at # "idle"}

Open(a, loaded) ==
    /\ request[a] = Idle
    /\ Len(deployments) + Cardinality(OpenRequests) < MaxDeployments
    /\ request' = [request EXCEPT ![a] = loaded]
    /\ UNCHANGED stored

Active == {n \in DOMAIN deployments : deployments[n].status = "active"}

ActiveOn(t) == {n \in Active : deployments[n].target = t}

\* register_model: one insert.  A pickle checkpoint has safe = FALSE.
Register(a, safe) ==
    /\ request[a] = Idle
    /\ Len(models) < MaxModels
    /\ models' = Append(models, [safe |-> safe, status |-> "registered"])
    /\ UNCHANGED <<deployments, request>>

-----------------------------------------------------------------------------
(* create_model_deployment. *)

\* The model is loaded and safe (409 otherwise); the target exists.
OpenDeploy(a, m, t) ==
    /\ models[m].safe
    /\ Open(a, [at |-> "deploy", model |-> m, target |-> t])

\* (mutant) The query is not restricted to the target.
ReadActive(t) == Active

\* (mutant) One previous deployment is read: db.scalar for db.scalars.
ReadOneActive(t) ==
    IF ActiveOn(t) = {} THEN {} ELSE {CHOOSE n \in ActiveOn(t) : TRUE}

\* The query for the active deployments of the target.
ReadPrevious(t) == ActiveOn(t)

FindPrevious(a) ==
    LET q == request[a] IN
    /\ q.at = "deploy"
    /\ request' = [request EXCEPT ![a] =
            [at |-> "supersede", model |-> q.model, target |-> q.target,
             previous |-> ReadPrevious(q.target), seen |-> Len(deployments)]]
    /\ UNCHANGED stored

SetStatus(rows, status) ==
    [n \in DOMAIN deployments |-> IF n \in rows
        THEN [deployments[n] EXCEPT !.status = status] ELSE deployments[n]]

\* model.deployment_status = "deployed"
MarkDeployed(m) == [models EXCEPT ![m].status = "deployed"]

Insert(rows, m, t, rollbackOf, seen) ==
    Append(rows, [model |-> m, target |-> t, status |-> "active",
                  rollbackOf |-> rollbackOf, seen |-> seen])

\* All of the previous were loaded as active, so that each is written.
CommitDeploy(a) ==
    LET q == request[a] IN
    /\ q.at = "supersede"
    /\ deployments' = Insert(SetStatus(q.previous, "superseded"),
                             q.model, q.target, NoDeployment, q.seen)
    /\ models' = MarkDeployed(q.model)
    /\ request' = [request EXCEPT ![a] = Idle]

-----------------------------------------------------------------------------
(* rollback_model_deployment. *)

\* The deployment is loaded whatever its status, the model must be safe.
OpenRollback(a, n, m) ==
    /\ models[m].safe
    /\ Open(a, [at |-> "rollback", model |-> m, current |-> n,
                loaded |-> deployments[n].status, seen |-> Len(deployments)])

\* (mutant) The deployment that is rolled back stays as it is.
LeaveCurrent(n, loaded) == deployments

\* current.status = "rolled_back"
RollBack(n, loaded) ==
    IF loaded = "rolled_back" THEN deployments ELSE SetStatus({n}, "rolled_back")

CommitRollback(a) ==
    LET q == request[a] IN
    /\ q.at = "rollback"
    /\ deployments' = Insert(RollBack(q.current, q.loaded), q.model,
                             deployments[q.current].target, q.current, q.seen)
    /\ models' = MarkDeployed(q.model)
    /\ request' = [request EXCEPT ![a] = Idle]

\* A request fails, and its session is rolled back.
Fail(a) ==
    /\ request[a].at # "idle"
    /\ request' = [request EXCEPT ![a] = Idle]
    /\ UNCHANGED stored

-----------------------------------------------------------------------------

Init ==
    /\ models = <<>> /\ deployments = <<>>
    /\ request = [a \in Admins |-> Idle]

Next == \E a \in Admins :
    \/ \E safe \in BOOLEAN : Register(a, safe)
    \/ \E m \in DOMAIN models :
        \/ \E t \in Targets : OpenDeploy(a, m, t)
        \/ \E n \in DOMAIN deployments : OpenRollback(a, n, m)
    \/ FindPrevious(a) \/ CommitDeploy(a) \/ CommitRollback(a) \/ Fail(a)

Spec == Init /\ [][Next]_vars

-----------------------------------------------------------------------------
(* Properties. *)

\* Models, deployments and requests are well typed.
TypeOK ==
    /\ models \in Seq(ModelRow)
    /\ deployments \in Seq(DeploymentRow)
    /\ request \in [Admins -> Request]

OnTarget(t) == {n \in DOMAIN deployments : deployments[n].target = t}

IsRollback(n) == deployments[n].rollbackOf # NoDeployment

\* Deploying and rolling back leave no target without a model: whatever requests
\* overlap, the deployment of a target that was committed last is active.
NewestIsActive ==
    \A n \in DOMAIN deployments :
        (\A k \in OnTarget(deployments[n].target) : k <= n) => n \in Active

\* create_model_deployment supersedes what is active, yet a target can have two
\* active deployments.  Then the second was created by a request that had
\* looked before the first was committed, or it is the rollback of another
\* deployment than the first (rollback does not look for the active one).
SecondActiveIsExplained ==
    \A i, j \in Active :
        (i < j /\ deployments[i].target = deployments[j].target)
        => IF IsRollback(j) THEN deployments[j].rollbackOf # i
                            ELSE i > deployments[j].seen

\* A deployment that has been rolled back says so, unless a deployment whose
\* request had looked before the rollback r was committed wrote "superseded".
RollbackIsShown ==
    \A r \in DOMAIN deployments : IsRollback(r) =>
        LET n == deployments[r].rollbackOf IN
        \/ deployments[n].status = "rolled_back"
        \/ /\ deployments[n].status = "superseded"
           /\ \E j \in OnTarget(deployments[n].target) :
                ~IsRollback(j) /\ n <= deployments[j].seen /\ deployments[j].seen < r

=============================================================================
