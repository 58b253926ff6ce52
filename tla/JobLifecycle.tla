---------------------------- MODULE JobLifecycle ----------------------------
(***************************************************************************)
(* What one processing job promises to those who watch its row: the status *)
(* machine of the "Durable processing" section of docs/architecture.md, as *)
(* the code in services/processing.py and api/router.py lets it be when    *)
(* every job has one run at a time.  Results become visible exactly once,  *)
(* with the step to "completed", and only a requested cancellation cancels *)
(***************************************************************************)

CONSTANT Jobs

VARIABLES status,           \* status[j]: the committed status of job j
          cancelRequested,  \* cancelRequested[j]: the committed cancel flag
          published         \* published[j]: the results of j are in the store

lifecycleVars == <<status, cancelRequested, published>>

Terminal == {"completed", "failed", "cancelled"}

\* The statuses POST /processing-jobs/{id}/run and the worker start from.
Startable == {"queued", "failed", "cancelled"}

Init ==
    /\ status = [j \in Jobs |-> "absent"]
    /\ cancelRequested = [j \in Jobs |-> FALSE]
    /\ published = [j \in Jobs |-> FALSE]

\* A status change that leaves the flag and the results alone.
Move(j, from, to) ==
    /\ status[j] \in from
    /\ status' = [status EXCEPT ![j] = to]
    /\ UNCHANGED <<cancelRequested, published>>

Create(j)  == Move(j, {"absent"}, "queued")
Prepare(j) == Move(j, Startable, "preparing")
Start(j)   == Move(j, {"preparing"}, "running")
Fail(j)    == Move(j, {"running"}, "failed")

Cancel(j) ==
    /\ cancelRequested[j]
    /\ Move(j, {"running"}, "cancelled")

Complete(j) ==
    /\ status[j] = "running"
    /\ ~published[j]
    /\ status' = [status EXCEPT ![j] = "completed"]
    /\ published' = [published EXCEPT ![j] = TRUE]
    /\ UNCHANGED cancelRequested

\* The flag may arrive in any status: the request reads the row and writes it
\* in two steps.
RequestCancel(j) ==
    /\ status[j] # "absent"
    /\ cancelRequested' = [cancelRequested EXCEPT ![j] = TRUE]
    /\ UNCHANGED <<status, published>>

Next ==
    \E j \in Jobs :
        \/ Create(j) \/ Prepare(j) \/ Start(j)
        \/ Complete(j) \/ Fail(j) \/ Cancel(j)
        \/ RequestCancel(j)

Spec == Init /\ [][Next]_lifecycleVars

=============================================================================
