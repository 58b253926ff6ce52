--------------------------- MODULE TurnaroundReview ---------------------------
(***************************************************************************)
(* The milestones of one turnaround: found by processing jobs, corrected   *)
(* by reviewers (correct_milestone of api/router.py), and summed up with   *)
(* the alerts as the departure readiness (get_turnaround and               *)
(* evaluate_readiness).                                                    *)
(*                                                                         *)
(* Jobs of the turnaround are executed one after the other here, as by one *)
(* worker (ProcessingJobs has the overlapping ones); reviewers and readers *)
(* work at the same time.  Only alerts of severity high or critical are    *)
(* kept, as only they count; IncidentReview has the statuses behind        *)
(* `active`.                                                               *)
(***************************************************************************)
EXTENDS Integers, Sequences, FiniteSets

CONSTANTS
    Reviewers,      \* API threads that serve reviewers
    Types,          \* milestone types
    Times,          \* times in a video
    NoType,         \* a correction without a milestone type
    Findings,       \* sets of <<type, time>> that a run can find
    Corrections,    \* what reviewers send: [type, time]
    MaxJobs,        \* bound on jobs
    MaxAlerts,      \* bound on the alerts of one job
    MaxCorrections  \* bound on committed and open corrections

\* The types run_processing_job has milestone rules for, and
\* READINESS_REQUIREMENTS.
FoundTypes == {"aircraft_on_block", "unclassified_service_vehicle_present"}
RequiredTypes == {"aircraft_on_block", "service_vehicle_clear", "pushback_path_clear"}

ASSUME TurnaroundAssumption ==
    /\ FoundTypes \cup RequiredTypes \subseteq Types
    /\ NoType \notin Types
    /\ Findings \subseteq SUBSET (FoundTypes \X Times)
    /\ Corrections \subseteq [type : Types \cup {NoType}, time : Times]
    /\ MaxJobs \in Nat /\ MaxAlerts \in Nat /\ MaxCorrections \in Nat

VARIABLES
    milestones, \* committed turnaround_milestones rows
    decisions,  \* committed review_decisions rows on milestones
    alerts,     \* committed safety_alerts rows of high severity
    onStand,    \* the turnaround's status is on_stand
    job,        \* the run that is storing its results
    jobs,       \* jobs that have completed
    request,    \* request[r]: the correction a thread works on
    report      \* the answer of get_turnaround as far as it is read

results == <<milestones, alerts, onStand, job, jobs>>
vars    == <<results, decisions, request, report>>

-----------------------------------------------------------------------------
(* Types. *)

Value == [type : Types, time : Times]

\* `original` and `job` are remembered for the properties; the row itself keeps
\* only the original time (original_prediction).
MilestoneRow == [type : Types, time : Times, manual : BOOLEAN,
                 original : Value, job : Nat]

AlertRow == [job : Nat, active : BOOLEAN]

Decision == [milestone : Nat, previous : Value,
             corrected : Corrections]

Job == [at : {"idle", "storing"}, found : SUBSET (FoundTypes \X Times),
        todo : SUBSET (FoundTypes \X Times), new : Seq(MilestoneRow)]

Request == [at : {"idle"}]
    \cup [at : {"correct"}, milestone : Nat, loaded : Value,
          corrected : Corrections]

Report == [at : {"milestones", "alerts", "done"}, rows : SUBSET Nat,
           types : SUBSET Types, alerts : SUBSET Nat, high : BOOLEAN]

NoJob     == [at |-> "idle", found |-> {}, todo |-> {}, new |-> <<>>]
Idle      == [at |-> "idle"]
NewReport == [at |-> "milestones", rows |-> {}, types |-> {}, alerts |-> {},
              high |-> FALSE]

-----------------------------------------------------------------------------
(* run_processing_job: milestones, alerts and status of one run. *)

StartStoring(found) ==
    /\ job.at = "idle"
    /\ jobs < MaxJobs
    /\ job' = [at |-> "storing", found |-> found, todo |-> found, new |-> <<>>]
    /\ UNCHANGED <<milestones, alerts, onStand, jobs, decisions, request, report>>

\* The look-up of a committed milestone of this type.  Rows of the same run
\* are not flushed yet, so that it does not find them.
Known(type) == \E m \in DOMAIN milestones : milestones[m].type = type

RowOf(found) ==
    LET value == [type |-> found[1], time |-> found[2]] IN
    [type |-> found[1], time |-> found[2], manual |-> FALSE,
     original |-> value, job |-> jobs + 1]

StoreMilestone(found) ==
    /\ job.at = "storing"
    /\ found \in job.todo
    /\ job' = [job EXCEPT !.todo = @ \ {found},
            !.new = IF Known(found[1]) THEN @ ELSE Append(@, RowOf(found))]
    /\ UNCHANGED <<milestones, alerts, onStand, jobs, decisions, request, report>>

\* The one commit of all results.  n alerts of high severity are among them.
CommitJob(n) ==
    /\ job.at = "storing" /\ job.todo = {}
    /\ milestones' = milestones \o job.new
    /\ alerts' = alerts \o [k \in 1..n |-> [job |-> jobs + 1, active |-> TRUE]]
    /\ onStand' = (onStand \/ \E found \in job.found : found[1] = "aircraft_on_block")
    /\ jobs' = jobs + 1
    /\ job' = NoJob
    /\ UNCHANGED <<decisions, request, report>>

\* An exception: everything is rolled back.
FailJob ==
    /\ job.at = "storing"
    /\ job' = NoJob
    /\ UNCHANGED <<milestones, alerts, onStand, jobs, decisions, request, report>>

\* review_alert or create_incident closes an alert or opens it again.
Review(k) ==
    /\ alerts' = [alerts EXCEPT ![k].active = ~@]
    /\ UNCHANGED <<milestones, onStand, job, jobs, decisions, request, report>>

-----------------------------------------------------------------------------
(* correct_milestone. *)

OpenRequests == {r \in Reviewers : request[r].at # "idle"}

OpenCorrection(r, m, corrected) ==
    /\ request[r] = Idle
    /\ Len(decisions) + Cardinality(OpenRequests) < MaxCorrections
    /\ request' = [request EXCEPT ![r] =
            [at |-> "correct", milestone |-> m, corrected |-> corrected,
             loaded |-> [type |-> milestones[m].type, time |-> milestones[m].time]]]
    /\ UNCHANGED <<results, decisions, report>>

\* payload.milestone_type or milestone.milestone_type
NewType(q) ==
    IF q.corrected.type = NoType THEN q.loaded.type ELSE q.corrected.type

\* The column after a commit: written if it differs from what was loaded.
Write(column, loaded, new) == IF new = loaded THEN column ELSE new

\* (mutant) Only a correction of the time marks the row.
CorrectAndMarkMoved(row, q) ==
    [row EXCEPT !.type = Write(@, q.loaded.type, NewType(q)),
                !.time = Write(@, q.loaded.time, q.corrected.time),
                !.manual = @ \/ q.corrected.time # q.loaded.time]

Correct(row, q) ==
    [row EXCEPT !.type = Write(@, q.loaded.type, NewType(q)),
                !.time = Write(@, q.loaded.time, q.corrected.time),
                !.manual = TRUE]

\* (mutant) The decision is built after the row has been changed.
PreviousAfter(q) == [type |-> NewType(q), time |-> q.corrected.time]

\* previous, taken before the assignments.
Previous(q) == q.loaded

CommitCorrection(r) ==
    LET q == request[r] IN
    /\ q.at = "correct"
    /\ milestones' = [milestones EXCEPT ![q.milestone] = Correct(@, q)]
    /\ decisions' = Append(decisions, [milestone |-> q.milestone,
            previous |-> Previous(q), corrected |-> q.corrected])
    /\ request' = [request EXCEPT ![r] = Idle]
    /\ UNCHANGED <<alerts, onStand, job, jobs, report>>

FailCorrection(r) ==
    /\ request[r].at = "correct"
    /\ request' = [request EXCEPT ![r] = Idle]
    /\ UNCHANGED <<results, decisions, report>>

-----------------------------------------------------------------------------
(* get_turnaround: the milestones, then the alerts. *)

HighAlerts == {k \in DOMAIN alerts : alerts[k].active}

ReadMilestones ==
    /\ report.at = "milestones"
    /\ report' = [report EXCEPT !.at = "alerts", !.rows = DOMAIN milestones,
            !.types = {milestones[m].type : m \in DOMAIN milestones}]
    /\ UNCHANGED <<results, decisions, request>>

\* (mutant) The alerts are read before the milestones.
ReadAlertsAhead ==
    /\ \/ /\ report.at = "milestones"
          /\ report' = [report EXCEPT !.alerts = DOMAIN alerts, !.high = HighAlerts # {}]
       \/ /\ report.at = "alerts"
          /\ report' = [report EXCEPT !.at = "done"]
    /\ UNCHANGED <<results, decisions, request>>

ReadAlerts ==
    /\ report.at = "alerts"
    /\ report' = [report EXCEPT !.at = "done", !.alerts = DOMAIN alerts,
            !.high = HighAlerts # {}]
    /\ UNCHANGED <<results, decisions, request>>

NextReport ==
    /\ report.at = "done"
    /\ report' = NewReport
    /\ UNCHANGED <<results, decisions, request>>

\* evaluate_readiness
Missing(types) == RequiredTypes \ types

\* (mutant) One requirement too many may be missing.
ReadinessTooEarly(types, high) ==
    CASE high -> "not_ready"
      [] ~high /\ Cardinality(Missing(types)) <= 1 -> "ready_for_review"
      [] ~high /\ Cardinality(Missing(types)) = 2 -> "nearly_ready"
      [] OTHER -> "at_risk"

Readiness(types, high) ==
    CASE high -> "not_ready"
      [] ~high /\ Missing(types) = {} -> "ready_for_review"
      [] ~high /\ Cardinality(Missing(types)) = 1 -> "nearly_ready"
      [] OTHER -> "at_risk"

-----------------------------------------------------------------------------

Init ==
    /\ milestones = <<>> /\ decisions = <<>> /\ alerts = <<>>
    /\ onStand = FALSE
    /\ job = NoJob /\ jobs = 0
    /\ request = [r \in Reviewers |-> Idle]
    /\ report = NewReport

Next ==
    \/ \E found \in Findings : StartStoring(found)
    \/ \E found \in job.todo : StoreMilestone(found)
    \/ \E n \in 0..MaxAlerts : CommitJob(n)
    \/ FailJob
    \/ \E k \in DOMAIN alerts : Review(k)
    \/ \E r \in Reviewers :
        \/ \E m \in DOMAIN milestones, corrected \in Corrections :
            OpenCorrection(r, m, corrected)
        \/ CommitCorrection(r) \/ FailCorrection(r)
    \/ ReadMilestones \/ ReadAlerts \/ NextReport

Spec == Init /\ [][Next]_vars

-----------------------------------------------------------------------------
(* Properties. *)

\* Rows, decisions, runs and requests are well typed.
TypeOK ==
    /\ milestones \in Seq(MilestoneRow)
    /\ decisions \in Seq(Decision)
    /\ alerts \in Seq(AlertRow)
    /\ onStand \in BOOLEAN
    /\ job \in Job
    /\ jobs \in Nat
    /\ request \in [Reviewers -> Request]
    /\ report \in Report

\* docs/turnaround-engine.md:16, "manual_correction: authorized reviewer
\* correction with original value retained": of every corrected milestone some
\* decision shows what the run found, however corrections overlap.
OriginalIsKept ==
    \A m \in DOMAIN milestones : milestones[m].manual =>
        \E d \in DOMAIN decisions :
            /\ decisions[d].milestone = m
            /\ decisions[d].previous = milestones[m].original

\* A type that a correction has taken from a row is looked up in vain by the
\* next job.  Still, two milestones of one type were found by one run (in two
\* zones or on two tracks), or one of them shows that it has been corrected.
RowsOfOneTypeAreExplained ==
    \A m, n \in DOMAIN milestones :
        milestones[m].type = milestones[n].type =>
            \/ milestones[m].job = milestones[n].job
            \/ milestones[m].manual \/ milestones[n].manual

Mentioned(type) ==
    \/ \E m \in DOMAIN milestones : milestones[m].type = type
    \/ \E d \in DOMAIN decisions :
        type \in {decisions[d].previous.type, decisions[d].corrected.type}

\* The status on_stand outlives the milestone it came from, and a run may set it
\* because of a milestone that a reviewer has made.  The timeline or its
\* decisions show an aircraft on block in any case.
OnStandIsExplained == onStand => Mentioned("aircraft_on_block")

\* Two of the three requirements are never found by a run: a positive
\* assessment rests on a correction for each of them ("Manual confirmation or
\* correction" of docs/turnaround-engine.md; manual_confirmation_required).
ReadinessNeedsReviewers ==
    LET corrected == {m \in report.rows : milestones[m].manual}
        state     == Readiness(report.types, report.high)
    IN  report.at = "done" =>
            /\ state = "nearly_ready" => corrected # {}
            /\ state = "ready_for_review" => Cardinality(corrected) >= 2

\* An assessment that counts a milestone of a job has seen the alerts of that
\* job, though they are two queries and jobs commit in between.
ReportIsOfWholeJobs ==
    report.at = "done" =>
        \A m \in report.rows, k \in DOMAIN alerts :
            alerts[k].job = milestones[m].job => k \in report.alerts

=============================================================================
