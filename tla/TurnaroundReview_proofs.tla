----------------------- MODULE TurnaroundReview_proofs -----------------------
(***************************************************************************)
(* Proofs about TurnaroundReview, for any number of reviewers, jobs,       *)
(* alerts and corrections, and any findings.                               *)
(***************************************************************************)
EXTENDS TurnaroundReview, FiniteSetTheorems, TLAPS

-----------------------------------------------------------------------------
(* The inductive invariant. *)

\* A decision shows what the run found.
Kept(m) ==
    \E d \in DOMAIN decisions :
        /\ decisions[d].milestone = m
        /\ decisions[d].previous = milestones[m].original

\* A decision names the type.
Named(type) ==
    \E d \in DOMAIN decisions :
        type \in {decisions[d].previous.type, decisions[d].corrected.type}

\* A row is as its run found it.
AsFound(row) ==
    /\ row.manual = FALSE
    /\ row.original = [type |-> row.type, time |-> row.time]
    /\ row.type \in FoundTypes

RowsAreKnown ==
    \A m \in DOMAIN milestones :
        /\ milestones[m].job <= jobs
        /\ milestones[m].manual = FALSE => AsFound(milestones[m])
        /\ milestones[m].manual = TRUE => Kept(m) /\ Named(milestones[m].type)

\* A request has loaded what the run found, unless another correction came first.
Fits(q) ==
    q.at = "correct" =>
        /\ q.milestone \in DOMAIN milestones
        /\ \/ milestones[q.milestone].manual = TRUE
           \/ q.loaded = milestones[q.milestone].original

\* The rows of a run have types that no committed row has, or only a corrected one.
NewRows ==
    \A k \in DOMAIN job.new :
        /\ AsFound(job.new[k])
        /\ job.new[k].job = jobs + 1
        /\ \A m \in DOMAIN milestones :
            milestones[m].type = job.new[k].type => milestones[m].manual = TRUE

\* What a run has found and looked at is in the timeline or among its new rows.
FoundIsMentioned ==
    \A found \in job.found \ job.todo :
        \/ Mentioned(found[1])
        \/ \E k \in DOMAIN job.new : job.new[k].type = found[1]

ReportIsOfRows ==
    /\ report.rows \subseteq DOMAIN milestones
    /\ \A k \in DOMAIN alerts : alerts[k].job <= jobs

\* Different types that no run finds come from different corrected rows.
ReportIsOfReviewers ==
    \A t, u \in report.types \ FoundTypes : \E a, b \in report.rows :
        /\ milestones[a].manual = TRUE /\ milestones[b].manual = TRUE
        /\ t # u => a # b

TurnaroundInv ==
    /\ TypeOK
    /\ RowsAreKnown
    /\ \A r \in Reviewers : Fits(request[r])
    /\ NewRows
    /\ FoundIsMentioned
    /\ RowsOfOneTypeAreExplained
    /\ OnStandIsExplained
    /\ ReportIsOfRows
    /\ ReportIsOfReviewers
    /\ ReportIsOfWholeJobs

-----------------------------------------------------------------------------
(* Lemmas. *)

LEMMA RowsAreTyped ==
    ASSUME TypeOK
    PROVE  /\ Len(milestones) \in Nat /\ DOMAIN milestones = 1..Len(milestones)
           /\ Len(decisions) \in Nat /\ DOMAIN decisions = 1..Len(decisions)
           /\ Len(alerts) \in Nat /\ DOMAIN alerts = 1..Len(alerts)
           /\ \A m \in 1..Len(milestones) : milestones[m] \in MilestoneRow
           /\ \A k \in 1..Len(alerts) : alerts[k] \in AlertRow
           /\ jobs \in Nat
<1>1. milestones \in Seq(MilestoneRow) /\ decisions \in Seq(Decision)
      /\ alerts \in Seq(AlertRow)
    BY DEF TypeOK
<1>2. \A m \in 1..Len(milestones) : milestones[m] \in MilestoneRow
    BY <1>1
<1>3. \A k \in 1..Len(alerts) : alerts[k] \in AlertRow
    BY <1>1
<1> QED
    BY <1>1, <1>2, <1>3 DEF TypeOK

LEMMA RowFields ==
    ASSUME NEW row \in MilestoneRow
    PROVE  /\ row.type \in Types /\ row.time \in Times /\ row.manual \in BOOLEAN
           /\ row.original \in Value /\ row.job \in Nat
BY DEF MilestoneRow

LEMMA Original == TurnaroundInv => OriginalIsKept
<1> SUFFICES ASSUME TurnaroundInv, NEW m \in DOMAIN milestones, milestones[m].manual
             PROVE  Kept(m)
    BY DEF OriginalIsKept, Kept
<1>1. milestones[m].manual \in BOOLEAN
    BY RowsAreTyped, RowFields DEF TurnaroundInv
<1>2. milestones[m].manual = TRUE
    BY <1>1
<1> QED
    BY <1>2 DEF TurnaroundInv, RowsAreKnown

\* A set with two elements has a cardinality of at least two.
LEMMA TwoElements ==
    ASSUME NEW S, IsFiniteSet(S), NEW a \in S, NEW b \in S, a # b
    PROVE  Cardinality(S) \in Nat /\ Cardinality(S) >= 2
<1>1. {a} \subseteq S /\ {a, b} \subseteq S /\ b \notin {a}
    OBVIOUS
<1>2. IsFiniteSet({a}) /\ Cardinality({a}) = 1
    BY FS_Singleton
<1>3. IsFiniteSet({a, b}) /\ Cardinality({a, b}) = 2
    <2>1. {a, b} = {a} \cup {b}
        OBVIOUS
    <2> QED
        BY <1>1, <1>2, <2>1, FS_AddElement
<1> QED
    BY <1>1, <1>3, FS_Subset, FS_CardinalityType

LEMMA Reviewed == TurnaroundInv => ReadinessNeedsReviewers
<1> SUFFICES ASSUME TurnaroundInv PROVE ReadinessNeedsReviewers
    OBVIOUS
<1> DEFINE corrected == {m \in report.rows : milestones[m].manual}
           service   == "service_vehicle_clear"
           pushback  == "pushback_path_clear"
           missing   == Missing(report.types)
<1>1. IsFiniteSet(corrected)
    <2>1. PICK n \in Nat : DOMAIN milestones = 1..n
        BY RowsAreTyped DEF TurnaroundInv
    <2>2. corrected \subseteq 1..n
        BY <2>1 DEF TurnaroundInv, ReportIsOfRows
    <2>3. IsFiniteSet(1..n)
        BY FS_Interval
    <2> HIDE DEF corrected
    <2> QED
        BY <2>2, <2>3, FS_Subset
<1>2. service \notin FoundTypes /\ pushback \notin FoundTypes /\ service # pushback
    BY DEF FoundTypes
<1>3. ASSUME NEW t \in report.types \ FoundTypes PROVE corrected # {}
    BY <1>3 DEF TurnaroundInv, ReportIsOfReviewers
<1>4. ASSUME service \in report.types, pushback \in report.types
      PROVE  Cardinality(corrected) >= 2
    <2>1. PICK m \in report.rows, n \in report.rows :
            milestones[m].manual = TRUE /\ milestones[n].manual = TRUE /\ m # n
        BY <1>2, <1>4 DEF TurnaroundInv, ReportIsOfReviewers
    <2>2. m \in corrected /\ n \in corrected
        BY <2>1
    <2> QED
        BY <1>1, <2>1, <2>2, TwoElements
<1>5. ASSUME Cardinality(missing) = 1
      PROVE  service \in report.types \/ pushback \in report.types
    <2> SUFFICES ASSUME service \notin report.types, pushback \notin report.types
                 PROVE  FALSE
        OBVIOUS
    <2>1. service \in missing /\ pushback \in missing
        BY DEF Missing, RequiredTypes
    <2>2. IsFiniteSet(missing)
        <3>1. IsFiniteSet(RequiredTypes)
            <4>1. IsFiniteSet({})
                BY FS_EmptySet
            <4>2. RequiredTypes = (({} \cup {"aircraft_on_block"}) \cup {service})
                                    \cup {pushback}
                BY DEF RequiredTypes
            <4> QED
                BY <4>1, <4>2, FS_AddElement
        <3> QED
            BY <3>1, FS_Subset DEF Missing
    <2>3. Cardinality(missing) >= 2
        BY <1>2, <2>1, <2>2, TwoElements
    <2> QED
        BY <1>5, <2>3
<1>6. ASSUME missing = {}
      PROVE  service \in report.types /\ pushback \in report.types
    BY <1>6 DEF Missing, RequiredTypes
<1>7. Readiness(report.types, report.high) = "ready_for_review" => missing = {}
    BY DEF Readiness
<1>8. Readiness(report.types, report.high) = "nearly_ready"
        => Cardinality(missing) = 1
    BY DEF Readiness
<1> QED
    BY <1>2, <1>3, <1>4, <1>5, <1>6, <1>7, <1>8 DEF ReadinessNeedsReviewers

LEMMA InitHolds == Init => TurnaroundInv
<1> SUFFICES ASSUME Init PROVE TurnaroundInv
    OBVIOUS
<1>1. TypeOK
    <2>1. milestones \in Seq(MilestoneRow)
        BY DEF Init
    <2>2. decisions \in Seq(Decision)
        BY DEF Init
    <2>3. alerts \in Seq(AlertRow)
        BY DEF Init
    <2>4. onStand \in BOOLEAN /\ jobs \in Nat
        BY DEF Init
    <2>5. job \in Job
        <3>1. <<>> \in Seq(MilestoneRow)
            OBVIOUS
        <3> QED
            BY <3>1 DEF Init, NoJob, Job
    <2>6. request \in [Reviewers -> Request]
        BY DEF Init, Idle, Request
    <2>7. report \in Report
        BY DEF Init, NewReport, Report
    <2> QED
        BY <2>1, <2>2, <2>3, <2>4, <2>5, <2>6, <2>7 DEF TypeOK
<1>2. RowsAreKnown /\ NewRows /\ FoundIsMentioned
    BY DEF Init, NoJob, RowsAreKnown, NewRows, FoundIsMentioned
<1>3. RowsOfOneTypeAreExplained /\ OnStandIsExplained
    BY DEF Init, RowsOfOneTypeAreExplained, OnStandIsExplained
<1>4. ReportIsOfRows /\ ReportIsOfReviewers /\ ReportIsOfWholeJobs
    BY DEF Init, NewReport, ReportIsOfRows, ReportIsOfReviewers, ReportIsOfWholeJobs
<1>5. \A r \in Reviewers : Fits(request[r])
    BY DEF Init, Idle, Fits
<1> QED
    BY <1>1, <1>2, <1>3, <1>4, <1>5 DEF TurnaroundInv

-----------------------------------------------------------------------------
(* Steps that leave the rows and the decisions alone. *)

\* Everything that is about rows and decisions stays.
LEMMA SameRows ==
    ASSUME TurnaroundInv, UNCHANGED <<milestones, decisions, alerts, onStand, jobs>>
    PROVE  /\ RowsAreKnown' /\ RowsOfOneTypeAreExplained' /\ OnStandIsExplained'
           /\ \A q \in Request : Fits(q) => Fits(q)'
           /\ \A type : Mentioned(type) => Mentioned(type)'
<1>1. \A m : Kept(m)' <=> Kept(m)
    BY DEF Kept
<1>2. \A type : Named(type)' <=> Named(type)
    BY DEF Named
<1>3. RowsAreKnown'
    BY <1>1, <1>2 DEF TurnaroundInv, RowsAreKnown
<1>4. RowsOfOneTypeAreExplained'
    BY DEF TurnaroundInv, RowsOfOneTypeAreExplained
<1>5. \A type : Mentioned(type)' <=> Mentioned(type)
    BY DEF Mentioned
<1>6. OnStandIsExplained'
    BY <1>5 DEF TurnaroundInv, OnStandIsExplained
<1>7. \A q \in Request : Fits(q) => Fits(q)'
    BY DEF Fits
<1> QED
    BY <1>3, <1>4, <1>5, <1>6, <1>7

\* A step of get_turnaround.
LEMMA ReportStep ==
    ASSUME TurnaroundInv, UNCHANGED <<results, decisions, request>>,
           report' \in Report, report'.rows \subseteq DOMAIN milestones,
           ReportIsOfReviewers', report'.at = "done" => DOMAIN alerts \subseteq report'.alerts
    PROVE  TurnaroundInv'
<1>1. UNCHANGED <<milestones, alerts, onStand, job, jobs, decisions, request>>
    BY DEF results
<1>2. TypeOK'
    BY <1>1 DEF TurnaroundInv, TypeOK
<1>3. NewRows'
    BY <1>1 DEF TurnaroundInv, NewRows, AsFound
<1>4. FoundIsMentioned'
    BY <1>1, SameRows DEF TurnaroundInv, FoundIsMentioned
<1>5. ReportIsOfRows' /\ ReportIsOfWholeJobs'
    BY <1>1 DEF TurnaroundInv, ReportIsOfRows, ReportIsOfWholeJobs
<1>6. \A r \in Reviewers : request[r] \in Request
    BY DEF TurnaroundInv, TypeOK
<1>7. \A r \in Reviewers : Fits(request[r])'
    BY <1>1, <1>6, SameRows DEF TurnaroundInv
<1> QED
    BY <1>1, <1>2, <1>3, <1>4, <1>5, <1>7, SameRows DEF TurnaroundInv

LEMMA ReadingKeepsInv ==
    ASSUME TurnaroundInv, ReadMilestones \/ ReadAlerts \/ NextReport
    PROVE  TurnaroundInv'
<1>1. report \in Report /\ report.rows \subseteq DOMAIN milestones
    BY DEF TurnaroundInv, TypeOK, ReportIsOfRows
<1>2. CASE ReadMilestones
    <2>1. DOMAIN milestones \in SUBSET Nat
        BY RowsAreTyped DEF TurnaroundInv
    <2>2. {milestones[m].type : m \in DOMAIN milestones} \in SUBSET Types
        BY RowsAreTyped, RowFields DEF TurnaroundInv
    <2>3. /\ report' = [report EXCEPT !.at = "alerts", !.rows = DOMAIN milestones,
                !.types = {milestones[m].type : m \in DOMAIN milestones}]
          /\ UNCHANGED <<results, decisions, request>>
        BY <1>2 DEF ReadMilestones
    <2>4. report' \in Report
        BY <1>1, <2>1, <2>2, <2>3 DEF Report
    <2>5. /\ report'.at = "alerts" /\ report'.rows = DOMAIN milestones
          /\ report'.types = {milestones[m].type : m \in DOMAIN milestones}
        BY <1>1, <2>3 DEF Report
    <2>6. ASSUME NEW m \in DOMAIN milestones, milestones[m].type \notin FoundTypes
          PROVE  milestones[m].manual = TRUE
        <3>1. milestones[m].manual \in BOOLEAN
            BY RowsAreTyped, RowFields DEF TurnaroundInv
        <3> QED
            BY <2>6, <3>1 DEF TurnaroundInv, RowsAreKnown, AsFound
    <2>7. ReportIsOfReviewers'
        <3>1. UNCHANGED milestones
            BY <2>3 DEF results
        <3> QED
            <4> SUFFICES ASSUME NEW t \in report'.types \ FoundTypes,
                                NEW u \in report'.types \ FoundTypes
                         PROVE  \E m, n \in report'.rows :
                                    /\ milestones[m].manual = TRUE
                                    /\ milestones[n].manual = TRUE
                                    /\ t # u => m # n
                BY <3>1 DEF ReportIsOfReviewers
            <4>1. PICK m \in DOMAIN milestones : t = milestones[m].type
                BY <2>5
            <4>2. PICK n \in DOMAIN milestones : u = milestones[n].type
                BY <2>5
            <4>3. milestones[m].manual = TRUE /\ milestones[n].manual = TRUE
                BY <2>6, <4>1, <4>2
            <4> QED
                BY <2>5, <4>1, <4>2, <4>3
    <2> QED
        BY <2>3, <2>4, <2>5, <2>7, ReportStep
<1>3. CASE ReadAlerts
    <2>1. DOMAIN alerts \in SUBSET Nat
        BY RowsAreTyped DEF TurnaroundInv
    <2>2. /\ report' = [report EXCEPT !.at = "done", !.alerts = DOMAIN alerts,
                !.high = HighAlerts # {}]
          /\ UNCHANGED <<results, decisions, request>>
        BY <1>3 DEF ReadAlerts
    <2>3. (HighAlerts # {}) \in BOOLEAN
        OBVIOUS
    <2>4. report' \in Report
        BY <1>1, <2>1, <2>2, <2>3 DEF Report
    <2>5. /\ report'.alerts = DOMAIN alerts /\ report'.rows = report.rows
          /\ report'.types = report.types
        BY <1>1, <2>2 DEF Report
    <2>6. ReportIsOfReviewers'
        <3>1. UNCHANGED milestones
            BY <2>2 DEF results
        <3> QED
            BY <2>5, <3>1 DEF TurnaroundInv, ReportIsOfReviewers
    <2> QED
        BY <1>1, <2>2, <2>4, <2>5, <2>6, ReportStep
<1>4. CASE NextReport
    <2>1. report' \in Report /\ report'.rows = {} /\ report'.at = "milestones"
          /\ UNCHANGED <<results, decisions, request>>
        BY <1>4 DEF NextReport, NewReport, Report
    <2>2. ReportIsOfReviewers'
        BY <1>4 DEF NextReport, NewReport, ReportIsOfReviewers
    <2> QED
        BY <2>1, <2>2, ReportStep
<1> QED
    BY <1>2, <1>3, <1>4

\* A request is opened, or given up.
LEMMA RequestStep ==
    ASSUME TurnaroundInv, UNCHANGED <<results, decisions, report>>,
           NEW r \in Reviewers, NEW q \in Request, Fits(q),
           request' = [request EXCEPT ![r] = q]
    PROVE  TurnaroundInv'
<1>1. UNCHANGED <<milestones, alerts, onStand, job, jobs, decisions, report>>
    BY DEF results
<1>2. request \in [Reviewers -> Request]
    BY DEF TurnaroundInv, TypeOK
<1>3. TypeOK'
    BY <1>1, <1>2 DEF TurnaroundInv, TypeOK
<1>4. NewRows'
    BY <1>1 DEF TurnaroundInv, NewRows, AsFound
<1>5. FoundIsMentioned'
    BY <1>1, SameRows DEF TurnaroundInv, FoundIsMentioned
<1>6. ReportIsOfRows' /\ ReportIsOfReviewers' /\ ReportIsOfWholeJobs'
    BY <1>1 DEF TurnaroundInv, ReportIsOfRows, ReportIsOfReviewers, ReportIsOfWholeJobs
<1>7. ASSUME NEW b \in Reviewers PROVE Fits(request[b])'
    <2>1. PICK p \in Request : p = request'[b] /\ Fits(p)
        BY <1>2 DEF TurnaroundInv
    <2>2. Fits(p)'
        BY <2>1, <1>1, SameRows
    <2> QED
        BY <2>1, <2>2
<1> QED
    BY <1>1, <1>3, <1>4, <1>5, <1>6, <1>7, SameRows DEF TurnaroundInv

LEMMA OpeningKeepsInv ==
    ASSUME TurnaroundInv, NEW r \in Reviewers, NEW m \in DOMAIN milestones,
           NEW corrected \in Corrections, OpenCorrection(r, m, corrected)
    PROVE  TurnaroundInv'
<1> DEFINE loaded == [type |-> milestones[m].type, time |-> milestones[m].time]
           q == [at |-> "correct", milestone |-> m, corrected |-> corrected,
                 loaded |-> loaded]
<1>1. milestones[m] \in MilestoneRow /\ m \in Nat
    BY RowsAreTyped DEF TurnaroundInv
<1>2. loaded \in Value
    BY <1>1, RowFields DEF Value
<1>3. q \in Request
    BY <1>1, <1>2 DEF Request
<1>4. milestones[m].manual = TRUE \/ loaded = milestones[m].original
    BY <1>1, RowFields DEF TurnaroundInv, RowsAreKnown, AsFound
<1>5. Fits(q)
    BY <1>4 DEF Fits
<1>6. request' = [request EXCEPT ![r] = q] /\ UNCHANGED <<results, decisions, report>>
    BY DEF OpenCorrection
<1> HIDE DEF q
<1> QED
    BY <1>3, <1>5, <1>6, RequestStep

LEMMA FailingKeepsInv ==
    ASSUME TurnaroundInv, NEW r \in Reviewers, FailCorrection(r)
    PROVE  TurnaroundInv'
<1>1. Idle \in Request /\ Fits(Idle)
    BY DEF Idle, Request, Fits
<1>2. request' = [request EXCEPT ![r] = Idle]
      /\ UNCHANGED <<results, decisions, report>>
    BY DEF FailCorrection
<1> QED
    BY <1>1, <1>2, RequestStep

-----------------------------------------------------------------------------
(* Steps of a job before its commit, and reviews of alerts. *)

\* The new state of the job keeps what the invariant says of jobs.
LEMMA JobStep ==
    ASSUME TurnaroundInv,
           UNCHANGED <<milestones, alerts, onStand, jobs, decisions, request, report>>,
           job' \in Job, NewRows', FoundIsMentioned'
    PROVE  TurnaroundInv'
<1>1. TypeOK'
    BY DEF TurnaroundInv, TypeOK
<1>2. ReportIsOfRows' /\ ReportIsOfReviewers' /\ ReportIsOfWholeJobs'
    BY DEF TurnaroundInv, ReportIsOfRows, ReportIsOfReviewers, ReportIsOfWholeJobs
<1>3. \A r \in Reviewers : request[r] \in Request
    BY DEF TurnaroundInv, TypeOK
<1>4. \A r \in Reviewers : Fits(request[r])'
    BY <1>3, SameRows DEF TurnaroundInv
<1> QED
    BY <1>1, <1>2, <1>4, SameRows DEF TurnaroundInv

LEMMA StartOrFailKeepsInv ==
    ASSUME TurnaroundInv, (\E found \in Findings : StartStoring(found)) \/ FailJob
    PROVE  TurnaroundInv'
<1>1. UNCHANGED <<milestones, alerts, onStand, jobs, decisions, request, report>>
    BY DEF StartStoring, FailJob
<1>2. PICK found \in SUBSET (FoundTypes \X Times), at \in {"idle", "storing"} :
        job' = [at |-> at, found |-> found, todo |-> found, new |-> <<>>]
    <2>1. CASE FailJob
        BY <2>1 DEF FailJob, NoJob
    <2>2. ASSUME NEW found \in Findings, StartStoring(found)
          PROVE  job' = [at |-> "storing", found |-> found, todo |-> found,
                         new |-> <<>>]
                 /\ found \in SUBSET (FoundTypes \X Times)
        BY <2>2, TurnaroundAssumption DEF StartStoring
    <2> QED
        BY <2>1, <2>2
<1>3. job' \in Job
    <2>1. <<>> \in Seq(MilestoneRow)
        OBVIOUS
    <2> QED
        BY <1>2, <2>1 DEF Job
<1>4. NewRows' /\ FoundIsMentioned'
    BY <1>2 DEF NewRows, FoundIsMentioned
<1> QED
    BY <1>1, <1>3, <1>4, JobStep

LEMMA StoringKeepsInv ==
    ASSUME TurnaroundInv, NEW found \in job.todo, StoreMilestone(found)
    PROVE  TurnaroundInv'
<1> DEFINE row == RowOf(found)
<1>1. UNCHANGED <<milestones, alerts, onStand, jobs, decisions, request, report>>
    BY DEF StoreMilestone
<1>2. job \in Job /\ jobs \in Nat
    BY DEF TurnaroundInv, TypeOK
<1>3. /\ job.new \in Seq(MilestoneRow)
      /\ job.found \in SUBSET (FoundTypes \X Times)
      /\ job.todo \in SUBSET (FoundTypes \X Times)
    BY <1>2 DEF Job
<1>4. PICK type \in FoundTypes, time \in Times : found = <<type, time>>
    BY <1>3
<1>5. row = [type |-> type, time |-> time, manual |-> FALSE,
             original |-> [type |-> type, time |-> time], job |-> jobs + 1]
    BY <1>4 DEF RowOf
<1>6. row \in MilestoneRow
    <2>1. type \in Types /\ jobs + 1 \in Nat
        BY <1>2, TurnaroundAssumption
    <2>2. [type |-> type, time |-> time] \in Value
        BY <2>1 DEF Value
    <2> HIDE DEF row
    <2> QED
        BY <2>1, <2>2, <1>5 DEF MilestoneRow
<1>7. row.type = type /\ row.job = jobs + 1 /\ AsFound(row)
    BY <1>4, <1>5 DEF AsFound
<1> HIDE DEF row
<1> DEFINE new == IF Known(type) THEN job.new ELSE Append(job.new, row)
<1>8. new \in Seq(MilestoneRow)
    BY <1>3, <1>6
<1>9. job' = [job EXCEPT !.todo = @ \ {found}, !.new = new]
    <2>1. found[1] = type
        BY <1>4
    <2>2. job' = [job EXCEPT !.todo = @ \ {found},
                    !.new = IF Known(found[1]) THEN @ ELSE Append(@, RowOf(found))]
        BY DEF StoreMilestone
    <2>3. job' = [job EXCEPT !.todo = job.todo \ {found},
                    !.new = IF Known(type) THEN job.new
                            ELSE Append(job.new, RowOf(found))]
        BY <1>2, <2>1, <2>2 DEF Job
    <2> QED
        BY <1>2, <2>3 DEF row, Job
<1>10. ~Known(type) => /\ \E k \in DOMAIN new : new[k].type = type
                       /\ \A k \in DOMAIN new : k \in DOMAIN job.new \/ new[k] = row
    <2> SUFFICES ASSUME ~Known(type)
                 PROVE  /\ \E k \in DOMAIN new : new[k].type = type
                        /\ \A k \in DOMAIN new : k \in DOMAIN job.new \/ new[k] = row
        OBVIOUS
    <2>1. PICK n \in Nat : n = Len(job.new) /\ DOMAIN job.new = 1..n
        BY <1>3
    <2>2. DOMAIN new = 1..(n + 1) /\ new[n + 1] = row
        BY <2>1, <1>3, <1>6
    <2>3. n + 1 \in DOMAIN new /\ new[n + 1].type = type
        BY <2>1, <2>2, <1>7
    <2> QED
        BY <2>1, <2>2, <2>3
<1>11. \A k \in DOMAIN job.new : k \in DOMAIN new /\ new[k] = job.new[k]
    BY <1>3, <1>6
<1> HIDE DEF new
<1>12. /\ job' \in Job /\ job'.new = new /\ job'.found = job.found
       /\ job'.todo = job.todo \ {found}
    BY <1>2, <1>3, <1>8, <1>9 DEF Job
<1>13. NewRows'
    <2> SUFFICES ASSUME NEW k \in DOMAIN new
                 PROVE  /\ AsFound(new[k]) /\ new[k].job = jobs + 1
                        /\ \A m \in DOMAIN milestones :
                            milestones[m].type = new[k].type
                            => milestones[m].manual = TRUE
        BY <1>1, <1>12 DEF NewRows, AsFound
    <2>1. CASE k \in DOMAIN job.new
        BY <2>1, <1>11 DEF TurnaroundInv, NewRows
    <2>2. CASE k \notin DOMAIN job.new
        <3>1. ~Known(type) /\ new[k] = row
            BY <2>2, <1>10 DEF new
        <3> QED
            BY <3>1, <1>7 DEF Known
    <2> QED
        BY <2>1, <2>2
<1>14. FoundIsMentioned'
    <2> SUFFICES ASSUME NEW f \in job.found \ (job.todo \ {found})
                 PROVE  Mentioned(f[1])' \/ \E k \in DOMAIN new : new[k].type = f[1]
        BY <1>12 DEF FoundIsMentioned
    <2>1. CASE f = found
        BY <2>1, <1>1, <1>4, <1>10, SameRows DEF Known, Mentioned
    <2>2. CASE f # found
        BY <2>2, <1>1, <1>11, SameRows DEF TurnaroundInv, FoundIsMentioned
    <2> QED
        BY <2>1, <2>2
<1> QED
    BY <1>1, <1>12, <1>13, <1>14, JobStep

LEMMA ReviewKeepsInv ==
    ASSUME TurnaroundInv, NEW k \in DOMAIN alerts, Review(k)
    PROVE  TurnaroundInv'
<1>1. /\ alerts' = [alerts EXCEPT ![k].active = ~@]
      /\ UNCHANGED <<milestones, onStand, job, jobs, decisions, request, report>>
    BY DEF Review
<1>2. alerts \in Seq(AlertRow)
    BY DEF TurnaroundInv, TypeOK
<1>3. alerts[k] \in AlertRow
    BY <1>2
<1>4. [alerts[k] EXCEPT !.active = ~@] \in AlertRow
      /\ [alerts[k] EXCEPT !.active = ~@].job = alerts[k].job
    BY <1>3 DEF AlertRow
<1>5. /\ alerts' \in Seq(AlertRow) /\ DOMAIN alerts' = DOMAIN alerts
      /\ \A i \in DOMAIN alerts : alerts'[i].job = alerts[i].job
    <2> DEFINE row == [alerts[k] EXCEPT !.active = ~@]
    <2>1. alerts' = [alerts EXCEPT ![k] = row]
        BY <1>1
    <2> HIDE DEF row
    <2>2. row \in AlertRow /\ row.job = alerts[k].job
        BY <1>4 DEF row
    <2> QED
        BY <1>2, <2>1, <2>2
<1>6. TypeOK'
    BY <1>1, <1>5 DEF TurnaroundInv, TypeOK
<1>7. RowsAreKnown'
    BY <1>1 DEF TurnaroundInv, RowsAreKnown, AsFound, Kept, Named
<1>8. \A r \in Reviewers : Fits(request[r])'
    BY <1>1 DEF TurnaroundInv, Fits
<1>9. NewRows' /\ RowsOfOneTypeAreExplained'
    BY <1>1 DEF TurnaroundInv, NewRows, AsFound, RowsOfOneTypeAreExplained
<1>10. FoundIsMentioned' /\ OnStandIsExplained'
    BY <1>1 DEF TurnaroundInv, FoundIsMentioned, OnStandIsExplained, Mentioned
<1>11. ReportIsOfRows' /\ ReportIsOfReviewers' /\ ReportIsOfWholeJobs'
    BY <1>1, <1>5
        DEF TurnaroundInv, ReportIsOfRows, ReportIsOfReviewers, ReportIsOfWholeJobs
<1> QED
    BY <1>6, <1>7, <1>8, <1>9, <1>10, <1>11 DEF TurnaroundInv

-----------------------------------------------------------------------------
(* The commit of a correction. *)

\* What a correction makes of a row.
LEMMA CorrectedRow ==
    ASSUME NEW row \in MilestoneRow, NEW q \in Request, q.at = "correct"
    PROVE  /\ Correct(row, q) \in MilestoneRow
           /\ Correct(row, q).manual = TRUE
           /\ Correct(row, q).original = row.original
           /\ Correct(row, q).job = row.job
           /\ \/ Correct(row, q).type = row.type
              \/ Correct(row, q).type = q.corrected.type
<1>1. /\ q.loaded.type \in Types /\ q.loaded.time \in Times
      /\ q.corrected.type \in Types \cup {NoType} /\ q.corrected.time \in Times
    BY TurnaroundAssumption DEF Request, Value
<1>2. PICK type \in Types : /\ type = Write(row.type, q.loaded.type, NewType(q))
                            /\ type = row.type \/ type = q.corrected.type
    BY <1>1, RowFields DEF Write, NewType
<1>3. PICK time \in Times : time = Write(row.time, q.loaded.time, q.corrected.time)
    BY <1>1, RowFields DEF Write
<1>4. Correct(row, q) = [row EXCEPT !.type = type, !.time = time, !.manual = TRUE]
    BY <1>2, <1>3 DEF Correct, MilestoneRow
<1> QED
    BY <1>2, <1>4 DEF MilestoneRow

\* A request has loaded the type and the time of a value.
LEMMA RequestFields ==
    ASSUME NEW q \in Request, q.at = "correct"
    PROVE  q.milestone \in Nat /\ q.loaded \in Value /\ q.corrected \in Corrections
BY DEF Request

LEMMA CorrectionKeepsInv ==
    ASSUME TurnaroundInv, NEW r \in Reviewers, CommitCorrection(r)
    PROVE  TurnaroundInv'
<1>1. request[r] \in Request /\ request[r].at = "correct" /\ Fits(request[r])
    BY DEF CommitCorrection, TurnaroundInv, TypeOK
<1>2. PICK q \in Request : q = request[r] /\ q.at = "correct" /\ Fits(q)
    BY <1>1
<1>3. PICK m : m = q.milestone
    OBVIOUS
<1>4. PICK n \in Nat : n = Len(milestones)
    BY RowsAreTyped DEF TurnaroundInv
<1>5. PICK d \in Nat : d = Len(decisions)
    BY RowsAreTyped DEF TurnaroundInv
<1>6. /\ m \in 1..n /\ DOMAIN milestones = 1..n /\ DOMAIN decisions = 1..d
      /\ milestones[m] \in MilestoneRow
      /\ milestones[m].manual = TRUE \/ q.loaded = milestones[m].original
    BY <1>2, <1>3, <1>4, <1>5, RowsAreTyped DEF Fits, TurnaroundInv
<1> DEFINE decision == [milestone |-> m, previous |-> q.loaded,
                        corrected |-> q.corrected]
<1>7. /\ milestones' = [milestones EXCEPT ![m] = Correct(milestones[m], q)]
      /\ decisions' = Append(decisions, decision)
      /\ request' = [request EXCEPT ![r] = Idle]
      /\ UNCHANGED <<alerts, onStand, job, jobs, report>>
    BY <1>2, <1>3, <1>4, <1>6 DEF CommitCorrection, Previous, TurnaroundInv, TypeOK
<1>8. decision \in Decision
    BY <1>2, <1>3, RequestFields DEF Decision
<1>9. /\ decision.milestone = m /\ decision.previous = q.loaded
      /\ decision.corrected = q.corrected
    OBVIOUS
<1>10. /\ decisions' \in Seq(Decision) /\ DOMAIN decisions' = 1..(d + 1)
       /\ decisions'[d + 1] = decision
       /\ \A i \in 1..d : decisions'[i] = decisions[i]
    <2> HIDE DEF decision
    <2> QED
        BY <1>5, <1>7, <1>8 DEF TurnaroundInv, TypeOK
<1>11. PICK row \in MilestoneRow : row = Correct(milestones[m], q)
    BY <1>2, <1>6, CorrectedRow
<1>12. /\ row.manual = TRUE /\ row.original = milestones[m].original
       /\ row.job = milestones[m].job
       /\ row.type = milestones[m].type \/ row.type = q.corrected.type
    BY <1>2, <1>6, <1>11, CorrectedRow
<1>13. /\ milestones' \in Seq(MilestoneRow) /\ DOMAIN milestones' = 1..n
       /\ milestones'[m] = row
       /\ \A i \in 1..n : i # m => milestones'[i] = milestones[i]
    BY <1>4, <1>6, <1>7, <1>11 DEF TurnaroundInv, TypeOK
<1> HIDE DEF decision
<1>14. /\ \A i \in 1..n : milestones'[i].original = milestones[i].original
       /\ \A i \in 1..n : milestones'[i].job = milestones[i].job
       /\ \A i \in 1..n : milestones[i].manual = TRUE => milestones'[i].manual = TRUE
    BY <1>12, <1>13
<1>15. \A i \in 1..n : Kept(i) => Kept(i)'
    BY <1>6, <1>10, <1>14 DEF Kept
<1>16. q.loaded = milestones[m].original => Kept(m)'
    <2>1. d + 1 \in DOMAIN decisions' /\ decisions'[d + 1].milestone = m
          /\ decisions'[d + 1].previous = q.loaded
        BY <1>5, <1>9, <1>10
    <2> QED
        BY <2>1, <1>6, <1>14 DEF Kept
<1>17. \A type : Named(type) => Named(type)'
    BY <1>6, <1>10 DEF Named
<1>18. \A type \in {q.loaded.type, q.corrected.type} : Named(type)'
    <2>1. d + 1 \in DOMAIN decisions' /\ decisions'[d + 1].previous = q.loaded
          /\ decisions'[d + 1].corrected = q.corrected
        BY <1>5, <1>9, <1>10
    <2> QED
        BY <2>1 DEF Named
<1>19. milestones[m].manual \in BOOLEAN
    BY <1>6, RowFields
<1>20. \A type : type = milestones[m].type => Named(type)'
    <2>1. CASE milestones[m].manual = TRUE
        BY <2>1, <1>6, <1>17 DEF TurnaroundInv, RowsAreKnown
    <2>2. CASE milestones[m].manual = FALSE
        <3>1. milestones[m].type = q.loaded.type
            <4>1. AsFound(milestones[m])
                BY <2>2, <1>6 DEF TurnaroundInv, RowsAreKnown
            <4>2. milestones[m].original.type = milestones[m].type
                BY <4>1 DEF AsFound
            <4> QED
                BY <4>2, <2>2, <1>6
        <3> QED
            BY <3>1, <1>18
    <2> QED
        BY <2>1, <2>2, <1>19
<1>21. Kept(m)' /\ Named(row.type)'
    <2>1. Kept(m)'
        BY <1>6, <1>15, <1>16 DEF TurnaroundInv, RowsAreKnown
    <2>2. Named(row.type)'
        BY <1>12, <1>18, <1>20
    <2> QED
        BY <2>1, <2>2
<1>22. TypeOK'
    <2>1. Idle \in Request
        BY DEF Idle, Request
    <2> QED
        BY <2>1, <1>7, <1>10, <1>13 DEF TurnaroundInv, TypeOK
<1>23. RowsAreKnown'
    <2> SUFFICES ASSUME NEW i \in 1..n
                 PROVE  /\ milestones'[i].job <= jobs'
                        /\ milestones'[i].manual = FALSE => AsFound(milestones'[i])
                        /\ milestones'[i].manual = TRUE
                            => Kept(i)' /\ Named(milestones[i].type)'
        BY <1>13 DEF RowsAreKnown, AsFound
    <2>1. milestones[i].job <= jobs
        BY <1>6 DEF TurnaroundInv, RowsAreKnown
    <2>2. CASE i = m
        BY <2>1, <2>2, <1>7, <1>12, <1>13, <1>21
    <2>3. CASE i # m
        <3>1. milestones'[i] = milestones[i]
            BY <2>3, <1>13
        <3>2. /\ milestones[i].manual = FALSE => AsFound(milestones[i])
              /\ milestones[i].manual = TRUE => Kept(i) /\ Named(milestones[i].type)
            BY <1>6 DEF TurnaroundInv, RowsAreKnown
        <3> QED
            BY <2>1, <3>1, <3>2, <1>7, <1>15, <1>17
    <2> QED
        BY <2>2, <2>3
<1>24. \A b \in Reviewers : Fits(request[b])'
    <2>1. \A p \in Request : Fits(p) => Fits(p)'
        BY <1>6, <1>13, <1>14 DEF Fits
    <2>2. Idle \in Request /\ Fits(Idle)
        BY DEF Idle, Request, Fits
    <2>3. request \in [Reviewers -> Request]
        BY DEF TurnaroundInv, TypeOK
    <2> SUFFICES ASSUME NEW b \in Reviewers PROVE Fits(request[b])'
        OBVIOUS
    <2>4. PICK p \in Request : p = request'[b] /\ Fits(p)
        BY <1>7, <2>2, <2>3 DEF TurnaroundInv
    <2> QED
        BY <2>1, <2>4
<1>25. NewRows'
    <2>1. \A k \in DOMAIN job.new : \A i \in 1..n :
            milestones'[i].type = job.new[k].type => milestones'[i].manual = TRUE
        BY <1>6, <1>12, <1>13 DEF TurnaroundInv, NewRows
    <2> QED
        BY <2>1, <1>7, <1>13 DEF TurnaroundInv, NewRows, AsFound
<1>26. \A type : Mentioned(type) => Mentioned(type)'
    <2> SUFFICES ASSUME NEW type, Mentioned(type) PROVE Mentioned(type)'
        OBVIOUS
    <2>1. CASE Named(type)
        BY <2>1, <1>17 DEF Named, Mentioned
    <2>2. ASSUME NEW i \in 1..n, milestones[i].type = type PROVE Mentioned(type)'
        <3>1. CASE i = m
            BY <2>2, <3>1, <1>20 DEF Named, Mentioned
        <3>2. CASE i # m
            BY <2>2, <3>2, <1>13 DEF Mentioned
        <3> QED
            BY <3>1, <3>2
    <2> QED
        BY <2>1, <2>2, <1>6 DEF Mentioned, Named
<1>27. FoundIsMentioned' /\ OnStandIsExplained'
    BY <1>7, <1>26 DEF TurnaroundInv, FoundIsMentioned, OnStandIsExplained
<1>28. RowsOfOneTypeAreExplained'
    <2> SUFFICES ASSUME NEW i \in 1..n, NEW j \in 1..n,
                        milestones'[i].type = milestones'[j].type
                 PROVE  \/ milestones'[i].job = milestones'[j].job
                        \/ milestones'[i].manual \/ milestones'[j].manual
        BY <1>13 DEF RowsOfOneTypeAreExplained
    <2>1. CASE i = m \/ j = m
        BY <2>1, <1>12, <1>13
    <2>2. CASE i # m /\ j # m
        BY <2>2, <1>6, <1>13 DEF TurnaroundInv, RowsOfOneTypeAreExplained
    <2> QED
        BY <2>1, <2>2
<1>29. ReportIsOfRows' /\ ReportIsOfWholeJobs'
    BY <1>6, <1>7, <1>13, <1>14
        DEF TurnaroundInv, ReportIsOfRows, ReportIsOfWholeJobs
<1>30. ReportIsOfReviewers'
    <2>1. report' = report
        BY <1>7
    <2>2. \A a \in report.rows :
            milestones[a].manual = TRUE => milestones'[a].manual = TRUE
        BY <1>6, <1>14 DEF TurnaroundInv, ReportIsOfRows
    <2>3. \A t, u \in report.types \ FoundTypes : \E a, b \in report.rows :
            /\ milestones'[a].manual = TRUE /\ milestones'[b].manual = TRUE
            /\ t # u => a # b
        BY <2>2 DEF TurnaroundInv, ReportIsOfReviewers
    <2> QED
        BY <2>1, <2>3 DEF ReportIsOfReviewers
<1> QED
    BY <1>22, <1>23, <1>24, <1>25, <1>27, <1>28, <1>29, <1>30 DEF TurnaroundInv

-----------------------------------------------------------------------------
(* The commit of a job. *)

LEMMA CommitKeepsInv ==
    ASSUME TurnaroundInv, NEW k \in 0..MaxAlerts, CommitJob(k)
    PROVE  TurnaroundInv'
<1>1. PICK n \in Nat : n = Len(milestones)
    BY RowsAreTyped DEF TurnaroundInv
<1>2. job \in Job /\ jobs \in Nat /\ k \in Nat /\ job.todo = {}
    BY TurnaroundAssumption DEF CommitJob, TurnaroundInv, TypeOK
<1>3. PICK new \in Seq(MilestoneRow) : new = job.new
    BY <1>2 DEF Job
<1> DEFINE more == [i \in 1..k |-> [job |-> jobs + 1, active |-> TRUE]]
<1>4. /\ milestones' = milestones \o new /\ alerts' = alerts \o more
      /\ onStand' = (onStand \/ \E f \in job.found : f[1] = "aircraft_on_block")
      /\ jobs' = jobs + 1 /\ job' = NoJob
      /\ UNCHANGED <<decisions, request, report>>
    BY <1>3 DEF CommitJob
<1>5. /\ DOMAIN milestones = 1..n /\ milestones' \in Seq(MilestoneRow)
      /\ DOMAIN milestones' = 1..(n + Len(new))
      /\ \A i \in 1..n : milestones'[i] = milestones[i]
      /\ \A i \in 1..(n + Len(new)) : i \notin 1..n =>
            i - n \in DOMAIN new /\ milestones'[i] = new[i - n]
      /\ \A i \in DOMAIN new : n + i \in 1..(n + Len(new))
                               /\ milestones'[n + i] = new[i]
    <2>1. milestones \in Seq(MilestoneRow) /\ milestones' = milestones \o new
        BY <1>4 DEF TurnaroundInv, TypeOK
    <2>2. PICK l \in Nat : l = Len(new) /\ DOMAIN new = 1..l
        BY <1>3
    <2>3. /\ milestones' \in Seq(MilestoneRow) /\ DOMAIN milestones = 1..n
          /\ DOMAIN milestones' = 1..(n + l)
        BY <1>1, <1>3, <2>1, <2>2
    <2>4. /\ \A i \in 1..n : milestones'[i] = milestones[i]
          /\ \A i \in 1..(n + l) : i \notin 1..n => milestones'[i] = new[i - n]
        BY <1>1, <1>3, <2>1, <2>2
    <2>5. \A i \in 1..(n + l) : i \notin 1..n => i - n \in 1..l
        BY <1>1, <2>2
    <2>6. \A i \in 1..l : n + i \in 1..(n + l) /\ n + i \notin 1..n /\ (n + i) - n = i
        BY <1>1, <2>2
    <2>7. \A i \in 1..l : milestones'[n + i] = new[i]
        BY <2>4, <2>6
    <2> QED
        BY <2>2, <2>3, <2>4, <2>5, <2>6, <2>7
<1>6. /\ more \in Seq(AlertRow) /\ Len(more) = k
      /\ \A i \in 1..k : more[i].job = jobs + 1
    <2>1. [job |-> jobs + 1, active |-> TRUE] \in AlertRow
        BY <1>2 DEF AlertRow
    <2>2. PICK row : row = [job |-> jobs + 1, active |-> TRUE]
        OBVIOUS
    <2>3. row \in AlertRow /\ row.job = jobs + 1 /\ more = [i \in 1..k |-> row]
        BY <2>1, <2>2
    <2>4. k \in Nat
        BY <1>2
    <2> HIDE DEF more
    <2>5. more \in Seq(AlertRow) /\ Len(more) = k
        BY <2>3, <2>4
    <2>6. \A i \in 1..k : more[i] = row
        BY <2>3
    <2> QED
        BY <2>3, <2>5, <2>6
<1> HIDE DEF more
<1>7. /\ alerts' \in Seq(AlertRow)
      /\ \A i \in DOMAIN alerts' :
            \/ i \in DOMAIN alerts /\ alerts'[i] = alerts[i]
            \/ alerts'[i].job = jobs + 1
    <2>1. alerts \in Seq(AlertRow)
        BY DEF TurnaroundInv, TypeOK
    <2> QED
        BY <2>1, <1>2, <1>4, <1>6
<1>8. \A i \in DOMAIN new :
        /\ AsFound(new[i]) /\ new[i].job = jobs + 1
        /\ \A m \in DOMAIN milestones :
            milestones[m].type = new[i].type => milestones[m].manual = TRUE
    BY <1>3 DEF TurnaroundInv, NewRows
<1>9. DOMAIN milestones \subseteq DOMAIN milestones'
    BY <1>1, <1>3, <1>5
<1>10. TypeOK'
    <2>1. job' \in Job
        <3>1. <<>> \in Seq(MilestoneRow)
            OBVIOUS
        <3> QED
            BY <3>1, <1>4 DEF NoJob, Job
    <2>2. onStand' \in BOOLEAN /\ jobs' \in Nat
        BY <1>2, <1>4 DEF TurnaroundInv, TypeOK
    <2> QED
        BY <2>1, <2>2, <1>4, <1>5, <1>7 DEF TurnaroundInv, TypeOK
<1>11. RowsAreKnown'
    <2>1. ASSUME NEW i \in 1..n
          PROVE  /\ milestones'[i].job <= jobs'
                 /\ milestones'[i].manual = FALSE => AsFound(milestones'[i])
                 /\ milestones'[i].manual = TRUE
                    => Kept(i)' /\ Named(milestones[i].type)'
        <3>1. milestones'[i] = milestones[i]
            BY <1>5
        <3>2. /\ milestones[i].manual = FALSE => AsFound(milestones[i])
              /\ milestones[i].manual = TRUE => Kept(i) /\ Named(milestones[i].type)
              /\ milestones[i].job <= jobs /\ milestones[i].job \in Nat
            BY <1>5, RowsAreTyped, RowFields DEF TurnaroundInv, RowsAreKnown
        <3>3. Kept(i) => Kept(i)'
            BY <3>1, <1>4 DEF Kept
        <3>4. Named(milestones[i].type) => Named(milestones[i].type)'
            BY <3>1, <1>4 DEF Named
        <3> QED
            BY <3>1, <3>2, <3>3, <3>4, <1>2, <1>4
    <2>2. ASSUME NEW i \in 1..(n + Len(new)), i \notin 1..n
          PROVE  /\ milestones'[i].job <= jobs' /\ milestones'[i].manual = FALSE
                 /\ AsFound(milestones'[i])
        <3>1. i - n \in DOMAIN new /\ milestones'[i] = new[i - n]
            BY <2>2, <1>5
        <3>2. new[i - n].job = jobs + 1 /\ AsFound(new[i - n])
            BY <3>1, <1>8
        <3> QED
            BY <3>1, <3>2, <1>2, <1>4 DEF AsFound
    <2> QED
        BY <2>1, <2>2, <1>5 DEF RowsAreKnown, AsFound
<1>12. \A r \in Reviewers : Fits(request[r])'
    BY <1>4, <1>5, <1>9 DEF TurnaroundInv, Fits
<1>13. \A type : Mentioned(type) => Mentioned(type)'
    BY <1>4, <1>5, <1>9 DEF Mentioned
<1>14. NewRows' /\ FoundIsMentioned'
    BY <1>4 DEF NoJob, NewRows, FoundIsMentioned
<1>15. OnStandIsExplained'
    <2>1. CASE onStand
        BY <2>1, <1>13 DEF TurnaroundInv, OnStandIsExplained
    <2>2. ASSUME NEW f \in job.found, f[1] = "aircraft_on_block"
          PROVE  Mentioned("aircraft_on_block")'
        <3>1. \/ Mentioned("aircraft_on_block")
              \/ \E i \in DOMAIN new : new[i].type = "aircraft_on_block"
            BY <2>2, <1>2, <1>3 DEF TurnaroundInv, FoundIsMentioned
        <3>2. ASSUME NEW i \in DOMAIN new, new[i].type = "aircraft_on_block"
              PROVE  Mentioned("aircraft_on_block")'
            <4>1. n + i \in DOMAIN milestones' /\ milestones'[n + i] = new[i]
                BY <1>5
            <4> QED
                BY <3>2, <4>1 DEF Mentioned
        <3> QED
            BY <3>1, <3>2, <1>13
    <2> QED
        BY <2>1, <2>2, <1>4 DEF OnStandIsExplained
<1>16. RowsOfOneTypeAreExplained'
    <2> SUFFICES ASSUME NEW i \in 1..(n + Len(new)), NEW j \in 1..(n + Len(new)),
                        milestones'[i].type = milestones'[j].type
                 PROVE  \/ milestones'[i].job = milestones'[j].job
                        \/ milestones'[i].manual = TRUE \/ milestones'[j].manual = TRUE
        BY <1>5 DEF RowsOfOneTypeAreExplained
    <2>1. CASE i \in 1..n /\ j \in 1..n
        <3>1. milestones[i].manual \in BOOLEAN /\ milestones[j].manual \in BOOLEAN
            BY <2>1, <1>5, RowsAreTyped, RowFields DEF TurnaroundInv
        <3>2. \/ milestones[i].job = milestones[j].job
              \/ milestones[i].manual \/ milestones[j].manual
            BY <2>1, <1>5 DEF TurnaroundInv, RowsOfOneTypeAreExplained
        <3> QED
            BY <2>1, <3>1, <3>2, <1>5
    <2>2. CASE i \notin 1..n /\ j \notin 1..n
        BY <2>2, <1>5, <1>8
    <2>3. CASE i \in 1..n /\ j \notin 1..n
        <3>1. PICK l \in DOMAIN new : milestones'[j] = new[l]
            BY <2>3, <1>5
        <3>2. i \in DOMAIN milestones /\ milestones'[i] = milestones[i]
            BY <2>3, <1>5
        <3>3. milestones[i].type = new[l].type
            BY <3>1, <3>2
        <3>4. milestones[i].manual = TRUE
            BY <3>2, <3>3, <1>8
        <3> QED
            BY <3>2, <3>4
    <2>4. CASE i \notin 1..n /\ j \in 1..n
        <3>1. PICK l \in DOMAIN new : milestones'[i] = new[l]
            BY <2>4, <1>5
        <3>2. j \in DOMAIN milestones /\ milestones'[j] = milestones[j]
            BY <2>4, <1>5
        <3>3. milestones[j].type = new[l].type
            BY <3>1, <3>2
        <3>4. milestones[j].manual = TRUE
            BY <3>2, <3>3, <1>8
        <3> QED
            BY <3>2, <3>4
    <2> QED
        BY <2>1, <2>2, <2>3, <2>4
<1>17. ReportIsOfRows'
    <2>1. \A i \in DOMAIN alerts : alerts[i].job <= jobs /\ alerts[i].job \in Nat
        BY RowsAreTyped DEF TurnaroundInv, ReportIsOfRows, AlertRow
    <2>2. \A i \in DOMAIN alerts' : alerts'[i].job <= jobs + 1
        BY <2>1, <1>2, <1>7
    <2> QED
        BY <2>2, <1>4, <1>9 DEF TurnaroundInv, ReportIsOfRows
<1>18. ReportIsOfWholeJobs'
    <2> SUFFICES ASSUME report.at = "done", NEW m \in report.rows,
                        NEW i \in DOMAIN alerts', alerts'[i].job = milestones'[m].job
                 PROVE  i \in report.alerts
        BY <1>4 DEF ReportIsOfWholeJobs
    <2>1. m \in DOMAIN milestones /\ milestones'[m] = milestones[m]
        BY <1>5 DEF TurnaroundInv, ReportIsOfRows
    <2>2. milestones[m].job <= jobs /\ milestones[m].job \in Nat
        BY <2>1, RowsAreTyped, RowFields DEF TurnaroundInv, RowsAreKnown
    <2>3. i \in DOMAIN alerts /\ alerts'[i] = alerts[i]
        BY <2>1, <2>2, <1>2, <1>7
    <2> QED
        BY <2>1, <2>3 DEF TurnaroundInv, ReportIsOfWholeJobs
<1>19. ReportIsOfReviewers'
    <2>1. report' = report
        BY <1>4
    <2>2. \A a \in report.rows :
            milestones[a].manual = TRUE => milestones'[a].manual = TRUE
        BY <1>5 DEF TurnaroundInv, ReportIsOfRows
    <2>3. \A t, u \in report.types \ FoundTypes : \E a, b \in report.rows :
            /\ milestones'[a].manual = TRUE /\ milestones'[b].manual = TRUE
            /\ t # u => a # b
        BY <2>2 DEF TurnaroundInv, ReportIsOfReviewers
    <2> QED
        BY <2>1, <2>3 DEF ReportIsOfReviewers
<1> QED
    BY <1>10, <1>11, <1>12, <1>14, <1>15, <1>16, <1>17, <1>18, <1>19
        DEF TurnaroundInv

-----------------------------------------------------------------------------
(* The theorems. *)

LEMMA NextKeepsInv == TurnaroundInv /\ [Next]_vars => TurnaroundInv'
<1> SUFFICES ASSUME TurnaroundInv, [Next]_vars PROVE TurnaroundInv'
    OBVIOUS
<1>1. CASE UNCHANGED vars
    <2>1. UNCHANGED <<milestones, alerts, onStand, job, jobs, decisions, request,
                      report>>
        BY <1>1 DEF vars, results
    <2>2. job' \in Job
        BY <2>1 DEF TurnaroundInv, TypeOK
    <2>3. NewRows'
        BY <2>1 DEF TurnaroundInv, NewRows, AsFound
    <2>4. FoundIsMentioned'
        BY <2>1, SameRows DEF TurnaroundInv, FoundIsMentioned
    <2> QED
        BY <2>1, <2>2, <2>3, <2>4, JobStep
<1>2. CASE (\E found \in Findings : StartStoring(found)) \/ FailJob
    BY <1>2, StartOrFailKeepsInv
<1>3. ASSUME NEW found \in job.todo, StoreMilestone(found) PROVE TurnaroundInv'
    BY <1>3, StoringKeepsInv
<1>4. ASSUME NEW n \in 0..MaxAlerts, CommitJob(n) PROVE TurnaroundInv'
    BY <1>4, CommitKeepsInv
<1>5. ASSUME NEW k \in DOMAIN alerts, Review(k) PROVE TurnaroundInv'
    BY <1>5, ReviewKeepsInv
<1>6. ASSUME NEW r \in Reviewers, NEW m \in DOMAIN milestones,
             NEW corrected \in Corrections, OpenCorrection(r, m, corrected)
      PROVE  TurnaroundInv'
    BY <1>6, OpeningKeepsInv
<1>7. ASSUME NEW r \in Reviewers, CommitCorrection(r) PROVE TurnaroundInv'
    BY <1>7, CorrectionKeepsInv
<1>8. ASSUME NEW r \in Reviewers, FailCorrection(r) PROVE TurnaroundInv'
    BY <1>8, FailingKeepsInv
<1>9. CASE ReadMilestones \/ ReadAlerts \/ NextReport
    BY <1>9, ReadingKeepsInv
<1> QED
    BY <1>1, <1>2, <1>3, <1>4, <1>5, <1>6, <1>7, <1>8, <1>9 DEF Next

LEMMA TurnaroundInvariant == Spec => []TurnaroundInv
<1>1. Init => TurnaroundInv
    BY InitHolds
<1>2. TurnaroundInv /\ [Next]_vars => TurnaroundInv'
    BY NextKeepsInv
<1> QED
    BY <1>1, <1>2, PTL DEF Spec

\* Milestones, decisions, alerts, requests and reports stay well typed.
THEOREM TypeTheorem == Spec => []TypeOK
BY TurnaroundInvariant, PTL DEF TurnaroundInv

\* Of every corrected milestone some decision shows what the run found, however
\* corrections overlap.
THEOREM OriginalTheorem == Spec => []OriginalIsKept
<1>1. TurnaroundInv => OriginalIsKept
    BY Original
<1> QED
    BY <1>1, TurnaroundInvariant, PTL

\* Two milestones of one type were found by one run, or one of them is marked as
\* corrected.
THEOREM RowsOfOneTypeTheorem == Spec => []RowsOfOneTypeAreExplained
BY TurnaroundInvariant, PTL DEF TurnaroundInv

\* The status on_stand is explained by the timeline or its decisions, whatever
\* reviewers make of the milestone that it came from.
THEOREM OnStandTheorem == Spec => []OnStandIsExplained
BY TurnaroundInvariant, PTL DEF TurnaroundInv

\* A positive assessment rests on a correction for each of the two requirements
\* that no run finds.
THEOREM ReadinessTheorem == Spec => []ReadinessNeedsReviewers
<1>1. TurnaroundInv => ReadinessNeedsReviewers
    BY Reviewed
<1> QED
    BY <1>1, TurnaroundInvariant, PTL

\* A readiness assessment has seen the alerts of every job whose milestones it
\* counts.
THEOREM WholeJobsTheorem == Spec => []ReportIsOfWholeJobs
BY TurnaroundInvariant, PTL DEF TurnaroundInv

=============================================================================
