# AeroRamp Vision: TLA+ models, checks and proofs

AeroRamp Vision analyses videos of airport ramps. A video is uploaded, a worker
runs it through a detector, a tracker, safety rules and a milestone engine, and
stores tracks, alerts and turnaround milestones for review. Edge sites keep an
offline queue of events and synchronize it with the API. This directory models
the parts of that program whose correctness depends on interleavings, failures
or long sequences of steps, and leaves pixel work and plain queries out.

To run a model: `tlc -config JobsSingle.cfg MCProcessingJobs`. To check a proof:
`tlapm EdgeSync_proofs.tla`. Paths below are relative to the repository;
`api/` stands for `apps/api/aeroramp/`.

## 1. Inventory

| Component | Where | State | Operations |
| --- | --- | --- | --- |
| Processing jobs | `api/api/router.py` (upload, run, cancel), `api/services/processing.py` | rows of jobs, videos, tracks, alerts, milestones, turnaround status | upload (with `run_now`), run, cancel, `run_processing_job` |
| Worker | `apps/worker/main.py` | stop flag, current job | poll, run, SIGTERM |
| Video pipeline | `api/vision/pipeline.py` | frame index, archive, progress | frame loop, cancel check, sampling |
| Tracker | `api/vision/tracker.py` | tracks, finished list | `update`, `finalize` |
| Safety rules | `api/vision/rules.py` | `first_seen`, `last_alert`, `stationary_since` | `evaluate`, `_emit` |
| Milestones | `api/vision/milestones.py` | emitted keys | `evaluate`; `evaluate_readiness` is pure |
| Edge agent | `apps/edge_agent/agent.py` | SQLite queue, attempts | `add`, `batch`, `acknowledge`, `mark_failure`, `sync` |
| Edge synchronization | `api/api/router.py` (`edge_sync`) | batch rows, events, node status | accept a batch |
| Retention | `scripts/retention_cleanup.py` | videos, evidence, files | delete by age |
| Review | `api/api/router.py` | alerts, incidents, decisions, milestones | review, create/update incident, correct milestone |
| Model deployments | `api/api/router.py` | models, deployments | register, deploy, roll back |
| Cameras and calibration | `api/api/router.py` | calibrations, zones, rules | versioned calibration, create rule |
| Rate limiter | `api/main.py` | deque of times per client | sliding window |
| Evidence | `api/vision/pipeline.py`, `api/services/processing.py` | snapshots, clips and annotated video of a job, evidence rows | write, match by prefix, hash |
| Readiness | `api/vision/milestones.py`, `get_turnaround` | none | assess from milestones and alerts |
| Evaluation | `api/evaluation.py` | none | match predictions with a ground truth |
| Live stream | `api/vision/live.py` | capture, tracker, rules | reconnect loop |
| Authentication | `api/core/security.py`, `api/api/deps.py` | none (tokens), memberships | log in, look up membership |

`PROJECT.json` lists every component with its status, also the ones without
state of interest (detectors, reports, evaluation, SDK, web console, schema).

How they interact:

* The database is the only shared state of the API threads, the workers and the
  retention script. There are no locks, no `SELECT ... FOR UPDATE` and no
  version columns. A row is claimed, cancelled, completed and expired by
  whoever commits last, and a commit writes only the columns that changed
  since the session loaded them.
* A run is one function call in a worker or in a background task of an API
  thread. It commits several times (`preparing`, `running`, progress, results)
  and refreshes its row once per frame to see the cancel flag.
* Inside a run, detector, tracker, rules and milestones are called one after
  the other for each sampled frame: no concurrency, but long memories.
* The edge agent and the API share only HTTP requests that may be lost, time
  out, be answered late, or be sent again.

What is hard here, in the order of importance:

1. two runs of one job, cancellation and run on the same row, errors and
   crashes between the commits of a run;
2. retries, lost answers and overlapping requests of the edge queue;
3. debounce, cooldown and dwell over tracks that disappear and come back;
4. reviewers, administrators and calibrators on stale sessions;
5. evidence files that no transaction protects, and their retention.

What makes each component correct (in brackets the property, if there is one):

* Jobs: completed means stored results (`CompletedHasResults`), results of a run
  appear together (`NoPartialResults`), one run leaves results (`OneResultSet`),
  no cancel request is lost (`FlagIsNeverLost`) or invented
  (`CancelledWasRequested`), a cancelled job does not complete
  (`CancelIsFinal`), jobs end unless their session breaks (`JobsEnd`), a flag set
  in time prevails (`EarlyCancelWins`), turnaround status and milestones agree
  (`OnStandIffAircraftOnBlock`, `MilestonesFromOneRun`).
* Edge: nothing is lost (`NothingLost`), nothing is stored twice
  (`EventStoredOnce`, and for batches `ImplementsStoreAndForward`), rows are deleted
  only after acceptance (the same), the queue drains (`Drains`).
* Tracker: every detection belongs to one track (`TracksPartitionDetections`),
  tracks survive short occlusions (`TracksSurviveOcclusion`).
* Rules: no early alert (`AlertsAreDebounced`), no repeated one
  (`AlertsKeepCooldown`), no missing one (`LastingPresenceIsReported`).
* Milestones: exactly the fulfilled ones, once per track
  (`MilestonesMatchTracks`).
* Evidence: the deduplication loses no alert but known ones
  (`DroppedAlertIsExplained`), an alert is stored with its own evidence or that
  of an earlier alert (`EvidenceIsExplained`), and evidence stays what was hashed
  (`SerialEvidenceIsIntact`).
* Retention: rows go with their files (`RowsGoWithFiles`).
* Evaluation: a matching that wastes nothing and counts that add up
  (`EvaluationIsSound`).
* Review: two active incidents of an alert have a reason
  (`SecondIncidentIsExplained`), the audit log leads to the rows
  (`SerialAuditReplays`), the original of a corrected milestone is kept
  (`OriginalIsKept`), and what jobs and corrections make of a timeline can be
  read from it (`RowsOfOneTypeAreExplained`, `OnStandIsExplained`).
* Readiness: no positive assessment without reviewers
  (`ReadinessNeedsReviewers`), none of half a job (`ReportIsOfWholeJobs`).
* Calibration: the newest version is active (`LatestCalibrationIsActive`),
  requests one after the other leave one active row that the camera's state
  agrees with (`SerialCalibrationsAgree`), no run measures with a calibration
  older than its speed rules (`RunIsNotOlderThanItsRules`).
* Deployments: a target keeps a model (`NewestIsActive`), a second active
  deployment has a reason (`SecondActiveIsExplained`), a roll-back can be seen
  (`RollbackIsShown`).
* Rate limiter: no window holds more than the limit, and nobody who keeps to it
  is refused (`LimitIsExact`).

Several of these are weaker than what one would like: "at most one active
incident", "at most one active deployment" and "evidence of its own" do not hold
of the code. The properties that end in `Explained` say exactly in which ways
they fail, and exclude every other.

## 2. Modules

| Module | Extends / instances | Models |
| --- | --- | --- |
| `JobLifecycle` | | abstract: what a job promises its clients |
| `ProcessingJobs` | instances `JobLifecycle` | requests, worker, run, retention of videos over one database |
| `StoreAndForward` | | abstract: what the edge promises its site |
| `EdgeSync` | instances `StoreAndForward` | queue, network and `edge_sync` handler |
| `Tracker` | | `CentroidTracker` |
| `SafetyRules` | `Tracker` | `SafetyRuleEngine` |
| `TurnaroundMilestones` | `Tracker` | `TurnaroundMilestoneEngine` |
| `VideoAnalysis` | `SafetyRules`, `TurnaroundMilestones` | the frame loop that composes the three |
| `AlertEvidence` | `VideoAnalysis` | deduplication of the alerts of a video, their snapshots and clips |
| `EventEvaluation` | | `evaluate_timed_events` |
| `VideoEvaluation` | `AlertEvidence`, `EventEvaluation` | the evaluation of the alerts of a video |
| `EvidenceRetention` | | files, the rows that point to them, and `cleanup` |
| `IncidentReview` | | alerts, incidents, notes and the audit log under review |
| `TurnaroundReview` | | timeline of a turnaround: jobs, corrections, readiness |
| `CameraConfiguration` | | calibrations, zones and rules of a camera, and the run that reads them |
| `ModelDeployments` | | registry, deployments and roll-backs |
| `RateLimiter` | | the sliding window of `dispatch` |
| `X_proofs` for `ProcessingJobs`, `EdgeSync`, `IncidentReview`, `TurnaroundReview`, `CameraConfiguration`, `ModelDeployments` | `X` | the theorems about `X` |
| `VideoAnalysis_proofs` | `VideoEvaluation` | the theorems about a video, its evidence and its evaluation |
| `Operations_proofs` | `EvidenceRetention`, `RateLimiter` | the theorems about the two parts that run beside the jobs; they share no state |
| `MCX` for each module with a run | `X` | values of the constants for TLC |

Definitions marked `(mutant)` are not part of a specification. Each is a wrong
variant of the definition that follows it; with it in place the property named
in `PROJECT.json` is violated, which shows that the property can fail.

### ProcessingJobs

The state is what is committed (`row`, `hasVideo`, `trackRows`, `alertRows`,
`milestoneRows`, `onStand`) and what a thread holds in memory (`pc`, `ctx`).
`ctx[t].view` is the row as the session of the thread loaded it.

* `Flush(stored, view, new)` is the `UPDATE` of SQLAlchemy: only the columns in
  which `new` differs from `view` are written. All commits of job columns go
  through it, so stale sessions overwrite exactly what the code overwrites.
* `Upload`, `UploadAndRun`, `RunJob`: the requests. The status check of `/run`
  and the run itself are separate steps, because the background task starts
  after the response. `RequestCancel` reads, `CommitCancel` writes.
* `PickJob`, `Stop`, `Restart`: the loop of the worker. The job is selected, not
  claimed.
* `Load` to `Report`: `run_processing_job`, one action per stretch of code
  between two points where other threads can be seen (a query, a refresh or a
  commit). `ReadFrame` refreshes the row and looks at the flag for every frame
  read, also those that sampling skips; `FinishFrame` commits progress after
  every `ReportEvery` analysed frames; `EndOfVideo` commits progress 1.0 and
  hands over the candidates; `ScanMilestone` and `ScanAlert` are the look-ups
  before each insert; `Complete` is the one commit of all results.
* `ProcessingError` is an exception inside the `try` block that leaves the
  session usable. `Rollback` reads the job again, `Report` commits the ending.
* `AbandonRun` is an exception that ends the run without a report: a flush (with
  which every commit begins) or a refresh has failed, so that the session is
  unusable and its rows expired, and the handler raises where it logs
  `current_job.id` (`processing.py:274`), before it rolls back; or anything fails
  before the `try` block or in the handler. The thread lives on, and the row stays
  as committed. `abandoned` counts these ends for each job, for `Stuck`.
* `Crash` kills a worker, or all API threads (one process). `ExpireVideo` is
  the retention script.

Results are abstracted to alert keys and pairs of milestone type and track;
which ones a run finds is any element of `Findings`. `VideoAnalysis` models how
they are found; it takes one run and no database.

`JobLifecycle` keeps status, flag and "published" of each job. `ProcessingJobs`
implements it (`ImplementsLifecycle`) as long as no two runs of a job overlap.

### EdgeSync

`queue` and `attempts` are the SQLite table of the site, `slot` the requests on
their way or in a handler, `accepted` the committed batch rows. A batch is
identified by the set of its events, as the deduplication key is a hash of
their ids. `Post` reads the oldest `Limit` rows; `Check` is the look-up of the
key, `Accept` the commit under the unique constraint; `Answer` finds its sender
waiting or gone. `Foreign` events are skipped by the handler, `Malformed` ones
fail their batch. `TimeOut`, `Lose`, `Refuse`, `AgentDies` and
`AcknowledgeFails` are the faults.

`StoreAndForward` is the same without agents, network and faults: a batch is accepted
once, and a row is deleted with an accepted batch. `EdgeSync` implements it
(`ImplementsStoreAndForward`), with `Accept` for the acceptance, `Acknowledge` for the
deletion, and no step for all that is said or lost in between.

### Tracker, SafetyRules, TurnaroundMilestones, VideoAnalysis

`Analyse` is one pass through the loop of `process_video`: `Update`, then
`Evaluate` and `EvaluateMilestones` on the tracks the tracker has just
returned, all in one step since nothing else runs in between. `EndOfVideo` calls
`finalize`.

The ramp is a line. A polygon is a set of places, a heading one of two
directions, a speed a distance over a number of ticks. This keeps what the code
decides by (gates, thresholds with their strictness, order of sorting and of
dictionaries) and leaves out the arithmetic of the plane. On a line the closest
point of approach of two closing tracks is a meeting; a near pass at a positive
distance happens only for tracks that are not closing, with time zero.

`Matching` states the greedy loop of the tracker as a fixed point: a candidate
is taken exactly if no earlier taken one shares its track or detection. The
dictionaries of the rules are functions on the keys they hold; `KeepOrSet` is
`setdefault` for the keys whose condition holds and `pop` for the others.

### AlertEvidence, EventEvaluation, VideoEvaluation

`AlertEvidence` adds to a video what `run_processing_job` makes of its alerts.
`Stored` is the look-up of the deduplication key, which cuts time into buckets;
`SnapshotTime` and `EvidenceClip` are the first file whose name starts with rule
and track. `ClipFrames` is the window that `_extract_clip` cuts from the annotated
video; which clips fail is any subset.

`EventEvaluation` is the matcher and its counts. `MatchesAfter` is the loop over the
ranked predictions, one value for each number of passes; `Counts` counts the lists
that the loop leaves, `TypeCounts` is `per_type`, which takes differences, and
`ErrorSummary` counts the lists again by type. `VideoEvaluation` applies it to the
alerts of every finished video in a list (`AlertList`, in an order that is chosen,
since the file may have any) and to each of `GroundTruths`, of which
`MCVideoAnalysis` gives TLC two. Where `certain` is TRUE the alerts have no
confidence and count as certain; otherwise the number of the track stands for it.

### EvidenceRetention

What `AlertEvidence` leaves out: files are in no transaction. `files[f]` is the
number of the run that wrote file `f` last, which stands for its content; the
hash of a row is the content it saw. A run writes the annotated video
(`OpenVideo`), snapshots frame by frame, clips after the last frame, then hashes
and inserts (`AddAlert`) and commits; `Fail` may come anywhere and rolls back rows
but not files. The cleanup selects, unlinks one file after the other and commits
once; it may be killed anywhere. Its commit is refused by PostgreSQL when it
deletes videos, and accepted by SQLite, which enforces no foreign key here; each
commit may meet either. `outcome` tells whether the last cleanup committed. `met`
(two runners had the job) and `doomed` (selected rows) are read by properties
only.

### IncidentReview

Handlers load in one step (`OpenReview`, `OpenCreate`, `OpenUpdate`, look-ups) and
commit in another, as in `ProcessingJobs` with the columns that differ from what
was loaded. The audit row is part of each commit. `seen` in an incident is the
number of incidents at the time of the look-up, `overlapped` tells whether two
requests were ever open at once; no action reads them.

### TurnaroundReview

One turnaround. Jobs store their results one after the other (`StartStoring`,
`StoreMilestone`, `CommitJob`), reviewers correct milestones from stale sessions,
and `get_turnaround` reads milestones and then alerts. `Readiness` is
`evaluate_readiness`. Only alerts of high or critical severity are kept, since
only these count. `original` and `job` of a row are for the properties.

### CameraConfiguration

One camera: cameras share nothing here. A row number is the position in the
order of commits. `create_calibration` is three steps, since each of its two
queries may see other commits than the other (`LoadCamera`, `LoadPrevious`,
`CommitCalibration`); as in `ProcessingJobs` a column is written if it differs
from what was loaded (`NewState`). `create_rule` is a check and an insert
(`OpenRule` or `OpenSpeedRule`, `CommitRule`), `create_zone` one insert.
`ReadZones`, `ReadRules` and `ReadCalibration` are the queries with which
`run_processing_job` collects the configuration. `overlapped` remembers whether
two requests were ever open at once; `seen` in a rule remembers the calibration
it was accepted on. Neither is read by an action.

### ModelDeployments

`create_model_deployment` loads the model (`OpenDeploy`), looks for the active
deployments of the target (`FindPrevious`) and commits; a roll-back loads its
deployment with its status and commits. `seen` is again the number of rows at the
time of the look-up. A status is written only if it differs from the loaded one,
so that a deployment can write "superseded" over "rolled_back".

### RateLimiter

`dispatch` awaits nothing between the clock and the deque, so it is one step,
`Admit` or `Refuse`. `Popped` is the loop that drops old entries. `admitted` and
`refused` are histories for the property; the code keeps only the deque. The
names of its specification start with `Limiter`, so that `Operations_proofs` can
extend it together with `EvidenceRetention`.

## 3. Runs

| Run | Shows | Bounds |
| --- | --- | --- |
| `JobsSingle` | sequential runs of one job leave one result set, a cancelled job does not complete, and the rows implement `JobLifecycle` | 1 job, 1 worker, 1 run thread for failed and cancelled jobs, 1 canceller, 2 frames, 2 alert keys, 2 crashes, 1 abandoned run, videos expire |
| `JobsConcurrent` | what remains true when two runs of one job overlap | as above with 1 frame, 1 key, both milestone types, 1 crash, no abandoned run, runs of queued jobs |
| `JobsWorker` | every job ends unless its session breaks, early cancels prevail, milestones come from one run | 2 jobs of one turnaround, 2 and 1 frames, sampling of every second frame, no alerts, 1 SIGTERM, 1 abandoned run of each job, fairness |
| `EdgeQueue` | the queue loses nothing, no batch is stored twice, without faults no event is, the queue drains, and the whole implements `StoreAndForward` | 3 events (1 foreign, 1 malformed), batches of 2, 2 requests at once, 3 faults, fairness |
| `VideoFrames` | tracks, alerts, milestones, evidence and evaluation of every video | 6 frames over 6 scenes (up to 2 detections), 5 rules, 2 milestone rules, buckets of 5 ticks, clips from 3 ticks before to 2 after, 2 ground truths |
| `EvidenceFiles` | what becomes of files and rows | 2 runners (symmetric), 2 runs of 1 job, 2 alerts of one rule and track, 2 days, any number of cleanups and kills |
| `IncidentRaces` | how an alert can come to two active incidents; the audit log of requests one after the other leads to the rows | 2 clients (symmetric), 1 alert, 6 requests, 3 incidents, 1 note |
| `TurnaroundReviews` | originals, duplicates, status and readiness of a timeline | 2 reviewers (symmetric), 2 jobs, 2 corrections, 1 alert per job, 2 times |
| `DeploymentRaces` | what overlapping deployments and roll-backs leave active | 2 administrators (symmetric), 2 targets, 2 models, 5 deployments |
| `RateWindow` | no window has more than the limit, no refusal without reason | 2 clients (symmetric), limit 2, window of 2 ticks, 6 ticks, 4 calls of each |
| `ConfigurationRaces` | what overlapping administrators cannot break, and what holds of requests one after the other | 2 administrators (symmetric), 3 calibrations, 1 zone, 1 rule |
| `JobsAfterCrash` | a statement of the docs that the code does not keep (`EveryJobEnds`), see section 6 | the smallest that has the case |

Why the bounds are enough. Two runners, reviewers or administrators are what an
overlap needs; a third adds no new kind of interference because all of them
write the same columns. Two crashes allow a crash in a retry. An abandoned run
leaves the stored rows as a crash of its thread does, so that `JobsConcurrent` goes
without; `JobsWorker` looks at what later jobs, cancellations and SIGTERMs make of
it, and at one that comes before the first commit and is repeated. Two frames give a
refresh before and after a progress commit. Three events and a batch limit of two
give a batch that grows after a lost answer, one that is split, and one that
fails behind another. Three faults allow a lost answer, a lost retry and a crash.
Six frames let a track appear, be lost for longer than `MaxMissed`, come back,
dwell through the debounce of two ticks and live through a cooldown of three,
which is shorter than a bucket of five: alerts of a track at 1 and 4 share a
bucket, so that the second is dropped; at 1 or 2 and 5 they do not, and it is
stored. Two alerts of one prefix share files, and two
runs let the second overwrite or repeat the first; the limits of zero days with
two days let an old and a young row exist at once. Three incidents are one that
is resolved, one created after it, and one that overlaps. Two jobs are what a
correction can come between; two corrections can overlap on a row or follow each
other. Five deployments allow two overlapping ones, a roll-back of either and one
after it. Four calls with a limit of two let entries leave the window, a refusal
happen, and the client be admitted again. Three calibrations allow two
overlapping first versions and a next one that finds both of them; this is the
case in which an unordered query would return the older one.

Deadlock is checked in `ConfigurationRaces`. Elsewhere it is not: a system whose
jobs have ended, whose queue is empty, whose video has no more frames or whose
bounds are used up really stops.

### Fairness

* `ProcessingJobs!FairSpec`: weak fairness of the steps of a run, of picking a
  job by a worker that is not stopped, of the restart of a stopped worker
  (`restart: unless-stopped` in `docker-compose.yml`) and of the commit of a
  cancel request. These are threads that always go on. Requests, exceptions
  (`ProcessingError`, `AbandonRun`), crashes, signals and expiry have none.
* `EdgeSync!FairSpec`: weak fairness of the agent, which the site runs again and
  again, and of each request in the network and the API. Adding events and
  faults have none, and faults are bounded: draining is promised only after the
  network works again. One weak fairness per agent and per request suffices,
  because in each state of either at most one of its steps can be taken (`Post`
  may choose among slots).
* The other modules have only safety properties, and state no fairness. What they
  model are requests and scripts that somebody may or may not send or start.

## 4. Proofs

TLAPS checks these for every value of the constants that satisfies the named
assumptions.

| Theorem | States | From |
| --- | --- | --- |
| `TypeCorrect` | `Spec => []TypeOK` of jobs | `JobsAssumption`, `ThreadsAssumption` |
| `CompletionTheorem` | `[]CompletedHasResults` | `TypeCorrect`, `StoreInv` |
| `AtomicResultsTheorem` | `[]NoPartialResults` | `StoreInv` |
| `OnStandTheorem` (jobs) | `[]OnStandIffAircraftOnBlock` | `RunInv`, `StoreInv` |
| `CancellationTheorem` | `[]CancelledWasRequested` | `RunInv` |
| `FlagTheorem` | `FlagIsNeverLost` | `SafetyInv` |
| `OneResultSetTheorem` | `Spec /\ []RunsApart => []OneResultSet` | `SafetyInv`, `ApartInv` |
| `LifecycleTheorem` | `Spec /\ []RunsApart => ImplementsLifecycle`: every step of the rows is a step of `JobLifecycle` or none | `SafetyInv`, `ApartInv` |
| `CancelTheorem` | `Spec /\ []RunsApart => CancelIsFinal` | `ApartInv`, `RunsBeginAtZero`, `CancelAwaits` |
| `SequentialTheorem`, `SequentialResultsTheorem` | `[]RunsApart`, and so `[]OneResultSet /\ ImplementsLifecycle /\ CancelIsFinal` | `SequentialDeployment`: one worker, one API thread that runs jobs, and no run of a queued job |
| `MilestonesTheorem` | `Spec /\ []TurnaroundsApart => []MilestonesFromOneRun` | `SafetyInv`, `PendingIsNew` |
| `SingleRunnerTheorem` | `[]MilestonesFromOneRun` | one runner |
| `NothingLostTheorem` | `[]NothingLost` | `EdgeAssumption`, `EdgeInv` |
| `StoreAndForwardTheorem` | `ImplementsStoreAndForward`: every step is one of `StoreAndForward` or none | `EdgeInv`, `RequestsKnown` |
| `StoredOnceTheorem` | `[]EventStoredOnce` | `EdgeInv`, `OnceInv` |
| `OcclusionTheorem` | `[]TracksSurviveOcclusion` | the assumptions of `Tracker`, `SafetyRules`, `TurnaroundMilestones`, `VideoAnalysis` here and in the next rows; `LoopInv` |
| `PartitionTheorem` | `[]TracksPartitionDetections` | `PartitionInv` |
| `MilestonesTheorem` (video) | `[]MilestonesMatchTracks` | `LoopInv`, `MilestonesKept` |
| `DebounceTheorem` | `[]AlertsAreDebounced` | `LoopInv`, `SightingsInv` |
| `CooldownTheorem`, `PresenceTheorem` | `[]AlertsKeepCooldown`, `[]LastingPresenceIsReported` | `LoopInv`, `SightingsInv`, `CooldownInv` |
| `MatcherTheorem` | for all sequences of predictions and events and every tolerance, `Matches` satisfies `IsMatching`, `IsStable` and `CountsAddUp` | nothing but the types |
| `EvaluationTheorem` | `[]EvaluationIsSound` | `EvaluationAssumption`, `MatcherTheorem`, `AlertsAreFinite` |
| `DeduplicationTheorem`, `EvidenceTheorem` | `[]DroppedAlertIsExplained`, `[]EvidenceIsExplained` | the same and `EvidenceAssumption` |
| `CleanupTheorem` | `[]RowsGoWithFiles` | `RetentionAssumption`, `CleanupInv` |
| `IntactTheorem` | `[]SerialEvidenceIsIntact` | `RetentionAssumption`, `SerialInv` of `Operations_proofs` |
| `LatestCalibrationTheorem`, `RunCalibrationTheorem` | `[]LatestCalibrationIsActive`, `[]RunIsNotOlderThanItsRules` | `ConfigurationInv` |
| `SerialCalibrationsTheorem` | `[]SerialCalibrationsAgree` | `ConfigurationInv`, `SerialInv` of `CameraConfiguration_proofs` |
| `SecondIncidentTheorem` | `[]SecondIncidentIsExplained` | `ReviewAssumption`, `IncidentInv` |
| `SerialAuditTheorem` | `[]SerialAuditReplays` | `IncidentInv`, `SerialInv` of `IncidentReview_proofs` |
| `OriginalTheorem`, `RowsOfOneTypeTheorem`, `OnStandTheorem`, `ReadinessTheorem`, `WholeJobsTheorem` | `[]OriginalIsKept`, `[]RowsOfOneTypeAreExplained`, `[]OnStandIsExplained`, `[]ReadinessNeedsReviewers`, `[]ReportIsOfWholeJobs` | `TurnaroundAssumption`, `TurnaroundInv` |
| `NewestTheorem`, `SecondActiveTheorem`, `RollbackTheorem` | `[]NewestIsActive`, `[]SecondActiveIsExplained`, `[]RollbackIsShown` | `DeploymentAssumption`, `DeploymentInv` |
| `ExactTheorem` | `[]LimitIsExact` | `LimiterAssumption`, `LimiterInv` |
| `TypeTheorem` of each of the other proof modules but `VideoAnalysis_proofs`, `LimiterTypeTheorem` | `[]TypeOK`, `[]LimiterTypeOK` | the same invariants |

Why invariants are needed and which:

* *Jobs.* That a turnaround is on stand exactly when its milestone is stored does
  not follow from `Complete` alone: the status is set from what the run found,
  the milestone from what was unknown when it was looked up. `RunInv` says of
  every run in memory that what is pending was found (`OnlyFound`), that every
  milestone found is still to be looked up, pending or stored (`FoundCovered`),
  that nothing is pending outside the persisting stretch (`PendingClean`), and
  that a run that is about to report a cancellation has a set flag behind it,
  in its session and in the row (`CancelBacked`). `StoreInv` is the conjunction
  of the stored-row invariants, `SafetyInv` the conjunction of all. They hold with
  overlapping runs.
* *Jobs that are apart.* Nothing in the code keeps two runs of a job apart, so
  that `RunsApart` is a hypothesis of `OneResultSetTheorem`, `LifecycleTheorem`
  and `CancelTheorem`; `SequentialTheorem` names a deployment that provides it,
  the one of `JobsSingle`. `ApartInv` says that a run finds its row as its own
  last commit left it (`Held`), that a cancel request has found its job
  (`CancelsKnown`), that results are stored exactly for completed jobs
  (`PublishedIffCompleted`), and that they are of one runner (`OneRunner`). With
  it each action on the rows is one of `JobLifecycle`. When such a job is cancelled
  its flag is set and no run of it is in its frames, and from there on every run
  meets the flag at its first frame (`CancelAwaits`, which needs no `RunsApart`;
  `RunsBeginAtZero`). For milestones the same is said of turnarounds: a run that
  is alone there stores only types that the turnaround does not have
  (`PendingIsNew`).
* *Edge.* `EdgeInv` adds to `NothingLost` that a waiting agent and its request
  carry the same batch (`SenderWaits`) and that an "ok" on its way is about a
  batch that is stored (`OkIsStored`): without these a deletion could follow
  an answer about something else. A request is about events of the site even when
  they have left the queue (`RequestsKnown`) and a batch has one row
  (`BatchStoredOnce`), so that each commit is an acceptance of `StoreAndForward` and
  each deletion a release. `OnceInv` is about a single agent without
  faults: each request has its sender and each sender its request (`Paired`),
  the batch is still queued (`BatchQueued`), and a stored event that is still
  queued is in the batch the agent is about to acknowledge (`StoredOrQueued`),
  hence in no other.
* *Tracker.* `LoopInv` keeps the frames a sequence (`FramesTimed`), the points of
  a track in the order of their frames (`PointsTimed`), every track with a point
  and no active one with too many misses (`TracksKept`), and ties `missed` to the
  time since a track was last seen (`MissesCounted`). The partition needs that the
  matching is one: each taken candidate has a track and a detection to itself,
  which follows from the fixed point without computing it.
* *Rules.* `SightingsInv` ties `first_seen` and `stationary_since` to points of
  the track (`ZoneSightings`, `SightingsComplete`, `StillSightings`): since the
  time in the entry the track has been in the zone, or still, in every frame it
  was seen in. `AlertsHeld` keeps the same of the alerts, whose tracks go on.
  `CooldownInv` ties `last_alert` to the alerts (`LastAlertKnown`), so that an
  alert that has cooled since the entry has cooled since every older alert, and
  a presence that has lasted has an alert or a running cooldown
  (`PresenceReported`).
* *Milestones.* `MilestonesKept`: `emitted` has exactly the pairs whose rule is
  fulfilled, and one milestone for each. A fulfilled rule stays fulfilled, and a
  track without a new point fulfils none that it did not fulfil before.
* *Evidence of a video.* An alert finds its key taken, or its file written, only
  by an older alert of the same rule and track, which is a cooldown older.
* *Evaluation.* The loop of the matcher and the list of the alerts are recursive
  functions, which have no values before a function that satisfies the recursion is
  known to exist. It does: the numbers up to which it exists have no least one that
  is missing (`LoopExists`, `FoldExists`, by `CountUp`). The rank of a prediction is
  a bijection onto the passes, as it counts the predictions that precede it in a
  total order (`OrderedRanks`). `MatchedUpTo` is the invariant of the loop: after n
  passes the matches are one to one and of the first n predictions, and every event
  that such a prediction could have used better has gone to one before it (`MatchStep`). The
  counts of the types add up because the types partition the matches
  (`TypesAddUp`). That a list of all alerts exists needs that they are finitely many
  (`AlertsAreFinite`), hence that a camera has finitely many rules
  (`RulesAssumption`): they are rows of a table.
* *Retention.* A run has a number that no row has (`RunsAreNamed`) and adds rows
  of its own only (`RunsOwnTheirRows`). A cleanup that does not commit leaves rows
  without files behind; they have expired (`LeftoversHaveExpired`), so that the
  selection of the next one has them (`SelectionCoversLeftovers`) and its
  commit deletes them. For intact evidence, a job that two runners never had at
  once has rows only from the run that completes it, and nobody runs it
  afterwards (`RowsEndTheJob`): what was hashed is not written again.
* *Configuration.* `ConfigurationInv` adds that all row numbers in requests,
  rules and runs exist (`RowsExist`). A commit deactivates only the row whose
  version it exceeds: either the new row is the newest, or the newest is another
  row and stays active. So a run that takes the newest active row takes the
  newest of all, which is as new as the one any rule was accepted on.
* *Calibrations one after the other.* As long as no two requests were open at
  once, what a request has loaded is still stored (`Current`), so that versions
  count the rows and the last row is the active one (`VersionsCount`), with the
  state that the camera shows (`StateShown`).
* *Incidents.* `IncidentInv` says that an incident becomes resolved, or is opened
  again, only with an audit row (`StatusIsAudited`), and that what a row or a
  request saw at its look-up had been resolved by then (`SeenWasResolved`,
  `Fits`). So of two active incidents the first was either not seen, or was
  resolved and has an audit row with another status after that.
* *Audit.* For requests one after the other what was loaded is still stored
  (`Current`), and the log has a last row for whatever it mentions
  (`LogHasLasts`), which each commit replaces by its own or leaves alone.
* *Turnaround.* `TurnaroundInv` says that a row nobody has corrected is as found,
  that a corrected one has a decision with its original and another with its type
  (`RowsAreKnown`), that a request has loaded the original unless another
  correction came first (`Fits`), that new rows of a run have types no committed
  uncorrected row has (`NewRows`), and that what a run found is mentioned somewhere
  (`FoundIsMentioned`). The report is tied to the rows it has read
  (`ReportIsOfRows`) and to reviewers (`ReportIsOfReviewers`): two types that no
  run finds come from two corrected rows.
* *Deployments.* `DeploymentInv` adds to the three properties that rows and
  requests refer to older rows (`RowsFit`) and what a request has loaded (`Fits`):
  all deployments it saw that are still active are those it will supersede,
  because none becomes active again. The three are proved together.
* *Limiter.* `LimiterInv` says of each client that the deque is a suffix of all
  its admission times, that the missing ones are stale, that times are ordered,
  and that admissions `Limit` apart are more than a window apart. A refusal sees
  `Limit` entries in the deque, which are the last `Limit` admissions.

Sets of numbers have a least member (`NatMin`, from the well-foundedness of `<`
in the library) or, if they are finite or bounded, a last one; the theorems of
the library that take an operator as a parameter are not used.

Only model-checked: liveness (`JobsEnd`, `EarlyCancelWins`, `Drains`, and
`EveryJobEnds`, which fails), which is out of the prover's reach. All other properties of the passing runs are stated by a
theorem. Type correctness is proved where it says so above; `EvidenceFiles` alone
checks a type invariant, too.
`CancelledWasRequested` is proved and, for runs one after the other, part of the
refinement that `JobsSingle` checks.

## 5. Abstractions and what is not modelled

* A commit either takes effect and is confirmed, or it fails; that its
  confirmation is lost with the connection is left out. A cancel request whose
  commit fails counts as not made.
* Heat maps, model cards, metrics, observations and log lines. An error in
  writing them is a `ProcessingError`. They have no rows, so that the cleanup
  never finds them; the same holds of the files of runs that failed.
* In `EvidenceRetention` the status "failed" stands also for "cancelled"; a run
  that is killed or abandoned is left to `ProcessingJobs`; two cleanups at once are left out.
* Message texts: `error_message` and the check for `cancelled` in the text of
  an exception are the variable `outcome`.
* The event stream of a job (`job_events`) reads only.
* Isolation is READ COMMITTED of PostgreSQL; SQLite of the development set-up
  serializes writers and is a special case.
* In `ProcessingJobs` the deduplication key of an alert is an element of
  `AlertKeys`; `AlertEvidence` has the key itself. Alerts that fall on one key
  within a run are one key.
* Two alerts of one key come only from two runs that both leave results, so that
  `OneResultSet` covers the look-up of the key, too.
* Clocks: `created_at` orders jobs and events. A wall clock that is set back only
  changes which order that is.
* Confidences, boxes and metadata of alerts, titles, assignees, reasons and texts
  of reviews: no later decision depends on them.
* `LiveStreamProcessor` is constructed nowhere in the repository, so that the
  program has no behaviour of it; authentication keeps no state between requests.
* Not modelled at all: see the components with status `not_modelled` in
  `PROJECT.json`, each with its reason.

## 6. Where code and documentation differ

With a run:

* `JobsAfterCrash`: jobs are said to reach a terminal state
  (`docs/architecture.md:58`). After the death of a process the row stays
  `preparing` or `running`; the worker takes only `queued` rows and `/run`
  refuses it.

Seen while modelling; the models take the code as it is:

* The same statement fails without a crash. The error handler reads
  `current_job.id` (`processing.py:274`) before it rolls back (`275`). When a flush
  has failed the session is inactive and the row expired, so that this read raises
  `PendingRollbackError`, the rest of the handler is not reached, and the worker
  goes on with the next job. `JobsEnd` excepts this (`Stuck`) and says that, without
  crashes and with the video still there, a job is left behind in no other way.
  With `MaxCrashes = 0` and `MaxAbandoned = 1` in `JobsAfterCrash.cfg` TLC finds
  `EveryJobEnds` violated by it.
* Evidence is to be synchronized (`docs/vision-pipeline.md:50`). The second alert
  of one rule and track is stored with the first file of their prefix
  (`processing.py:195-203`), that of the first alert. `EvidenceIsExplained`
  bounds this.
* With PostgreSQL a cleanup that finds an expired video unlinks all files and then
  fails: `processing_jobs.video_id` refers to the video (`models.py:162`). Rows
  without files stay, and every later cleanup fails in the same way.
  `RowsGoWithFiles` excepts this case.
* The retention script knows `--apply` but no `--dry-run`
  (`docs/privacy-and-retention.md:19`), does not look at retention settings of
  cameras, and preserves no incidents (`docs/privacy-and-retention.md:23`).
* The worker is said to claim jobs (`docs/architecture.md:10`). It selects them
  (`main.py:29`); an API thread can run the same job at once. `JobsConcurrent`
  shows what then holds; alerts of one deduplication key are stored twice.
* Acknowledgment is to follow central acceptance (`docs/edge-deployment.md:13`).
  An event without a camera of the organization is skipped by the API
  (`router.py:926`) and deleted by the agent.
* Every condition is to hold for the debounce (`docs/safety-rule-engine.md:18`).
  Only zone rules read it (`rules.py:96`).
* A milestone is to need a track that remains in the zone
  (`docs/turnaround-engine.md:7-8`). Two visits with an absence in between count as
  one stay (`milestones.py:34`).
* Speed rules are to use `meters_per_pixel` of the reference points
  (`docs/camera-calibration.md:11`). The API accepts only lists of numbers as
  reference points (`schemas.py:116`), the run looks for dictionaries
  (`processing.py:38`): speed rules are accepted and never evaluated.
  (`VideoFrames` sets `MetricScale` to TRUE: rows written in another way may have
  a scale, and the rule is checked for them.)
* The life cycle of alerts has an order (`docs/safety-rule-engine.md:28-64`). The
  API accepts any transition.
* `confirmed_ready` (`docs/turnaround-engine.md`) is never returned, and two of the
  three requirements of the readiness are found by no run
  (`ReadinessNeedsReviewers`).
* An active incident is to be refused a second one (409). Overlapping requests
  and re-opened incidents lead to two (`SecondIncidentIsExplained`).

## 7. Plan

Done: all modules of section 2 and the theorems of section 4. What is left is a
module about memberships: a removed membership ends access with the next request.
