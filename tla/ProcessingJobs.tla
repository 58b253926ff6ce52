--------------------------- MODULE ProcessingJobs ---------------------------
(***************************************************************************)
(* Video processing jobs: the upload, run and cancel requests of           *)
(* api/router.py, the polling loop of apps/worker/main.py, and             *)
(* run_processing_job of services/processing.py with the frame loop of     *)
(* vision/pipeline.py, over one shared database.                           *)
(*                                                                         *)
(* The database is PostgreSQL at READ COMMITTED (docker-compose.yml): a    *)
(* SELECT sees what is committed when it runs, and a transaction's writes  *)
(* become visible together at COMMIT.  SQLAlchemy updates only the columns *)
(* whose new value differs from the one the session loaded (Flush).        *)
(***************************************************************************)
EXTENDS Integers, FiniteSets

CONSTANTS
    Jobs,             \* job numbers, in created_at order
    Workers,          \* worker processes
    RunThreads,       \* API threads that serve uploads with run_now and /run
    CancelThreads,    \* API threads that serve plain uploads and /cancel
    Turnarounds,
    NoTurnaround,     \* turnaround_id is NULL
    NoJob,            \* an idle thread's job
    TurnaroundOf,     \* TurnaroundOf[j]: the turnaround of job j
    FramesOf,         \* FramesOf[j]: readable frames of the video of job j
    AlertKeys,        \* deduplication keys a run of a job can produce
    MilestoneTypes,
    Tracks,           \* track numbers a milestone can be about
    SampleEvery,      \* one frame in SampleEvery is analysed
    ReportEvery,      \* one analysed frame in ReportEvery commits progress
    RunsQueuedJobs,   \* do clients run jobs that are still queued?
    VideosExpire,     \* does retention delete videos of existing jobs?
    MaxAbandoned,     \* bound on runs of a job that end without a report
    MaxCrashes,       \* bound on process crashes
    MaxStops          \* bound on SIGTERMs to workers

ApiThreads == RunThreads \cup CancelThreads
Runners    == Workers \cup RunThreads
Threads    == Workers \cup ApiThreads

ASSUME JobsAssumption ==
    /\ Jobs \subseteq Nat
    /\ TurnaroundOf \in [Jobs -> Turnarounds \cup {NoTurnaround}]
    /\ NoTurnaround \notin Turnarounds
    /\ NoJob \notin Jobs
    /\ FramesOf \in [Jobs -> Nat]
    /\ SampleEvery \in Nat \ {0}
    /\ ReportEvery \in Nat \ {0}
    /\ RunsQueuedJobs \in BOOLEAN
    /\ VideosExpire \in BOOLEAN
    /\ MaxAbandoned \in Nat
    /\ MaxCrashes \in Nat
    /\ MaxStops \in Nat

ASSUME ThreadsAssumption ==
    /\ Workers \cap ApiThreads = {}
    /\ RunThreads \cap CancelThreads = {}

VARIABLES
    row,         \* row[j]: the committed processing_jobs row of job j
    hasVideo,    \* the jobs whose uploaded_videos row exists
    trackRows,   \* <<job, runner>>: the track rows of a run (possibly none)
                 \* have been committed
    alertRows,   \* committed safety_alerts rows
    milestoneRows, \* committed turnaround_milestones rows
    onStand,     \* the turnarounds whose status is "on_stand"
    pc,          \* pc[t]: where thread t is
    ctx,         \* ctx[t]: the locals and the database session of thread t
    abandoned,   \* abandoned[j]: runs of j that ended without a report
    stopped,     \* workers that have received SIGTERM
    crashes, stops \* counters of the bounds MaxCrashes and MaxStops

results == <<trackRows, alertRows, milestoneRows, onStand>>
bounds  == <<abandoned, stopped, crashes, stops>>
vars    == <<row, hasVideo, results, pc, ctx, bounds>>

-----------------------------------------------------------------------------
(* Types. *)

Statuses == {"absent", "queued", "preparing", "running",
             "completed", "failed", "cancelled"}
Terminal == {"completed", "failed", "cancelled"}
Errors   == {"none", "PROCESSING_CANCELLED", "VIDEO_PROCESSING_FAILED"}

\* progress is in percent.
JobRow == [status : Statuses, progress : Int, cancelRequested : BOOLEAN,
           errorCode : Errors]

AlertRow     == [job : Jobs, key : AlertKeys, by : Runners]
MilestoneRow == [turnaround : Turnarounds, type : MilestoneTypes,
                 track : Tracks, job : Jobs, by : Runners]

\* What the vision core hands to the persistence code: alert candidates by
\* their key, milestone candidates by type and track (at most one of each,
\* vision/milestones.py:28).
Findings == [alerts : SUBSET AlertKeys,
             milestones : SUBSET (MilestoneTypes \X Tracks)]

Nothing == [alerts |-> {}, milestones |-> {}]

BlankRow == [status |-> "absent", progress |-> 0, cancelRequested |-> FALSE,
             errorCode |-> "none"]

Context == [job : Jobs \cup {NoJob},
            view : JobRow,               \* the row as the session holds it
            frame : Nat,                 \* frame_index
            found : Findings,            \* PipelineResult
            todo : Findings,             \* candidates not yet looked up
            pending : Findings,          \* rows added, not committed
            outcome : {"failed", "cancelled"}]  \* from the exception's text

IdleContext == [job |-> NoJob, view |-> BlankRow, frame |-> 0,
                found |-> Nothing, todo |-> Nothing, pending |-> Nothing,
                outcome |-> "failed"]

\* Inside run_processing_job, after it has read the job.
Executing == {"loaded", "prepared", "frames", "analysing", "persisting",
              "raised", "reporting"}

Places == Executing \cup {"idle", "picked", "cancelling"}

-----------------------------------------------------------------------------
(* Database and session. *)

\* (mutant) The UPDATE writes every column of the row the session holds.
FlushEveryColumn(stored, view, new) == new

\* The UPDATE a commit emits when the session loaded `view` and holds `new`.
Flush(stored, view, new) ==
    [status |-> IF new.status = view.status
                THEN stored.status ELSE new.status,
     progress |-> IF new.progress = view.progress
                  THEN stored.progress ELSE new.progress,
     cancelRequested |-> IF new.cancelRequested = view.cancelRequested
                         THEN stored.cancelRequested ELSE new.cancelRequested,
     errorCode |-> IF new.errorCode = view.errorCode
                   THEN stored.errorCode ELSE new.errorCode]

CommitRow(t, new) ==
    row' = [row EXCEPT ![ctx[t].job] = Flush(@, ctx[t].view, new)]

Goto(t, place) == pc' = [pc EXCEPT ![t] = place]

Leave(t) ==
    /\ Goto(t, "idle")
    /\ ctx' = [ctx EXCEPT ![t] = IdleContext]

-----------------------------------------------------------------------------
(* Requests of the API. *)

InsertJob(j) ==
    /\ row[j].status = "absent"
    /\ row' = [row EXCEPT ![j].status = "queued"]
    /\ hasVideo' = hasVideo \cup {j}

\* upload_video: video and job are committed together.
Upload(a, j) ==
    /\ pc[a] = "idle"
    /\ InsertJob(j)
    /\ UNCHANGED <<results, pc, ctx, bounds>>

\* upload_video with run_now: the job runs as a background task.
UploadAndRun(a, j) ==
    /\ RunsQueuedJobs
    /\ pc[a] = "idle"
    /\ InsertJob(j)
    /\ Goto(a, "picked")
    /\ ctx' = [ctx EXCEPT ![a].job = j]
    /\ UNCHANGED <<results, bounds>>

\* (mutant) /run does not look at the status.
RunAnyJob(a, j) ==
    /\ pc[a] = "idle"
    /\ row[j].status # "absent"
    /\ Goto(a, "picked")
    /\ ctx' = [ctx EXCEPT ![a].job = j]
    /\ UNCHANGED <<row, hasVideo, results, bounds>>

\* run_job: the status is checked here, and read again by the run itself.
RunJob(a, j) ==
    /\ pc[a] = "idle"
    /\ \/ row[j].status \in {"failed", "cancelled"}
       \/ RunsQueuedJobs /\ row[j].status = "queued"
    /\ Goto(a, "picked")
    /\ ctx' = [ctx EXCEPT ![a].job = j]
    /\ UNCHANGED <<row, hasVideo, results, bounds>>

\* cancel_job up to its commit: a job in a terminal status is left alone.
RequestCancel(a, j) ==
    /\ pc[a] = "idle"
    /\ row[j].status \notin Terminal \cup {"absent"}
    /\ Goto(a, "cancelling")
    /\ ctx' = [ctx EXCEPT ![a] = [@ EXCEPT !.job = j, !.view = row[j]]]
    /\ UNCHANGED <<row, hasVideo, results, bounds>>

\* cancel_job commits the flag, whatever the status has become.
CommitCancel(a) ==
    /\ pc[a] = "cancelling"
    /\ CommitRow(a, [ctx[a].view EXCEPT !.cancelRequested = TRUE])
    /\ Leave(a)
    /\ UNCHANGED <<hasVideo, results, bounds>>

-----------------------------------------------------------------------------
(* The worker. *)

\* main: the oldest queued job; the session closes before the job runs.
PickJob(w) ==
    /\ pc[w] = "idle"
    /\ w \notin stopped
    /\ \E j \in Jobs :
        /\ row[j].status = "queued"
        /\ \A k \in Jobs : row[k].status = "queued" => j <= k
        /\ Goto(w, "picked")
        /\ ctx' = [ctx EXCEPT ![w].job = j]
    /\ UNCHANGED <<row, hasVideo, results, bounds>>

\* SIGTERM: the loop ends after the job in hand.
Stop(w) ==
    /\ w \notin stopped
    /\ stops < MaxStops
    /\ stops' = stops + 1
    /\ stopped' = stopped \cup {w}
    /\ UNCHANGED <<row, hasVideo, results, pc, ctx, abandoned, crashes>>

\* The container is started again.
Restart(w) ==
    /\ w \in stopped
    /\ pc[w] = "idle"
    /\ stopped' = stopped \ {w}
    /\ UNCHANGED <<row, hasVideo, results, pc, ctx, abandoned, crashes, stops>>

-----------------------------------------------------------------------------
(* run_processing_job. *)

\* Reads the job, its video and its camera.
Load(r) ==
    /\ pc[r] = "picked"
    /\ ctx[r].job \in hasVideo
    /\ Goto(r, "loaded")
    /\ ctx' = [ctx EXCEPT ![r].view = row[ctx[r].job]]
    /\ UNCHANGED <<row, hasVideo, results, bounds>>

\* A missing video raises before the try block: the row is left as it is.
LoadWithoutVideo(r) ==
    /\ pc[r] = "picked"
    /\ ctx[r].job \notin hasVideo
    /\ Leave(r)
    /\ UNCHANGED <<row, hasVideo, results, bounds>>

\* Commit the session's row as `new` and go on at `place`.
Save(r, new, place) ==
    /\ CommitRow(r, new)
    /\ ctx' = [ctx EXCEPT ![r].view = new]
    /\ Goto(r, place)
    /\ UNCHANGED <<hasVideo, results, bounds>>

\* (mutant) A new run clears the flag of the previous one.
PrepareAfresh(r) ==
    /\ pc[r] = "loaded"
    /\ Save(r, [ctx[r].view EXCEPT !.status = "preparing", !.progress = 1,
                                   !.cancelRequested = FALSE],
            "prepared")

Prepare(r) ==
    /\ pc[r] = "loaded"
    /\ Save(r, [ctx[r].view EXCEPT !.status = "preparing", !.progress = 1],
            "prepared")

Start(r) ==
    /\ pc[r] = "prepared"
    /\ Save(r, [ctx[r].view EXCEPT !.status = "running"], "frames")

\* Top of the frame loop: the row is refreshed and the flag looked at for
\* every frame read; then the frame is skipped or analysed.
ReadFrame(r) ==
    LET j == ctx[r].job
        frame == ctx[r].frame
    IN
    /\ pc[r] = "frames"
    /\ frame < FramesOf[j]
    /\ \/ /\ row[j].cancelRequested
          /\ Goto(r, "raised")
          /\ ctx' = [ctx EXCEPT ![r] =
                        [@ EXCEPT !.view = row[j], !.outcome = "cancelled"]]
       \/ /\ ~row[j].cancelRequested
          /\ frame % SampleEvery # 0
          /\ ctx' = [ctx EXCEPT ![r] =
                        [@ EXCEPT !.view = row[j], !.frame = frame + 1]]
          /\ UNCHANGED pc
       \/ /\ ~row[j].cancelRequested
          /\ frame % SampleEvery = 0
          /\ Goto(r, "analysing")
          /\ ctx' = [ctx EXCEPT ![r].view = row[j]]
    /\ UNCHANGED <<row, hasVideo, results, bounds>>

\* processed_frames once frame `f` has been analysed.
Processed(f) == (f \div SampleEvery) + 1

\* min(0.99, frame_index / frame_count), in percent.
Fraction(j, f) ==
    IF 100 * f > 99 * FramesOf[j] THEN 99 ELSE (100 * f) \div FramesOf[j]

\* The end of the loop body, with the progress callback.
FinishFrame(r) ==
    LET frame == ctx[r].frame
        view == ctx[r].view
        new == IF Processed(frame) % ReportEvery = 0
               THEN [view EXCEPT !.progress = Fraction(ctx[r].job, frame)]
               ELSE view
    IN
    /\ pc[r] = "analysing"
    /\ CommitRow(r, new)
    /\ ctx' = [ctx EXCEPT ![r] = [@ EXCEPT !.view = new, !.frame = frame + 1]]
    /\ Goto(r, "frames")
    /\ UNCHANGED <<hasVideo, results, bounds>>

\* No frame is left: archive and clips are written and progress 1.0 is
\* committed, before anything of the result is in the database.
EndOfVideo(r) ==
    LET new == [ctx[r].view EXCEPT !.progress = 100] IN
    /\ pc[r] = "frames"
    /\ ctx[r].frame = FramesOf[ctx[r].job]
    /\ \E found \in Findings :
        ctx' = [ctx EXCEPT ![r] =
                  [@ EXCEPT !.view = new, !.found = found, !.todo = found]]
    /\ CommitRow(r, new)
    /\ Goto(r, "persisting")
    /\ UNCHANGED <<hasVideo, results, bounds>>

\* (mutant) Milestones are added without a lookup.
MilestoneNotLookedUp(t, type) == FALSE

MilestoneKnown(t, type) ==
    \E m \in milestoneRows : m.turnaround = t /\ m.type = type

AlertKnown(j, key) ==
    \E x \in alertRows : x.job = j /\ x.key = key

\* The lookup sees committed rows only: the session does not autoflush, so a
\* milestone added a moment ago is not seen.
ScanMilestone(r, m) ==
    LET t == TurnaroundOf[ctx[r].job]
        known == t = NoTurnaround \/ MilestoneKnown(t, m[1])
        left == [ctx[r].todo EXCEPT !.milestones = @ \ {m}]
        added == [ctx[r].pending EXCEPT !.milestones =
                    IF known THEN @ ELSE @ \cup {m}]
    IN
    /\ pc[r] = "persisting"
    /\ m \in ctx[r].todo.milestones
    /\ ctx' = [ctx EXCEPT ![r] = [@ EXCEPT !.todo = left, !.pending = added]]
    /\ UNCHANGED <<row, hasVideo, results, pc, bounds>>

\* (mutant) Each alert is committed as it is added.
ScanAlertAndCommit(r, key) ==
    /\ pc[r] = "persisting"
    /\ key \in ctx[r].todo.alerts
    /\ ctx' = [ctx EXCEPT ![r].todo.alerts = @ \ {key}]
    /\ alertRows' = alertRows \cup {[job |-> ctx[r].job, key |-> key, by |-> r]}
    /\ UNCHANGED <<row, hasVideo, trackRows, milestoneRows, onStand, pc, bounds>>

\* Alerts follow the milestones and are flushed one by one; a second
\* candidate with the same key finds the first.
ScanAlert(r, key) ==
    LET left == [ctx[r].todo EXCEPT !.alerts = @ \ {key}]
        added == [ctx[r].pending EXCEPT !.alerts =
                    IF AlertKnown(ctx[r].job, key) THEN @ ELSE @ \cup {key}]
    IN
    /\ pc[r] = "persisting"
    /\ ctx[r].todo.milestones = {}
    /\ key \in ctx[r].todo.alerts
    /\ ctx' = [ctx EXCEPT ![r] = [@ EXCEPT !.todo = left, !.pending = added]]
    /\ UNCHANGED <<row, hasVideo, results, pc, bounds>>

\* A row for each track of the result, added before the look-ups.
NewTracks(r) == {<<ctx[r].job, r>>}

NewAlerts(r) ==
    [job : {ctx[r].job}, key : ctx[r].pending.alerts, by : {r}]

NewMilestones(r) ==
    {[turnaround |-> TurnaroundOf[ctx[r].job], type |-> m[1], track |-> m[2],
      job |-> ctx[r].job, by |-> r] : m \in ctx[r].pending.milestones}

\* (mutant) Any milestone puts the turnaround on stand.
OnBlockByAny(r) == ctx[r].found.milestones # {}

\* The aircraft milestone puts the turnaround on stand, stored or not.
OnBlock(r) == \E m \in ctx[r].found.milestones : m[1] = "aircraft_on_block"

\* (mutant) The status is committed without the results.
CompleteWithoutResults(r) ==
    /\ pc[r] = "persisting"
    /\ ctx[r].todo = Nothing
    /\ CommitRow(r, [ctx[r].view EXCEPT !.status = "completed"])
    /\ Leave(r)
    /\ UNCHANGED <<hasVideo, results, bounds>>

\* Results, turnaround and status are one commit.
Complete(r) ==
    LET j == ctx[r].job IN
    /\ pc[r] = "persisting"
    /\ ctx[r].todo = Nothing
    /\ CommitRow(r, [ctx[r].view EXCEPT !.status = "completed",
                                        !.progress = 100])
    /\ trackRows' = trackRows \cup NewTracks(r)
    /\ alertRows' = alertRows \cup NewAlerts(r)
    /\ milestoneRows' = milestoneRows \cup NewMilestones(r)
    /\ onStand' = IF OnBlock(r) /\ TurnaroundOf[j] # NoTurnaround
                  THEN onStand \cup {TurnaroundOf[j]} ELSE onStand
    /\ Leave(r)
    /\ UNCHANGED <<hasVideo, bounds>>

\* Any other exception inside the try block that leaves the session usable: an
\* undecodable file, a detector error, a missing evidence file.
ProcessingError(r) ==
    /\ pc[r] \in {"frames", "analysing", "persisting"}
    /\ Goto(r, "raised")
    /\ ctx' = [ctx EXCEPT ![r].outcome = "failed"]
    /\ UNCHANGED <<row, hasVideo, results, bounds>>

\* The session itself fails, in a refresh or in a flush, with which every commit
\* begins: it is unusable and its rows are expired, so that the handler, which
\* logs current_job.id before it rolls back, raises as well and never reports.
\* An exception before the try block or in the handler ends the same way.  The
\* process lives on, and the row stays as it was committed.
AbandonRun(r) ==
    LET j == ctx[r].job IN
    /\ pc[r] \in Executing \cup {"picked"}
    /\ abandoned[j] < MaxAbandoned
    /\ abandoned' = [abandoned EXCEPT ![j] = @ + 1]
    /\ Leave(r)
    /\ UNCHANGED <<row, hasVideo, results, stopped, crashes, stops>>

\* (mutant) The handler rolls back and forgets to write the ending.
RollbackAndLeave(r) ==
    /\ pc[r] = "raised"
    /\ Leave(r)
    /\ UNCHANGED <<row, hasVideo, results, bounds>>

\* The handler rolls the session back and reads the job again.
Rollback(r) ==
    /\ pc[r] = "raised"
    /\ Goto(r, "reporting")
    /\ ctx' = [ctx EXCEPT ![r] = [IdleContext EXCEPT
        !.job = ctx[r].job, !.view = row[ctx[r].job], !.outcome = ctx[r].outcome]]
    /\ UNCHANGED <<row, hasVideo, results, bounds>>

ErrorOf(outcome) ==
    IF outcome = "cancelled" THEN "PROCESSING_CANCELLED"
                             ELSE "VIDEO_PROCESSING_FAILED"

Report(r) ==
    /\ pc[r] = "reporting"
    /\ CommitRow(r, [ctx[r].view EXCEPT
                        !.status = ctx[r].outcome,
                        !.errorCode = ErrorOf(ctx[r].outcome)])
    /\ Leave(r)
    /\ UNCHANGED <<hasVideo, results, bounds>>

-----------------------------------------------------------------------------
(* The environment. *)

\* A process dies with its open transactions and is started again.
Crash(process) ==
    /\ crashes < MaxCrashes
    /\ \E t \in process : pc[t] # "idle"
    /\ crashes' = crashes + 1
    /\ pc' = [t \in Threads |-> IF t \in process THEN "idle" ELSE pc[t]]
    /\ ctx' = [t \in Threads |-> IF t \in process THEN IdleContext ELSE ctx[t]]
    /\ stopped' = stopped \ process
    /\ UNCHANGED <<row, hasVideo, results, abandoned, stops>>

\* retention_cleanup.py looks at the age of a video only, never at its jobs
\* (a store without foreign keys: SQLite as the development setup opens it).
ExpireVideo(j) ==
    /\ VideosExpire
    /\ j \in hasVideo
    /\ hasVideo' = hasVideo \ {j}
    /\ UNCHANGED <<row, results, pc, ctx, bounds>>

Init ==
    /\ row = [j \in Jobs |-> BlankRow]
    /\ hasVideo = {}
    /\ trackRows = {} /\ alertRows = {} /\ milestoneRows = {} /\ onStand = {}
    /\ pc = [t \in Threads |-> "idle"]
    /\ ctx = [t \in Threads |-> IdleContext]
    /\ abandoned = [j \in Jobs |-> 0]
    /\ stopped = {} /\ crashes = 0 /\ stops = 0

\* The steps a run takes by itself.
RunStep(r) ==
    \/ Load(r) \/ LoadWithoutVideo(r) \/ Prepare(r) \/ Start(r)
    \/ ReadFrame(r) \/ FinishFrame(r) \/ EndOfVideo(r)
    \/ \E m \in MilestoneTypes \X Tracks : ScanMilestone(r, m)
    \/ \E key \in AlertKeys : ScanAlert(r, key)
    \/ Complete(r) \/ Rollback(r) \/ Report(r)

Requests ==
    \E j \in Jobs :
        \/ \E a \in CancelThreads : Upload(a, j) \/ RequestCancel(a, j)
        \/ \E a \in RunThreads : UploadAndRun(a, j) \/ RunJob(a, j)

Next ==
    \/ Requests
    \/ \E a \in CancelThreads : CommitCancel(a)
    \/ \E w \in Workers : PickJob(w) \/ Stop(w) \/ Restart(w)
    \/ \E r \in Runners : RunStep(r) \/ ProcessingError(r) \/ AbandonRun(r)
    \/ \E w \in Workers : Crash({w})
    \/ Crash(ApiThreads)
    \/ \E j \in Jobs : ExpireVideo(j)

\* A thread that can take a step takes it; requests, errors, crashes and
\* signals may or may not come.
Fairness ==
    /\ \A r \in Runners : WF_vars(RunStep(r))
    /\ \A w \in Workers : WF_vars(PickJob(w)) /\ WF_vars(Restart(w))
    /\ \A a \in CancelThreads : WF_vars(CommitCancel(a))

Spec     == Init /\ [][Next]_vars
FairSpec == Spec /\ Fairness

-----------------------------------------------------------------------------
(* Properties. *)

\* Rows, threads and bounds are well typed, in every interleaving.
TypeOK ==
    /\ row \in [Jobs -> JobRow]
    /\ hasVideo \subseteq Jobs
    /\ trackRows \subseteq Jobs \X Runners
    /\ alertRows \subseteq AlertRow
    /\ milestoneRows \subseteq MilestoneRow
    /\ onStand \subseteq Turnarounds
    /\ pc \in [Threads -> Places]
    /\ ctx \in [Threads -> Context]
    /\ abandoned \in [Jobs -> Nat]
    /\ stopped \subseteq Workers
    /\ crashes \in Nat
    /\ stops \in Nat

Published(j) == \E r \in Runners : <<j, r>> \in trackRows

\* A job is marked complete only after its results have been written: under
\* any interleaving of runs, cancels and crashes (vision-pipeline.md, the
\* single commit of processing.py:269-272).
CompletedHasResults ==
    \A j \in Jobs : row[j].status = "completed" => Published(j)

\* The rows of one run appear together or not at all: no alert or milestone
\* row is in the store without the track rows of the run that wrote it
\* (the rollback of processing.py:275).
NoPartialResults ==
    /\ \A x \in alertRows : <<x.job, x.by>> \in trackRows
    /\ \A m \in milestoneRows : <<m.job, m.by>> \in trackRows

\* A turnaround is on stand exactly if an aircraft-on-block milestone of it
\* is stored, although the two are written from different data: the status
\* from what the run found, the milestone from what was not known yet.
OnStandIffAircraftOnBlock ==
    \A t \in Turnarounds :
        t \in onStand <=> MilestoneKnown(t, "aircraft_on_block")

\* A job only ends as cancelled when somebody has asked for it.
CancelledWasRequested ==
    \A j \in Jobs : row[j].status = "cancelled" => row[j].cancelRequested

\* A committed cancel flag is never lost, although runs keep writing the same
\* row from sessions that loaded it before the flag was set.
FlagIsNeverLost ==
    [][\A j \in Jobs : row[j].cancelRequested => row'[j].cancelRequested]_vars

\* A job has results in the store exactly if it is completed, and then from
\* one run only: failed and cancelled runs and retries leave nothing behind.
OneResultSet ==
    \A j \in Jobs :
        /\ Published(j) <=> row[j].status = "completed"
        /\ \A r, s \in Runners :
            {<<j, r>>, <<j, s>>} \subseteq trackRows => r = s

\* All milestones of one type on a turnaround come from one run: the lookup of
\* processing.py:163-165 keeps later jobs of the turnaround from adding theirs
\* when one thread runs the jobs.  (One run may well add several, for several
\* tracks: it does not see the milestones it has just added.)
MilestonesFromOneRun ==
    \A m, n \in milestoneRows :
        m.turnaround = n.turnaround /\ m.type = n.type
            => m.job = n.job /\ m.by = n.by

\* A cancelled job never completes: it may be run again, but the flag is not
\* reset and stops every later run at its first frame.
CancelIsFinal ==
    \A j \in Jobs :
        FramesOf[j] > 0 =>
            []((row[j].status = "cancelled") => [](row[j].status # "completed"))

\* A run of j broke off without a report after its first commit: nothing takes
\* the row out of its status any more.
Stuck(j) ==
    /\ abandoned[j] > 0
    /\ row[j].status \in {"preparing", "running"}
    /\ \A r \in Runners : ctx[r].job # j

\* Every job that was uploaded ends, unless its session broke: no schedule of
\* errors, cancellations and SIGTERMs leaves it behind in any other way (the
\* handler of processing.py:273-286 and the loop of worker/main.py).
JobsEnd ==
    \A j \in Jobs :
        (row[j].status # "absent") ~> (row[j].status \in Terminal \/ Stuck(j))

\* A cancellation that is in the row before the frames are read prevails: the
\* job ends, and not as completed, unless the session of its run broke.
EarlyCancelWins ==
    \A j \in Jobs :
        FramesOf[j] > 0 =>
            (row[j].cancelRequested /\ row[j].status \in {"queued", "preparing"})
                ~> (row[j].status \in {"cancelled", "failed"} \/ Stuck(j))

\* What docs/architecture.md:58 says: every job reaches a terminal state.  The
\* code does not keep it: a crash (run JobsAfterCrash) or a broken session in a
\* run (Stuck) leaves its job behind.
EveryJobEnds ==
    \A j \in Jobs :
        (row[j].status # "absent") ~> (row[j].status \in Terminal)

\* With one run per job at a time, the rows implement the job life cycle.
Lifecycle == INSTANCE JobLifecycle WITH
    status <- [j \in Jobs |-> row[j].status],
    cancelRequested <- [j \in Jobs |-> row[j].cancelRequested],
    published <- [j \in Jobs |-> Published(j)]

ImplementsLifecycle == Lifecycle!Spec

=============================================================================
