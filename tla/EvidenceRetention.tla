-------------------------- MODULE EvidenceRetention --------------------------
(***************************************************************************)
(* The files of an installation and the rows that point to them: what runs *)
(* of a job write below evidence_dir (process_video), the evidence rows    *)
(* they commit (run_processing_job), and scripts/retention_cleanup.py,     *)
(* which unlinks files one by one and commits the deletion of the rows at  *)
(* the end.  Files are in no transaction.                                  *)
(*                                                                         *)
(* Of a job only what decides about files is kept; ProcessingJobs has the  *)
(* rest, and AlertEvidence which alerts a video has.                       *)
(***************************************************************************)
EXTENDS Integers, FiniteSets

CONSTANTS
    Jobs,
    Runners,       \* workers and API threads
    Keys,          \* alerts of a job, numbered in the order of their times
    PrefixOf,      \* PrefixOf[k]: rule and track of alert k
    RawDays,       \* --raw-video-days
    EvidenceDays,  \* --evidence-days
    MaxRuns,       \* bound on runs
    MaxDays        \* bound on the day

ASSUME RetentionAssumption ==
    /\ Keys \subseteq Nat \ {0}
    /\ DOMAIN PrefixOf = Keys
    /\ RawDays \in Nat /\ EvidenceDays \in Nat
    /\ MaxRuns \in Nat /\ MaxDays \in Nat

VARIABLES
    status,      \* status[j]: the committed status of job j
    born,        \* born[j]: the day of the upload
    videoRows,   \* jobs whose uploaded_videos row exists
    videoFiles,  \* jobs whose uploaded file exists
    alerts,      \* <<job, key>> of the committed alerts
    assets,      \* committed evidence_assets rows
    files,       \* files[f]: the run that has written file f last
    run,         \* run[r]: what a runner is doing
    runs,        \* runs so far, the name of the last one
    cleaner,     \* what the cleanup is doing
    day,
    met,         \* jobs that two runners have had at once, for the properties
    doomed       \* assets that a cleanup has selected, for the properties

stored  == <<status, born, videoRows, alerts, assets>>
disk    == <<videoFiles, files>>
history == <<met, doomed>>
vars    == <<stored, disk, run, runs, cleaner, day, history>>

-----------------------------------------------------------------------------
(* Types. *)

Statuses == {"absent", "queued", "running", "completed", "failed"}

Snapshot(j, k) == <<j, "snapshot", k>>
Clip(j, k)     == <<j, "clip", k>>
Annotated(j)   == <<j, "annotated", 0>>

Files == Jobs \X {"snapshot", "clip", "annotated"} \X (Keys \cup {0})

AssetRow == [alert : Jobs \X Keys, by : Nat, type : {"snapshot", "clip"},
             path : Files, hash : Nat, born : Nat]

\* `snapshots` and `clips` are the keys of the two dictionaries of the result.
Run == [at : {"idle"}]
    \cup [at : {"picked"}, job : Jobs]
    \cup [at : {"opening", "frames", "clips", "persisting"}, job : Jobs, name : Nat,
          snapshots : SUBSET Keys, clips : SUBSET Keys, todo : SUBSET Keys,
          rows : SUBSET AssetRow]

Idle == [at |-> "idle"]

\* No cleanup is under way; the last one has committed, or was killed or refused.
Stopped(outcome) == [at |-> "idle", outcome |-> outcome]

Cleaner == [at : {"idle"}, outcome : {"done", "failed"}]
    \cup [at : {"unlinking"}, videos : SUBSET Jobs, assets : SUBSET AssetRow,
          videosLeft : SUBSET Jobs, pathsLeft : SUBSET Files]

-----------------------------------------------------------------------------
(* Files. *)

Write(file, name) ==
    files' = [f \in DOMAIN files \cup {file} |-> IF f = file THEN name ELSE files[f]]

\* unlink(missing_ok=True)
Unlink(file) == files' = [f \in DOMAIN files \ {file} |-> files[f]]

First(keys) == CHOOSE k \in keys : \A l \in keys : k <= l

-----------------------------------------------------------------------------
(* Uploads and runs. *)

\* upload_video: the file, then its rows.
Upload(j) ==
    /\ status[j] = "absent"
    /\ status' = [status EXCEPT ![j] = "queued"]
    /\ born' = [born EXCEPT ![j] = day]
    /\ videoRows' = videoRows \cup {j}
    /\ videoFiles' = videoFiles \cup {j}
    /\ UNCHANGED <<alerts, assets, files, run, runs, cleaner, day, history>>

\* (mutant) A completed job can be run again.
CanRunAny(j) == status[j] # "absent"

\* The worker takes queued jobs, run_job also the ones that have ended without
\* a result ("failed" stands for both).
CanRun(j) == status[j] \in {"queued", "failed"}

Others(r, j) == {s \in Runners \ {r} : run[s].at # "idle" /\ run[s].job = j}

\* A job is selected, or its run is put off until the response is sent; it is
\* not claimed.
Pick(r, j) ==
    /\ run[r] = Idle
    /\ CanRun(j)
    /\ run' = [run EXCEPT ![r] = [at |-> "picked", job |-> j]]
    /\ met' = IF Others(r, j) = {} THEN met ELSE met \cup {j}
    /\ UNCHANGED <<stored, disk, runs, cleaner, day, doomed>>

\* Rows of job and video are loaded, and the job is running.
Begin(r) ==
    /\ run[r].at = "picked"
    /\ run[r].job \in videoRows
    /\ runs < MaxRuns
    /\ runs' = runs + 1
    /\ status' = [status EXCEPT ![run[r].job] = "running"]
    /\ run' = [run EXCEPT ![r] =
            [at |-> "opening", job |-> run[r].job, name |-> runs + 1,
             snapshots |-> {}, clips |-> {}, todo |-> {}, rows |-> {}]]
    /\ UNCHANGED <<born, videoRows, alerts, assets, disk, cleaner, day, history>>

\* "Processing job has missing video or camera": before the try block.
BeginWithoutVideo(r) ==
    /\ run[r].at = "picked"
    /\ run[r].job \notin videoRows
    /\ run' = [run EXCEPT ![r] = Idle]
    /\ UNCHANGED <<stored, disk, runs, cleaner, day, history>>

\* The video is probed, and the writer of the annotated video opened.
OpenVideo(r) ==
    /\ run[r].at = "opening"
    /\ run[r].job \in videoFiles
    /\ Write(Annotated(run[r].job), run[r].name)
    /\ run' = [run EXCEPT ![r].at = "frames"]
    /\ UNCHANGED <<stored, videoFiles, runs, cleaner, day, history>>

\* A frame with alert `k`.
WriteSnapshot(r, k) ==
    /\ run[r].at = "frames"
    /\ \A l \in run[r].snapshots : l < k
    /\ Write(Snapshot(run[r].job, k), run[r].name)
    /\ run' = [run EXCEPT ![r].snapshots = @ \cup {k}]
    /\ UNCHANGED <<stored, videoFiles, runs, cleaner, day, history>>

EndFrames(r) ==
    /\ run[r].at = "frames"
    /\ run' = [run EXCEPT ![r].at = "clips", ![r].todo = run[r].snapshots]
    /\ UNCHANGED <<stored, disk, runs, cleaner, day, history>>

\* _extract_clip succeeds, finds no frame and unlinks what it has opened, or
\* cannot open one of the two files.
CutClip(r) ==
    LET q == run[r]
        k == First(q.todo)
    IN  /\ q.at = "clips" /\ q.todo # {}
        /\ \/ /\ Write(Clip(q.job, k), q.name)
              /\ run' = [run EXCEPT ![r].todo = @ \ {k}, ![r].clips = @ \cup {k}]
           \/ /\ Unlink(Clip(q.job, k))
              /\ run' = [run EXCEPT ![r].todo = @ \ {k}]
           \/ /\ run' = [run EXCEPT ![r].todo = @ \ {k}]
              /\ UNCHANGED files
        /\ UNCHANGED <<stored, videoFiles, runs, cleaner, day, history>>

EndClips(r) ==
    /\ run[r].at = "clips" /\ run[r].todo = {}
    /\ run' = [run EXCEPT ![r].at = "persisting", ![r].todo = run[r].snapshots]
    /\ UNCHANGED <<stored, disk, runs, cleaner, day, history>>

\* The first of `keys` with the prefix of `k`.
Match(keys, k) == {l \in keys : PrefixOf[l] = PrefixOf[k]}

SnapshotMatch(q, k) == Snapshot(q.job, First(Match(q.snapshots, k)))

ClipMatch(q, k) ==
    IF Match(q.clips, k) = {} THEN Annotated(q.job)
    ELSE Clip(q.job, First(Match(q.clips, k)))

\* (mutant) The key of an alert has its run in place of its job.
AssetOfRun(q, k, type, path) ==
    [alert |-> <<q.name, k>>, by |-> q.name, type |-> type, path |-> path,
     hash |-> files[path], born |-> day]

Asset(q, k, type, path) ==
    [alert |-> <<q.job, k>>, by |-> q.name, type |-> type, path |-> path,
     hash |-> files[path], born |-> day]

\* An alert whose key is stored is skipped; else the rows of its files are added,
\* with their hashes (sha256_file raises if there is no file).
AddAlert(r) ==
    LET q == run[r]
        k == First(q.todo)
        snapshot == SnapshotMatch(q, k)
        clip == ClipMatch(q, k)
    IN  /\ q.at = "persisting" /\ q.todo # {}
        /\ \/ /\ <<q.job, k>> \in alerts
              /\ run' = [run EXCEPT ![r].todo = @ \ {k}]
           \/ /\ <<q.job, k>> \notin alerts
              /\ {snapshot, clip} \subseteq DOMAIN files
              /\ run' = [run EXCEPT ![r].todo = @ \ {k}, ![r].rows = @ \cup
                    {Asset(q, k, "snapshot", snapshot), Asset(q, k, "clip", clip)}]
        /\ UNCHANGED <<stored, disk, runs, cleaner, day, history>>

CommitRun(r) ==
    /\ run[r].at = "persisting" /\ run[r].todo = {}
    /\ assets' = assets \cup run[r].rows
    /\ alerts' = alerts \cup {row.alert : row \in run[r].rows}
    /\ status' = [status EXCEPT ![run[r].job] = "completed"]
    /\ run' = [run EXCEPT ![r] = Idle]
    /\ UNCHANGED <<born, videoRows, disk, runs, cleaner, day, history>>

\* An exception or a cancellation: rows are rolled back, files are not.
Fail(r) ==
    /\ run[r].at \in {"opening", "frames", "clips", "persisting"}
    /\ status' = [status EXCEPT ![run[r].job] = "failed"]
    /\ run' = [run EXCEPT ![r] = Idle]
    /\ UNCHANGED <<born, videoRows, alerts, assets, disk, runs, cleaner, day, history>>

-----------------------------------------------------------------------------
(* Retention. *)

Expired(since, days) == day - since > days

\* The two queries.
SelectExpired ==
    LET videos == {j \in videoRows : Expired(born[j], RawDays)}
        old == {a \in assets : Expired(a.born, EvidenceDays)}
    IN  /\ cleaner.at = "idle"
        /\ videos # {} \/ old # {}
        /\ cleaner' = [at |-> "unlinking", videos |-> videos, assets |-> old,
                       videosLeft |-> videos, pathsLeft |-> {a.path : a \in old}]
        /\ doomed' = doomed \cup old
        /\ UNCHANGED <<stored, disk, run, runs, day, met>>

UnlinkVideo(j) ==
    /\ cleaner.at = "unlinking" /\ j \in cleaner.videosLeft
    /\ videoFiles' = videoFiles \ {j}
    /\ cleaner' = [cleaner EXCEPT !.videosLeft = @ \ {j}]
    /\ UNCHANGED <<stored, files, run, runs, day, history>>

UnlinkAsset(path) ==
    /\ cleaner.at = "unlinking" /\ cleaner.videosLeft = {} /\ path \in cleaner.pathsLeft
    /\ Unlink(path)
    /\ cleaner' = [cleaner EXCEPT !.pathsLeft = @ \ {path}]
    /\ UNCHANGED <<stored, videoFiles, run, runs, day, history>>

\* processing_jobs refers to videos, and jobs are never deleted: PostgreSQL refuses
\* to delete a video.  SQLite as it is opened here enforces no foreign key.
CanBeRefused(videos) == videos # {}

Stop(outcome) == cleaner' = Stopped(outcome)

\* (mutant) Only the rows of videos are deleted.
KeptAssets(old) == assets

RemainingAssets(old) == assets \ old

\* The commit deletes all the rows or, where the database refuses one of them, none.
\* Each commit may meet either database, so that what holds here holds with both.
CommitCleanup ==
    /\ cleaner.at = "unlinking"
    /\ cleaner.videosLeft = {} /\ cleaner.pathsLeft = {}
    /\ \/ /\ CanBeRefused(cleaner.videos)
          /\ Stop("failed")
          /\ UNCHANGED <<videoRows, assets>>
       \/ /\ Stop("done")
          /\ videoRows' = videoRows \ cleaner.videos
          /\ assets' = RemainingAssets(cleaner.assets)
    /\ UNCHANGED <<status, born, alerts, disk, run, runs, day, history>>

\* The script dies before its commit.
KillCleanup ==
    /\ cleaner.at = "unlinking"
    /\ Stop("failed")
    /\ UNCHANGED <<stored, disk, run, runs, day, history>>

PassDay ==
    /\ day < MaxDays
    /\ day' = day + 1
    /\ UNCHANGED <<stored, disk, run, runs, cleaner, history>>

-----------------------------------------------------------------------------

Init ==
    /\ status = [j \in Jobs |-> "absent"]
    /\ born = [j \in Jobs |-> 0]
    /\ videoRows = {} /\ videoFiles = {}
    /\ alerts = {} /\ assets = {}
    /\ files = [f \in {} |-> 0]
    /\ run = [r \in Runners |-> Idle] /\ runs = 0
    /\ cleaner = Stopped("done")
    /\ day = 0
    /\ met = {} /\ doomed = {}

RunStep(r) ==
    \/ \E j \in Jobs : Pick(r, j)
    \/ Begin(r) \/ BeginWithoutVideo(r) \/ OpenVideo(r)
    \/ \E k \in Keys : WriteSnapshot(r, k)
    \/ EndFrames(r) \/ CutClip(r) \/ EndClips(r)
    \/ AddAlert(r) \/ CommitRun(r) \/ Fail(r)

Cleanup ==
    \/ SelectExpired
    \/ \E j \in Jobs : UnlinkVideo(j)
    \/ \E path \in Files : UnlinkAsset(path)
    \/ CommitCleanup \/ KillCleanup

Next ==
    \/ \E j \in Jobs : Upload(j)
    \/ \E r \in Runners : RunStep(r)
    \/ Cleanup
    \/ PassDay

Spec == Init /\ [][Next]_vars

-----------------------------------------------------------------------------
(* Properties. *)

\* Rows, files, runs and the cleanup are well typed.
TypeOK ==
    /\ status \in [Jobs -> Statuses] /\ born \in [Jobs -> Nat]
    /\ videoRows \subseteq Jobs /\ videoFiles \subseteq Jobs
    /\ alerts \subseteq Jobs \X Keys
    /\ assets \subseteq AssetRow /\ doomed \subseteq AssetRow
    /\ DOMAIN files \subseteq Files /\ \A f \in DOMAIN files : files[f] \in 1..runs
    /\ run \in [Runners -> Run] /\ runs \in Nat
    /\ cleaner \in Cleaner
    /\ day \in Nat /\ met \subseteq Jobs

Intact(a) == a.path \in DOMAIN files /\ files[a.path] = a.hash

\* Two alerts of one rule and track have one file but are inserted one after the
\* other: when the limit falls between them, the older takes the file with it.
SharesWithDoomed(a) == \E d \in doomed : d.path = a.path

\* docs/privacy-and-retention.md:13, "evidence metadata and hashes": evidence
\* that no cleanup has selected is there and is what was hashed, unless it shares
\* its file with evidence that one has selected, or two runners have had the job
\* at once.  Runs that fail and are repeated and clips that cannot be cut do not
\* harm it.
SerialEvidenceIsIntact ==
    \A a \in assets :
        a.alert[1] \notin met /\ ~SharesWithDoomed(a) => Intact(a)

\* The retention command of docs/privacy-and-retention.md deletes rows together
\* with their files: between cleanups no video row and no selected evidence row is
\* left without its file, unless the last cleanup was killed or its commit was
\* refused.  What a killed cleanup has left, the next one that commits makes good.
RowsGoWithFiles ==
    cleaner = Stopped("done") =>
        videoRows \subseteq videoFiles /\ assets \cap doomed = {}

=============================================================================
