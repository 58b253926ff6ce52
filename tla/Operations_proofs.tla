------------------------- MODULE Operations_proofs -------------------------
(***************************************************************************)
(* Proofs about two parts of the operation of an installation: retention   *)
(* (EvidenceRetention) and the rate limiter (RateLimiter), which share no  *)
(* state.                                                                  *)
(***************************************************************************)
EXTENDS EvidenceRetention, RateLimiter, SequenceTheorems, WellFoundedInduction, TLAPS

-----------------------------------------------------------------------------
(* Retention: the inductive invariant. *)

BusyAt == {"opening", "frames", "clips", "persisting"}

BusyRun == [at : BusyAt, job : Jobs, name : Nat,
            snapshots : SUBSET Keys, clips : SUBSET Keys, todo : SUBSET Keys,
            rows : SUBSET AssetRow]

Busy(r) == run[r].at \in BusyAt

\* A run has a name of its own, which no stored or deleted row has.
RunsAreNamed ==
    /\ \A r \in Runners : Busy(r) => run[r].name \in 1..runs
    /\ \A r, s \in Runners : Busy(r) /\ Busy(s) /\ r # s => run[r].name # run[s].name
    /\ \A r \in Runners : Busy(r) => \A a \in assets \cup doomed : a.by # run[r].name
    /\ \A a \in assets \cup doomed : a.by <= runs

\* What a run has added is its own, and about its job.
Owns(q) ==
    /\ q.at # "persisting" => q.rows = {}
    /\ \A a \in q.rows : a.by = q.name /\ a.alert[1] = q.job /\ a.path[1] = q.job

RunsOwnTheirRows == \A r \in Runners : Busy(r) => Owns(run[r])

RunsFit == RunsAreNamed /\ RunsOwnTheirRows

RunsInv == TypeOK /\ RunsFit

\* A cleanup will delete every row that has lost its file, for each of them has
\* expired: an earlier cleanup that did not commit had selected it.
LeftoversHaveExpired ==
    /\ \A j \in videoRows : status[j] # "absent"
    /\ \A j \in videoRows \ videoFiles : Expired(born[j], RawDays)
    /\ \A a \in doomed : Expired(a.born, EvidenceDays)

SelectionCoversLeftovers ==
    cleaner.at = "unlinking" =>
        /\ cleaner.videosLeft \subseteq cleaner.videos
        /\ \A path \in cleaner.pathsLeft : \E a \in cleaner.assets : a.path = path
        /\ cleaner.videos \subseteq videoRows
        /\ \A j \in cleaner.videos : Expired(born[j], RawDays)
        /\ videoRows \ videoFiles \subseteq cleaner.videos
        /\ cleaner.assets \subseteq doomed
        /\ assets \cap doomed \subseteq cleaner.assets

CleanupInv ==
    RunsInv /\ LeftoversHaveExpired /\ SelectionCoversLeftovers /\ RowsGoWithFiles

\* Of a job that two runners never had at once: only the one that completes it
\* leaves rows, and nobody runs it afterwards.
JobsAreApart ==
    \A r, s \in Runners :
        r # s /\ run[r].at # "idle" /\ run[s].at # "idle" /\ run[r].job = run[s].job
        => run[r].job \in met

RowsEndTheJob ==
    \A a \in assets :
        /\ a.path[1] = a.alert[1]
        /\ a.alert[1] \in met \/ status[a.alert[1]] = "completed"
        /\ \A r \in Runners :
            run[r].at # "idle" /\ run[r].job = a.alert[1] => a.alert[1] \in met

NewRowsAreIntact ==
    \A r \in Runners : Busy(r) =>
        \A a \in run[r].rows : run[r].job \in met \/ SharesWithDoomed(a) \/ Intact(a)

SerialInv ==
    CleanupInv /\ JobsAreApart /\ RowsEndTheJob /\ NewRowsAreIntact
    /\ SerialEvidenceIsIntact

-----------------------------------------------------------------------------
(* Retention: lemmas. *)

\* Every non-empty set of numbers has a least one.
LEMMA NatMin ==
    ASSUME NEW T \in SUBSET Nat, T # {}
    PROVE  \E x \in T : \A y \in T : x <= y
<1> DEFINE R == {p \in Nat \X Nat : p[1] < p[2]}
<1>1. IsWellFoundedOn(R, Nat)
    BY NatLessThanWellFounded DEF OpToRel
<1>2. \A x, y \in Nat : x < y => <<x, y>> \in R
    OBVIOUS
<1> HIDE DEF R
<1>3. PICK x \in T : \A y \in T : ~(<<y, x>> \in R)
    BY <1>1, WFMin
<1>4. ASSUME NEW y \in T
      PROVE  x <= y
    <2>1. ~(y < x)
        BY <1>2, <1>3
    <2> QED
        BY <2>1
<1> QED
    BY <1>3, <1>4

\* The first of some keys is one of them.
LEMMA FirstIsLeast ==
    ASSUME NEW keys \in SUBSET Keys, keys # {}
    PROVE  First(keys) \in keys /\ \A l \in keys : First(keys) <= l
<1>1. keys \in SUBSET Nat
    BY RetentionAssumption
<1>2. \E k \in keys : \A l \in keys : k <= l
    BY <1>1, NatMin
<1> QED
    BY <1>2 DEF First

\* Setting one field of a run keeps the others.
LEMMA SetFields ==
    ASSUME NEW q \in BusyRun
    PROVE  /\ \A at \in BusyAt :
                /\ [q EXCEPT !.at = at] \in BusyRun
                /\ [q EXCEPT !.at = at].at = at
                /\ [q EXCEPT !.at = at].job = q.job
                /\ [q EXCEPT !.at = at].name = q.name
                /\ [q EXCEPT !.at = at].rows = q.rows
           /\ \A keys \in SUBSET Keys :
                /\ [q EXCEPT !.snapshots = keys] \in BusyRun
                /\ [q EXCEPT !.snapshots = keys].at = q.at
                /\ [q EXCEPT !.snapshots = keys].job = q.job
                /\ [q EXCEPT !.snapshots = keys].name = q.name
                /\ [q EXCEPT !.snapshots = keys].rows = q.rows
           /\ \A keys \in SUBSET Keys :
                /\ [q EXCEPT !.clips = keys] \in BusyRun
                /\ [q EXCEPT !.clips = keys].at = q.at
                /\ [q EXCEPT !.clips = keys].job = q.job
                /\ [q EXCEPT !.clips = keys].name = q.name
                /\ [q EXCEPT !.clips = keys].rows = q.rows
           /\ \A keys \in SUBSET Keys :
                /\ [q EXCEPT !.todo = keys] \in BusyRun
                /\ [q EXCEPT !.todo = keys].at = q.at
                /\ [q EXCEPT !.todo = keys].job = q.job
                /\ [q EXCEPT !.todo = keys].name = q.name
                /\ [q EXCEPT !.todo = keys].rows = q.rows
           /\ \A rows \in SUBSET AssetRow :
                /\ [q EXCEPT !.rows = rows] \in BusyRun
                /\ [q EXCEPT !.rows = rows].at = q.at
                /\ [q EXCEPT !.rows = rows].job = q.job
                /\ [q EXCEPT !.rows = rows].name = q.name
                /\ [q EXCEPT !.rows = rows].rows = rows
BY DEF BusyRun

\* A run is idle, has picked a job, or is busy.
LEMMA RunCases ==
    ASSUME NEW q \in Run
    PROVE  /\ q.at = "idle" => q = Idle
           /\ q.at = "picked" => q \in [at : {"picked"}, job : Jobs]
           /\ q.at \in BusyAt => q \in BusyRun
           /\ q.at \in {"idle", "picked"} \cup BusyAt
BY DEF Run, Idle, BusyAt, BusyRun

\* What a step puts in place of a run is one.
LEMMA BusyRunsAreRuns ==
    /\ BusyRun \subseteq Run /\ Idle \in Run
    /\ \A j \in Jobs : [at |-> "picked", job |-> j] \in Run
BY DEF Run, Idle, BusyAt, BusyRun

\* Only the run of `r` changes.
Sets(r, q) == run' = [run EXCEPT ![r] = q]

\* Nobody else's run changes.
LEMMA SetRun ==
    ASSUME run \in [Runners -> Run], NEW r \in Runners, NEW q \in Run, Sets(r, q)
    PROVE  /\ run' \in [Runners -> Run] /\ run'[r] = q
           /\ \A s \in Runners : s # r => run'[s] = run[s]
BY DEF Sets

\* The run of `r` goes on: to `at`, and with `rows`.
GoesOn(r, at, rows) ==
    \E p \in BusyRun : /\ Sets(r, p) /\ p.at = at /\ p.rows = rows
                       /\ p.job = run[r].job /\ p.name = run[r].name

\* A step may write one or two fields of a run; the second is written into the run
\* that has the first.
LEMMA SetAtAndTodo ==
    ASSUME NEW r \in Runners, run \in [Runners -> Run], run[r] \in BusyRun,
           NEW todo \in SUBSET Keys, NEW at \in BusyAt,
           run' = [run EXCEPT ![r].at = at, ![r].todo = todo]
    PROVE  GoesOn(r, at, run[r].rows)
<1>1. PICK q \in BusyRun : q = run[r]
    OBVIOUS
<1>2. PICK u \in BusyRun : u = [q EXCEPT !.at = at]
    BY SetFields
<1>3. PICK f : f = [run EXCEPT ![r] = u]
    OBVIOUS
<1>4. f = [run EXCEPT ![r].at = at] /\ f[r] = u
    <2>1. f = [run EXCEPT ![r].at = at]
        BY <1>1, <1>2, <1>3, Zenon
    <2> QED
        BY <2>1, <1>3
<1>5. PICK p \in BusyRun : p = [u EXCEPT !.todo = todo]
    BY SetFields
<1>6. run' = [f EXCEPT ![r].todo = todo]
    BY <1>4, Zenon
<1>7. run' = [f EXCEPT ![r] = p]
    BY <1>4, <1>5, <1>6, Zenon
<1>8. run' = [run EXCEPT ![r] = p]
    BY <1>3, <1>7
<1>9. p.at = at /\ p.job = q.job /\ p.name = q.name /\ p.rows = q.rows
    BY <1>2, <1>5, SetFields
<1> QED
    BY <1>1, <1>8, <1>9 DEF Sets, GoesOn

\* The same of todo, and of what is written with it.
LEMMA SetTodoAndMore ==
    ASSUME NEW r \in Runners, run \in [Runners -> Run], run[r] \in BusyRun,
           NEW todo \in SUBSET Keys
    PROVE  /\ run' = [run EXCEPT ![r].todo = todo]
              => GoesOn(r, run[r].at, run[r].rows)
           /\ \A keys \in SUBSET Keys :
              run' = [run EXCEPT ![r].todo = todo, ![r].clips = keys]
              => GoesOn(r, run[r].at, run[r].rows)
           /\ \A rows \in SUBSET AssetRow :
              run' = [run EXCEPT ![r].todo = todo, ![r].rows = rows]
              => GoesOn(r, run[r].at, rows)
<1>1. PICK q \in BusyRun : q = run[r]
    OBVIOUS
<1>2. PICK u \in BusyRun : u = [q EXCEPT !.todo = todo]
    BY SetFields
<1>3. PICK f : f = [run EXCEPT ![r] = u]
    OBVIOUS
<1>4. f = [run EXCEPT ![r].todo = todo] /\ f[r] = u
    <2>1. f = [run EXCEPT ![r].todo = todo]
        BY <1>1, <1>2, <1>3, Zenon
    <2> QED
        BY <2>1, <1>3
<1>5. u.at = q.at /\ u.job = q.job /\ u.name = q.name /\ u.rows = q.rows
    BY <1>2, SetFields
<1>6. ASSUME run' = [run EXCEPT ![r].todo = todo]
      PROVE  GoesOn(r, run[r].at, run[r].rows)
    <2>1. run' = [run EXCEPT ![r] = u]
        BY <1>1, <1>2, <1>6, Zenon
    <2> QED
        BY <1>1, <1>5, <2>1 DEF Sets, GoesOn
<1>7. ASSUME NEW keys \in SUBSET Keys,
             run' = [run EXCEPT ![r].todo = todo, ![r].clips = keys]
      PROVE  GoesOn(r, run[r].at, run[r].rows)
    <2>1. PICK p \in BusyRun : p = [u EXCEPT !.clips = keys]
        BY SetFields
    <2>2. run' = [f EXCEPT ![r].clips = keys]
        BY <1>4, <1>7, Zenon
    <2>3. run' = [f EXCEPT ![r] = p]
        BY <1>4, <2>1, <2>2, Zenon
    <2>4. run' = [run EXCEPT ![r] = p]
        BY <1>3, <2>3
    <2>5. p.at = q.at /\ p.job = q.job /\ p.name = q.name /\ p.rows = q.rows
        BY <1>5, <2>1, SetFields
    <2> QED
        BY <1>1, <2>4, <2>5 DEF Sets, GoesOn
<1>8. ASSUME NEW rows \in SUBSET AssetRow,
             run' = [run EXCEPT ![r].todo = todo, ![r].rows = rows]
      PROVE  GoesOn(r, run[r].at, rows)
    <2>1. PICK p \in BusyRun : p = [u EXCEPT !.rows = rows]
        BY SetFields
    <2>2. run' = [f EXCEPT ![r].rows = rows]
        BY <1>4, <1>8, Zenon
    <2>3. run' = [f EXCEPT ![r] = p]
        BY <1>4, <2>1, <2>2, Zenon
    <2>4. run' = [run EXCEPT ![r] = p]
        BY <1>3, <2>3
    <2>5. p.at = q.at /\ p.job = q.job /\ p.name = q.name /\ p.rows = rows
        BY <1>5, <2>1, SetFields
    <2> QED
        BY <1>1, <2>4, <2>5 DEF Sets, GoesOn
<1> QED
    BY <1>6, <1>7, <1>8

-----------------------------------------------------------------------------
(* Retention: what the steps of a run do. *)

\* The steps between the opening of the video and the storing of the alerts.
Progress(r) ==
    \/ OpenVideo(r) \/ EndFrames(r) \/ CutClip(r) \/ EndClips(r)
    \/ \E k \in Keys : WriteSnapshot(r, k)

\* Only files of the job of run `q` are written or unlinked.
TouchesOwnFiles(q) ==
    \/ files' = files
    \/ \E f \in Files : f[1] = q.job /\ (Write(f, q.name) \/ Unlink(f))

\* The three kinds of files of a job.
LEMMA PathsAreFiles ==
    ASSUME NEW j \in Jobs
    PROVE  /\ Annotated(j) \in Files /\ Annotated(j)[1] = j
           /\ \A k \in Keys : /\ Snapshot(j, k) \in Files /\ Snapshot(j, k)[1] = j
                              /\ Clip(j, k) \in Files /\ Clip(j, k)[1] = j
BY DEF Annotated, Snapshot, Clip, Files

\* Job, name and rows of a run stay, and other jobs' files do.
LEMMA ProgressShape ==
    ASSUME TypeOK, NEW r \in Runners, NEW q \in Run, q = run[r], Progress(r)
    PROVE  /\ q \in BusyRun /\ q.at # "persisting"
           /\ \E p \in BusyRun : /\ Sets(r, p)
                                 /\ p.job = q.job /\ p.name = q.name /\ p.rows = q.rows
           /\ TouchesOwnFiles(q)
           /\ UNCHANGED <<stored, videoFiles, runs, cleaner, day, history>>
<1>1. run \in [Runners -> Run]
    BY DEF TypeOK
<1>2. q.at \in {"opening", "frames", "clips"}
    BY DEF Progress, OpenVideo, EndFrames, CutClip, EndClips, WriteSnapshot
<1>3. q \in BusyRun /\ q.at # "persisting" /\ q.job \in Jobs
    BY <1>2, RunCases DEF BusyAt, BusyRun
<1>4. q.todo \in SUBSET Keys /\ q.snapshots \in SUBSET Keys /\ q.clips \in SUBSET Keys
    BY <1>3 DEF BusyRun
<1>at. "clips" \in BusyAt /\ "persisting" \in BusyAt
    BY DEF BusyAt
<1>5. CASE OpenVideo(r)
    <2>1. run' = [run EXCEPT ![r].at = "frames"]
        BY <1>5 DEF OpenVideo
    <2>2. Sets(r, [q EXCEPT !.at = "frames"])
        BY <2>1, Zenon DEF Sets
    <2>3. PICK p \in BusyRun : p = [q EXCEPT !.at = "frames"]
        BY <1>3, SetFields DEF BusyAt
    <2>4. p.job = q.job /\ p.name = q.name /\ p.rows = q.rows
        BY <1>3, <2>3, SetFields DEF BusyAt
    <2>5. TouchesOwnFiles(q)
        BY <1>3, <1>5, PathsAreFiles DEF OpenVideo, TouchesOwnFiles
    <2>6. Sets(r, p)
        BY <2>2, <2>3
    <2> QED
        BY <1>3, <1>5, <2>4, <2>5, <2>6 DEF OpenVideo, stored
<1>6. ASSUME NEW k \in Keys, WriteSnapshot(r, k)
      PROVE  /\ \E p \in BusyRun : /\ Sets(r, p) /\ p.job = q.job /\ p.name = q.name
                                   /\ p.rows = q.rows
             /\ TouchesOwnFiles(q)
             /\ UNCHANGED <<stored, videoFiles, runs, cleaner, day, history>>
    <2>1. run' = [run EXCEPT ![r].snapshots = q.snapshots \cup {k}]
        BY <1>6, Zenon DEF WriteSnapshot
    <2>2. Sets(r, [q EXCEPT !.snapshots = q.snapshots \cup {k}])
        BY <2>1, Zenon DEF Sets
    <2>3. q.snapshots \cup {k} \in SUBSET Keys
        BY <1>4
    <2>4. PICK p \in BusyRun : p = [q EXCEPT !.snapshots = q.snapshots \cup {k}]
        BY <1>3, <2>3, SetFields
    <2>5. p.job = q.job /\ p.name = q.name /\ p.rows = q.rows
        BY <1>3, <2>3, <2>4, SetFields
    <2>6. TouchesOwnFiles(q)
        BY <1>3, <1>6, PathsAreFiles DEF WriteSnapshot, TouchesOwnFiles
    <2>7. Sets(r, p)
        BY <2>2, <2>4
    <2> QED
        BY <1>6, <2>5, <2>6, <2>7 DEF WriteSnapshot
<1>7. CASE EndFrames(r)
    <2>1. run' = [run EXCEPT ![r].at = "clips", ![r].todo = q.snapshots]
        BY <1>7, Zenon DEF EndFrames
    <2>2. \E p \in BusyRun : /\ Sets(r, p) /\ p.job = q.job /\ p.name = q.name
                             /\ p.rows = q.rows
        BY <1>1, <1>3, <1>4, <1>at, <2>1, SetAtAndTodo, Zenon DEF GoesOn
    <2> QED
        BY <1>3, <1>7, <2>2 DEF EndFrames, TouchesOwnFiles, disk
<1>8. CASE EndClips(r)
    <2>1. run' = [run EXCEPT ![r].at = "persisting", ![r].todo = q.snapshots]
        BY <1>8, Zenon DEF EndClips
    <2>2. \E p \in BusyRun : /\ Sets(r, p) /\ p.job = q.job /\ p.name = q.name
                             /\ p.rows = q.rows
        BY <1>1, <1>3, <1>4, <1>at, <2>1, SetAtAndTodo, Zenon DEF GoesOn
    <2> QED
        BY <1>3, <1>8, <2>2 DEF EndClips, TouchesOwnFiles, disk
<1>9. CASE CutClip(r)
    <2>1. PICK k \in Keys : k = First(q.todo)
        BY <1>4, <1>9, FirstIsLeast DEF CutClip
    <2>2. PICK todo \in SUBSET Keys : todo = q.todo \ {k}
        BY <1>4
    <2>3. PICK keys \in SUBSET Keys : keys = q.clips \cup {k}
        BY <1>4
    <2>4. \/ /\ Write(Clip(q.job, k), q.name)
             /\ run' = [run EXCEPT ![r].todo = todo, ![r].clips = keys]
          \/ /\ Unlink(Clip(q.job, k))
             /\ run' = [run EXCEPT ![r].todo = todo]
          \/ /\ run' = [run EXCEPT ![r].todo = todo]
             /\ files' = files
        BY <1>9, <2>1, <2>2, <2>3, Zenon DEF CutClip
    <2>5. \E p \in BusyRun : /\ Sets(r, p) /\ p.job = q.job /\ p.name = q.name
                             /\ p.rows = q.rows
        BY <1>1, <1>3, <2>4, SetTodoAndMore, Zenon DEF GoesOn
    <2>6. TouchesOwnFiles(q)
        BY <1>3, <2>4, PathsAreFiles DEF TouchesOwnFiles
    <2> QED
        BY <1>3, <1>9, <2>5, <2>6 DEF CutClip
<1> QED
    BY <1>3, <1>5, <1>6, <1>7, <1>8, <1>9 DEF Progress

\* What AddAlert adds is what is on disk.
LEMMA AddShape ==
    ASSUME TypeOK, NEW r \in Runners, NEW q \in Run, q = run[r], AddAlert(r)
    PROVE  /\ q \in BusyRun /\ q.at = "persisting"
           /\ \E p \in BusyRun, new \in SUBSET AssetRow :
                /\ Sets(r, p)
                /\ p.at = "persisting" /\ p.job = q.job /\ p.name = q.name
                /\ p.rows = q.rows \cup new
                /\ \A a \in new : /\ a.alert[1] = q.job /\ a.by = q.name
                                  /\ a.path[1] = q.job /\ Intact(a)
           /\ UNCHANGED <<stored, disk, runs, cleaner, day, history>>
<1>1. run \in [Runners -> Run] /\ day \in Nat /\ runs \in Nat
      /\ DOMAIN files \subseteq Files /\ \A f \in DOMAIN files : files[f] \in Nat
    BY DEF TypeOK
<1>2. q.at = "persisting" /\ q.todo # {}
    BY DEF AddAlert
<1>3. q \in BusyRun
    BY <1>2, RunCases DEF BusyAt
<1>4. /\ q.todo \in SUBSET Keys /\ q.rows \in SUBSET AssetRow
      /\ q.job \in Jobs /\ q.name \in Nat
    BY <1>3 DEF BusyRun
<1>5. PICK k \in Keys : k = First(q.todo)
    BY <1>2, <1>4, FirstIsLeast
<1>6. PICK todo \in SUBSET Keys : todo = q.todo \ {k}
    BY <1>4
<1>7. PICK snapshot, clip : snapshot = SnapshotMatch(q, k) /\ clip = ClipMatch(q, k)
    OBVIOUS
<1>8. CASE run' = [run EXCEPT ![r].todo = todo]
    <2>1. \E p \in BusyRun : /\ Sets(r, p) /\ p.at = q.at /\ p.job = q.job
                             /\ p.name = q.name /\ p.rows = q.rows
        BY <1>1, <1>3, <1>6, <1>8, SetTodoAndMore, Zenon DEF GoesOn
    <2>2. q.rows = q.rows \cup {} /\ {} \in SUBSET AssetRow
        OBVIOUS
    <2>3. PICK p \in BusyRun : /\ Sets(r, p) /\ p.at = q.at /\ p.job = q.job
                               /\ p.name = q.name /\ p.rows = q.rows
        BY <2>1
    <2> QED
        BY <1>2, <1>3, <2>2, <2>3 DEF AddAlert
<1>9. CASE /\ {snapshot, clip} \subseteq DOMAIN files
           /\ run' = [run EXCEPT ![r].todo = todo, ![r].rows = q.rows \cup
                    {Asset(q, k, "snapshot", snapshot), Asset(q, k, "clip", clip)}]
    <2>1. snapshot[1] = q.job /\ clip[1] = q.job
        BY <1>7 DEF SnapshotMatch, ClipMatch, Snapshot, Clip, Annotated
    <2>2. snapshot \in Files /\ clip \in Files /\ files[snapshot] \in Nat
          /\ files[clip] \in Nat
        BY <1>1, <1>9
    <2>3. PICK a \in AssetRow : a = Asset(q, k, "snapshot", snapshot)
        BY <1>1, <1>4, <2>2 DEF Asset, AssetRow
    <2>4. PICK b \in AssetRow : b = Asset(q, k, "clip", clip)
        BY <1>1, <1>4, <2>2 DEF Asset, AssetRow
    <2>5. /\ a.alert = <<q.job, k>> /\ a.by = q.name /\ a.path = snapshot
          /\ a.hash = files[snapshot]
        BY <2>3 DEF Asset
    <2>6. /\ b.alert = <<q.job, k>> /\ b.by = q.name /\ b.path = clip
          /\ b.hash = files[clip]
        BY <2>4 DEF Asset
    <2>7. \A c \in {a, b} : /\ c.alert[1] = q.job /\ c.by = q.name
                            /\ c.path[1] = q.job /\ Intact(c)
        BY <1>9, <2>1, <2>5, <2>6 DEF Intact
    <2>8. PICK rows \in SUBSET AssetRow : rows = q.rows \cup {a, b}
        BY <1>4
    <2>9. run' = [run EXCEPT ![r].todo = todo, ![r].rows = rows]
        BY <1>9, <2>3, <2>4, <2>8, Zenon
    <2>10. PICK p \in BusyRun : /\ Sets(r, p) /\ p.at = q.at /\ p.job = q.job
                                /\ p.name = q.name /\ p.rows = rows
        BY <1>1, <1>3, <1>6, <2>9, SetTodoAndMore, Zenon DEF GoesOn
    <2>11. {a, b} \in SUBSET AssetRow
        OBVIOUS
    <2> QED
        BY <1>2, <1>3, <2>7, <2>8, <2>10, <2>11 DEF AddAlert
<1>10. \/ run' = [run EXCEPT ![r].todo = todo]
       \/ /\ {snapshot, clip} \subseteq DOMAIN files
          /\ run' = [run EXCEPT ![r].todo = todo, ![r].rows = q.rows \cup
                    {Asset(q, k, "snapshot", snapshot), Asset(q, k, "clip", clip)}]
    BY <1>5, <1>6, <1>7, Zenon DEF AddAlert
<1> QED
    BY <1>8, <1>9, <1>10

-----------------------------------------------------------------------------
(* Retention: names and rows of runs. *)

\* A runner that does not run a job any more: its rows may have been committed.
LEMMA LeavingKeepsFit ==
    ASSUME TypeOK, RunsFit, NEW r \in Runners, NEW q \in Run, Sets(r, q),
           q.at \notin BusyAt, runs' = runs, doomed' = doomed,
           \A a \in assets' : a \in assets \/ (Busy(r) /\ a \in run[r].rows)
    PROVE  RunsFit'
<1>1. /\ run' \in [Runners -> Run] /\ run'[r] = q
      /\ \A s \in Runners : s # r => run'[s] = run[s]
    BY SetRun DEF TypeOK
<1>2. \A s \in Runners : Busy(s)' => s # r /\ Busy(s) /\ run'[s] = run[s]
    BY <1>1 DEF Busy
<1>3. \A s \in Runners : Busy(s)' => run'[s].name \in 1..runs' /\ Owns(run'[s])
    BY <1>2 DEF RunsFit, RunsAreNamed, RunsOwnTheirRows
<1>4. \A s, t \in Runners : Busy(s)' /\ Busy(t)' /\ s # t => run'[s].name # run'[t].name
    BY <1>2 DEF RunsFit, RunsAreNamed
<1>5. ASSUME NEW a \in assets' \cup doomed'
      PROVE  a.by <= runs' /\ \A s \in Runners : Busy(s)' => a.by # run'[s].name
    <2>1. CASE a \in assets \cup doomed
        BY <2>1, <1>2 DEF RunsFit, RunsAreNamed
    <2>2. CASE Busy(r) /\ a \in run[r].rows
        <3>1. a.by = run[r].name /\ run[r].name \in 1..runs
            BY <2>2 DEF RunsFit, RunsAreNamed, RunsOwnTheirRows, Owns
        <3>2. \A s \in Runners : Busy(s)' => run'[s].name # run[r].name
            BY <2>2, <1>2 DEF RunsFit, RunsAreNamed
        <3>3. runs \in Nat
            BY DEF TypeOK
        <3> QED
            BY <3>1, <3>2, <3>3
    <2> QED
        BY <2>1, <2>2
<1> QED
    BY <1>3, <1>4, <1>5 DEF RunsFit, RunsAreNamed, RunsOwnTheirRows

\* A run that goes on under its name.
LEMMA GoingOnKeepsFit ==
    ASSUME TypeOK, RunsFit, NEW r \in Runners, NEW q \in BusyRun, Sets(r, q),
           Busy(r), q.name = run[r].name, Owns(q),
           UNCHANGED <<runs, doomed, assets>>
    PROVE  RunsFit'
<1>1. /\ run' \in [Runners -> Run] /\ run'[r] = q
      /\ \A s \in Runners : s # r => run'[s] = run[s]
    BY SetRun, BusyRunsAreRuns DEF TypeOK
<1>2. \A s \in Runners : Busy(s)' => /\ Busy(s) /\ run'[s].name = run[s].name
                                     /\ s # r => run'[s] = run[s]
    BY <1>1 DEF Busy
<1>3. \A s \in Runners : Busy(s)' => run'[s].name \in 1..runs' /\ Owns(run'[s])
    BY <1>1, <1>2 DEF RunsFit, RunsAreNamed, RunsOwnTheirRows
<1>4. \A s, t \in Runners : Busy(s)' /\ Busy(t)' /\ s # t => run'[s].name # run'[t].name
    BY <1>2 DEF RunsFit, RunsAreNamed
<1>5. \A s \in Runners : Busy(s)' => \A a \in assets' \cup doomed' : a.by # run'[s].name
    BY <1>2 DEF RunsFit, RunsAreNamed
<1>6. \A a \in assets' \cup doomed' : a.by <= runs'
    BY DEF RunsFit, RunsAreNamed
<1> QED
    BY <1>3, <1>4, <1>5, <1>6 DEF RunsFit, RunsAreNamed, RunsOwnTheirRows

\* A run that begins has a new name.
LEMMA BeginningKeepsFit ==
    ASSUME TypeOK, RunsFit, NEW r \in Runners, NEW q \in BusyRun, Sets(r, q),
           q.name = runs + 1, q.rows = {}, runs' = runs + 1,
           UNCHANGED <<doomed, assets>>
    PROVE  RunsFit'
<1>1. /\ run' \in [Runners -> Run] /\ run'[r] = q
      /\ \A s \in Runners : s # r => run'[s] = run[s]
    BY SetRun, BusyRunsAreRuns DEF TypeOK
<1>2. runs \in Nat /\ \A a \in assets \cup doomed : a.by \in Nat
    BY DEF TypeOK, AssetRow
<1>3. \A s \in Runners : Busy(s)' => \/ s = r
                                     \/ s # r /\ Busy(s) /\ run'[s] = run[s]
    BY <1>1 DEF Busy
<1>4. \A s \in Runners : Busy(s)' /\ s # r => run'[s].name \in 1..runs /\ Owns(run'[s])
    BY <1>3 DEF RunsFit, RunsAreNamed, RunsOwnTheirRows
<1>5. Owns(q)
    BY DEF Owns
<1>6. \A s \in Runners : Busy(s)' => run'[s].name \in 1..runs' /\ Owns(run'[s])
    BY <1>1, <1>2, <1>4, <1>5
<1>7. ASSUME NEW s \in Runners, NEW t \in Runners, Busy(s)', Busy(t)', s # t
      PROVE  run'[s].name # run'[t].name
    <2>1. CASE s = r
        BY <2>1, <1>1, <1>2, <1>4, <1>7
    <2>2. CASE t = r
        BY <2>2, <1>1, <1>2, <1>4, <1>7
    <2>3. CASE s # r /\ t # r
        BY <2>3, <1>3, <1>7 DEF RunsFit, RunsAreNamed
    <2> QED
        BY <2>1, <2>2, <2>3
<1>8. \A a \in assets' \cup doomed' : a.by <= runs /\ a.by <= runs' /\ a.by # runs + 1
    BY <1>2 DEF RunsFit, RunsAreNamed
<1>9. \A s \in Runners : Busy(s)' => \A a \in assets' \cup doomed' : a.by # run'[s].name
    BY <1>1, <1>3, <1>8 DEF RunsFit, RunsAreNamed
<1> QED
    BY <1>6, <1>7, <1>8, <1>9 DEF RunsFit, RunsAreNamed, RunsOwnTheirRows

\* A step of somebody else, who may delete rows or select them.
LEMMA OthersKeepFit ==
    ASSUME RunsFit, UNCHANGED <<run, runs>>, assets' \subseteq assets,
           doomed' \subseteq doomed \cup assets
    PROVE  RunsFit'
BY DEF RunsFit, RunsAreNamed, RunsOwnTheirRows, Busy, Owns

-----------------------------------------------------------------------------
(* Retention: types. *)

\* Files stay well typed when one is written or unlinked.
FilesTyped == DOMAIN files \subseteq Files /\ \A f \in DOMAIN files : files[f] \in 1..runs

\* A written file has the name of a run; an unlinked one is gone.
LEMMA TouchingKeepsFiles ==
    ASSUME FilesTyped, runs' = runs, NEW q \in BusyRun, q.name \in 1..runs,
           TouchesOwnFiles(q)
    PROVE  FilesTyped'
<1>1. ASSUME NEW f \in Files, Write(f, q.name)
      PROVE  FilesTyped'
    <2>1. files' = [g \in DOMAIN files \cup {f} |-> IF g = f THEN q.name ELSE files[g]]
        BY <1>1 DEF Write
    <2> QED
        BY <2>1 DEF FilesTyped
<1>2. ASSUME NEW f \in Files, Unlink(f)
      PROVE  FilesTyped'
    <2>1. files' = [g \in DOMAIN files \ {f} |-> files[g]]
        BY <1>2 DEF Unlink
    <2> QED
        BY <2>1 DEF FilesTyped
<1>3. CASE files' = files
    BY <1>3 DEF FilesTyped
<1> QED
    BY <1>1, <1>2, <1>3 DEF TouchesOwnFiles

\* A cleanup is idle or unlinking, and counts down what is left.
LEMMA CleanerCases ==
    ASSUME NEW c \in Cleaner
    PROVE  /\ c.at \in {"idle", "unlinking"}
           /\ c.at = "unlinking" =>
                /\ c.videos \in SUBSET Jobs /\ c.assets \in SUBSET AssetRow
                /\ c.videosLeft \in SUBSET Jobs /\ c.pathsLeft \in SUBSET Files
                /\ \A left \in SUBSET Jobs :
                    /\ [c EXCEPT !.videosLeft = left] \in Cleaner
                    /\ [c EXCEPT !.videosLeft = left].at = "unlinking"
                    /\ [c EXCEPT !.videosLeft = left].videos = c.videos
                    /\ [c EXCEPT !.videosLeft = left].assets = c.assets
                    /\ [c EXCEPT !.videosLeft = left].pathsLeft = c.pathsLeft
                    /\ [c EXCEPT !.videosLeft = left].videosLeft = left
                /\ \A left \in SUBSET Files :
                    /\ [c EXCEPT !.pathsLeft = left] \in Cleaner
                    /\ [c EXCEPT !.pathsLeft = left].at = "unlinking"
                    /\ [c EXCEPT !.pathsLeft = left].videos = c.videos
                    /\ [c EXCEPT !.pathsLeft = left].assets = c.assets
                    /\ [c EXCEPT !.pathsLeft = left].pathsLeft = left
                    /\ [c EXCEPT !.pathsLeft = left].videosLeft = c.videosLeft
BY DEF Cleaner

\* Both outcomes of a cleanup are states of it.
LEMMA StoppedIsCleaner ==
    \A outcome \in {"done", "failed"} :
        Stopped(outcome) \in Cleaner /\ Stopped(outcome).at = "idle"
BY DEF Stopped, Cleaner

-----------------------------------------------------------------------------
(* Retention: every step keeps types, names and rows of runs. *)

\* Nobody runs anything.
LEMMA RunsInitially == Init => RunsInv
<1> SUFFICES ASSUME Init PROVE RunsInv
    OBVIOUS
<1>1. run \in [Runners -> Run] /\ \A r \in Runners : run[r] = Idle
    BY BusyRunsAreRuns DEF Init
<1>2. \A r \in Runners : ~Busy(r)
    BY <1>1 DEF Busy, BusyAt, Idle
<1>3. status \in [Jobs -> Statuses] /\ born \in [Jobs -> Nat] /\ DOMAIN files = {}
    BY DEF Init, Statuses
<1>4. cleaner \in Cleaner
    BY StoppedIsCleaner DEF Init
<1>5. TypeOK
    BY <1>1, <1>3, <1>4 DEF Init, TypeOK
<1>6. assets \cup doomed = {}
    BY DEF Init
<1> QED
    BY <1>2, <1>5, <1>6 DEF RunsInv, RunsFit, RunsAreNamed, RunsOwnTheirRows

\* A new job is queued.
LEMMA UploadKeepsRuns ==
    ASSUME RunsInv, NEW j \in Jobs, Upload(j)
    PROVE  RunsInv'
<1>1. "queued" \in Statuses
    BY DEF Statuses
<1>2. status' \in [Jobs -> Statuses] /\ born' \in [Jobs -> Nat]
    BY <1>1 DEF RunsInv, TypeOK, Upload
<1>3. TypeOK'
    BY <1>2 DEF RunsInv, TypeOK, Upload, history
<1>4. RunsFit'
    BY OthersKeepFit DEF RunsInv, Upload, history
<1> QED
    BY <1>3, <1>4 DEF RunsInv

\* A runner takes a job.
LEMMA PickKeepsRuns ==
    ASSUME RunsInv, NEW r \in Runners, NEW j \in Jobs, Pick(r, j)
    PROVE  RunsInv'
<1>1. PICK q \in Run : q = [at |-> "picked", job |-> j]
    BY BusyRunsAreRuns
<1>2. Sets(r, q) /\ q.at \notin BusyAt
    BY <1>1 DEF Pick, Sets, BusyAt
<1>3. run' \in [Runners -> Run]
    BY <1>2, SetRun DEF RunsInv, TypeOK
<1>4. met' \subseteq Jobs
    BY DEF Pick, RunsInv, TypeOK
<1>5. TypeOK'
    BY <1>3, <1>4 DEF RunsInv, TypeOK, Pick, stored, disk
<1>6. RunsFit'
    BY <1>2, LeavingKeepsFit DEF RunsInv, Pick, stored
<1> QED
    BY <1>5, <1>6 DEF RunsInv

\* A run begins, under a new name.
LEMMA BeginKeepsRuns ==
    ASSUME RunsInv, NEW r \in Runners, Begin(r)
    PROVE  RunsInv'
<1>1. run[r] \in Run /\ runs \in Nat
    BY DEF RunsInv, TypeOK
<1>2. run[r].job \in Jobs
    <2>1. PICK q \in Run : q = run[r] /\ q.at = "picked"
        BY <1>1 DEF Begin
    <2>2. q \in [at : {"picked"}, job : Jobs]
        BY <2>1, RunCases
    <2> QED
        BY <2>1, <2>2
<1>3. PICK q \in BusyRun : q = [at |-> "opening", job |-> run[r].job, name |-> runs + 1,
            snapshots |-> {}, clips |-> {}, todo |-> {}, rows |-> {}]
    <2>1. PICK j \in Jobs, n \in Nat : j = run[r].job /\ n = runs + 1
        BY <1>1, <1>2
    <2>2. [at |-> "opening", job |-> j, name |-> n, snapshots |-> {}, clips |-> {},
           todo |-> {}, rows |-> {}] \in BusyRun
        BY DEF BusyRun, BusyAt
    <2> QED
        BY <2>1, <2>2
<1>4. Sets(r, q) /\ q.name = runs + 1 /\ q.rows = {}
    BY <1>3 DEF Begin, Sets
<1>5. run' \in [Runners -> Run]
    BY <1>4, SetRun, BusyRunsAreRuns DEF RunsInv, TypeOK
<1>6. status' \in [Jobs -> Statuses]
    BY DEF Begin, RunsInv, TypeOK, Statuses
<1>7. runs' = runs + 1 /\ UNCHANGED <<doomed, assets>>
    BY DEF Begin, history
<1>8. \A f \in DOMAIN files : files[f] \in 1..runs'
    BY <1>1, <1>7 DEF RunsInv, TypeOK
<1>9. TypeOK'
    BY <1>1, <1>5, <1>6, <1>7, <1>8 DEF RunsInv, TypeOK, Begin, disk, history
<1>10. RunsFit'
    BY <1>4, <1>7, BeginningKeepsFit DEF RunsInv
<1> QED
    BY <1>9, <1>10 DEF RunsInv

\* A run writes its files.
LEMMA ProgressKeepsRuns ==
    ASSUME RunsInv, NEW r \in Runners, Progress(r)
    PROVE  RunsInv'
<1>1. PICK q \in Run : q = run[r]
    BY DEF RunsInv, TypeOK
<1>2. /\ q \in BusyRun /\ q.at # "persisting" /\ TouchesOwnFiles(q)
      /\ UNCHANGED <<stored, videoFiles, runs, cleaner, day, history>>
    BY <1>1, ProgressShape DEF RunsInv
<1>3. PICK p \in BusyRun : /\ Sets(r, p)
                           /\ p.job = q.job /\ p.name = q.name /\ p.rows = q.rows
    BY <1>1, ProgressShape DEF RunsInv
<1>4. Busy(r) /\ q.name \in 1..runs /\ Owns(q)
    <2>1. Busy(r)
        BY <1>1, <1>2 DEF Busy, BusyRun
    <2> QED
        BY <1>1, <2>1 DEF RunsInv, RunsFit, RunsAreNamed, RunsOwnTheirRows
<1>5. FilesTyped'
    BY <1>2, <1>4, TouchingKeepsFiles DEF RunsInv, TypeOK, FilesTyped
<1>6. run' \in [Runners -> Run]
    BY <1>3, SetRun, BusyRunsAreRuns DEF RunsInv, TypeOK
<1>7. TypeOK'
    BY <1>2, <1>5, <1>6 DEF RunsInv, TypeOK, FilesTyped, stored, history
<1>8. Owns(p)
    BY <1>2, <1>3, <1>4 DEF Owns
<1>9. RunsFit'
    BY <1>1, <1>2, <1>3, <1>4, <1>8, GoingOnKeepsFit DEF RunsInv, stored, history
<1> QED
    BY <1>7, <1>9 DEF RunsInv

\* A run adds the rows of an alert.
LEMMA AddAlertKeepsRuns ==
    ASSUME RunsInv, NEW r \in Runners, AddAlert(r)
    PROVE  RunsInv'
<1>1. PICK q \in Run : q = run[r]
    BY DEF RunsInv, TypeOK
<1>2. q \in BusyRun /\ UNCHANGED <<stored, disk, runs, cleaner, day, history>>
    BY <1>1, AddShape DEF RunsInv
<1>3. PICK p \in BusyRun, new \in SUBSET AssetRow :
        /\ Sets(r, p) /\ p.at = "persisting" /\ p.job = q.job /\ p.name = q.name
        /\ p.rows = q.rows \cup new
        /\ \A a \in new : a.alert[1] = q.job /\ a.by = q.name /\ a.path[1] = q.job
    BY <1>1, AddShape DEF RunsInv
<1>4. Busy(r) /\ Owns(q)
    <2>1. Busy(r)
        BY <1>1, <1>2 DEF Busy, BusyRun
    <2> QED
        BY <1>1, <2>1 DEF RunsInv, RunsFit, RunsOwnTheirRows
<1>5. run' \in [Runners -> Run]
    BY <1>3, SetRun, BusyRunsAreRuns DEF RunsInv, TypeOK
<1>6. TypeOK'
    BY <1>2, <1>5 DEF RunsInv, TypeOK, stored, disk, history
<1>7. Owns(p)
    BY <1>3, <1>4 DEF Owns
<1>8. RunsFit'
    BY <1>1, <1>2, <1>3, <1>4, <1>7, GoingOnKeepsFit DEF RunsInv, stored, history
<1> QED
    BY <1>6, <1>8 DEF RunsInv

\* A run ends, or there is none to begin.
LEMMA EndKeepsRuns ==
    ASSUME RunsInv, NEW r \in Runners, CommitRun(r) \/ Fail(r) \/ BeginWithoutVideo(r)
    PROVE  RunsInv'
<1>1. run[r] \in Run /\ Idle \in Run /\ Idle.at \notin BusyAt
    BY BusyRunsAreRuns DEF RunsInv, TypeOK, Idle, BusyAt
<1>2. Sets(r, Idle)
    BY DEF Sets, CommitRun, Fail, BeginWithoutVideo
<1>3. run' \in [Runners -> Run]
    BY <1>1, <1>2, SetRun DEF RunsInv, TypeOK
<1>4. CASE CommitRun(r)
    <2>1. Busy(r) /\ run[r] \in BusyRun
        BY <1>1, <1>4, RunCases DEF CommitRun, Busy, BusyAt
    <2>2. run[r].rows \in SUBSET AssetRow /\ run[r].job \in Jobs
        BY <2>1 DEF BusyRun
    <2>3. status' \in [Jobs -> Statuses] /\ assets' \subseteq AssetRow
        BY <1>4, <2>2 DEF CommitRun, RunsInv, TypeOK, Statuses
    <2>4. \A a \in AssetRow : a.alert \in Jobs \X Keys
        BY DEF AssetRow
    <2>5. alerts' \subseteq Jobs \X Keys
        BY <1>4, <2>2, <2>4 DEF CommitRun, RunsInv, TypeOK
    <2>6. TypeOK'
        BY <1>3, <1>4, <2>3, <2>5 DEF CommitRun, RunsInv, TypeOK, disk, history
    <2>7. \A a \in assets' : a \in assets \/ (Busy(r) /\ a \in run[r].rows)
        BY <1>4, <2>1 DEF CommitRun
    <2>8. RunsFit'
        BY <1>1, <1>2, <1>4, <2>7, LeavingKeepsFit DEF RunsInv, CommitRun, history
    <2> QED
        BY <2>6, <2>8 DEF RunsInv
<1>5. CASE Fail(r)
    <2>1. status' \in [Jobs -> Statuses]
        BY <1>5 DEF Fail, RunsInv, TypeOK, Statuses
    <2>2. TypeOK'
        BY <1>3, <1>5, <2>1 DEF Fail, RunsInv, TypeOK, disk, history
    <2>3. RunsFit'
        BY <1>1, <1>2, <1>5, LeavingKeepsFit DEF RunsInv, Fail, history
    <2> QED
        BY <2>2, <2>3 DEF RunsInv
<1>6. CASE BeginWithoutVideo(r)
    <2>1. TypeOK'
        BY <1>3, <1>6 DEF BeginWithoutVideo, RunsInv, TypeOK, stored, disk, history
    <2>2. RunsFit'
        BY <1>1, <1>2, <1>6, LeavingKeepsFit DEF RunsInv, BeginWithoutVideo, stored, history
    <2> QED
        BY <2>1, <2>2 DEF RunsInv
<1> QED
    BY <1>4, <1>5, <1>6

\* The cleanup selects rows, and deletes them.
LEMMA CleanupKeepsRuns ==
    ASSUME RunsInv, Cleanup
    PROVE  RunsInv'
<1>1. cleaner \in Cleaner
    BY DEF RunsInv, TypeOK
<1>2. CASE SelectExpired
    <2>1. cleaner' \in Cleaner
        <3>1. \A a \in AssetRow : a.path \in Files
            BY DEF AssetRow
        <3>2. PICK videos \in SUBSET Jobs : videos = {j \in videoRows : Expired(born[j], RawDays)}
            BY DEF RunsInv, TypeOK
        <3>3. PICK old \in SUBSET AssetRow : old = {a \in assets : Expired(a.born, EvidenceDays)}
            BY DEF RunsInv, TypeOK
        <3>4. PICK paths \in SUBSET Files : paths = {a.path : a \in old}
            BY <3>1
        <3>5. cleaner' = [at |-> "unlinking", videos |-> videos, assets |-> old,
                          videosLeft |-> videos, pathsLeft |-> paths]
            BY <1>2, <3>2, <3>3, <3>4, Zenon DEF SelectExpired
        <3> QED
            BY <3>5 DEF Cleaner
    <2>2. doomed' \subseteq doomed \cup assets
        BY <1>2 DEF SelectExpired
    <2>3. TypeOK'
        BY <1>2, <2>1, <2>2 DEF SelectExpired, RunsInv, TypeOK, stored, disk
    <2>4. RunsFit'
        BY <1>2, <2>2, OthersKeepFit DEF RunsInv, SelectExpired, stored
    <2> QED
        BY <2>3, <2>4 DEF RunsInv
<1>3. ASSUME NEW j \in Jobs, UnlinkVideo(j)
      PROVE  RunsInv'
    <2>1. cleaner' \in Cleaner /\ videoFiles' \subseteq Jobs
        <3>1. PICK left \in SUBSET Jobs : left = cleaner.videosLeft \ {j}
            BY <1>1, <1>3, CleanerCases DEF UnlinkVideo
        <3>2. cleaner' = [cleaner EXCEPT !.videosLeft = left]
            BY <1>3, <3>1 DEF UnlinkVideo
        <3>3. videoFiles' \subseteq Jobs
            BY <1>3 DEF UnlinkVideo, RunsInv, TypeOK
        <3> QED
            BY <1>1, <1>3, <3>2, <3>3, CleanerCases DEF UnlinkVideo
    <2>2. TypeOK'
        BY <1>3, <2>1 DEF UnlinkVideo, RunsInv, TypeOK, stored, history
    <2>3. RunsFit'
        BY <1>3, OthersKeepFit DEF RunsInv, UnlinkVideo, stored, history
    <2> QED
        BY <2>2, <2>3 DEF RunsInv
<1>4. ASSUME NEW path \in Files, UnlinkAsset(path)
      PROVE  RunsInv'
    <2>1. cleaner' \in Cleaner
        <3>1. PICK left \in SUBSET Files : left = cleaner.pathsLeft \ {path}
            BY <1>1, <1>4, CleanerCases DEF UnlinkAsset
        <3>2. cleaner' = [cleaner EXCEPT !.pathsLeft = left]
            BY <1>4, <3>1 DEF UnlinkAsset
        <3> QED
            BY <1>1, <1>4, <3>2, CleanerCases DEF UnlinkAsset
    <2>2. FilesTyped'
        BY <1>4 DEF UnlinkAsset, Unlink, RunsInv, TypeOK, FilesTyped
    <2>3. TypeOK'
        BY <1>4, <2>1, <2>2 DEF UnlinkAsset, FilesTyped, RunsInv, TypeOK, stored, history
    <2>4. RunsFit'
        BY <1>4, OthersKeepFit DEF RunsInv, UnlinkAsset, stored, history
    <2> QED
        BY <2>3, <2>4 DEF RunsInv
<1>5. CASE CommitCleanup
    <2>1. cleaner' \in Cleaner
        BY <1>5, StoppedIsCleaner DEF CommitCleanup, Stop
    <2>2. videoRows' \subseteq Jobs /\ assets' \subseteq assets
        BY <1>5 DEF CommitCleanup, RemainingAssets, RunsInv, TypeOK
    <2>3. TypeOK'
        BY <1>5, <2>1, <2>2 DEF CommitCleanup, RunsInv, TypeOK, disk, history
    <2>4. RunsFit'
        BY <1>5, <2>2, OthersKeepFit DEF RunsInv, CommitCleanup, history
    <2> QED
        BY <2>3, <2>4 DEF RunsInv
<1>6. CASE KillCleanup
    <2>1. cleaner' \in Cleaner
        BY <1>6, StoppedIsCleaner DEF KillCleanup, Stop
    <2>2. TypeOK'
        BY <1>6, <2>1 DEF KillCleanup, RunsInv, TypeOK, stored, disk, history
    <2>3. RunsFit'
        BY <1>6, OthersKeepFit DEF RunsInv, KillCleanup, stored, history
    <2> QED
        BY <2>2, <2>3 DEF RunsInv
<1> QED
    BY <1>2, <1>3, <1>4, <1>5, <1>6 DEF Cleanup

\* A day passes.
LEMMA DayKeepsRuns ==
    ASSUME RunsInv, PassDay
    PROVE  RunsInv'
<1>1. TypeOK'
    BY DEF PassDay, RunsInv, TypeOK, stored, disk, history
<1>2. RunsFit'
    BY OthersKeepFit DEF RunsInv, PassDay, stored, history
<1> QED
    BY <1>1, <1>2 DEF RunsInv

\* The steps of a run, grouped.
LEMMA RunStepIsProgress ==
    ASSUME NEW r \in Runners, RunStep(r)
    PROVE  \/ \E j \in Jobs : Pick(r, j)
           \/ Begin(r) \/ Progress(r) \/ AddAlert(r)
           \/ CommitRun(r) \/ Fail(r) \/ BeginWithoutVideo(r)
BY DEF RunStep, Progress

\* Nothing happens.
LEMMA StutterKeepsRuns ==
    ASSUME RunsInv, UNCHANGED vars
    PROVE  RunsInv'
<1>1. TypeOK'
    BY DEF RunsInv, TypeOK, vars, stored, disk, history
<1>2. RunsFit'
    BY OthersKeepFit DEF RunsInv, vars, stored, history
<1> QED
    BY <1>1, <1>2 DEF RunsInv

\* Every step.
LEMMA NextKeepsRuns == RunsInv /\ [Next]_vars => RunsInv'
<1> SUFFICES ASSUME RunsInv, [Next]_vars PROVE RunsInv'
    OBVIOUS
<1>1. ASSUME NEW r \in Runners, RunStep(r) PROVE RunsInv'
    BY <1>1, RunStepIsProgress, PickKeepsRuns, BeginKeepsRuns, ProgressKeepsRuns,
       AddAlertKeepsRuns, EndKeepsRuns
<1> QED
    BY <1>1, UploadKeepsRuns, CleanupKeepsRuns, DayKeepsRuns, StutterKeepsRuns DEF Next

-----------------------------------------------------------------------------
(* Retention: rows go with their files. *)

\* A new row of a run is nobody else's.
LEMMA NewRowsAreNotDoomed ==
    ASSUME RunsInv, NEW r \in Runners, Busy(r), NEW a \in run[r].rows
    PROVE  a \notin assets \cup doomed
BY DEF RunsInv, RunsFit, RunsAreNamed, RunsOwnTheirRows, Owns

\* What CleanupInv says of the cleanup.
CleanupFits ==
    LeftoversHaveExpired /\ SelectionCoversLeftovers /\ RowsGoWithFiles

\* A step that leaves the rows and files of videos alone, and adds only rows that
\* no cleanup has selected.
LEMMA RunsKeepCleanup ==
    ASSUME CleanupInv, UNCHANGED <<born, videoRows, videoFiles, cleaner, day, doomed>>,
           \A j \in Jobs : status[j] # "absent" => status'[j] # "absent",
           \A a \in assets' : a \in assets \/ a \notin doomed
    PROVE  CleanupFits'
<1>1. videoRows \subseteq Jobs
    BY DEF CleanupInv, RunsInv, TypeOK
<1>2. LeftoversHaveExpired'
    BY <1>1 DEF CleanupInv, LeftoversHaveExpired, Expired
<1>3. SelectionCoversLeftovers'
    BY DEF CleanupInv, SelectionCoversLeftovers, Expired
<1>4. RowsGoWithFiles'
    BY DEF CleanupInv, RowsGoWithFiles, Stopped
<1> QED
    BY <1>2, <1>3, <1>4 DEF CleanupFits

\* Runs leave videos alone and commit only their own rows.
LEMMA RunStepKeepsCleanup ==
    ASSUME CleanupInv, NEW r \in Runners, RunStep(r)
    PROVE  CleanupFits'
<1>1. RunsInv /\ status \in [Jobs -> Statuses] /\ run[r] \in Run
    BY DEF CleanupInv, RunsInv, TypeOK
<1>2. ASSUME NEW j \in Jobs, Pick(r, j) PROVE CleanupFits'
    BY <1>2, RunsKeepCleanup DEF Pick, stored, disk
<1>3. CASE Begin(r)
    <2>1. \A j \in Jobs : status[j] # "absent" => status'[j] # "absent"
        BY <1>1, <1>3 DEF Begin
    <2> QED
        BY <1>3, <2>1, RunsKeepCleanup DEF Begin, disk, history
<1>4. CASE Progress(r)
    <2>1. UNCHANGED <<stored, videoFiles, runs, cleaner, day, history>>
        BY <1>1, <1>4, ProgressShape DEF RunsInv
    <2> QED
        BY <2>1, RunsKeepCleanup DEF stored, history
<1>5. CASE AddAlert(r)
    BY <1>5, RunsKeepCleanup DEF AddAlert, stored, disk, history
<1>6. CASE CommitRun(r)
    <2>1. \A j \in Jobs : status[j] # "absent" => status'[j] # "absent"
        BY <1>1, <1>6 DEF CommitRun
    <2>2. Busy(r)
        BY <1>6 DEF CommitRun, Busy, BusyAt
    <2>3. \A a \in assets' : a \in assets \/ a \notin doomed
        BY <1>1, <1>6, <2>2, NewRowsAreNotDoomed DEF CommitRun
    <2> QED
        BY <1>6, <2>1, <2>3, RunsKeepCleanup DEF CommitRun, disk, history
<1>7. CASE Fail(r)
    <2>1. \A j \in Jobs : status[j] # "absent" => status'[j] # "absent"
        BY <1>1, <1>7 DEF Fail
    <2> QED
        BY <1>7, <2>1, RunsKeepCleanup DEF Fail, disk, history
<1>8. CASE BeginWithoutVideo(r)
    BY <1>8, RunsKeepCleanup DEF BeginWithoutVideo, stored, disk, history
<1> QED
    BY <1>2, <1>3, <1>4, <1>5, <1>6, <1>7, <1>8, RunStepIsProgress

\* A new video has its file, and was not there before.
LEMMA UploadKeepsCleanup ==
    ASSUME CleanupInv, NEW j \in Jobs, Upload(j)
    PROVE  CleanupFits'
<1>1. /\ status \in [Jobs -> Statuses] /\ born \in [Jobs -> Nat]
      /\ videoRows \subseteq Jobs /\ status[j] = "absent" /\ j \notin videoRows
    BY DEF CleanupInv, RunsInv, TypeOK, LeftoversHaveExpired, Upload
<1>2. /\ \A i \in Jobs : i # j => status'[i] = status[i] /\ born'[i] = born[i]
      /\ status'[j] = "queued"
      /\ videoRows' = videoRows \cup {j} /\ videoFiles' = videoFiles \cup {j}
      /\ UNCHANGED <<assets, cleaner, day, doomed>>
    BY <1>1 DEF Upload, history
<1>3. videoRows' \ videoFiles' \subseteq videoRows \ videoFiles
    BY <1>2
<1>4. LeftoversHaveExpired'
    BY <1>1, <1>2, <1>3 DEF CleanupInv, LeftoversHaveExpired, Expired
<1>5. SelectionCoversLeftovers'
    <2> SUFFICES ASSUME cleaner.at = "unlinking" PROVE SelectionCoversLeftovers'
        BY <1>2 DEF SelectionCoversLeftovers
    <2>1. \A i \in cleaner.videos : i # j /\ i \in Jobs
        BY <1>1 DEF CleanupInv, SelectionCoversLeftovers
    <2> QED
        BY <1>2, <1>3, <2>1 DEF CleanupInv, SelectionCoversLeftovers, Expired
<1>6. RowsGoWithFiles'
    BY <1>2, <1>3 DEF CleanupInv, RowsGoWithFiles, Stopped
<1> QED
    BY <1>4, <1>5, <1>6 DEF CleanupFits

\* What was left by earlier cleanups is old, and selected again.
LEMMA SelectKeepsCleanup ==
    ASSUME CleanupInv, SelectExpired
    PROVE  CleanupFits'
<1>1. PICK videos : videos = {j \in videoRows : Expired(born[j], RawDays)}
    OBVIOUS
<1>2. PICK old : old = {a \in assets : Expired(a.born, EvidenceDays)}
    OBVIOUS
<1>3. /\ cleaner' = [at |-> "unlinking", videos |-> videos, assets |-> old,
                     videosLeft |-> videos, pathsLeft |-> {a.path : a \in old}]
      /\ doomed' = doomed \cup old
      /\ UNCHANGED <<stored, disk, run, runs, day, met>>
    BY <1>1, <1>2, Zenon DEF SelectExpired
<1>4. /\ cleaner'.at = "unlinking" /\ cleaner'.videos = videos /\ cleaner'.assets = old
      /\ cleaner'.videosLeft = videos /\ cleaner'.pathsLeft = {a.path : a \in old}
    BY <1>3
<1>5. UNCHANGED <<status, born, videoRows, videoFiles, assets, day>>
    BY <1>3 DEF stored, disk
<1>6. LeftoversHaveExpired'
    BY <1>2, <1>3, <1>5 DEF CleanupInv, LeftoversHaveExpired, Expired
<1>7. SelectionCoversLeftovers'
    <2>1. /\ \A j \in videos : j \in videoRows /\ Expired(born[j], RawDays)
          /\ videoRows \ videoFiles \subseteq videos
        BY <1>1 DEF CleanupInv, LeftoversHaveExpired
    <2>2. assets \cap (doomed \cup old) \subseteq old
        BY <1>2 DEF CleanupInv, LeftoversHaveExpired
    <2>3. (\A path \in cleaner.pathsLeft : \E a \in cleaner.assets : a.path = path)'
        BY <1>4
    <2> QED
        BY <1>3, <1>4, <1>5, <2>1, <2>2, <2>3 DEF SelectionCoversLeftovers, Expired
<1>8. RowsGoWithFiles'
    BY <1>4 DEF RowsGoWithFiles, Stopped
<1> QED
    BY <1>6, <1>7, <1>8 DEF CleanupFits

\* Only files of selected rows are unlinked.
LEMMA UnlinkKeepsCleanup ==
    ASSUME CleanupInv,
           (\E j \in Jobs : UnlinkVideo(j)) \/ (\E path \in Files : UnlinkAsset(path))
    PROVE  CleanupFits'
<1>1. PICK c \in Cleaner : c = cleaner /\ c.at = "unlinking"
    BY DEF CleanupInv, RunsInv, TypeOK, UnlinkVideo, UnlinkAsset
<1>2. PICK d \in Cleaner : /\ d = cleaner' /\ d.at = "unlinking"
                           /\ d.videos = c.videos /\ d.assets = c.assets
                           /\ d.videosLeft \subseteq c.videosLeft
                           /\ d.pathsLeft \subseteq c.pathsLeft
    <2>1. ASSUME NEW j \in Jobs, UnlinkVideo(j)
          PROVE  \E d \in Cleaner : /\ d = cleaner' /\ d.at = "unlinking"
                                    /\ d.videos = c.videos /\ d.assets = c.assets
                                    /\ d.videosLeft \subseteq c.videosLeft
                                    /\ d.pathsLeft \subseteq c.pathsLeft
        <3>1. PICK left \in SUBSET Jobs : left = c.videosLeft \ {j}
            BY <1>1, CleanerCases
        <3>2. cleaner' = [c EXCEPT !.videosLeft = left]
            BY <1>1, <2>1, <3>1 DEF UnlinkVideo
        <3>3. PICK d : d = [c EXCEPT !.videosLeft = left]
            OBVIOUS
        <3>4. d \in Cleaner /\ d.at = "unlinking" /\ d.videos = c.videos
              /\ d.assets = c.assets /\ d.videosLeft = left /\ d.pathsLeft = c.pathsLeft
            BY <1>1, <3>1, <3>3, CleanerCases
        <3>5. d = cleaner'
            BY <3>2, <3>3, Zenon
        <3>6. d.videosLeft \subseteq c.videosLeft /\ d.pathsLeft \subseteq c.pathsLeft
            BY <3>1, <3>4
        <3> QED
            BY <3>5, <3>6, <3>4
    <2>2. ASSUME NEW path \in Files, UnlinkAsset(path)
          PROVE  \E d \in Cleaner : /\ d = cleaner' /\ d.at = "unlinking"
                                    /\ d.videos = c.videos /\ d.assets = c.assets
                                    /\ d.videosLeft \subseteq c.videosLeft
                                    /\ d.pathsLeft \subseteq c.pathsLeft
        <3>1. PICK left \in SUBSET Files : left = c.pathsLeft \ {path}
            BY <1>1, CleanerCases
        <3>2. cleaner' = [c EXCEPT !.pathsLeft = left]
            BY <1>1, <2>2, <3>1 DEF UnlinkAsset
        <3>3. PICK d : d = [c EXCEPT !.pathsLeft = left]
            OBVIOUS
        <3>4. d \in Cleaner /\ d.at = "unlinking" /\ d.videos = c.videos
              /\ d.assets = c.assets /\ d.pathsLeft = left /\ d.videosLeft = c.videosLeft
            BY <1>1, <3>1, <3>3, CleanerCases
        <3>5. d = cleaner'
            BY <3>2, <3>3, Zenon
        <3>6. d.videosLeft \subseteq c.videosLeft /\ d.pathsLeft \subseteq c.pathsLeft
            BY <3>1, <3>4
        <3> QED
            BY <3>5, <3>6, <3>4
    <2> QED
        BY <2>1, <2>2
<1>3. UNCHANGED <<status, born, videoRows, assets, day, doomed>>
    BY DEF UnlinkVideo, UnlinkAsset, stored, history
<1>4. \A j \in videoFiles \ videoFiles' : j \in c.videosLeft
    BY <1>1 DEF UnlinkVideo, UnlinkAsset
<1>5. /\ c.videosLeft \subseteq c.videos
      /\ \A j \in c.videos : Expired(born[j], RawDays)
      /\ videoRows \ videoFiles \subseteq c.videos
    BY <1>1 DEF CleanupInv, SelectionCoversLeftovers
<1>6. videoRows' \ videoFiles' \subseteq c.videos
    BY <1>3, <1>4, <1>5
<1>7. LeftoversHaveExpired'
    BY <1>3, <1>5, <1>6 DEF CleanupInv, LeftoversHaveExpired, Expired
<1>8. SelectionCoversLeftovers'
    BY <1>1, <1>2, <1>3, <1>5, <1>6 DEF CleanupInv, SelectionCoversLeftovers, Expired
<1>9. RowsGoWithFiles'
    BY <1>2 DEF RowsGoWithFiles, Stopped
<1> QED
    BY <1>7, <1>8, <1>9 DEF CleanupFits

\* A commit deletes all selected rows, among them all that have no file.
LEMMA CommitKeepsCleanup ==
    ASSUME CleanupInv, CommitCleanup
    PROVE  CleanupFits'
<1>1. /\ UNCHANGED <<status, born, videoFiles, day, doomed>>
      /\ videoRows' \subseteq videoRows /\ assets' \subseteq assets
      /\ cleaner'.at = "idle" /\ cleaner.at = "unlinking"
    BY DEF CommitCleanup, Stop, Stopped, RemainingAssets, disk, history
<1>2. LeftoversHaveExpired' /\ SelectionCoversLeftovers'
    BY <1>1 DEF CleanupInv, LeftoversHaveExpired, SelectionCoversLeftovers, Expired
<1>3. RowsGoWithFiles'
    <2> SUFFICES ASSUME cleaner' = Stopped("done")
                 PROVE  videoRows' \subseteq videoFiles' /\ assets' \cap doomed' = {}
        BY DEF RowsGoWithFiles, Stopped
    <2>1. videoRows' = videoRows \ cleaner.videos /\ assets' = assets \ cleaner.assets
        BY DEF CommitCleanup, Stop, Stopped, RemainingAssets
    <2> QED
        BY <1>1, <2>1 DEF CleanupInv, SelectionCoversLeftovers
<1> QED
    BY <1>2, <1>3 DEF CleanupFits

\* A cleanup that is killed promises nothing.
LEMMA KillKeepsCleanup ==
    ASSUME CleanupInv, KillCleanup
    PROVE  CleanupFits'
<1>1. /\ UNCHANGED <<status, born, videoRows, videoFiles, assets, day, doomed>>
      /\ cleaner' = [at |-> "idle", outcome |-> "failed"]
    BY DEF KillCleanup, Stop, Stopped, stored, disk, history
<1>2. LeftoversHaveExpired' /\ SelectionCoversLeftovers'
    BY <1>1 DEF CleanupInv, LeftoversHaveExpired, SelectionCoversLeftovers, Expired
<1>3. RowsGoWithFiles'
    BY <1>1 DEF RowsGoWithFiles, Stopped
<1> QED
    BY <1>2, <1>3 DEF CleanupFits

\* What has expired stays so.
LEMMA DayKeepsCleanup ==
    ASSUME CleanupInv, PassDay
    PROVE  CleanupFits'
<1>1. /\ born \in [Jobs -> Nat] /\ videoRows \subseteq Jobs /\ day \in Nat
      /\ \A a \in doomed : a.born \in Nat
    BY DEF CleanupInv, RunsInv, TypeOK, AssetRow
<1>2. /\ UNCHANGED <<status, born, videoRows, videoFiles, assets, cleaner, doomed>>
      /\ day' = day + 1
    BY DEF PassDay, stored, disk, history
<1>3. \A j \in Jobs : Expired(born[j], RawDays) => Expired(born[j], RawDays)'
    BY <1>1, <1>2, RetentionAssumption DEF Expired
<1>4. \A a \in doomed : Expired(a.born, EvidenceDays)'
    BY <1>1, <1>2, RetentionAssumption DEF CleanupInv, LeftoversHaveExpired, Expired
<1>5. LeftoversHaveExpired'
    BY <1>1, <1>2, <1>3, <1>4 DEF CleanupInv, LeftoversHaveExpired, Expired
<1>6. SelectionCoversLeftovers'
    BY <1>1, <1>2, <1>3 DEF CleanupInv, SelectionCoversLeftovers, Expired
<1>7. RowsGoWithFiles'
    BY <1>2 DEF CleanupInv, RowsGoWithFiles, Stopped
<1> QED
    BY <1>5, <1>6, <1>7 DEF CleanupFits

\* There is nothing to clean up.
LEMMA CleanupInitially == Init => CleanupInv
<1> SUFFICES ASSUME Init PROVE CleanupInv
    OBVIOUS
<1>1. RunsInv
    BY RunsInitially
<1>2. LeftoversHaveExpired /\ SelectionCoversLeftovers /\ RowsGoWithFiles
    BY DEF Init, LeftoversHaveExpired, SelectionCoversLeftovers, RowsGoWithFiles, Stopped
<1> QED
    BY <1>1, <1>2 DEF CleanupInv

\* Every step.
LEMMA NextKeepsCleanup == CleanupInv /\ [Next]_vars => CleanupInv'
<1> SUFFICES ASSUME CleanupInv, [Next]_vars PROVE CleanupInv'
    OBVIOUS
<1>1. RunsInv'
    BY NextKeepsRuns DEF CleanupInv
<1> SUFFICES CleanupFits'
    BY <1>1 DEF CleanupInv, CleanupFits
<1>2. CASE UNCHANGED vars
    BY <1>2, RunsKeepCleanup DEF vars, stored, disk, history
<1>3. ASSUME NEW r \in Runners, RunStep(r) PROVE CleanupFits'
    BY <1>3, RunStepKeepsCleanup
<1>4. CASE Cleanup
    BY <1>4, SelectKeepsCleanup, UnlinkKeepsCleanup, CommitKeepsCleanup, KillKeepsCleanup
       DEF Cleanup
<1> QED
    BY <1>2, <1>3, <1>4, UploadKeepsCleanup, DayKeepsCleanup DEF Next

-----------------------------------------------------------------------------
(* Retention: evidence of jobs that were never run twice at once. *)

\* What SerialInv says of jobs and evidence.
SerialFits ==
    JobsAreApart /\ RowsEndTheJob /\ NewRowsAreIntact /\ SerialEvidenceIsIntact

\* A step that keeps file `f` as it is, if it is there.
Keeps(f) == f \in DOMAIN files => f \in DOMAIN files' /\ files'[f] = files[f]

\* Evidence whose file is kept stays intact.
LEMMA KeptIsIntact ==
    ASSUME NEW a, Intact(a), Keeps(a.path)
    PROVE  Intact(a)'
BY DEF Intact, Keeps

\* A step of nobody's run: what it unlinks it has selected.
LEMMA OthersKeepSerial ==
    ASSUME SerialInv, UNCHANGED <<run, met>>, assets' \subseteq assets, doomed \subseteq doomed',
           \A j \in Jobs : status[j] = "completed" => status'[j] = "completed",
           \A a \in AssetRow : Keeps(a.path) \/ SharesWithDoomed(a)'
    PROVE  SerialFits'
<1>1. /\ assets \subseteq AssetRow /\ \A a \in AssetRow : a.alert[1] \in Jobs
      /\ run \in [Runners -> Run]
    BY DEF SerialInv, CleanupInv, RunsInv, TypeOK, AssetRow
<1>2. \A r \in Runners : Busy(r) => run[r].rows \subseteq AssetRow
    BY <1>1, RunCases DEF Busy, BusyRun
<1>3. \A a \in AssetRow : SharesWithDoomed(a) => SharesWithDoomed(a)'
    BY DEF SharesWithDoomed
<1>4. \A a \in AssetRow : SharesWithDoomed(a) \/ Intact(a)
                          => SharesWithDoomed(a)' \/ Intact(a)'
    BY <1>3, KeptIsIntact
<1>5. JobsAreApart'
    BY DEF SerialInv, JobsAreApart
<1>6. RowsEndTheJob'
    BY <1>1 DEF SerialInv, RowsEndTheJob
<1>7. NewRowsAreIntact'
    <2> SUFFICES ASSUME NEW r \in Runners, Busy(r)', NEW a \in run'[r].rows, run[r].job \notin met
                 PROVE  SharesWithDoomed(a)' \/ Intact(a)'
        BY DEF NewRowsAreIntact
    <2>1. Busy(r) /\ a \in run[r].rows
        BY DEF Busy
    <2>2. SharesWithDoomed(a) \/ Intact(a)
        BY <2>1 DEF SerialInv, NewRowsAreIntact
    <2> QED
        BY <1>2, <1>4, <2>1, <2>2
<1>8. SerialEvidenceIsIntact'
    <2> SUFFICES ASSUME NEW a \in assets', a.alert[1] \notin met'
                 PROVE  SharesWithDoomed(a)' \/ Intact(a)'
        BY DEF SerialEvidenceIsIntact
    <2>1. SharesWithDoomed(a) \/ Intact(a)
        BY DEF SerialInv, SerialEvidenceIsIntact
    <2> QED
        BY <1>1, <1>4, <2>1
<1> QED
    BY <1>5, <1>6, <1>7, <1>8 DEF SerialFits

\* A step of the run of `r` on job `j` that commits no rows: it touches files of this
\* job only, and its new rows are what is on disk.
LEMMA RunKeepsSerial ==
    ASSUME SerialInv, NEW r \in Runners, NEW q \in Run, Sets(r, q), NEW j \in Jobs,
           run[r].at # "idle", run[r].job = j, q.at = "idle" \/ q.job = j,
           UNCHANGED <<met, assets, doomed>>,
           \A i \in Jobs : i # j => status'[i] = status[i],
           \A f \in Files : f[1] # j => Keeps(f),
           q.at \in BusyAt => \A a \in q.rows :
                \/ Busy(r) /\ a \in run[r].rows /\ files' = files
                \/ Intact(a)'
    PROVE  SerialFits'
<1>1. /\ assets \subseteq AssetRow /\ run \in [Runners -> Run]
      /\ \A a \in AssetRow : a.alert[1] \in Jobs /\ a.path \in Files
    BY DEF SerialInv, CleanupInv, RunsInv, TypeOK, AssetRow
<1>2. /\ run' \in [Runners -> Run] /\ run'[r] = q
      /\ \A s \in Runners : s # r => run'[s] = run[s]
    BY <1>1, SetRun
<1>3. \A s \in Runners : run'[s].at # "idle" => run[s].at # "idle" /\ run'[s].job = run[s].job
    BY <1>2
<1>4. \A a \in AssetRow : SharesWithDoomed(a)' <=> SharesWithDoomed(a)
    BY DEF SharesWithDoomed
<1>5. JobsAreApart'
    BY <1>3 DEF SerialInv, JobsAreApart
<1>6. \A a \in assets : a.alert[1] = j => j \in met
    BY DEF SerialInv, RowsEndTheJob
<1>7. RowsEndTheJob'
    BY <1>1, <1>3, <1>6 DEF SerialInv, RowsEndTheJob
<1>8. NewRowsAreIntact'
    <2> SUFFICES ASSUME NEW s \in Runners, Busy(s)', NEW a \in run'[s].rows, run'[s].job \notin met
                 PROVE  SharesWithDoomed(a)' \/ Intact(a)'
        BY DEF NewRowsAreIntact
    <2>1. CASE s = r
        <3>1. q.at \in BusyAt /\ a \in q.rows /\ q.job \notin met
            BY <2>1, <1>2 DEF Busy
        <3>2. q.job = j
            BY <3>1 DEF BusyAt
        <3>3. CASE Busy(r) /\ a \in run[r].rows /\ files' = files
            <4>1. SharesWithDoomed(a) \/ Intact(a)
                BY <3>1, <3>2, <3>3 DEF SerialInv, NewRowsAreIntact
            <4> QED
                BY <3>3, <4>1 DEF SharesWithDoomed, Intact
        <3> QED
            BY <3>1, <3>3
    <2>2. CASE s # r
        <3>1. Busy(s) /\ a \in run[s].rows /\ run[s].job \notin met /\ run[s].at # "idle"
            BY <2>2, <1>2 DEF Busy, BusyAt
        <3>2. a.path[1] = run[s].job /\ run[s].rows \subseteq AssetRow
            BY <3>1, <1>1, RunCases
               DEF SerialInv, CleanupInv, RunsInv, RunsFit, RunsOwnTheirRows, Owns, Busy, BusyRun
        <3>3. run[s].job # j
            BY <2>2, <3>1 DEF SerialInv, JobsAreApart
        <3>4. SharesWithDoomed(a) \/ Intact(a)
            BY <3>1 DEF SerialInv, NewRowsAreIntact
        <3> QED
            BY <1>1, <1>4, <3>1, <3>2, <3>3, <3>4, KeptIsIntact
    <2> QED
        BY <2>1, <2>2
<1>9. SerialEvidenceIsIntact'
    <2> SUFFICES ASSUME NEW a \in assets, a.alert[1] \notin met
                 PROVE  SharesWithDoomed(a)' \/ Intact(a)'
        BY DEF SerialEvidenceIsIntact
    <2>1. SharesWithDoomed(a) \/ Intact(a)
        BY DEF SerialInv, SerialEvidenceIsIntact
    <2>2. a.path[1] = a.alert[1] /\ a.alert[1] # j
        BY <1>6 DEF SerialInv, RowsEndTheJob
    <2> QED
        BY <1>1, <1>4, <2>1, <2>2, KeptIsIntact
<1> QED
    BY <1>5, <1>7, <1>8, <1>9 DEF SerialFits

\* Files of other jobs are kept.
LEMMA OwnFilesOnly ==
    ASSUME NEW q, TouchesOwnFiles(q)
    PROVE  \A f \in Files : f[1] # q.job => Keeps(f)
<1>1. ASSUME NEW g \in Files, g[1] = q.job, Write(g, q.name)
      PROVE  \A f \in Files : f[1] # q.job => Keeps(f)
    BY <1>1 DEF Write, Keeps
<1>2. ASSUME NEW g \in Files, g[1] = q.job, Unlink(g)
      PROVE  \A f \in Files : f[1] # q.job => Keeps(f)
    BY <1>2 DEF Unlink, Keeps
<1>3. CASE files' = files
    BY <1>3 DEF Keeps
<1> QED
    BY <1>1, <1>2, <1>3 DEF TouchesOwnFiles

\* The second runner of a job at once is seen; the only one finds no rows of it.
LEMMA PickKeepsSerial ==
    ASSUME SerialInv, NEW r \in Runners, NEW j \in Jobs, Pick(r, j)
    PROVE  SerialFits'
<1>1. PICK q \in Run : q = [at |-> "picked", job |-> j]
    BY BusyRunsAreRuns
<1>2. Sets(r, q) /\ q.at = "picked" /\ q.job = j
    BY <1>1 DEF Pick, Sets
<1>3. run \in [Runners -> Run]
    BY DEF SerialInv, CleanupInv, RunsInv, TypeOK
<1>4. /\ run' \in [Runners -> Run] /\ run'[r] = q
      /\ \A s \in Runners : s # r => run'[s] = run[s]
    BY <1>2, <1>3, SetRun
<1>5. /\ UNCHANGED <<assets, status, files, doomed>>
      /\ status[j] # "completed" /\ met \subseteq met'
      /\ Others(r, j) # {} => j \in met'
    BY DEF Pick, CanRun, stored, disk
<1>6. JobsAreApart'
    <2> SUFFICES ASSUME NEW s \in Runners, NEW t \in Runners, s # t, run'[s].at # "idle",
                        run'[t].at # "idle", run'[s].job = run'[t].job
                 PROVE  run'[s].job \in met'
        BY DEF JobsAreApart
    <2>1. CASE s = r
        <3>1. t \in Others(r, j)
            BY <2>1, <1>2, <1>4 DEF Others
        <3> QED
            BY <2>1, <3>1, <1>2, <1>4, <1>5
    <2>2. CASE t = r
        <3>1. s \in Others(r, j)
            BY <2>2, <1>2, <1>4 DEF Others
        <3> QED
            BY <2>2, <3>1, <1>2, <1>4, <1>5
    <2>3. CASE s # r /\ t # r
        BY <2>3, <1>4, <1>5 DEF SerialInv, JobsAreApart
    <2> QED
        BY <2>1, <2>2, <2>3
<1>7. \A a \in assets : a.alert[1] = j => j \in met
    BY <1>5 DEF SerialInv, RowsEndTheJob
<1>8. RowsEndTheJob'
    <2> SUFFICES ASSUME NEW a \in assets
                 PROVE  /\ a.path[1] = a.alert[1]
                        /\ a.alert[1] \in met' \/ status'[a.alert[1]] = "completed"
                        /\ \A s \in Runners :
                            run'[s].at # "idle" /\ run'[s].job = a.alert[1] => a.alert[1] \in met'
        BY <1>5 DEF RowsEndTheJob
    <2>1. a.alert[1] \in met' \/ status'[a.alert[1]] = "completed"
        BY <1>5 DEF SerialInv, RowsEndTheJob
    <2>2. a.path[1] = a.alert[1]
        BY DEF SerialInv, RowsEndTheJob
    <2>3. ASSUME NEW s \in Runners, run'[s].at # "idle", run'[s].job = a.alert[1]
          PROVE  a.alert[1] \in met'
        <3>1. CASE s = r
            BY <2>3, <3>1, <1>2, <1>4, <1>5, <1>7
        <3>2. CASE s # r
            BY <2>3, <3>2, <1>4, <1>5 DEF SerialInv, RowsEndTheJob
        <3> QED
            BY <3>1, <3>2
    <2> QED
        BY <2>1, <2>2, <2>3
<1>9. NewRowsAreIntact'
    <2>1. \A s \in Runners : Busy(s)' => Busy(s) /\ run'[s] = run[s]
        BY <1>2, <1>4 DEF Busy, BusyAt
    <2> QED
        BY <2>1, <1>5 DEF SerialInv, NewRowsAreIntact, SharesWithDoomed, Intact
<1>10. SerialEvidenceIsIntact'
    BY <1>5 DEF SerialInv, SerialEvidenceIsIntact, SharesWithDoomed, Intact
<1> QED
    BY <1>6, <1>8, <1>9, <1>10 DEF SerialFits

\* The rows of the run become evidence, and its job is completed.
LEMMA CommitRunKeepsSerial ==
    ASSUME SerialInv, NEW r \in Runners, CommitRun(r)
    PROVE  SerialFits'
<1>1. /\ assets \subseteq AssetRow /\ run \in [Runners -> Run] /\ run[r] \in Run
      /\ status \in [Jobs -> Statuses] /\ RunsInv
    BY DEF SerialInv, CleanupInv, RunsInv, TypeOK
<1>2. Busy(r) /\ run[r].at # "idle"
    BY DEF CommitRun, Busy, BusyAt
<1>3. PICK j \in Jobs, rows \in SUBSET AssetRow : j = run[r].job /\ rows = run[r].rows
    BY <1>1, <1>2, RunCases DEF Busy, BusyRun
<1>4. /\ assets' = assets \cup rows /\ Sets(r, Idle)
      /\ status' = [status EXCEPT ![j] = "completed"]
      /\ UNCHANGED <<files, met, doomed>>
    BY <1>3 DEF CommitRun, Sets, disk, history
<1>5. /\ run' \in [Runners -> Run] /\ run'[r] = Idle
      /\ \A s \in Runners : s # r => run'[s] = run[s]
    BY <1>1, <1>4, SetRun, BusyRunsAreRuns
<1>6. \A s \in Runners : run'[s].at # "idle" => s # r /\ run'[s] = run[s]
    BY <1>5 DEF Idle
<1>7. \A a \in rows : a.alert[1] = j /\ a.path[1] = j
    BY <1>2, <1>3 DEF SerialInv, CleanupInv, RunsInv, RunsFit, RunsOwnTheirRows, Owns
<1>8. JobsAreApart'
    BY <1>4, <1>6 DEF SerialInv, JobsAreApart
<1>9. RowsEndTheJob'
    <2>1. ASSUME NEW a \in assets
          PROVE  /\ a.path[1] = a.alert[1]
                 /\ a.alert[1] \in met \/ status'[a.alert[1]] = "completed"
                 /\ \A s \in Runners :
                        run'[s].at # "idle" /\ run'[s].job = a.alert[1] => a.alert[1] \in met
        <3>1. a.alert[1] \in Jobs
            BY <1>1 DEF AssetRow
        <3> QED
            BY <1>1, <1>4, <1>6, <3>1 DEF SerialInv, RowsEndTheJob
    <2>2. ASSUME NEW a \in rows
          PROVE  /\ a.path[1] = a.alert[1]
                 /\ a.alert[1] \in met \/ status'[a.alert[1]] = "completed"
                 /\ \A s \in Runners :
                        run'[s].at # "idle" /\ run'[s].job = a.alert[1] => a.alert[1] \in met
        <3>1. status'[j] = "completed"
            BY <1>1, <1>4
        <3>2. \A s \in Runners : run'[s].at # "idle" /\ run'[s].job = j => j \in met
            BY <1>2, <1>3, <1>6 DEF SerialInv, JobsAreApart
        <3> QED
            BY <1>7, <3>1, <3>2
    <2> QED
        BY <1>4, <2>1, <2>2 DEF RowsEndTheJob
<1>10. NewRowsAreIntact'
    <2>1. \A s \in Runners : Busy(s)' => Busy(s) /\ run'[s] = run[s]
        BY <1>6 DEF Busy, BusyAt
    <2> QED
        BY <2>1, <1>4 DEF SerialInv, NewRowsAreIntact, SharesWithDoomed, Intact
<1>11. SerialEvidenceIsIntact'
    <2> SUFFICES ASSUME NEW a \in assets', a.alert[1] \notin met
                 PROVE  SharesWithDoomed(a)' \/ Intact(a)'
        BY <1>4 DEF SerialEvidenceIsIntact
    <2>1. CASE a \in assets
        BY <2>1, <1>4 DEF SerialInv, SerialEvidenceIsIntact, SharesWithDoomed, Intact
    <2>2. CASE a \in rows
        <3>1. SharesWithDoomed(a) \/ Intact(a)
            BY <2>2, <1>2, <1>3, <1>7 DEF SerialInv, NewRowsAreIntact
        <3> QED
            BY <3>1, <1>4 DEF SharesWithDoomed, Intact
    <2> QED
        BY <2>1, <2>2, <1>4
<1> QED
    BY <1>8, <1>9, <1>10, <1>11 DEF SerialFits

\* The steps of a run.
LEMMA RunStepKeepsSerial ==
    ASSUME SerialInv, NEW r \in Runners, RunStep(r)
    PROVE  SerialFits'
<1>1. PICK q \in Run : q = run[r]
    BY DEF SerialInv, CleanupInv, RunsInv, TypeOK
<1>2. status \in [Jobs -> Statuses] /\ TypeOK
    BY DEF SerialInv, CleanupInv, RunsInv, TypeOK
<1>3. ASSUME q.at = "picked" \/ q.at \in BusyAt
      PROVE  q.job \in Jobs /\ run[r].at # "idle"
    <2>1. q.at = "picked" => q \in [at : {"picked"}, job : Jobs]
        BY RunCases
    <2>2. q.at \in BusyAt => q \in BusyRun
        BY RunCases
    <2> QED
        BY <1>1, <1>3, <2>1, <2>2 DEF BusyAt, BusyRun
<1>4. \A j \in Jobs : files' = files => \A f \in Files : f[1] # j => Keeps(f)
    BY DEF Keeps
<1>5. CASE Begin(r)
    <2>1. PICK j \in Jobs : j = q.job /\ run[r].at # "idle"
        BY <1>1, <1>3, <1>5 DEF Begin
    <2>2. PICK p : p = [at |-> "opening", job |-> j, name |-> runs + 1,
                snapshots |-> {}, clips |-> {}, todo |-> {}, rows |-> {}]
        OBVIOUS
    <2>3. p \in Run
        <3>1. PICK n \in Nat : n = runs + 1
            BY <1>2 DEF TypeOK
        <3>2. [at |-> "opening", job |-> j, name |-> n, snapshots |-> {}, clips |-> {},
               todo |-> {}, rows |-> {}] \in BusyRun
            BY DEF BusyRun, BusyAt
        <3> QED
            BY <2>2, <3>1, <3>2, BusyRunsAreRuns
    <2>4. Sets(r, p) /\ p.job = j /\ p.rows = {}
        BY <1>1, <1>5, <2>1, <2>2 DEF Begin, Sets
    <2>5. /\ \A i \in Jobs : i # j => status'[i] = status[i]
          /\ UNCHANGED <<met, assets, doomed, files>>
        BY <1>1, <1>2, <1>5, <2>1 DEF Begin, disk, history
    <2> QED
        BY <1>1, <1>4, <2>1, <2>3, <2>4, <2>5, RunKeepsSerial
<1>6. CASE Progress(r)
    <2>1. /\ q \in BusyRun /\ q.at # "persisting" /\ TouchesOwnFiles(q)
          /\ UNCHANGED <<stored, history>>
        BY <1>1, <1>2, <1>6, ProgressShape
    <2>2. PICK p \in BusyRun : /\ Sets(r, p)
                               /\ p.job = q.job /\ p.name = q.name /\ p.rows = q.rows
        BY <1>1, <1>2, <1>6, ProgressShape
    <2>3. PICK j \in Jobs : j = q.job /\ run[r].at # "idle"
        BY <1>3, <2>1 DEF BusyRun
    <2>4. q.rows = {}
        BY <1>1, <2>1
           DEF SerialInv, CleanupInv, RunsInv, RunsFit, RunsOwnTheirRows, Owns, Busy, BusyRun
    <2>5. \A f \in Files : f[1] # j => Keeps(f)
        BY <2>1, <2>3, OwnFilesOnly
    <2>6. p \in Run
        BY BusyRunsAreRuns
    <2>7. UNCHANGED <<status, met, assets, doomed>>
        BY <2>1 DEF stored, history
    <2> QED
        BY <1>1, <2>2, <2>3, <2>4, <2>5, <2>6, <2>7, RunKeepsSerial
<1>7. CASE AddAlert(r)
    <2>1. q \in BusyRun /\ UNCHANGED <<stored, disk, history>>
        BY <1>1, <1>2, <1>7, AddShape
    <2>2. PICK p \in BusyRun, new \in SUBSET AssetRow :
            /\ Sets(r, p) /\ p.job = q.job /\ p.rows = q.rows \cup new
            /\ \A a \in new : Intact(a)
        BY <1>1, <1>2, <1>7, AddShape
    <2>3. PICK j \in Jobs : j = q.job /\ run[r].at # "idle"
        BY <1>3, <2>1 DEF BusyRun
    <2>4. p \in Run /\ Busy(r)
        BY <1>1, <2>1, BusyRunsAreRuns DEF Busy, BusyRun
    <2>5. UNCHANGED <<status, met, assets, doomed, files>>
        BY <2>1 DEF stored, disk, history
    <2>6. \A a \in p.rows : \/ Busy(r) /\ a \in run[r].rows /\ files' = files
                            \/ Intact(a)'
        BY <1>1, <2>2, <2>4, <2>5 DEF Intact
    <2> QED
        BY <1>1, <1>4, <2>2, <2>3, <2>4, <2>5, <2>6, RunKeepsSerial
<1>8. CASE Fail(r) \/ BeginWithoutVideo(r)
    <2>1. PICK j \in Jobs : j = q.job /\ run[r].at # "idle"
        BY <1>1, <1>3, <1>8 DEF Fail, BeginWithoutVideo, BusyAt
    <2>2. Sets(r, Idle) /\ Idle \in Run /\ Idle.at = "idle"
        BY <1>8, BusyRunsAreRuns DEF Fail, BeginWithoutVideo, Sets, Idle
    <2>3. /\ \A i \in Jobs : i # j => status'[i] = status[i]
          /\ UNCHANGED <<met, assets, doomed, files>>
        BY <1>1, <1>2, <1>8, <2>1 DEF Fail, BeginWithoutVideo, stored, disk, history
    <2> QED
        BY <1>1, <1>4, <2>1, <2>2, <2>3, RunKeepsSerial DEF BusyAt
<1> QED
    BY <1>5, <1>6, <1>7, <1>8, RunStepIsProgress, PickKeepsSerial, CommitRunKeepsSerial

\* The cleanup unlinks only what it has selected.
LEMMA CleanupKeepsSerial ==
    ASSUME SerialInv, Cleanup
    PROVE  SerialFits'
<1>1. UNCHANGED <<run, met, status>>
    BY DEF Cleanup, SelectExpired, UnlinkVideo, UnlinkAsset, CommitCleanup, KillCleanup,
           stored, history
<1>2. assets' \subseteq assets /\ doomed \subseteq doomed'
    BY DEF Cleanup, SelectExpired, UnlinkVideo, UnlinkAsset, CommitCleanup, KillCleanup,
           RemainingAssets, stored, history
<1>3. \A a \in AssetRow : Keeps(a.path) \/ SharesWithDoomed(a)'
    <2>1. CASE files' = files
        BY <2>1 DEF Keeps
    <2>2. ASSUME NEW path \in Files, UnlinkAsset(path)
          PROVE  \A a \in AssetRow : Keeps(a.path) \/ SharesWithDoomed(a)'
        <3>1. PICK d \in doomed : d.path = path
            BY <2>2 DEF UnlinkAsset, SerialInv, CleanupInv, SelectionCoversLeftovers
        <3>2. \A f : f # path => Keeps(f)
            BY <2>2 DEF UnlinkAsset, Unlink, Keeps
        <3> QED
            BY <1>2, <3>1, <3>2 DEF SharesWithDoomed
    <2>3. files' = files \/ \E path \in Files : UnlinkAsset(path)
        BY DEF Cleanup, SelectExpired, UnlinkVideo, CommitCleanup, KillCleanup, disk
    <2> QED
        BY <2>1, <2>2, <2>3
<1> QED
    BY <1>1, <1>2, <1>3, OthersKeepSerial

\* A new job has no evidence.
LEMMA UploadKeepsSerial ==
    ASSUME SerialInv, NEW j \in Jobs, Upload(j)
    PROVE  SerialFits'
<1>1. status \in [Jobs -> Statuses]
    BY DEF SerialInv, CleanupInv, RunsInv, TypeOK
<1>2. \A i \in Jobs : status[i] = "completed" => status'[i] = "completed"
    BY <1>1 DEF Upload
<1>3. UNCHANGED <<run, met, assets, doomed, files>>
    BY DEF Upload, history
<1> QED
    BY <1>2, <1>3, OthersKeepSerial DEF Keeps

\* Every step.
LEMMA NextKeepsSerial == SerialInv /\ [Next]_vars => SerialInv'
<1> SUFFICES ASSUME SerialInv, [Next]_vars PROVE SerialInv'
    OBVIOUS
<1>1. CleanupInv'
    BY NextKeepsCleanup DEF SerialInv
<1> SUFFICES SerialFits'
    BY <1>1 DEF SerialInv, SerialFits
<1>2. CASE PassDay \/ UNCHANGED vars
    <2>1. UNCHANGED <<run, met, assets, doomed, files, status>>
        BY <1>2 DEF PassDay, vars, stored, disk, history
    <2> QED
        BY <2>1, OthersKeepSerial DEF Keeps
<1>3. ASSUME NEW r \in Runners, RunStep(r) PROVE SerialFits'
    BY <1>3, RunStepKeepsSerial
<1> QED
    BY <1>2, <1>3, CleanupKeepsSerial, UploadKeepsSerial DEF Next

\* There is no evidence.
LEMMA SerialInitially == Init => SerialInv
<1> SUFFICES ASSUME Init PROVE SerialInv
    OBVIOUS
<1>1. CleanupInv
    BY CleanupInitially
<1>2. assets = {} /\ \A r \in Runners : run[r].at = "idle" /\ ~Busy(r)
    BY DEF Init, Idle, Busy, BusyAt
<1> QED
    BY <1>1, <1>2 DEF SerialInv, JobsAreApart, RowsEndTheJob, NewRowsAreIntact,
                      SerialEvidenceIsIntact

\* The invariant of retention.
LEMMA RetentionInvariant == Spec => []SerialInv
<1>1. Init => SerialInv
    BY SerialInitially
<1>2. SerialInv /\ [Next]_vars => SerialInv'
    BY NextKeepsSerial
<1> QED
    BY <1>1, <1>2, PTL DEF Spec

-----------------------------------------------------------------------------
(* Retention: the theorems. *)

\* Rows, files, runs and the cleanup stay well typed.
THEOREM TypeTheorem == Spec => []TypeOK
<1>1. SerialInv => TypeOK
    BY DEF SerialInv, CleanupInv, RunsInv
<1> QED
    BY <1>1, RetentionInvariant, PTL

\* A cleanup that commits deletes rows with their files, and makes good what
\* earlier ones have left that were killed or refused.
THEOREM CleanupTheorem == Spec => []RowsGoWithFiles
<1>1. SerialInv => RowsGoWithFiles
    BY DEF SerialInv, CleanupInv
<1> QED
    BY <1>1, RetentionInvariant, PTL

\* Stored evidence is there as it was hashed, unless a cleanup has selected the row or
\* one that shares its file, or two runners have had the job at once.
THEOREM IntactTheorem == Spec => []SerialEvidenceIsIntact
<1>1. SerialInv => SerialEvidenceIsIntact
    BY DEF SerialInv
<1> QED
    BY <1>1, RetentionInvariant, PTL

-----------------------------------------------------------------------------
(* The limiter: the inductive invariant. *)

\* The deque holds the admission times but for the first k, which are stale.
Suffix(q, times, k) ==
    /\ Len(q) = Len(times) - k
    /\ \A i \in 1..Len(q) : q[i] = times[k + i]
    /\ \A i \in 1..k : now - times[i] > Window

\* Admission times are in order, and not in the future.
Ordered(times) ==
    /\ \A i, j \in 1..Len(times) : i <= j => times[i] <= times[j]
    /\ \A i \in 1..Len(times) : times[i] <= now

\* The limit-th request after one comes more than a window later.
Apart(times) ==
    \A i \in 1..Len(times) :
        i + Limit <= Len(times) => times[i + Limit] - times[i] > Window

\* The limit-th request before a refused one is in its window.
Justified(refusal, times) ==
    /\ refusal.before >= Limit /\ refusal.before <= Len(times)
    /\ refusal.time - times[refusal.before - Limit + 1] <= Window

ClientInv(c) ==
    /\ \E k \in 0..Len(admitted[c]) : Suffix(queue[c], admitted[c], k)
    /\ Ordered(admitted[c])
    /\ Apart(admitted[c])
    /\ \A r \in DOMAIN refused[c] : Justified(refused[c][r], admitted[c])

LimiterInv == LimiterTypeOK /\ \A c \in Clients : ClientInv(c)

-----------------------------------------------------------------------------
(* The limiter: lemmas. *)

\* The invariant implies the limit.
LEMMA LimiterIsExact == LimiterInv => LimitIsExact
<1> SUFFICES ASSUME LimiterInv PROVE LimitIsExact
    OBVIOUS
<1>1. \A c \in Clients : DOMAIN admitted[c] = 1..Len(admitted[c])
    <2>1. admitted \in [Clients -> Seq(Nat)]
        BY DEF LimiterInv, LimiterTypeOK
    <2>2. \A c \in Clients : admitted[c] \in Seq(Nat)
        BY <2>1
    <2> SUFFICES ASSUME NEW c \in Clients
                 PROVE  DOMAIN admitted[c] = 1..Len(admitted[c])
        OBVIOUS
    <2>3. admitted[c] \in Seq(Nat)
        BY <2>2
    <2> QED
        BY <2>3
<1>2. AtMostLimitInAWindow
    BY <1>1 DEF AtMostLimitInAWindow, LimiterInv, ClientInv, Apart
<1>3. RefusalIsJustified
    BY DEF RefusalIsJustified, LimiterInv, ClientInv, Justified
<1> QED
    BY <1>2, <1>3 DEF LimitIsExact

\* What the while loop leaves is a suffix too; it starts within the window.
LEMMA PoppedSuffix ==
    ASSUME LimiterInv, NEW c \in Clients, NEW k \in Nat, Popped(c, k)
    PROVE  \E d \in 0..Len(admitted[c]) :
            /\ Suffix(Rest(c, k), admitted[c], d)
            /\ d < Len(admitted[c]) => now - admitted[c][d + 1] <= Window
            /\ Rest(c, k) \in Seq(Nat)
            /\ Len(Rest(c, k)) = Len(admitted[c]) - d
<1>1. queue[c] \in Seq(Nat) /\ admitted[c] \in Seq(Nat) /\ now \in Nat
    BY DEF LimiterInv, LimiterTypeOK
<1>lengths. Len(admitted[c]) \in Nat /\ Len(queue[c]) \in Nat
    BY <1>1
<1>2. PICK n \in Nat, l \in Nat : n = Len(admitted[c]) /\ l = Len(queue[c])
    BY <1>lengths
<1>queue. \A i \in 1..l : queue[c][i] \in Nat
    BY <1>1, <1>2
<1>3. PICK e \in 0..n : Suffix(queue[c], admitted[c], e)
    BY <1>2 DEF LimiterInv, ClientInv
<1>popped. k \in 0..l
    BY <1>2 DEF Popped
<1>4. /\ l = n - e /\ k \in 0..l /\ e + k \in 0..n
      /\ \A i \in 1..l : queue[c][i] = admitted[c][e + i]
      /\ \A i \in 1..e : now - admitted[c][i] > Window
      /\ \A i \in 1..n : admitted[c][i] \in Nat
    <2>1. l = n - e /\ \A i \in 1..l : queue[c][i] = admitted[c][e + i]
        BY <1>2, <1>3 DEF Suffix
    <2>2. \A i \in 1..e : now - admitted[c][i] > Window
        BY <1>3 DEF Suffix
    <2>3. \A i \in 1..n : admitted[c][i] \in Nat
        BY <1>1, <1>2
    <2>4. k \in 0..l /\ e + k \in 0..n
        BY <2>1, <1>popped
    <2> QED
        BY <2>1, <2>2, <2>3, <2>4
<1>5. \A i \in 1..k : now - queue[c][i] > Window
    BY DEF Popped, Stale
<1>6. \A i \in 1..(e + k) : now - admitted[c][i] > Window
    <2> SUFFICES ASSUME NEW i \in 1..(e + k) PROVE now - admitted[c][i] > Window
        OBVIOUS
    <2>1. CASE i <= e
        BY <2>1, <1>4
    <2>2. CASE i > e
        <3>1. i - e \in 1..k /\ i - e \in 1..l /\ e + (i - e) = i
            BY <2>2, <1>4
        <3> QED
            BY <3>1, <1>4, <1>5
    <2> QED
        BY <2>1, <2>2, <1>4
<1>7. /\ Rest(c, k) \in Seq(Nat) /\ Len(Rest(c, k)) = l - k
      /\ \A i \in 1..(l - k) : Rest(c, k)[i] = queue[c][k + i]
    <2>1. \A i \in (k + 1)..l : queue[c][i] \in Nat
        BY <1>queue, <1>4
    <2>2. PICK a \in Int : a = k + 1
        BY <1>4
    <2>3. /\ SubSeq(queue[c], a, l) \in Seq(Nat)
          /\ Len(SubSeq(queue[c], a, l)) = IF a <= l THEN l - a + 1 ELSE 0
          /\ \A i \in 1..(l - a + 1) : SubSeq(queue[c], a, l)[i] = queue[c][a + i - 1]
        BY <2>1, <2>2, <1>2, SubSeqProperties
    <2>4. Rest(c, k) = SubSeq(queue[c], a, l)
        BY <1>2, <2>2 DEF Rest
    <2>5. Len(Rest(c, k)) = l - k /\ l - a + 1 = l - k
        BY <2>2, <2>3, <2>4, <1>2, <1>4
    <2>6. \A i \in 1..(l - k) : a + i - 1 = k + i
        BY <2>2, <1>2, <1>4
    <2> QED
        BY <2>3, <2>4, <2>5, <2>6
<1>8. \A i \in 1..(l - k) : Rest(c, k)[i] = admitted[c][(e + k) + i]
    <2> SUFFICES ASSUME NEW i \in 1..(l - k)
                 PROVE  Rest(c, k)[i] = admitted[c][(e + k) + i]
        OBVIOUS
    <2>1. k + i \in 1..l /\ e + (k + i) = (e + k) + i
        BY <1>4
    <2> QED
        BY <2>1, <1>4, <1>7
<1>9. Suffix(Rest(c, k), admitted[c], e + k)
    BY <1>2, <1>4, <1>6, <1>7, <1>8 DEF Suffix
<1>10. e + k < n => now - admitted[c][(e + k) + 1] <= Window
    <2> SUFFICES ASSUME e + k < n PROVE now - admitted[c][(e + k) + 1] <= Window
        OBVIOUS
    <2>1. k < l /\ k + 1 \in 1..l /\ e + (k + 1) = (e + k) + 1
        BY <1>4
    <2>2. ~(now - queue[c][k + 1] > Window)
        BY <2>1, <1>2 DEF Popped, Stale
    <2>3. admitted[c][(e + k) + 1] = queue[c][k + 1] /\ queue[c][k + 1] \in Nat
        BY <2>1, <1>queue, <1>4
    <2>4. now - queue[c][k + 1] \in Int /\ Window \in Nat
        BY <2>3, <1>1, LimiterAssumption
    <2> QED
        BY <2>2, <2>3, <2>4
<1> QED
    BY <1>2, <1>4, <1>7, <1>9, <1>10

-----------------------------------------------------------------------------
(* The limiter: the steps. *)

\* No request has come.
LEMMA LimiterInitially == LimiterInit => LimiterInv
<1> SUFFICES ASSUME LimiterInit PROVE LimiterInv
    OBVIOUS
<1>1. /\ now \in Nat /\ queue \in [Clients -> Seq(Nat)]
      /\ admitted \in [Clients -> Seq(Nat)]
    BY DEF LimiterInit
<1>2. refused \in [Clients -> Seq([time : Nat, before : Nat])]
    BY DEF LimiterInit
<1>3. ASSUME NEW c \in Clients PROVE ClientInv(c)
    <2>1. queue[c] = <<>> /\ admitted[c] = <<>> /\ refused[c] = <<>>
        BY DEF LimiterInit
    <2>2. Suffix(queue[c], admitted[c], 0) /\ 0 \in 0..Len(admitted[c])
        BY <2>1 DEF Suffix
    <2> QED
        BY <2>1, <2>2 DEF ClientInv, Ordered, Apart
<1> QED
    BY <1>1, <1>2, <1>3 DEF LimiterInv, LimiterTypeOK

\* A client that a step does not serve.
LEMMA OtherClient ==
    ASSUME LimiterInv, NEW c \in Clients, now' \in Nat, now <= now',
           queue'[c] = queue[c], admitted'[c] = admitted[c], refused'[c] = refused[c]
    PROVE  ClientInv(c)'
<1>1. /\ admitted[c] \in Seq(Nat) /\ now \in Nat /\ Window \in Nat
    BY LimiterAssumption DEF LimiterInv, LimiterTypeOK
<1>2. PICK k \in 0..Len(admitted[c]) : Suffix(queue[c], admitted[c], k)
    BY DEF LimiterInv, ClientInv
<1>3. \A i \in 1..Len(admitted[c]) : admitted[c][i] \in Nat
    BY <1>1
<1>4. \A i \in 1..k : now' - admitted[c][i] > Window
    <2> SUFFICES ASSUME NEW i \in 1..k PROVE now' - admitted[c][i] > Window
        OBVIOUS
    <2>1. admitted[c][i] \in Nat /\ now - admitted[c][i] > Window
        BY <1>1, <1>2, <1>3 DEF Suffix
    <2> QED
        BY <2>1, <1>1
<1>5. \A i \in 1..Len(admitted[c]) : admitted[c][i] <= now'
    BY <1>1, <1>3 DEF LimiterInv, ClientInv, Ordered
<1>6. (\E j \in 0..Len(admitted[c]) : Suffix(queue[c], admitted[c], j))'
    BY <1>2, <1>4 DEF Suffix
<1> QED
    BY <1>5, <1>6 DEF LimiterInv, ClientInv, Ordered, Apart, Justified

\* The clock moves on.
LEMMA TickKeepsInv ==
    ASSUME LimiterInv, Tick
    PROVE  LimiterInv'
<1>1. now' \in Nat /\ now <= now' /\ UNCHANGED <<queue, admitted, refused>>
    BY DEF Tick, LimiterInv, LimiterTypeOK
<1>2. LimiterTypeOK'
    BY <1>1 DEF LimiterInv, LimiterTypeOK
<1> QED
    BY <1>1, <1>2, OtherClient DEF LimiterInv

\* dispatch goes on with the request: its time is the last one.
LEMMA AdmitKeepsInv ==
    ASSUME LimiterInv, NEW c \in Clients, Admit(c)
    PROVE  LimiterInv'
<1>1. PICK k \in Nat :
        /\ Popped(c, k) /\ ~Full(Rest(c, k))
        /\ queue' = [queue EXCEPT ![c] = Append(Rest(c, k), now)]
        /\ admitted' = [admitted EXCEPT ![c] = Append(@, now)]
        /\ UNCHANGED <<now, refused>>
    <2>1. queue[c] \in Seq(Nat)
        BY DEF LimiterInv, LimiterTypeOK
    <2>2. 0..Len(queue[c]) \subseteq Nat
        BY <2>1
    <2> QED
        BY <2>2 DEF Admit
<1>2. /\ queue \in [Clients -> Seq(Nat)] /\ admitted \in [Clients -> Seq(Nat)]
      /\ refused \in [Clients -> Seq([time : Nat, before : Nat])]
    BY DEF LimiterInv, LimiterTypeOK
<1>now. now \in Nat /\ Limit \in Nat /\ Limit >= 1 /\ Window \in Nat
    BY LimiterAssumption DEF LimiterInv, LimiterTypeOK
<1>3. PICK times, rest : times = admitted[c] /\ rest = Rest(c, k)
    OBVIOUS
<1>times. times \in Seq(Nat)
    BY <1>2, <1>3
<1>rest. rest \in Seq(Nat)
    BY <1>1, <1>3, PoppedSuffix
<1>4. PICK n \in Nat : n = Len(times)
    BY <1>times
<1>5. PICK d \in 0..n : /\ Suffix(rest, times, d) /\ Len(rest) = n - d
    BY <1>1, <1>3, <1>4, PoppedSuffix
<1>6. queue'[c] = Append(rest, now) /\ admitted'[c] = Append(times, now)
    BY <1>1, <1>2, <1>3
<1>7. n - d < Limit
    BY <1>now, <1>1, <1>3, <1>4, <1>5 DEF Full
<1>8. PICK more : more = Append(times, now)
    OBVIOUS
<1>9. /\ Len(more) = n + 1 /\ more[n + 1] = now
      /\ \A i \in 1..n : more[i] = times[i] /\ times[i] \in Nat
    BY <1>times, <1>now, <1>4, <1>8
<1>10. Ordered(times) /\ Apart(times)
    BY <1>3 DEF LimiterInv, ClientInv
<1>11. LimiterTypeOK'
    BY <1>times, <1>rest, <1>now, <1>1, <1>2, <1>3 DEF LimiterTypeOK
<1>12. Suffix(Append(rest, now), more, d)
    <2>1. PICK l \in Nat : l = Len(rest) /\ l = n - d
        BY <1>4, <1>5
    <2>2. /\ Len(Append(rest, now)) = l + 1
          /\ Append(rest, now)[l + 1] = now
          /\ \A i \in 1..l : Append(rest, now)[i] = rest[i]
        <3>1. /\ Len(Append(rest, now)) = Len(rest) + 1
              /\ \A i \in 1..Len(rest) : Append(rest, now)[i] = rest[i]
              /\ Append(rest, now)[Len(rest) + 1] = now
            BY <1>now, <1>rest, AppendProperties
        <3> QED
            BY <2>1, <3>1
    <2>3. \A i \in 1..(l + 1) : Append(rest, now)[i] = more[d + i]
        <3> SUFFICES ASSUME NEW i \in 1..(l + 1)
                     PROVE  Append(rest, now)[i] = more[d + i]
            OBVIOUS
        <3>1. CASE i = l + 1
            BY <3>1, <2>1, <2>2, <1>4, <1>5, <1>9
        <3>2. CASE i # l + 1
            <4>1. i \in 1..l /\ d + i \in 1..n
                BY <3>2, <2>1, <1>4, <1>5
            <4> QED
                BY <4>1, <2>1, <2>2, <1>5, <1>9 DEF Suffix
        <3> QED
            BY <3>1, <3>2
    <2>4. \A i \in 1..d : now - more[i] > Window
        BY <1>4, <1>5, <1>9 DEF Suffix
    <2>5. l + 1 = (n + 1) - d
        BY <2>1, <1>4, <1>5
    <2> QED
        BY <2>2, <2>3, <2>4, <2>5, <1>9 DEF Suffix
<1>13. Ordered(more)
    <2>1. \A i \in 1..n : times[i] <= now
        BY <1>4, <1>10 DEF Ordered
    <2>2. \A i, j \in 1..n : i <= j => times[i] <= times[j]
        BY <1>4, <1>10 DEF Ordered
    <2>3. \A i \in 1..(n + 1) : i \in 1..n \/ i = n + 1
        BY <1>4
    <2>4. \A i \in 1..(n + 1) : more[i] <= now
        BY <2>1, <2>3, <1>now, <1>9
    <2> SUFFICES ASSUME NEW i \in 1..(n + 1), NEW j \in 1..(n + 1), i <= j
                 PROVE  more[i] <= more[j]
        BY <2>4, <1>9 DEF Ordered
    <2>5. CASE j = n + 1
        BY <2>4, <2>5, <1>9
    <2>6. CASE j # n + 1
        <3>1. i \in 1..n /\ j \in 1..n
            BY <2>6, <1>4
        <3> QED
            BY <3>1, <2>2, <1>9
    <2> QED
        BY <2>5, <2>6
<1>14. Apart(more)
    <2> SUFFICES ASSUME NEW i \in 1..(n + 1), i + Limit <= n + 1
                 PROVE  more[i + Limit] - more[i] > Window
        BY <1>9 DEF Apart
    <2>1. i \in 1..n
        BY <1>now, <1>4
    <2>2. CASE i + Limit = n + 1
        <3>1. i \in 1..d
            BY <2>2, <1>now, <1>4, <1>5, <1>7
        <3>2. now - times[i] > Window
            BY <3>1, <1>5 DEF Suffix
        <3> QED
            BY <2>1, <2>2, <3>2, <1>9
    <2>3. CASE i + Limit # n + 1
        <3>1. i + Limit \in 1..n
            BY <2>1, <2>3, <1>now, <1>4
        <3>2. times[i + Limit] - times[i] > Window
            BY <2>1, <3>1, <1>4, <1>10 DEF Apart
        <3> QED
            BY <2>1, <3>1, <3>2, <1>9
    <2> QED
        BY <2>2, <2>3
<1>15. \A r \in DOMAIN refused[c] : Justified(refused[c][r], more)
    <2> SUFFICES ASSUME NEW r \in DOMAIN refused[c]
                 PROVE  Justified(refused[c][r], more)
        OBVIOUS
    <2>1. Justified(refused[c][r], times)
        BY <1>3 DEF LimiterInv, ClientInv
    <2>2. PICK b \in Nat : b = refused[c][r].before
        <3>1. refused[c] \in Seq([time : Nat, before : Nat])
            BY <1>2
        <3>2. r \in 1..Len(refused[c])
            BY <3>1
        <3>3. refused[c][r] \in [time : Nat, before : Nat]
            BY <3>1, <3>2, ElementOfSeq
        <3> QED
            BY <3>3
    <2>3. b - Limit + 1 \in 1..n /\ b <= n + 1
        BY <2>1, <2>2, <1>now, <1>4 DEF Justified
    <2> QED
        BY <2>1, <2>2, <2>3, <1>9 DEF Justified
<1>16. ClientInv(c)'
    <2>1. /\ queue'[c] = Append(rest, now) /\ admitted'[c] = more
          /\ refused' = refused /\ now' = now
        BY <1>1, <1>6, <1>8
    <2>2. d \in 0..Len(more)
        BY <1>4, <1>9
    <2>3. (\E j \in 0..Len(admitted[c]) : Suffix(queue[c], admitted[c], j))'
        BY <2>1, <2>2, <1>12 DEF Suffix
    <2>4. Ordered(admitted[c])'
        BY <2>1, <1>13 DEF Ordered
    <2>5. Apart(admitted[c])'
        BY <2>1, <1>14 DEF Apart
    <2>6. (\A r \in DOMAIN refused[c] : Justified(refused[c][r], admitted[c]))'
        BY <2>1, <1>15 DEF Justified
    <2> QED
        BY <2>3, <2>4, <2>5, <2>6 DEF ClientInv
<1>17. ASSUME NEW b \in Clients, b # c PROVE ClientInv(b)'
    <2>1. /\ queue'[b] = queue[b] /\ admitted'[b] = admitted[b]
          /\ refused'[b] = refused[b] /\ now' \in Nat /\ now <= now'
        BY <1>now, <1>1, <1>2, <1>17
    <2> QED
        BY <2>1, OtherClient
<1> QED
    BY <1>11, <1>16, <1>17 DEF LimiterInv

\* dispatch answers 429.
LEMMA RefuseKeepsInv ==
    ASSUME LimiterInv, NEW c \in Clients, Refuse(c)
    PROVE  LimiterInv'
<1>1. PICK k \in Nat :
        /\ Popped(c, k) /\ Full(Rest(c, k))
        /\ queue' = [queue EXCEPT ![c] = Rest(c, k)]
        /\ refused' = [refused EXCEPT ![c] =
                Append(@, [time |-> now, before |-> Len(admitted[c])])]
        /\ UNCHANGED <<now, admitted>>
    <2>1. queue[c] \in Seq(Nat)
        BY DEF LimiterInv, LimiterTypeOK
    <2>2. 0..Len(queue[c]) \subseteq Nat
        BY <2>1
    <2> QED
        BY <2>2 DEF Refuse
<1>2. /\ queue \in [Clients -> Seq(Nat)] /\ admitted \in [Clients -> Seq(Nat)]
      /\ refused \in [Clients -> Seq([time : Nat, before : Nat])]
    BY DEF LimiterInv, LimiterTypeOK
<1>now. now \in Nat /\ Limit \in Nat /\ Limit >= 1 /\ Window \in Nat
    BY LimiterAssumption DEF LimiterInv, LimiterTypeOK
<1>3. PICK times, rest : times = admitted[c] /\ rest = Rest(c, k)
    OBVIOUS
<1>times. times \in Seq(Nat)
    BY <1>2, <1>3
<1>rest. rest \in Seq(Nat)
    BY <1>1, <1>3, PoppedSuffix
<1>4. PICK n \in Nat : n = Len(times)
    BY <1>times
<1>5. PICK d \in 0..n : /\ Suffix(rest, times, d) /\ Len(rest) = n - d
                        /\ d < n => now - times[d + 1] <= Window
    BY <1>1, <1>3, <1>4, PoppedSuffix
<1>6. n - d >= Limit
    BY <1>1, <1>3, <1>5 DEF Full
<1>7. PICK refusal \in [time : Nat, before : Nat] :
        refusal = [time |-> now, before |-> n]
    BY <1>now, <1>4
<1>8. refusal.time = now /\ refusal.before = n
    BY <1>7
<1>9. \A i \in 1..n : times[i] \in Nat
    BY <1>times, <1>4
<1>10. Justified(refusal, times)
    <2>1. d + 1 \in 1..n /\ n - Limit + 1 \in 1..n /\ d + 1 <= n - Limit + 1
          /\ d < n /\ n >= Limit
        BY <1>now, <1>4, <1>5, <1>6
    <2>2. times[d + 1] <= times[n - Limit + 1]
        BY <2>1, <1>3, <1>4 DEF LimiterInv, ClientInv, Ordered
    <2>3. PICK s \in Nat, t \in Nat : s = times[d + 1] /\ t = times[n - Limit + 1]
        BY <2>1, <1>9
    <2>4. now - t <= Window
        BY <2>1, <2>2, <2>3, <1>now, <1>5
    <2> QED
        BY <2>1, <2>3, <2>4, <1>4, <1>8 DEF Justified
<1>11. refused'[c] = Append(refused[c], refusal) /\ queue'[c] = rest
       /\ admitted' = admitted /\ now' = now
    BY <1>1, <1>2, <1>3, <1>4, <1>7
<1>12. LimiterTypeOK'
    <2>1. refused' = [refused EXCEPT ![c] = Append(refused[c], refusal)]
        BY <1>1, <1>3, <1>4, <1>7
    <2> QED
        BY <2>1, <1>times, <1>rest, <1>now, <1>1, <1>2, <1>3, <1>7 DEF LimiterTypeOK
<1>13. \A r \in DOMAIN refused'[c] : Justified(refused'[c][r], times)
    <2>1. \A r \in DOMAIN refused'[c] :
            \/ r \in DOMAIN refused[c] /\ refused'[c][r] = refused[c][r]
            \/ refused'[c][r] = refusal
        <3>1. refused[c] \in Seq([time : Nat, before : Nat])
            BY <1>2
        <3> QED
            BY <3>1, <1>7, <1>11
    <2>2. \A r \in DOMAIN refused[c] : Justified(refused[c][r], times)
        BY <1>3 DEF LimiterInv, ClientInv
    <2> QED
        BY <2>1, <2>2, <1>10
<1>14. ClientInv(c)'
    <2>1. Ordered(times) /\ Apart(times)
        BY <1>3 DEF LimiterInv, ClientInv
    <2>2. (\E j \in 0..Len(admitted[c]) : Suffix(queue[c], admitted[c], j))'
        BY <1>3, <1>4, <1>5, <1>11 DEF Suffix
    <2>3. Ordered(admitted[c])' /\ Apart(admitted[c])'
        BY <2>1, <1>3, <1>11 DEF Ordered, Apart
    <2>4. (\A r \in DOMAIN refused[c] : Justified(refused[c][r], admitted[c]))'
        BY <1>3, <1>11, <1>13 DEF Justified
    <2> QED
        BY <2>2, <2>3, <2>4 DEF ClientInv
<1>15. ASSUME NEW b \in Clients, b # c PROVE ClientInv(b)'
    <2>1. /\ queue'[b] = queue[b] /\ admitted'[b] = admitted[b]
          /\ refused'[b] = refused[b] /\ now' \in Nat /\ now <= now'
        BY <1>now, <1>1, <1>2, <1>15
    <2> QED
        BY <2>1, OtherClient
<1> QED
    BY <1>12, <1>14, <1>15 DEF LimiterInv

\* Every step.
LEMMA NextKeepsLimiter == LimiterInv /\ [LimiterNext]_limiterVars => LimiterInv'
<1> SUFFICES ASSUME LimiterInv, [LimiterNext]_limiterVars PROVE LimiterInv'
    OBVIOUS
<1>1. CASE UNCHANGED limiterVars
    <2>1. UNCHANGED <<now, queue, admitted, refused>>
        BY <1>1 DEF limiterVars
    <2>2. LimiterTypeOK' /\ now' \in Nat /\ now <= now'
        BY <2>1 DEF LimiterInv, LimiterTypeOK
    <2> QED
        BY <2>1, <2>2, OtherClient DEF LimiterInv
<1>2. CASE Tick
    BY <1>2, TickKeepsInv
<1>3. ASSUME NEW c \in Clients, Admit(c) PROVE LimiterInv'
    BY <1>3, AdmitKeepsInv
<1>4. ASSUME NEW c \in Clients, Refuse(c) PROVE LimiterInv'
    BY <1>4, RefuseKeepsInv
<1> QED
    BY <1>1, <1>2, <1>3, <1>4 DEF LimiterNext

-----------------------------------------------------------------------------
(* The limiter: the theorems. *)

\* The invariant of the limiter.
LEMMA LimiterInvariant == LimiterSpec => []LimiterInv
<1>1. LimiterInit => LimiterInv
    BY LimiterInitially
<1>2. LimiterInv /\ [LimiterNext]_limiterVars => LimiterInv'
    BY NextKeepsLimiter
<1> QED
    BY <1>1, <1>2, PTL DEF LimiterSpec

\* The clock, the deques and the histories stay well typed.
THEOREM LimiterTypeTheorem == LimiterSpec => []LimiterTypeOK
BY LimiterInvariant, PTL DEF LimiterInv

\* No window of 60 seconds admits more than the limit, and no request of a client
\* that has kept to it is refused.
THEOREM ExactTheorem == LimiterSpec => []LimitIsExact
<1>1. LimiterInv => LimitIsExact
    BY LimiterIsExact
<1> QED
    BY <1>1, LimiterInvariant, PTL

=============================================================================
