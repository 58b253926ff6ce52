------------------------ MODULE ProcessingJobs_proofs ------------------------
(***************************************************************************)
(* Proofs about ProcessingJobs, for every set of jobs, workers, API        *)
(* threads, keys and tracks, with any number of crashes, errors and        *)
(* expired videos: first what holds whatever runs overlap, then what holds *)
(* where the runs of a job, or of a turnaround, are apart.                 *)
(***************************************************************************)
EXTENDS ProcessingJobs, TLAPS

-----------------------------------------------------------------------------
(* The inductive invariant. *)

\* A thread that is not idle works on a job.
BusyHasJob == \A t \in Threads : pc[t] # "idle" => ctx[t].job \in Jobs

\* An idle thread has no session and no locals.
IdleIsClean == \A t \in Threads : pc[t] = "idle" => ctx[t] = IdleContext

\* The frame being analysed is one of the video.
FrameInVideo ==
    \A r \in Runners :
        pc[r] = "analysing" => ctx[r].frame < FramesOf[ctx[r].job]

\* Milestones are only added for jobs that have a turnaround.
PendingHasTurnaround ==
    \A t \in Threads :
        ctx[t].pending.milestones # {}
            => TurnaroundOf[ctx[t].job] \in Turnarounds

TypeInv ==
    /\ TypeOK
    /\ BusyHasJob
    /\ IdleIsClean
    /\ FrameInVideo
    /\ PendingHasTurnaround

USE DEF ApiThreads, Runners, Threads

-----------------------------------------------------------------------------
(* Changing one column of a row. *)

LEMMA RowColumns ==
    ASSUME NEW v \in JobRow
    PROVE  /\ \A s \in Statuses : [v EXCEPT !.status = s] \in JobRow
           /\ \A p \in Int : [v EXCEPT !.progress = p] \in JobRow
           /\ \A e \in Errors : [v EXCEPT !.errorCode = e] \in JobRow
           /\ \A b \in BOOLEAN : [v EXCEPT !.cancelRequested = b] \in JobRow
BY DEF JobRow

-----------------------------------------------------------------------------
(* What a commit does to the row. *)

\* An UPDATE of a well-formed row is a well-formed row.
LEMMA FlushType ==
    ASSUME NEW stored \in JobRow, NEW view \in JobRow, NEW new \in JobRow
    PROVE  Flush(stored, view, new) \in JobRow
BY DEF Flush, JobRow

\* A commit changes the row of the thread's job only, and of that row only
\* the columns in which the session's new value differs from what it loaded.
LEMMA CommitEffect ==
    ASSUME TypeOK, NEW t \in Threads, NEW new \in JobRow, CommitRow(t, new)
    PROVE  /\ row' \in [Jobs -> JobRow]
           /\ \A j \in Jobs :
                /\ \/ row'[j].status = row[j].status
                   \/ /\ j = ctx[t].job
                      /\ row'[j].status = new.status
                      /\ new.status # ctx[t].view.status
                /\ \/ row'[j].cancelRequested = row[j].cancelRequested
                   \/ /\ j = ctx[t].job
                      /\ row'[j].cancelRequested = new.cancelRequested
                      /\ new.cancelRequested # ctx[t].view.cancelRequested
<1>1. row \in [Jobs -> JobRow] /\ ctx[t].view \in JobRow
  BY DEF TypeOK, Context
<1>2. \A j \in Jobs :
        row'[j] = IF j = ctx[t].job
                  THEN Flush(row[j], ctx[t].view, new) ELSE row[j]
  BY <1>1 DEF CommitRow
<1>3. row' \in [Jobs -> JobRow]
  BY <1>1, FlushType DEF CommitRow
<1>4. \A j \in Jobs :
        /\ Flush(row[j], ctx[t].view, new).status =
             IF new.status = ctx[t].view.status
             THEN row[j].status ELSE new.status
        /\ Flush(row[j], ctx[t].view, new).cancelRequested =
             IF new.cancelRequested = ctx[t].view.cancelRequested
             THEN row[j].cancelRequested ELSE new.cancelRequested
  BY DEF Flush
<1> QED
  BY <1>2, <1>3, <1>4

-----------------------------------------------------------------------------
(* Type correctness. *)

LEMMA InitType == Init => TypeInv
<1> SUFFICES ASSUME Init PROVE TypeInv
  OBVIOUS
<1>1. BlankRow \in JobRow
  BY DEF BlankRow, JobRow, Statuses, Errors
<1>2. Nothing \in Findings
  BY DEF Nothing, Findings
<1>3. IdleContext \in Context
  BY <1>1, <1>2 DEF IdleContext, Context
<1>4. TypeOK
  BY <1>1, <1>3 DEF Init, TypeOK, Places, Executing
<1>5. BusyHasJob /\ IdleIsClean /\ FrameInVideo
  BY DEF Init, BusyHasJob, IdleIsClean, FrameInVideo
<1>6. PendingHasTurnaround
  BY DEF Init, PendingHasTurnaround, IdleContext, Nothing
<1> QED
  BY <1>4, <1>5, <1>6 DEF TypeInv

\* The typing of the locals of a thread, as facts about their components.
LEMMA ContextType ==
    ASSUME TypeOK, NEW t \in Threads
    PROVE  /\ ctx[t].job \in Jobs \cup {NoJob}
           /\ ctx[t].view \in JobRow
           /\ ctx[t].frame \in Nat
           /\ ctx[t].found \in Findings
           /\ ctx[t].todo \in Findings
           /\ ctx[t].pending \in Findings
           /\ ctx[t].outcome \in {"failed", "cancelled"}
           /\ DOMAIN ctx = Threads
           /\ DOMAIN pc = Threads
BY DEF TypeOK, Context

\* A thread that goes idle, or dies, keeps the invariant on threads.
LEMMA IdleType ==
    /\ IdleContext \in Context
    /\ IdleContext.pending.milestones = {}
<1>1. BlankRow \in JobRow
  BY DEF BlankRow, JobRow, Statuses, Errors
<1>2. Nothing \in Findings /\ Nothing.milestones = {}
  BY DEF Nothing, Findings
<1> QED
  BY <1>1, <1>2 DEF IdleContext, Context

\* What is left to show when one thread t moves to a place with a context.
LEMMA ThreadMoves ==
    ASSUME TypeInv, NEW t \in Threads, NEW place \in Places, NEW c \in Context,
           pc' = [pc EXCEPT ![t] = place], ctx' = [ctx EXCEPT ![t] = c],
           IF place = "idle" THEN c = IdleContext ELSE c.job \in Jobs,
           place = "analysing" => c.frame < FramesOf[c.job],
           c.pending.milestones # {} => TurnaroundOf[c.job] \in Turnarounds
    PROVE  /\ pc' \in [Threads -> Places]
           /\ ctx' \in [Threads -> Context]
           /\ BusyHasJob' /\ IdleIsClean' /\ FrameInVideo'
           /\ PendingHasTurnaround'
<1> USE DEF TypeInv
<1>1. /\ pc' \in [Threads -> Places]
      /\ ctx' \in [Threads -> Context]
      /\ \A s \in Threads : /\ pc'[s] = IF s = t THEN place ELSE pc[s]
                            /\ ctx'[s] = IF s = t THEN c ELSE ctx[s]
  BY DEF TypeOK
<1>2. BusyHasJob' /\ IdleIsClean'
  BY <1>1 DEF BusyHasJob, IdleIsClean
<1>3. FrameInVideo'
  BY <1>1 DEF FrameInVideo
<1>4. PendingHasTurnaround'
  BY <1>1 DEF PendingHasTurnaround
<1> QED
  BY <1>1, <1>2, <1>3, <1>4

\* The same for a whole step that leaves results and bounds alone.
LEMMA ThreadStep ==
    ASSUME TypeInv, NEW t \in Threads, NEW place \in Places, NEW c \in Context,
           pc' = [pc EXCEPT ![t] = place], ctx' = [ctx EXCEPT ![t] = c],
           IF place = "idle" THEN c = IdleContext ELSE c.job \in Jobs,
           place = "analysing" => c.frame < FramesOf[c.job],
           c.pending.milestones # {} => TurnaroundOf[c.job] \in Turnarounds,
           row' \in [Jobs -> JobRow], hasVideo' \subseteq Jobs,
           UNCHANGED <<results, bounds>>
    PROVE  TypeInv'
<1>1. TypeOK'
  BY ThreadMoves DEF TypeInv, TypeOK, results, bounds
<1> QED
  BY <1>1, ThreadMoves DEF TypeInv

\* A thread leaves its job.
LEMMA LeaveStep ==
    ASSUME TypeInv, NEW t \in Threads, Leave(t), row' \in [Jobs -> JobRow],
           UNCHANGED <<hasVideo, results, bounds>>
    PROVE  TypeInv'
<1>1. hasVideo' \subseteq Jobs
  BY DEF TypeInv, TypeOK
<1>2. "idle" \in Places
  BY DEF Places
<1>3. /\ pc' = [pc EXCEPT ![t] = "idle"]
      /\ ctx' = [ctx EXCEPT ![t] = IdleContext]
  BY DEF Leave, Goto
<1> QED
  BY <1>1, <1>2, <1>3, ThreadStep, IdleType

\* What a busy thread has in hand.
LEMMA BusyThread ==
    ASSUME TypeInv, NEW t \in Threads, pc[t] # "idle"
    PROVE  /\ ctx[t].job \in Jobs
           /\ row[ctx[t].job] \in JobRow
           /\ FramesOf[ctx[t].job] \in Nat
           /\ ctx[t].pending.milestones # {}
                => TurnaroundOf[ctx[t].job] \in Turnarounds
<1>1. ctx[t].job \in Jobs
  BY DEF TypeInv, BusyHasJob
<1>2. row[ctx[t].job] \in JobRow
  BY <1>1 DEF TypeInv, TypeOK
<1> QED
  BY <1>1, <1>2, JobsAssumption DEF TypeInv, PendingHasTurnaround

\* A busy thread commits its session's row and goes on.
LEMMA SaveStep ==
    ASSUME TypeInv, NEW t \in Threads, NEW new \in JobRow,
           NEW place \in Places \ {"idle", "analysing"},
           pc[t] # "idle", Save(t, new, place)
    PROVE  TypeInv'
<1> DEFINE c == [ctx[t] EXCEPT !.view = new]
<1>1. TypeOK /\ hasVideo \subseteq Jobs
  BY DEF TypeInv, TypeOK
<1>2. /\ c \in Context
      /\ c.job = ctx[t].job
      /\ c.pending = ctx[t].pending
  BY <1>1, ContextType DEF Context, TypeOK
<1>3. ctx' = [ctx EXCEPT ![t] = c] /\ pc' = [pc EXCEPT ![t] = place]
  BY DEF Save, Goto
<1>4. row' \in [Jobs -> JobRow] /\ UNCHANGED <<hasVideo, results, bounds>>
  BY <1>1, CommitEffect DEF Save
<1> HIDE DEF c
<1> QED
  BY <1>1, <1>2, <1>3, <1>4, ThreadStep, BusyThread

-----------------------------------------------------------------------------
(* Type correctness, action by action. *)

LEMMA RequestType ==
    ASSUME TypeInv, NEW j \in Jobs,
           \/ \E a \in CancelThreads : Upload(a, j) \/ RequestCancel(a, j)
           \/ \E a \in RunThreads : UploadAndRun(a, j) \/ RunJob(a, j)
    PROVE  TypeInv'
<1>1. TypeOK /\ row[j] \in JobRow /\ row \in [Jobs -> JobRow]
      /\ hasVideo \subseteq Jobs
  BY DEF TypeInv, TypeOK
<1>2. ASSUME InsertJob(j)
      PROVE  row' \in [Jobs -> JobRow] /\ hasVideo' \subseteq Jobs
  <2>1. [row[j] EXCEPT !.status = "queued"] \in JobRow
    BY <1>1 DEF JobRow, Statuses
  <2> QED
    BY <1>1, <1>2, <2>1 DEF InsertJob
<1>3. ASSUME NEW a \in Threads, NEW place \in {"picked", "cancelling"},
             NEW c \in Context, c.job = j, c.pending.milestones = {},
             Goto(a, place), ctx' = [ctx EXCEPT ![a] = c],
             row' \in [Jobs -> JobRow], hasVideo' \subseteq Jobs,
             UNCHANGED <<results, bounds>>
      PROVE  TypeInv'
  <2>1. place \in Places /\ place # "idle" /\ place # "analysing"
    BY DEF Places
  <2> QED
    BY <1>3, <2>1, ThreadStep DEF Goto
<1>4. ASSUME NEW a \in CancelThreads, Upload(a, j)
      PROVE  TypeInv'
  BY <1>2, <1>4 DEF Upload, TypeInv, TypeOK, BusyHasJob, IdleIsClean,
     FrameInVideo, PendingHasTurnaround, results, bounds
<1>5. ASSUME NEW a \in Threads, pc[a] = "idle", NEW view \in JobRow
      PROVE  LET c == [ctx[a] EXCEPT !.job = j, !.view = view]
                 d == [ctx[a] EXCEPT !.job = j]
             IN  /\ c \in Context /\ c.job = j /\ c.pending.milestones = {}
                 /\ d \in Context /\ d.job = j /\ d.pending.milestones = {}
  <2>1. ctx[a] \in Context /\ ctx[a].pending.milestones = {}
    BY <1>1, <1>5, IdleType DEF TypeInv, TypeOK, IdleIsClean
  <2> QED
    BY <2>1 DEF Context
<1>6. ASSUME NEW a \in CancelThreads, RequestCancel(a, j)
      PROVE  TypeInv'
  <2> DEFINE c == [ctx[a] EXCEPT !.job = j, !.view = row[j]]
  <2>1. c \in Context /\ c.job = j /\ c.pending.milestones = {}
    BY <1>1, <1>5, <1>6 DEF RequestCancel
  <2>2. ctx' = [ctx EXCEPT ![a] = c]
    BY <1>6 DEF RequestCancel
  <2> HIDE DEF c
  <2> QED
    BY <1>1, <1>3, <1>6, <2>1, <2>2 DEF RequestCancel
<1>7. ASSUME NEW a \in RunThreads, Goto(a, "picked"), pc[a] = "idle",
             ctx' = [ctx EXCEPT ![a].job = j],
             row' \in [Jobs -> JobRow], hasVideo' \subseteq Jobs,
             UNCHANGED <<results, bounds>>
      PROVE  TypeInv'
  <2> DEFINE d == [ctx[a] EXCEPT !.job = j]
  <2>1. d \in Context /\ d.job = j /\ d.pending.milestones = {}
    BY <1>1, <1>5, <1>7
  <2>2. ctx' = [ctx EXCEPT ![a] = d]
    BY <1>7
  <2> HIDE DEF d
  <2> QED
    BY <1>3, <1>7, <2>1, <2>2
<1>8. ASSUME NEW a \in RunThreads, UploadAndRun(a, j)
      PROVE  TypeInv'
  BY <1>2, <1>7, <1>8 DEF UploadAndRun
<1>9. ASSUME NEW a \in RunThreads, RunJob(a, j)
      PROVE  TypeInv'
  BY <1>1, <1>7, <1>9 DEF RunJob
<1> QED
  BY <1>4, <1>6, <1>8, <1>9

LEMMA CommitCancelType ==
    ASSUME TypeInv, NEW a \in CancelThreads, CommitCancel(a)
    PROVE  TypeInv'
<1>1. TypeOK /\ ctx[a].view \in JobRow
  BY ContextType DEF TypeInv
<1>2. [ctx[a].view EXCEPT !.cancelRequested = TRUE] \in JobRow
  BY <1>1 DEF JobRow
<1> QED
  BY <1>1, <1>2, CommitEffect, LeaveStep DEF CommitCancel

LEMMA WorkerType ==
    ASSUME TypeInv, NEW w \in Workers, PickJob(w) \/ Stop(w) \/ Restart(w)
    PROVE  TypeInv'
<1>1. TypeOK
  BY DEF TypeInv
<1>2. ASSUME PickJob(w)
      PROVE  TypeInv'
  <2>1. PICK j \in Jobs : Goto(w, "picked") /\ ctx' = [ctx EXCEPT ![w].job = j]
    BY <1>2 DEF PickJob
  <2> DEFINE d == [ctx[w] EXCEPT !.job = j]
  <2>2. ctx[w] \in Context /\ ctx[w].pending.milestones = {}
    BY <1>1, <1>2, IdleType DEF TypeInv, TypeOK, IdleIsClean, PickJob
  <2>3. d \in Context /\ d.job = j /\ d.pending.milestones = {}
    BY <2>2 DEF Context
  <2>4. ctx' = [ctx EXCEPT ![w] = d] /\ pc' = [pc EXCEPT ![w] = "picked"]
    BY <2>1 DEF Goto
  <2>5. row' \in [Jobs -> JobRow] /\ hasVideo' \subseteq Jobs
        /\ UNCHANGED <<results, bounds>> /\ "picked" \in Places
    BY <1>1, <1>2 DEF PickJob, TypeOK, Places
  <2> HIDE DEF d
  <2> QED
    BY <2>3, <2>4, <2>5, ThreadStep
<1>3. ASSUME Stop(w) \/ Restart(w)
      PROVE  TypeInv'
  <2>1. TypeOK'
    BY <1>1, <1>3 DEF Stop, Restart, TypeOK, results
  <2> QED
    BY <1>3, <2>1 DEF Stop, Restart, TypeInv, BusyHasJob, IdleIsClean,
       FrameInVideo, PendingHasTurnaround
<1> QED
  BY <1>2, <1>3

LEMMA EnvironmentType ==
    ASSUME TypeInv,
           \/ \E w \in Workers : Crash({w})
           \/ Crash(ApiThreads)
           \/ \E j \in Jobs : ExpireVideo(j)
    PROVE  TypeInv'
<1>1. TypeOK
  BY DEF TypeInv
<1>2. ASSUME NEW P, P \subseteq Threads, Crash(P)
      PROVE  TypeInv'
  <2>1. /\ pc' = [t \in Threads |-> IF t \in P THEN "idle" ELSE pc[t]]
        /\ ctx' = [t \in Threads |-> IF t \in P THEN IdleContext ELSE ctx[t]]
    BY <1>2 DEF Crash
  <2>2. pc' \in [Threads -> Places] /\ ctx' \in [Threads -> Context]
    BY <1>1, <2>1, IdleType DEF TypeOK, Places
  <2>3. /\ row' \in [Jobs -> JobRow] /\ hasVideo' \subseteq Jobs
        /\ UNCHANGED <<results, abandoned>>
        /\ stopped' \subseteq Workers /\ crashes' \in Nat /\ stops' \in Nat
    BY <1>1, <1>2 DEF Crash, TypeOK
  <2>4. TypeOK'
    BY <1>1, <2>2, <2>3 DEF TypeOK, results
  <2>5. BusyHasJob' /\ IdleIsClean' /\ FrameInVideo'
    BY <2>1 DEF TypeInv, BusyHasJob, IdleIsClean, FrameInVideo
  <2>6. PendingHasTurnaround'
    BY <2>1, IdleType DEF TypeInv, PendingHasTurnaround
  <2> QED
    BY <2>4, <2>5, <2>6 DEF TypeInv
<1>3. ASSUME NEW j \in Jobs, ExpireVideo(j)
      PROVE  TypeInv'
  BY <1>1, <1>3 DEF ExpireVideo, TypeInv, TypeOK, results, bounds, BusyHasJob,
     IdleIsClean, FrameInVideo, PendingHasTurnaround
<1> QED
  BY <1>2, <1>3

\* From reading the job to the top of the frame loop.
LEMMA StartUpType ==
    ASSUME TypeInv, NEW r \in Runners,
           Load(r) \/ LoadWithoutVideo(r) \/ Prepare(r) \/ Start(r)
    PROVE  TypeInv'
<1>1. TypeOK /\ ctx[r] \in Context /\ ctx[r].view \in JobRow
      /\ row \in [Jobs -> JobRow] /\ hasVideo \subseteq Jobs
  BY ContextType DEF TypeInv, TypeOK
<1>2. ASSUME Load(r)
      PROVE  TypeInv'
  <2> DEFINE c == [ctx[r] EXCEPT !.view = row[ctx[r].job]]
  <2>1. ctx[r].job \in Jobs /\ row[ctx[r].job] \in JobRow
    BY <1>2, BusyThread DEF Load
  <2>2. c \in Context /\ c.job = ctx[r].job /\ c.pending = ctx[r].pending
    BY <1>1, <2>1 DEF Context
  <2>3. ctx' = [ctx EXCEPT ![r] = c] /\ pc' = [pc EXCEPT ![r] = "loaded"]
    BY <1>2 DEF Load, Goto
  <2>4. "loaded" \in Places
    BY DEF Places, Executing
  <2>5. c.pending.milestones # {} => TurnaroundOf[c.job] \in Turnarounds
    BY <1>2, <2>2, BusyThread DEF Load
  <2> HIDE DEF c
  <2> QED
    BY <1>1, <1>2, <2>1, <2>2, <2>3, <2>4, <2>5, ThreadStep DEF Load
<1>3. ASSUME LoadWithoutVideo(r)
      PROVE  TypeInv'
  BY <1>1, <1>3, LeaveStep DEF LoadWithoutVideo
<1>4. ASSUME Prepare(r)
      PROVE  TypeInv'
  <2> DEFINE v == [ctx[r].view EXCEPT !.status = "preparing"]
  <2>0. v \in JobRow
    BY <1>1, RowColumns DEF Statuses
  <2> HIDE DEF v
  <2>2. [v EXCEPT !.progress = 1] \in JobRow
    BY <2>0, RowColumns
  <2>1. [ctx[r].view EXCEPT !.status = "preparing", !.progress = 1] \in JobRow
    BY <2>2 DEF v
  <2> QED
    BY <1>4, <2>1, SaveStep DEF Prepare, Places, Executing
<1>5. ASSUME Start(r)
      PROVE  TypeInv'
  <2>1. [ctx[r].view EXCEPT !.status = "running"] \in JobRow
    BY <1>1 DEF JobRow, Statuses
  <2> QED
    BY <1>5, <2>1, SaveStep DEF Start, Places, Executing
<1> QED
  BY <1>2, <1>3, <1>4, <1>5

\* One turn of the frame loop, and its end.
LEMMA FrameLoopType ==
    ASSUME TypeInv, NEW r \in Runners,
           ReadFrame(r) \/ FinishFrame(r) \/ EndOfVideo(r)
    PROVE  TypeInv'
<1> DEFINE j == ctx[r].job
           frame == ctx[r].frame
           view == ctx[r].view
<1>1. /\ TypeOK /\ ctx[r] \in Context /\ view \in JobRow /\ frame \in Nat
      /\ row \in [Jobs -> JobRow] /\ hasVideo \subseteq Jobs
      /\ pc[r] # "idle"
      /\ j \in Jobs /\ row[j] \in JobRow /\ FramesOf[j] \in Nat
      /\ ctx[r].pending.milestones # {} => TurnaroundOf[j] \in Turnarounds
  BY ContextType, BusyThread
     DEF TypeInv, TypeOK, ReadFrame, FinishFrame, EndOfVideo
<1>2. {"raised", "analysing", "frames", "persisting"} \subseteq Places
  BY DEF Places, Executing
<1>3. ASSUME ReadFrame(r)
      PROVE  TypeInv'
  <2>1. /\ row' \in [Jobs -> JobRow] /\ hasVideo' \subseteq Jobs
        /\ UNCHANGED <<results, bounds>>
        /\ pc[r] = "frames" /\ frame < FramesOf[j]
    BY <1>1, <1>3 DEF ReadFrame
  <2> DEFINE d == [ctx[r] EXCEPT !.view = row[j]]
  <2>5. /\ d \in Context /\ d.job = j /\ d.pending = ctx[r].pending
        /\ d.frame = frame
    BY <1>1 DEF Context
  <2>2. CASE /\ Goto(r, "raised")
             /\ ctx' = [ctx EXCEPT ![r] =
                          [@ EXCEPT !.view = row[j], !.outcome = "cancelled"]]
    <3> DEFINE c == [d EXCEPT !.outcome = "cancelled"]
    <3>2. ctx' = [ctx EXCEPT ![r] = c] /\ pc' = [pc EXCEPT ![r] = "raised"]
      BY <2>2 DEF Goto
    <3> HIDE DEF d
    <3>1. c \in Context /\ c.job = j /\ c.pending = ctx[r].pending
      BY <2>5 DEF Context
    <3> HIDE DEF c
    <3> QED
      BY <1>1, <1>2, <2>1, <3>1, <3>2, ThreadStep
  <2>3. CASE /\ ctx' = [ctx EXCEPT ![r] =
                          [@ EXCEPT !.view = row[j], !.frame = frame + 1]]
             /\ UNCHANGED pc
    <3> DEFINE c == [d EXCEPT !.frame = frame + 1]
    <3>2. ctx' = [ctx EXCEPT ![r] = c] /\ pc' = [pc EXCEPT ![r] = "frames"]
      BY <1>1, <2>1, <2>3 DEF TypeOK
    <3> HIDE DEF d
    <3>1. c \in Context /\ c.job = j /\ c.pending = ctx[r].pending
      BY <1>1, <2>5 DEF Context
    <3> HIDE DEF c
    <3> QED
      BY <1>1, <1>2, <2>1, <3>1, <3>2, ThreadStep
  <2>4. CASE Goto(r, "analysing") /\ ctx' = [ctx EXCEPT ![r].view = row[j]]
    <3>1. ctx' = [ctx EXCEPT ![r] = d] /\ pc' = [pc EXCEPT ![r] = "analysing"]
      BY <2>4 DEF Goto
    <3> HIDE DEF d
    <3> QED
      BY <1>1, <1>2, <2>1, <2>5, <3>1, ThreadStep
  <2> QED
    BY <1>3, <2>2, <2>3, <2>4 DEF ReadFrame
<1>4. ASSUME FinishFrame(r)
      PROVE  TypeInv'
  <2> DEFINE new == IF Processed(frame) % ReportEvery = 0
                    THEN [view EXCEPT !.progress = Fraction(j, frame)]
                    ELSE view
             d == [ctx[r] EXCEPT !.view = new]
             c == [d EXCEPT !.frame = frame + 1]
  <2>1. /\ pc[r] = "analysing" /\ CommitRow(r, new)
        /\ ctx' = [ctx EXCEPT ![r] = c] /\ pc' = [pc EXCEPT ![r] = "frames"]
        /\ UNCHANGED <<hasVideo, results, bounds>>
    BY <1>4 DEF FinishFrame, Goto
  <2>2. frame < FramesOf[j]
    BY <2>1 DEF TypeInv, FrameInVideo
  <2>3. Fraction(j, frame) \in Int
    BY <1>1, <2>2 DEF Fraction
  <2>4. new \in JobRow
    BY <1>1, <2>3 DEF JobRow
  <2> HIDE DEF new
  <2>5. c \in Context /\ c.job = j /\ c.pending = ctx[r].pending
    <3>1. d \in Context /\ d.job = j /\ d.pending = ctx[r].pending
          /\ d.frame = frame
      BY <1>1, <2>4 DEF Context
    <3> HIDE DEF d
    <3> QED
      BY <1>1, <3>1 DEF Context
  <2>6. row' \in [Jobs -> JobRow]
    BY <1>1, <2>1, <2>4, CommitEffect
  <2> HIDE DEF c
  <2> QED
    BY <1>1, <1>2, <2>1, <2>5, <2>6, ThreadStep
<1>5. ASSUME EndOfVideo(r)
      PROVE  TypeInv'
  <2> DEFINE new == [view EXCEPT !.progress = 100]
  <2>1. PICK found \in Findings :
          ctx' = [ctx EXCEPT ![r] =
                    [@ EXCEPT !.view = new, !.found = found, !.todo = found]]
    BY <1>5 DEF EndOfVideo
  <2> DEFINE d == [ctx[r] EXCEPT !.view = new]
             e == [d EXCEPT !.found = found]
             c == [e EXCEPT !.todo = found]
  <2>2. /\ CommitRow(r, new) /\ ctx' = [ctx EXCEPT ![r] = c]
        /\ pc' = [pc EXCEPT ![r] = "persisting"]
        /\ UNCHANGED <<hasVideo, results, bounds>>
    BY <1>5, <2>1 DEF EndOfVideo, Goto
  <2>3. new \in JobRow
    BY <1>1 DEF JobRow
  <2> HIDE DEF new
  <2>4. c \in Context /\ c.job = j /\ c.pending = ctx[r].pending
    <3>1. d \in Context /\ d.job = j /\ d.pending = ctx[r].pending
      BY <1>1, <2>3 DEF Context
    <3> HIDE DEF d
    <3>2. e \in Context /\ e.job = j /\ e.pending = ctx[r].pending
      BY <3>1 DEF Context
    <3> HIDE DEF e
    <3> QED
      BY <3>2 DEF Context
  <2>5. row' \in [Jobs -> JobRow]
    BY <1>1, <2>2, <2>3, CommitEffect
  <2> HIDE DEF c
  <2> QED
    BY <1>1, <1>2, <2>2, <2>4, <2>5, ThreadStep
<1> QED
  BY <1>3, <1>4, <1>5

\* Looking up the candidates.
LEMMA ScanType ==
    ASSUME TypeInv, NEW r \in Runners,
           \/ \E m \in MilestoneTypes \X Tracks : ScanMilestone(r, m)
           \/ \E key \in AlertKeys : ScanAlert(r, key)
    PROVE  TypeInv'
<1> DEFINE j == ctx[r].job
           pending == ctx[r].pending
           todo == ctx[r].todo
<1>1. TypeOK /\ pc[r] = "persisting"
      /\ UNCHANGED <<row, hasVideo, results, pc, bounds>>
  BY DEF TypeInv, ScanMilestone, ScanAlert
<1>2. /\ ctx[r] \in Context /\ pending \in Findings /\ todo \in Findings
      /\ row' \in [Jobs -> JobRow] /\ hasVideo' \subseteq Jobs
      /\ UNCHANGED <<results, bounds>>
      /\ pc' = [pc EXCEPT ![r] = "persisting"]
      /\ "persisting" \in Places
  BY <1>1, ContextType DEF TypeOK, Places, Executing
<1>3. /\ j \in Jobs
      /\ pending.milestones # {} => TurnaroundOf[j] \in Turnarounds
      /\ TurnaroundOf[j] = NoTurnaround \/ TurnaroundOf[j] \in Turnarounds
  BY <1>1, BusyThread, JobsAssumption
<1>4. ASSUME NEW m \in MilestoneTypes \X Tracks, ScanMilestone(r, m)
      PROVE  TypeInv'
  <2> DEFINE left == [todo EXCEPT !.milestones = @ \ {m}]
             known == \/ TurnaroundOf[j] = NoTurnaround
                      \/ MilestoneKnown(TurnaroundOf[j], m[1])
             added == [pending EXCEPT !.milestones =
                         IF known THEN @ ELSE @ \cup {m}]
             d == [ctx[r] EXCEPT !.todo = left]
             c == [d EXCEPT !.pending = added]
  <2>1. left \in Findings /\ added \in Findings
    BY <1>2, <1>3 DEF Findings
  <2>2. added.milestones # {} => TurnaroundOf[j] \in Turnarounds
    BY <1>2, <1>3 DEF Findings
  <2>3. ctx' = [ctx EXCEPT ![r] = c]
    BY <1>4 DEF ScanMilestone
  <2> HIDE DEF left, added
  <2>4. c \in Context /\ c.job = j /\ c.pending = added
    <3>1. d \in Context /\ d.job = j
      BY <1>2, <2>1 DEF Context
    <3> HIDE DEF d
    <3> QED
      BY <2>1, <3>1 DEF Context
  <2> HIDE DEF c
  <2> QED
    BY <1>2, <1>3, <2>2, <2>3, <2>4, ThreadStep
<1>5. ASSUME NEW key \in AlertKeys, ScanAlert(r, key)
      PROVE  TypeInv'
  <2> DEFINE left == [todo EXCEPT !.alerts = @ \ {key}]
             added == [pending EXCEPT !.alerts =
                         IF AlertKnown(j, key) THEN @ ELSE @ \cup {key}]
             d == [ctx[r] EXCEPT !.todo = left]
             c == [d EXCEPT !.pending = added]
  <2>1. left \in Findings /\ added \in Findings
        /\ added.milestones = pending.milestones
    BY <1>2, <1>3 DEF Findings
  <2>2. ctx' = [ctx EXCEPT ![r] = c]
    BY <1>5 DEF ScanAlert
  <2> HIDE DEF left, added
  <2>3. c \in Context /\ c.job = j /\ c.pending = added
    <3>1. d \in Context /\ d.job = j
      BY <1>2, <2>1 DEF Context
    <3> HIDE DEF d
    <3> QED
      BY <2>1, <3>1 DEF Context
  <2> HIDE DEF c
  <2> QED
    BY <1>2, <1>3, <2>1, <2>2, <2>3, ThreadStep
<1> QED
  BY <1>4, <1>5

\* The final commit.
LEMMA CompleteType ==
    ASSUME TypeInv, NEW r \in Runners, Complete(r)
    PROVE  TypeInv'
<1> DEFINE j == ctx[r].job
           t == TurnaroundOf[j]
           v == [ctx[r].view EXCEPT !.status = "completed"]
           new == [v EXCEPT !.progress = 100]
<1>1. /\ TypeOK /\ ctx[r].view \in JobRow /\ ctx[r].pending \in Findings
      /\ j \in Jobs
      /\ t = NoTurnaround \/ t \in Turnarounds
      /\ ctx[r].pending.milestones # {} => t \in Turnarounds
  BY ContextType, BusyThread, JobsAssumption DEF TypeInv, Complete
<1>2. row' \in [Jobs -> JobRow]
  <2>1. CommitRow(r, new)
    BY DEF Complete
  <2>2. v \in JobRow
    BY <1>1, RowColumns DEF Statuses
  <2> HIDE DEF v
  <2>3. new \in JobRow
    BY <2>2, RowColumns
  <2> HIDE DEF new
  <2> QED
    BY <1>1, <2>1, <2>3, CommitEffect
<1>3. trackRows' \subseteq Jobs \X Runners
  BY <1>1 DEF Complete, TypeOK, NewTracks
<1>4. alertRows' \subseteq AlertRow
  BY <1>1 DEF Complete, TypeOK, NewAlerts, AlertRow, Findings
<1>5. milestoneRows' \subseteq MilestoneRow
  <2>1. NewMilestones(r) \subseteq MilestoneRow
    BY <1>1 DEF NewMilestones, MilestoneRow, Findings
  <2> QED
    BY <1>1, <2>1 DEF Complete, TypeOK
<1>6. onStand' \subseteq Turnarounds
  BY <1>1 DEF Complete, TypeOK
<1>7. /\ pc' = [pc EXCEPT ![r] = "idle"]
      /\ ctx' = [ctx EXCEPT ![r] = IdleContext]
      /\ "idle" \in Places
  BY DEF Complete, Leave, Goto, Places
<1>8. /\ pc' \in [Threads -> Places]
      /\ ctx' \in [Threads -> Context]
      /\ BusyHasJob' /\ IdleIsClean' /\ FrameInVideo'
      /\ PendingHasTurnaround'
  BY <1>7, IdleType, ThreadMoves
<1>9. /\ hasVideo' \subseteq Jobs /\ stopped' \subseteq Workers
      /\ abandoned' \in [Jobs -> Nat]
      /\ crashes' \in Nat /\ stops' \in Nat
  BY <1>1 DEF Complete, TypeOK, bounds
<1>10. TypeOK'
  BY <1>2, <1>3, <1>4, <1>5, <1>6, <1>8, <1>9 DEF TypeOK
<1> QED
  BY <1>8, <1>10 DEF TypeInv

\* The error path.
LEMMA ErrorPathType ==
    ASSUME TypeInv, NEW r \in Runners,
           ProcessingError(r) \/ Rollback(r) \/ Report(r)
    PROVE  TypeInv'
<1> DEFINE j == ctx[r].job
<1>1. /\ TypeOK /\ ctx[r] \in Context /\ ctx[r].view \in JobRow
      /\ ctx[r].outcome \in {"failed", "cancelled"}
      /\ hasVideo \subseteq Jobs /\ row \in [Jobs -> JobRow]
      /\ pc[r] # "idle"
      /\ j \in Jobs /\ row[j] \in JobRow
      /\ ctx[r].pending.milestones # {} => TurnaroundOf[j] \in Turnarounds
  BY ContextType, BusyThread
     DEF TypeInv, TypeOK, ProcessingError, Rollback, Report
<1>2. {"raised", "reporting"} \subseteq Places
  BY DEF Places, Executing
<1>3. ASSUME ProcessingError(r)
      PROVE  TypeInv'
  <2> DEFINE c == [ctx[r] EXCEPT !.outcome = "failed"]
  <2>1. c \in Context /\ c.job = j /\ c.pending = ctx[r].pending
    BY <1>1 DEF Context
  <2>2. /\ ctx' = [ctx EXCEPT ![r] = c] /\ pc' = [pc EXCEPT ![r] = "raised"]
        /\ UNCHANGED <<row, hasVideo, results, bounds>>
    BY <1>3 DEF ProcessingError, Goto
  <2> HIDE DEF c
  <2> QED
    BY <1>1, <1>2, <2>1, <2>2, ThreadStep
<1>4. ASSUME Rollback(r)
      PROVE  TypeInv'
  <2> DEFINE c == [IdleContext EXCEPT
                     !.job = j, !.view = row[j], !.outcome = ctx[r].outcome]
  <2>1. c \in Context /\ c.job = j /\ c.pending.milestones = {}
    <3> DEFINE d == [IdleContext EXCEPT !.job = j]
               e == [d EXCEPT !.view = row[j]]
    <3>1. d \in Context /\ d.job = j /\ d.pending.milestones = {}
      BY <1>1, IdleType DEF Context
    <3> HIDE DEF d
    <3>2. e \in Context /\ e.job = j /\ e.pending.milestones = {}
      BY <1>1, <3>1 DEF Context
    <3> HIDE DEF e
    <3>3. [e EXCEPT !.outcome = ctx[r].outcome] \in Context
          /\ [e EXCEPT !.outcome = ctx[r].outcome].job = j
          /\ [e EXCEPT !.outcome = ctx[r].outcome].pending.milestones = {}
      BY <1>1, <3>2 DEF Context
    <3> QED
      BY <3>3 DEF e, d
  <2>2. /\ ctx' = [ctx EXCEPT ![r] = c] /\ pc' = [pc EXCEPT ![r] = "reporting"]
        /\ UNCHANGED <<row, hasVideo, results, bounds>>
    BY <1>4 DEF Rollback, Goto
  <2> HIDE DEF c
  <2> QED
    BY <1>1, <1>2, <2>1, <2>2, ThreadStep
<1>5. ASSUME Report(r)
      PROVE  TypeInv'
  <2> DEFINE v == [ctx[r].view EXCEPT !.status = ctx[r].outcome]
             new == [v EXCEPT !.errorCode = ErrorOf(ctx[r].outcome)]
  <2>1. CommitRow(r, new)
    BY <1>5 DEF Report
  <2>2. v \in JobRow
    BY <1>1, RowColumns DEF Statuses
  <2> HIDE DEF v
  <2>3. new \in JobRow
    BY <2>2, RowColumns DEF ErrorOf, Errors
  <2> HIDE DEF new
  <2> QED
    BY <1>1, <1>5, <2>1, <2>3, CommitEffect, LeaveStep DEF Report
<1> QED
  BY <1>3, <1>4, <1>5

\* A run that breaks off.
LEMMA AbandonType ==
    ASSUME TypeInv, NEW r \in Runners, AbandonRun(r)
    PROVE  TypeInv'
<1>1. TypeOK /\ "idle" \in Places
  BY DEF TypeInv, Places
<1>2. /\ pc' = [pc EXCEPT ![r] = "idle"]
      /\ ctx' = [ctx EXCEPT ![r] = IdleContext]
  BY DEF AbandonRun, Leave, Goto
<1>3. /\ pc' \in [Threads -> Places] /\ ctx' \in [Threads -> Context]
      /\ BusyHasJob' /\ IdleIsClean' /\ FrameInVideo' /\ PendingHasTurnaround'
  BY <1>1, <1>2, ThreadMoves, IdleType
<1>4. UNCHANGED <<row, hasVideo, results, stopped, crashes, stops>>
  BY DEF AbandonRun
<1>5. abandoned' \in [Jobs -> Nat]
  <2>1. /\ abandoned \in [Jobs -> Nat]
        /\ abandoned' = [abandoned EXCEPT ![ctx[r].job] = @ + 1]
    BY <1>1 DEF AbandonRun, TypeOK
  <2>2. ctx[r].job \in Jobs
    BY BusyThread DEF AbandonRun, Executing
  <2>3. abandoned[ctx[r].job] + 1 \in Nat
    BY <2>1, <2>2
  <2> QED
    BY <2>1, <2>3
<1>6. TypeOK'
  BY <1>1, <1>3, <1>4, <1>5 DEF TypeOK, results
<1> QED
  BY <1>3, <1>6 DEF TypeInv

LEMMA TypeStep == TypeInv /\ [Next]_vars => TypeInv'
<1> SUFFICES ASSUME TypeInv, [Next]_vars PROVE TypeInv'
  OBVIOUS
<1>1. CASE Requests
  BY <1>1, RequestType DEF Requests
<1>2. CASE \E a \in CancelThreads : CommitCancel(a)
  BY <1>2, CommitCancelType
<1>3. CASE \E w \in Workers : PickJob(w) \/ Stop(w) \/ Restart(w)
  BY <1>3, WorkerType
<1>4. CASE \E r \in Runners : RunStep(r) \/ ProcessingError(r)
  BY <1>4, StartUpType, FrameLoopType, ScanType, CompleteType, ErrorPathType
     DEF RunStep
<1>5. CASE \/ \E w \in Workers : Crash({w})
           \/ Crash(ApiThreads)
           \/ \E j \in Jobs : ExpireVideo(j)
  BY <1>5, EnvironmentType
<1>6. CASE \E r \in Runners : AbandonRun(r)
  BY <1>6, AbandonType
<1>7. CASE UNCHANGED vars
  BY <1>7 DEF vars, results, bounds, TypeInv, TypeOK, BusyHasJob, IdleIsClean,
     FrameInVideo, PendingHasTurnaround
<1> QED
  BY <1>1, <1>2, <1>3, <1>4, <1>5, <1>6, <1>7 DEF Next

\* The types of ProcessingJobs are right in every reachable state.
THEOREM TypeCorrect == Spec => []TypeOK
<1>1. Spec => []TypeInv
  BY InitType, TypeStep, PTL DEF Spec
<1>2. TypeInv => TypeOK
  BY DEF TypeInv
<1> QED
  BY <1>1, <1>2, PTL

-----------------------------------------------------------------------------
(* What a step can do to a row. *)

\* A flag that is set stays set; "completed" is written by the final commit
\* of a run and "cancelled" by the error path of a cancelled one; and a row
\* that exists is not deleted.
RowEffect(j) ==
    /\ row[j].cancelRequested => row'[j].cancelRequested
    /\ row'[j].status = "completed" =>
        \/ row[j].status = "completed"
        \/ \E r \in Runners : Complete(r) /\ ctx[r].job = j
    /\ row'[j].status = "cancelled" =>
        \/ row[j].status = "cancelled"
        \/ \E r \in Runners : /\ pc[r] = "reporting" /\ ctx[r].job = j
                              /\ ctx[r].outcome = "cancelled"
    /\ row[j].status # "absent" => row'[j].status # "absent"

\* A run's commit never touches the flag: it writes status s, or leaves the
\* status alone when s is what the session holds.
Writes(r, s) ==
    \E new \in JobRow :
        /\ CommitRow(r, new)
        /\ new.status = s
        /\ new.cancelRequested = ctx[r].view.cancelRequested

\* What each commit of a run writes.
LEMMA RunWrites ==
    ASSUME TypeInv, NEW r \in Runners
    PROVE  /\ Prepare(r)     => Writes(r, "preparing")
           /\ Start(r)       => Writes(r, "running")
           /\ FinishFrame(r) => Writes(r, ctx[r].view.status)
           /\ EndOfVideo(r)  => Writes(r, ctx[r].view.status)
           /\ Complete(r)    => Writes(r, "completed")
           /\ Report(r)      => Writes(r, ctx[r].outcome)
<1>1. /\ TypeOK /\ ctx[r].view \in JobRow /\ ctx[r].frame \in Nat
      /\ ctx[r].outcome \in {"failed", "cancelled"}
  BY ContextType DEF TypeInv
<1>2. ASSUME NEW s \in Statuses
      PROVE  LET v == [ctx[r].view EXCEPT !.status = s]
             IN  /\ v \in JobRow /\ v.status = s
                 /\ v.cancelRequested = ctx[r].view.cancelRequested
  BY <1>1, RowColumns DEF JobRow
<1>3. ASSUME NEW v \in JobRow, NEW p \in Int
      PROVE  LET new == [v EXCEPT !.progress = p]
             IN  /\ new \in JobRow /\ new.status = v.status
                 /\ new.cancelRequested = v.cancelRequested
  BY <1>3, RowColumns DEF JobRow
<1>4. ASSUME Prepare(r)
      PROVE  Writes(r, "preparing")
  <2> DEFINE v == [ctx[r].view EXCEPT !.status = "preparing"]
             new == [v EXCEPT !.progress = 1]
  <2>1. CommitRow(r, new)
    BY <1>4 DEF Prepare, Save
  <2>2. /\ v \in JobRow /\ v.status = "preparing"
        /\ v.cancelRequested = ctx[r].view.cancelRequested
    BY <1>2 DEF Statuses
  <2> HIDE DEF v
  <2>3. /\ new \in JobRow /\ new.status = v.status
        /\ new.cancelRequested = v.cancelRequested
    BY <1>3, <2>2
  <2> HIDE DEF new
  <2> QED
    BY <2>1, <2>2, <2>3 DEF Writes
<1>5. ASSUME Start(r)
      PROVE  Writes(r, "running")
  BY <1>2, <1>5 DEF Start, Save, Writes, Statuses
<1>6. ASSUME FinishFrame(r)
      PROVE  Writes(r, ctx[r].view.status)
  <2> DEFINE new == IF Processed(ctx[r].frame) % ReportEvery = 0
                    THEN [ctx[r].view EXCEPT
                            !.progress = Fraction(ctx[r].job, ctx[r].frame)]
                    ELSE ctx[r].view
  <2>1. CommitRow(r, new) /\ pc[r] = "analysing"
    BY <1>6 DEF FinishFrame
  <2>2. Fraction(ctx[r].job, ctx[r].frame) \in Int
    BY <1>1, <2>1, BusyThread DEF Fraction, TypeInv, FrameInVideo
  <2>3. /\ new \in JobRow /\ new.status = ctx[r].view.status
        /\ new.cancelRequested = ctx[r].view.cancelRequested
    BY <1>1, <1>3, <2>2
  <2> HIDE DEF new
  <2> QED
    BY <2>1, <2>3 DEF Writes
<1>7. ASSUME EndOfVideo(r)
      PROVE  Writes(r, ctx[r].view.status)
  <2> DEFINE new == [ctx[r].view EXCEPT !.progress = 100]
  <2>1. CommitRow(r, new)
    BY <1>7 DEF EndOfVideo
  <2>2. /\ new \in JobRow /\ new.status = ctx[r].view.status
        /\ new.cancelRequested = ctx[r].view.cancelRequested
    BY <1>1, <1>3
  <2> HIDE DEF new
  <2> QED
    BY <2>1, <2>2 DEF Writes
<1>8. ASSUME Complete(r)
      PROVE  Writes(r, "completed")
  <2> DEFINE v == [ctx[r].view EXCEPT !.status = "completed"]
             new == [v EXCEPT !.progress = 100]
  <2>1. CommitRow(r, new)
    BY <1>8 DEF Complete
  <2>2. /\ v \in JobRow /\ v.status = "completed"
        /\ v.cancelRequested = ctx[r].view.cancelRequested
    BY <1>2 DEF Statuses
  <2> HIDE DEF v
  <2>3. /\ new \in JobRow /\ new.status = v.status
        /\ new.cancelRequested = v.cancelRequested
    BY <1>3, <2>2
  <2> HIDE DEF new
  <2> QED
    BY <2>1, <2>2, <2>3 DEF Writes
<1>9. ASSUME Report(r)
      PROVE  Writes(r, ctx[r].outcome)
  <2> DEFINE v == [ctx[r].view EXCEPT !.status = ctx[r].outcome]
             new == [v EXCEPT !.errorCode = ErrorOf(ctx[r].outcome)]
  <2>1. CommitRow(r, new)
    BY <1>9 DEF Report
  <2>2. /\ v \in JobRow /\ v.status = ctx[r].outcome
        /\ v.cancelRequested = ctx[r].view.cancelRequested
    BY <1>1, <1>2 DEF Statuses
  <2> HIDE DEF v
  <2>3. /\ new \in JobRow /\ new.status = v.status
        /\ new.cancelRequested = v.cancelRequested
    BY <2>2, RowColumns DEF JobRow, ErrorOf, Errors
  <2> HIDE DEF new
  <2> QED
    BY <2>1, <2>2, <2>3 DEF Writes
<1> QED
  BY <1>4, <1>5, <1>6, <1>7, <1>8, <1>9

\* What such a commit does to every row.
LEMMA WriteEffect ==
    ASSUME TypeInv, NEW r \in Runners, NEW s, Writes(r, s)
    PROVE  /\ row' \in [Jobs -> JobRow]
           /\ \A k \in Jobs :
                /\ row'[k].cancelRequested = row[k].cancelRequested
                /\ row'[k].status =
                     IF k = ctx[r].job /\ s # ctx[r].view.status
                     THEN s ELSE row[k].status
<1>1. PICK new \in JobRow :
        /\ CommitRow(r, new)
        /\ new.status = s
        /\ new.cancelRequested = ctx[r].view.cancelRequested
  BY DEF Writes
<1>2. TypeOK /\ row \in [Jobs -> JobRow]
  BY DEF TypeInv, TypeOK
<1>3. \A k \in Jobs :
        row'[k] = IF k = ctx[r].job
                  THEN Flush(row[k], ctx[r].view, new) ELSE row[k]
  BY <1>1, <1>2 DEF CommitRow
<1>4. \A k \in Jobs :
        /\ Flush(row[k], ctx[r].view, new).status =
             IF s = ctx[r].view.status THEN row[k].status ELSE s
        /\ Flush(row[k], ctx[r].view, new).cancelRequested
             = row[k].cancelRequested
  BY <1>1 DEF Flush
<1>5. row' \in [Jobs -> JobRow]
  BY <1>1, <1>2, CommitEffect
<1> QED
  BY <1>3, <1>4, <1>5

\* cancel_job's commit sets the flag of its job and nothing else.
LEMMA CancelEffect ==
    ASSUME TypeInv, NEW a \in CancelThreads, CommitCancel(a)
    PROVE  /\ row' \in [Jobs -> JobRow]
           /\ \A k \in Jobs :
                /\ row'[k].status = row[k].status
                /\ \/ row'[k].cancelRequested = row[k].cancelRequested
                   \/ k = ctx[a].job /\ row'[k].cancelRequested
<1> DEFINE new == [ctx[a].view EXCEPT !.cancelRequested = TRUE]
<1>1. TypeOK /\ CommitRow(a, new) /\ ctx[a].view \in JobRow
  BY ContextType DEF CommitCancel, TypeInv
<1>2. /\ new \in JobRow
      /\ new.status = ctx[a].view.status
      /\ new.cancelRequested = TRUE
  BY <1>1 DEF JobRow
<1> HIDE DEF new
<1> QED
  BY <1>1, <1>2, CommitEffect

LEMMA RowStep ==
    ASSUME TypeInv, [Next]_vars, NEW j \in Jobs
    PROVE  RowEffect(j)
<1>1. TypeOK /\ row \in [Jobs -> JobRow]
  BY DEF TypeInv, TypeOK
<1>2. ASSUME UNCHANGED row
      PROVE  RowEffect(j)
  BY <1>2 DEF RowEffect
<1>3. ASSUME NEW k \in Jobs, InsertJob(k)
      PROVE  RowEffect(j)
  BY <1>1, <1>3 DEF InsertJob, RowEffect, JobRow
<1>4. ASSUME Requests
      PROVE  RowEffect(j)
  BY <1>2, <1>3, <1>4
     DEF Requests, Upload, UploadAndRun, RunJob, RequestCancel
<1>5. ASSUME NEW a \in CancelThreads, CommitCancel(a)
      PROVE  RowEffect(j)
  BY <1>1, <1>5, CancelEffect DEF RowEffect, JobRow
<1>6. ASSUME NEW r \in Runners,
             NEW s, Writes(r, s), s \notin {"completed", "cancelled", "absent"}
      PROVE  RowEffect(j)
  BY <1>6, WriteEffect DEF RowEffect
<1>7. ASSUME NEW r \in Runners, Writes(r, ctx[r].view.status)
      PROVE  RowEffect(j)
  BY <1>7, WriteEffect DEF RowEffect
<1>8. ASSUME NEW r \in Runners, Complete(r)
      PROVE  RowEffect(j)
  BY <1>8, RunWrites, WriteEffect DEF RowEffect
<1>9. ASSUME NEW r \in Runners, Report(r)
      PROVE  RowEffect(j)
  <2>1. pc[r] = "reporting" /\ ctx[r].outcome \in {"failed", "cancelled"}
    BY <1>1, <1>9, ContextType DEF Report
  <2> QED
    BY <1>9, <2>1, RunWrites, WriteEffect DEF RowEffect
<1>10. ASSUME NEW r \in Runners, RunStep(r) \/ ProcessingError(r)
       PROVE  RowEffect(j)
  BY <1>2, <1>6, <1>7, <1>8, <1>9, <1>10, RunWrites
     DEF RunStep, ProcessingError, Load, LoadWithoutVideo, ReadFrame,
         ScanMilestone, ScanAlert, Rollback
<1> QED
  BY <1>2, <1>4, <1>5, <1>10
     DEF Next, vars, PickJob, Stop, Restart, AbandonRun, Crash, ExpireVideo

-----------------------------------------------------------------------------
(* What a step can do to a thread. *)

\* Where candidates are looked up, and where an exception is on its way.
Persisting(t) == pc[t] = "persisting"
Raising(t)    == pc[t] \in {"raised", "reporting"}

\* The milestone candidate m needs no row, or has one, or is about to.
Covered(t, m) ==
    \/ TurnaroundOf[ctx[t].job] = NoTurnaround
    \/ MilestoneKnown(TurnaroundOf[ctx[t].job], m[1])
    \/ m \in ctx[t].pending.milestones

\* The thread t does not move, or goes idle.
Rests(t) ==
    \/ pc'[t] = pc[t] /\ ctx'[t] = ctx[t]
    \/ pc'[t] = "idle" /\ ctx'[t] = IdleContext

\* It moves without raising and without persisting.
Goes(t) ==
    /\ ~Persisting(t) /\ ~Raising(t) /\ ~Persisting(t)' /\ ~Raising(t)'
    /\ ctx'[t].pending = ctx[t].pending

\* It raises, as cancelled only if the flag is set; or it rolls back.
Raises(t) ==
    /\ ~Persisting(t)' /\ Raising(t)'
    /\ ctx'[t].job = ctx[t].job /\ ctx[t].job \in Jobs
    /\ \/ ctx'[t].outcome = "failed"
       \/ row[ctx[t].job].cancelRequested
       \/ Raising(t) /\ ctx'[t].outcome = ctx[t].outcome
    /\ \/ ctx'[t].pending.milestones = {}
       \/ pc'[t] = "raised" /\ ctx'[t].pending = ctx[t].pending

\* It begins to persist what it has found, or looks a candidate up.
Persists(t) ==
    /\ Persisting(t)' /\ ~Raising(t)'
    /\ ctx'[t].job = ctx[t].job
    /\ \/ /\ ~Persisting(t) /\ ~Raising(t)
          /\ ctx'[t].pending = ctx[t].pending
          /\ ctx'[t].todo = ctx'[t].found
       \/ /\ Persisting(t)
          /\ ctx'[t].found = ctx[t].found
          /\ ctx'[t].todo.milestones = ctx[t].todo.milestones
          /\ ctx'[t].pending.milestones = ctx[t].pending.milestones
       \/ \E m \in ctx[t].todo.milestones :
          /\ Persisting(t)
          /\ ctx'[t].found = ctx[t].found
          /\ ctx'[t].todo.milestones = ctx[t].todo.milestones \ {m}
          /\ \/ /\ TurnaroundOf[ctx[t].job] = NoTurnaround
                   \/ MilestoneKnown(TurnaroundOf[ctx[t].job], m[1])
                /\ ctx'[t].pending.milestones = ctx[t].pending.milestones
             \/ /\ TurnaroundOf[ctx[t].job] # NoTurnaround
                /\ ~MilestoneKnown(TurnaroundOf[ctx[t].job], m[1])
                /\ ctx'[t].pending.milestones
                     = ctx[t].pending.milestones \cup {m}

ThreadEffect(t) == Rests(t) \/ Goes(t) \/ Raises(t) \/ Persists(t)

LEMMA ThreadStepEffect ==
    ASSUME TypeInv, [Next]_vars, NEW t \in Threads
    PROVE  ThreadEffect(t)
<1> USE DEF Persisting, Raising
<1>1. TypeOK /\ \A s \in Threads : ctx[s] \in Context
      /\ DOMAIN pc = Threads /\ DOMAIN ctx = Threads
  BY DEF TypeInv, TypeOK
<1>2. ASSUME UNCHANGED <<pc, ctx>>
      PROVE  ThreadEffect(t)
  BY <1>2 DEF ThreadEffect, Rests
<1>3. ASSUME NEW s \in Threads, Leave(s)
      PROVE  ThreadEffect(t)
  BY <1>1, <1>3 DEF ThreadEffect, Rests, Leave, Goto
<1>4. ASSUME NEW s \in Threads, NEW place \in Places,
             NEW c, c.pending = ctx[s].pending,
             pc[s] \notin {"persisting", "raised", "reporting"},
             place \notin {"persisting", "raised", "reporting"},
             pc' = [pc EXCEPT ![s] = place], ctx' = [ctx EXCEPT ![s] = c]
      PROVE  ThreadEffect(t)
  BY <1>1, <1>4 DEF ThreadEffect, Rests, Goes
<1>5. ASSUME NEW j \in Jobs, NEW a \in CancelThreads,
             Upload(a, j) \/ RequestCancel(a, j)
      PROVE  ThreadEffect(t)
  <2>1. CASE Upload(a, j)
    BY <1>2, <2>1 DEF Upload
  <2>2. CASE RequestCancel(a, j)
    <3> DEFINE c == [ctx[a] EXCEPT !.job = j, !.view = row[j]]
    <3>1. c.pending = ctx[a].pending
      BY <1>1 DEF Context
    <3>2. /\ pc' = [pc EXCEPT ![a] = "cancelling"]
          /\ ctx' = [ctx EXCEPT ![a] = c]
          /\ pc[a] = "idle" /\ "cancelling" \in Places
      BY <2>2 DEF RequestCancel, Goto, Places
    <3> HIDE DEF c
    <3> QED
      BY <1>4, <3>1, <3>2
  <2> QED
    BY <1>5, <2>1, <2>2
<1>6. ASSUME NEW s \in Threads, NEW j \in Jobs, pc[s] = "idle",
             Goto(s, "picked"), ctx' = [ctx EXCEPT ![s].job = j]
      PROVE  ThreadEffect(t)
  <2> DEFINE c == [ctx[s] EXCEPT !.job = j]
  <2>1. c.pending = ctx[s].pending
    BY <1>1 DEF Context
  <2>2. /\ pc' = [pc EXCEPT ![s] = "picked"]
        /\ ctx' = [ctx EXCEPT ![s] = c] /\ "picked" \in Places
    BY <1>6 DEF Goto, Places
  <2> HIDE DEF c
  <2> QED
    BY <1>4, <1>6, <2>1, <2>2
<1>7. ASSUME NEW s \in Runners, Load(s) \/ Prepare(s) \/ Start(s)
      PROVE  ThreadEffect(t)
  <2>1. PICK place, view :
          /\ place \in {"loaded", "prepared", "frames"}
          /\ pc' = [pc EXCEPT ![s] = place]
          /\ ctx' = [ctx EXCEPT ![s].view = view]
    BY <1>7 DEF Load, Prepare, Start, Save, Goto
  <2> DEFINE c == [ctx[s] EXCEPT !.view = view]
  <2>2. c.pending = ctx[s].pending
    BY <1>1 DEF Context
  <2>3. ctx' = [ctx EXCEPT ![s] = c] /\ place \in Places
    BY <2>1 DEF Places, Executing
  <2>4. pc[s] \notin {"persisting", "raised", "reporting"}
    BY <1>7 DEF Load, Prepare, Start
  <2> HIDE DEF c
  <2> QED
    BY <1>4, <2>1, <2>2, <2>3, <2>4
<1>8. ASSUME NEW s \in Runners, ReadFrame(s)
      PROVE  ThreadEffect(t)
  <2> DEFINE j == ctx[s].job
             frame == ctx[s].frame
             d == [ctx[s] EXCEPT !.view = row[j]]
  <2>1. /\ pc[s] = "frames" /\ j \in Jobs
        /\ d.pending = ctx[s].pending /\ d.job = j
    BY <1>1, <1>8, BusyThread DEF ReadFrame, Context
  <2>2. CASE /\ row[j].cancelRequested
             /\ Goto(s, "raised")
             /\ ctx' = [ctx EXCEPT ![s] =
                          [@ EXCEPT !.view = row[j], !.outcome = "cancelled"]]
    <3> DEFINE c == [d EXCEPT !.outcome = "cancelled"]
    <3>1. ctx' = [ctx EXCEPT ![s] = c] /\ pc' = [pc EXCEPT ![s] = "raised"]
      BY <2>2 DEF Goto
    <3>2. ctx[s] \in Context
      BY <1>1
    <3>3. c.job = j /\ c.pending = ctx[s].pending
      BY <3>2 DEF Context
    <3> HIDE DEF c, d
    <3> QED
      BY <1>1, <2>1, <2>2, <3>1, <3>3 DEF ThreadEffect, Rests, Raises
  <2>3. CASE /\ ctx' = [ctx EXCEPT ![s] =
                          [@ EXCEPT !.view = row[j], !.frame = frame + 1]]
             /\ UNCHANGED pc
    <3> DEFINE c == [d EXCEPT !.frame = frame + 1]
    <3>1. /\ ctx' = [ctx EXCEPT ![s] = c]
          /\ pc' = [pc EXCEPT ![s] = "frames"] /\ "frames" \in Places
      BY <1>1, <2>1, <2>3 DEF TypeOK, Places, Executing
    <3>2. c.pending = ctx[s].pending
      BY <1>1 DEF Context
    <3> HIDE DEF c, d
    <3> QED
      BY <1>4, <2>1, <3>1, <3>2
  <2>4. CASE Goto(s, "analysing") /\ ctx' = [ctx EXCEPT ![s].view = row[j]]
    <3>1. /\ ctx' = [ctx EXCEPT ![s] = d]
          /\ pc' = [pc EXCEPT ![s] = "analysing"] /\ "analysing" \in Places
      BY <2>4 DEF Goto, Places, Executing
    <3> HIDE DEF d
    <3> QED
      BY <1>4, <2>1, <3>1
  <2> QED
    BY <1>8, <2>2, <2>3, <2>4 DEF ReadFrame
<1>9. ASSUME NEW s \in Runners, FinishFrame(s)
      PROVE  ThreadEffect(t)
  <2> DEFINE frame == ctx[s].frame
  <2>1. PICK new : ctx' = [ctx EXCEPT ![s] =
                             [@ EXCEPT !.view = new, !.frame = frame + 1]]
    BY <1>9 DEF FinishFrame
  <2> DEFINE c == [ctx[s] EXCEPT !.view = new, !.frame = frame + 1]
  <2>2. /\ ctx' = [ctx EXCEPT ![s] = c] /\ pc[s] = "analysing"
        /\ pc' = [pc EXCEPT ![s] = "frames"] /\ "frames" \in Places
    BY <1>9, <2>1 DEF FinishFrame, Goto, Places, Executing
  <2>3. c.pending = ctx[s].pending
    BY <1>1 DEF Context
  <2> HIDE DEF c
  <2> QED
    BY <1>4, <2>2, <2>3
<1>10. ASSUME NEW s \in Runners, EndOfVideo(s)
       PROVE  ThreadEffect(t)
  <2> DEFINE new == [ctx[s].view EXCEPT !.progress = 100]
  <2>1. PICK found \in Findings :
          ctx' = [ctx EXCEPT ![s] =
                    [@ EXCEPT !.view = new, !.found = found, !.todo = found]]
    BY <1>10 DEF EndOfVideo
  <2> HIDE DEF new
  <2> DEFINE c == [ctx[s] EXCEPT !.view = new, !.found = found, !.todo = found]
  <2>2. /\ ctx' = [ctx EXCEPT ![s] = c] /\ pc[s] = "frames"
        /\ pc' = [pc EXCEPT ![s] = "persisting"]
    BY <1>10, <2>1 DEF EndOfVideo, Goto
  <2>3. /\ c.job = ctx[s].job /\ c.pending = ctx[s].pending
        /\ c.todo = found /\ c.found = found
    BY <1>1 DEF Context
  <2> HIDE DEF c
  <2> QED
    BY <1>1, <2>2, <2>3 DEF ThreadEffect, Rests, Persists
<1>11. ASSUME NEW s \in Runners, NEW m \in MilestoneTypes \X Tracks,
              ScanMilestone(s, m)
       PROVE  ThreadEffect(t)
  <2> DEFINE known == \/ TurnaroundOf[ctx[s].job] = NoTurnaround
                      \/ MilestoneKnown(TurnaroundOf[ctx[s].job], m[1])
             left == [ctx[s].todo EXCEPT !.milestones = @ \ {m}]
             added == [ctx[s].pending EXCEPT !.milestones =
                         IF known THEN @ ELSE @ \cup {m}]
             c == [ctx[s] EXCEPT !.todo = left, !.pending = added]
  <2>1. /\ ctx' = [ctx EXCEPT ![s] = c] /\ pc[s] = "persisting"
        /\ pc' = pc /\ m \in ctx[s].todo.milestones
    BY <1>11 DEF ScanMilestone
  <2>2. /\ left.milestones = ctx[s].todo.milestones \ {m}
        /\ added.milestones = IF known THEN ctx[s].pending.milestones
                              ELSE ctx[s].pending.milestones \cup {m}
    BY <1>1, ContextType DEF Findings
  <2> HIDE DEF left, added
  <2>3. /\ c.job = ctx[s].job /\ c.found = ctx[s].found
        /\ c.todo = left /\ c.pending = added
    BY <1>1 DEF Context
  <2> HIDE DEF c
  <2>4. CASE t = s
    <3>1. Persists(t)
      BY <1>1, <2>1, <2>2, <2>3, <2>4 DEF Persists
    <3> QED
      BY <3>1 DEF ThreadEffect
  <2>5. CASE t # s
    BY <1>1, <2>1, <2>5 DEF ThreadEffect, Rests
  <2> QED
    BY <2>4, <2>5
<1>12. ASSUME NEW s \in Runners, NEW key \in AlertKeys, ScanAlert(s, key)
       PROVE  ThreadEffect(t)
  <2> DEFINE left == [ctx[s].todo EXCEPT !.alerts = @ \ {key}]
             added == [ctx[s].pending EXCEPT !.alerts =
                         IF AlertKnown(ctx[s].job, key)
                         THEN @ ELSE @ \cup {key}]
             c == [ctx[s] EXCEPT !.todo = left, !.pending = added]
  <2>1. /\ ctx' = [ctx EXCEPT ![s] = c] /\ pc[s] = "persisting" /\ pc' = pc
    BY <1>12 DEF ScanAlert
  <2>2. /\ left.milestones = ctx[s].todo.milestones
        /\ added.milestones = ctx[s].pending.milestones
    BY <1>1, ContextType DEF Findings
  <2> HIDE DEF left, added
  <2>3. /\ c.job = ctx[s].job /\ c.found = ctx[s].found
        /\ c.todo = left /\ c.pending = added
    BY <1>1 DEF Context
  <2> HIDE DEF c
  <2> QED
    BY <1>1, <2>1, <2>2, <2>3 DEF ThreadEffect, Rests, Persists
<1>13. ASSUME NEW s \in Runners, ProcessingError(s)
       PROVE  ThreadEffect(t)
  <2> DEFINE c == [ctx[s] EXCEPT !.outcome = "failed"]
  <2>1. /\ ctx' = [ctx EXCEPT ![s] = c] /\ pc[s] # "idle"
        /\ pc' = [pc EXCEPT ![s] = "raised"]
    BY <1>13 DEF ProcessingError, Goto
  <2>2. c.job = ctx[s].job /\ c.pending = ctx[s].pending /\ c.outcome = "failed"
    BY <1>1 DEF Context
  <2> HIDE DEF c
  <2> QED
    BY <1>1, <2>1, <2>2, BusyThread DEF ThreadEffect, Rests, Raises
<1>14. ASSUME NEW s \in Runners, Rollback(s)
       PROVE  ThreadEffect(t)
  <2> DEFINE c == [IdleContext EXCEPT !.job = ctx[s].job,
                     !.view = row[ctx[s].job], !.outcome = ctx[s].outcome]
  <2>1. /\ ctx' = [ctx EXCEPT ![s] = c] /\ pc[s] = "raised"
        /\ pc' = [pc EXCEPT ![s] = "reporting"]
    BY <1>14 DEF Rollback, Goto
  <2>2. /\ c.job = ctx[s].job /\ c.pending.milestones = {}
        /\ c.outcome = ctx[s].outcome
    BY DEF IdleContext, Nothing
  <2> HIDE DEF c
  <2> QED
    BY <1>1, <2>1, <2>2, BusyThread DEF ThreadEffect, Rests, Raises
<1>15. ASSUME NEW P, Crash(P)
       PROVE  ThreadEffect(t)
  BY <1>15 DEF Crash, ThreadEffect, Rests
<1>16. ASSUME NEW s \in Runners, RunStep(s)
       PROVE  ThreadEffect(t)
  BY <1>3, <1>7, <1>8, <1>9, <1>10, <1>11, <1>12, <1>14, <1>16
     DEF RunStep, LoadWithoutVideo, Complete, Report
<1>17. ASSUME Requests
       PROVE  ThreadEffect(t)
  BY <1>5, <1>6, <1>17 DEF Requests, UploadAndRun, RunJob
<1>18. ASSUME NEW w \in Workers, PickJob(w)
       PROVE  ThreadEffect(t)
  BY <1>6, <1>18 DEF PickJob
<1> QED
  BY <1>2, <1>3, <1>13, <1>15, <1>16, <1>17, <1>18
     DEF Next, vars, CommitCancel, Stop, Restart, AbandonRun, ExpireVideo

-----------------------------------------------------------------------------
(* Safety of the stored rows, whatever overlaps, crashes, fails or         *)
(* expires.  The inductive invariant rests on what a step does to a row    *)
(* (RowStep) and to a thread (ThreadStepEffect).                           *)

\* A run that is about to end as cancelled has seen the flag of its job.
CancelBacked ==
    \A t \in Threads :
        Raising(t) /\ ctx[t].outcome = "cancelled"
            => row[ctx[t].job].cancelRequested

\* Milestones are pending only between the lookups and the commit.
PendingClean ==
    \A t \in Threads :
        ~Persisting(t) /\ pc[t] # "raised" => ctx[t].pending.milestones = {}

\* Only milestones that were found are looked up and pending.
OnlyFound ==
    \A t \in Threads :
        Persisting(t) =>
            /\ ctx[t].todo.milestones \subseteq ctx[t].found.milestones
            /\ ctx[t].pending.milestones \subseteq ctx[t].found.milestones

\* A milestone that was found is still to be looked up, or needs no new row,
\* or has one pending.
FoundCovered ==
    \A t \in Threads :
        Persisting(t) =>
            \A m \in ctx[t].found.milestones :
                m \in ctx[t].todo.milestones \/ Covered(t, m)

RunInv == CancelBacked /\ PendingClean /\ OnlyFound /\ FoundCovered

StoreInv ==
    /\ CompletedHasResults
    /\ NoPartialResults
    /\ OnStandIffAircraftOnBlock
    /\ CancelledWasRequested

SafetyInv == TypeInv /\ RunInv /\ StoreInv

USE DEF ApiThreads, Runners, Threads

LEMMA InitSafety == Init => SafetyInv
<1> SUFFICES ASSUME Init PROVE SafetyInv
  OBVIOUS
<1>1. TypeInv
  BY InitType
<1>2. /\ \A t \in Threads : pc[t] = "idle"
      /\ \A t \in Threads : ctx[t].pending.milestones = {}
      /\ \A j \in Jobs : row[j].status = "absent"
  BY DEF Init, IdleContext, Nothing, BlankRow
<1>3. RunInv
  BY <1>2 DEF RunInv, CancelBacked, PendingClean, OnlyFound, FoundCovered,
     Raising, Persisting
<1>4. StoreInv
  BY <1>2 DEF Init, StoreInv, CompletedHasResults, NoPartialResults,
     OnStandIffAircraftOnBlock, CancelledWasRequested, MilestoneKnown
<1> QED
  BY <1>1, <1>3, <1>4 DEF SafetyInv

-----------------------------------------------------------------------------
(* Results only grow, and only when a run completes. *)

LEMMA ResultsStep ==
    ASSUME [Next]_vars
    PROVE  UNCHANGED results \/ \E r \in Runners : Complete(r)
BY DEF Next, vars, Requests, RunStep, Upload, RequestCancel, UploadAndRun,
   RunJob, CommitCancel, PickJob, Stop, Restart, Load, LoadWithoutVideo,
   Prepare, Start, Save, ReadFrame, FinishFrame, EndOfVideo, ScanMilestone,
   ScanAlert, Rollback, Report, ProcessingError, AbandonRun, Crash, ExpireVideo

LEMMA ResultsGrow ==
    ASSUME [Next]_vars
    PROVE  /\ trackRows \subseteq trackRows'
           /\ milestoneRows \subseteq milestoneRows'
BY ResultsStep DEF results, Complete

\* A milestone that is known stays known.
LEMMA KnownGrows ==
    ASSUME [Next]_vars, NEW t, NEW type, MilestoneKnown(t, type)
    PROVE  MilestoneKnown(t, type)'
BY ResultsGrow DEF MilestoneKnown

-----------------------------------------------------------------------------
(* The invariants about the runs. *)

LEMMA CancelBackedStep ==
    ASSUME TypeInv, CancelBacked, [Next]_vars
    PROVE  CancelBacked'
<1> SUFFICES ASSUME NEW t \in Threads, Raising(t)',
                    ctx'[t].outcome = "cancelled"
             PROVE  row'[ctx'[t].job].cancelRequested
  BY DEF CancelBacked
<1>1. CASE Rests(t)
  <2>1. pc'[t] # "idle"
    BY DEF Raising
  <2>2. pc'[t] = pc[t] /\ ctx'[t] = ctx[t]
    BY <1>1, <2>1 DEF Rests
  <2>3. row[ctx[t].job].cancelRequested /\ ctx[t].job \in Jobs
    BY <2>1, <2>2, BusyThread DEF CancelBacked, Raising
  <2> QED
    BY <2>2, <2>3, RowStep DEF RowEffect
<1>2. CASE Raises(t)
  <2>1. row[ctx[t].job].cancelRequested
    BY <1>2 DEF Raises, CancelBacked
  <2> QED
    BY <1>2, <2>1, RowStep DEF RowEffect, Raises
<1> QED
  BY <1>1, <1>2, ThreadStepEffect DEF ThreadEffect, Goes, Persists

LEMMA PendingCleanStep ==
    ASSUME TypeInv, PendingClean, [Next]_vars
    PROVE  PendingClean'
<1> SUFFICES ASSUME NEW t \in Threads, ~Persisting(t)', pc'[t] # "raised"
             PROVE  ctx'[t].pending.milestones = {}
  BY DEF PendingClean
<1>1. CASE Rests(t)
  BY <1>1, IdleType DEF Rests, PendingClean, Persisting
<1>2. CASE Goes(t)
  BY <1>2 DEF Goes, PendingClean, Persisting, Raising
<1>3. CASE Raises(t)
  BY <1>3 DEF Raises
<1> QED
  BY <1>1, <1>2, <1>3, ThreadStepEffect DEF ThreadEffect, Persists

LEMMA OnlyFoundStep ==
    ASSUME TypeInv, PendingClean, OnlyFound, [Next]_vars
    PROVE  OnlyFound'
<1> SUFFICES ASSUME NEW t \in Threads, Persisting(t)'
             PROVE  /\ ctx'[t].todo.milestones \subseteq ctx'[t].found.milestones
                    /\ ctx'[t].pending.milestones
                         \subseteq ctx'[t].found.milestones
  BY DEF OnlyFound
<1>1. CASE Rests(t)
  BY <1>1 DEF Rests, OnlyFound, Persisting
<1>2. CASE Persists(t)
  BY <1>2 DEF Persists, OnlyFound, PendingClean, Persisting, Raising
<1> QED
  BY <1>1, <1>2, ThreadStepEffect DEF ThreadEffect, Goes, Raises

LEMMA FoundCoveredStep ==
    ASSUME TypeInv, FoundCovered, [Next]_vars
    PROVE  FoundCovered'
<1> SUFFICES ASSUME NEW t \in Threads, Persisting(t)',
                    NEW m \in ctx'[t].found.milestones,
                    m \notin ctx'[t].todo.milestones
             PROVE  Covered(t, m)'
  BY DEF FoundCovered
<1>1. CASE Rests(t)
  BY <1>1, KnownGrows DEF Rests, FoundCovered, Persisting, Covered
<1>2. CASE Persists(t)
  BY <1>2, KnownGrows DEF Persists, FoundCovered, Persisting, Covered
<1> QED
  BY <1>1, <1>2, ThreadStepEffect DEF ThreadEffect, Goes, Raises

LEMMA RunStepInv ==
    ASSUME TypeInv, RunInv, [Next]_vars
    PROVE  RunInv'
BY CancelBackedStep, PendingCleanStep, OnlyFoundStep, FoundCoveredStep
   DEF RunInv

-----------------------------------------------------------------------------
(* The invariants about the store. *)

LEMMA CompletedHasResultsStep ==
    ASSUME TypeInv, CompletedHasResults, [Next]_vars
    PROVE  CompletedHasResults'
<1> SUFFICES ASSUME NEW j \in Jobs, row'[j].status = "completed"
             PROVE  \E r \in Runners : <<j, r>> \in trackRows'
  BY DEF CompletedHasResults, Published
<1>1. CASE row[j].status = "completed"
  BY <1>1, ResultsGrow DEF CompletedHasResults, Published
<1>2. CASE \E r \in Runners : Complete(r) /\ ctx[r].job = j
  BY <1>2 DEF Complete, NewTracks
<1> QED
  BY <1>1, <1>2, RowStep DEF RowEffect

LEMMA NoPartialResultsStep ==
    ASSUME TypeInv, NoPartialResults, [Next]_vars
    PROVE  NoPartialResults'
<1>1. CASE UNCHANGED results
  BY <1>1 DEF results, NoPartialResults
<1>2. ASSUME NEW r \in Runners, Complete(r)
      PROVE  NoPartialResults'
  <2>1. /\ trackRows' = trackRows \cup {<<ctx[r].job, r>>}
        /\ alertRows' = alertRows \cup NewAlerts(r)
        /\ milestoneRows' = milestoneRows \cup NewMilestones(r)
    BY <1>2 DEF Complete, NewTracks
  <2>2. \A x \in NewAlerts(r) : x.job = ctx[r].job /\ x.by = r
    BY DEF NewAlerts
  <2>3. \A m \in NewMilestones(r) : m.job = ctx[r].job /\ m.by = r
    BY DEF NewMilestones
  <2> QED
    BY <2>1, <2>2, <2>3 DEF NoPartialResults
<1> QED
  BY <1>1, <1>2, ResultsStep

\* With every candidate looked up, an aircraft milestone of a run on a
\* turnaround is stored or pending; and none is pending that was not found.
LEMMA OnStandStep ==
    ASSUME TypeInv, RunInv, OnStandIffAircraftOnBlock, [Next]_vars
    PROVE  OnStandIffAircraftOnBlock'
<1>1. CASE UNCHANGED results
  BY <1>1 DEF results, OnStandIffAircraftOnBlock, MilestoneKnown
<1>2. ASSUME NEW r \in Runners, Complete(r), NEW t \in Turnarounds
      PROVE  t \in onStand' <=> MilestoneKnown(t, "aircraft_on_block")'
  <2> DEFINE j == ctx[r].job
             pending == ctx[r].pending.milestones
             found == ctx[r].found.milestones
  <2>1. /\ t \in onStand' <=> \/ t \in onStand
                              \/ t = TurnaroundOf[j] /\ OnBlock(r)
        /\ milestoneRows' = milestoneRows \cup NewMilestones(r)
    BY <1>2, JobsAssumption DEF Complete
  <2>2. /\ pending \subseteq found
        /\ \A m \in found : Covered(r, m)
    BY <1>2 DEF Complete, RunInv, OnlyFound, FoundCovered, Persisting, Nothing
  <2>3. MilestoneKnown(t, "aircraft_on_block")' <=>
          \/ MilestoneKnown(t, "aircraft_on_block")
          \/ t = TurnaroundOf[j] /\ \E m \in pending : m[1] = "aircraft_on_block"
    <3>1. \A n \in NewMilestones(r) :
            \E m \in pending : n.turnaround = TurnaroundOf[j] /\ n.type = m[1]
      BY DEF NewMilestones
    <3>2. ASSUME NEW m \in pending
          PROVE  \E n \in NewMilestones(r) :
                   n.turnaround = TurnaroundOf[j] /\ n.type = m[1]
      <4> DEFINE n == [turnaround |-> TurnaroundOf[j], type |-> m[1],
                       track |-> m[2], job |-> j, by |-> r]
      <4>1. n \in NewMilestones(r)
        BY DEF NewMilestones
      <4>2. n.turnaround = TurnaroundOf[j] /\ n.type = m[1]
        OBVIOUS
      <4> QED
        BY <4>1, <4>2
    <3> QED
      BY <2>1, <3>1, <3>2 DEF MilestoneKnown
  <2>4. t = TurnaroundOf[j] /\ OnBlock(r) =>
          \/ MilestoneKnown(t, "aircraft_on_block")
          \/ \E m \in pending : m[1] = "aircraft_on_block"
    BY <2>2, JobsAssumption DEF OnBlock, Covered
  <2>5. (\E m \in pending : m[1] = "aircraft_on_block") => OnBlock(r)
    BY <2>2 DEF OnBlock
  <2> QED
    BY <2>1, <2>3, <2>4, <2>5 DEF OnStandIffAircraftOnBlock
<1> QED
  BY <1>1, <1>2, ResultsStep DEF OnStandIffAircraftOnBlock

LEMMA CancelledWasRequestedStep ==
    ASSUME TypeInv, RunInv, CancelledWasRequested, [Next]_vars
    PROVE  CancelledWasRequested'
<1> SUFFICES ASSUME NEW j \in Jobs, row'[j].status = "cancelled"
             PROVE  row'[j].cancelRequested
  BY DEF CancelledWasRequested
<1>1. CASE row[j].status = "cancelled"
  BY <1>1, RowStep DEF RowEffect, CancelledWasRequested
<1>2. CASE \E r \in Runners : /\ pc[r] = "reporting" /\ ctx[r].job = j
                             /\ ctx[r].outcome = "cancelled"
  BY <1>2, RowStep DEF RowEffect, RunInv, CancelBacked, Raising
<1> QED
  BY <1>1, <1>2, RowStep DEF RowEffect

LEMMA SafetyStep == SafetyInv /\ [Next]_vars => SafetyInv'
BY TypeStep, RunStepInv, CompletedHasResultsStep, NoPartialResultsStep,
   OnStandStep, CancelledWasRequestedStep DEF SafetyInv, StoreInv

LEMMA SafetyHolds == Spec => []SafetyInv
BY InitSafety, SafetyStep, PTL DEF Spec

-----------------------------------------------------------------------------
(* Jobs whose runs do not overlap.  Nothing in the code keeps two runs of  *)
(* one job apart; what holds when they are apart is proved from RunsApart, *)
(* and that a deployment keeps them apart is a theorem of its own.         *)

\* No two runs of one job are in progress at the same time.
RunsApart ==
    \A r, s \in Runners :
        pc[r] # "idle" /\ pc[s] # "idle" /\ ctx[r].job = ctx[s].job => r = s

Startable == {"queued", "failed", "cancelled"}

\* Where a run is after it has committed "running".
Working == {"frames", "analysing", "persisting", "raised", "reporting"}

\* A run at `place` with locals `c` finds the row of its job as its own last
\* commit left it.
HeldAt(place, c, rows) ==
    /\ place \in {"picked", "loaded"} => rows[c.job].status \in Startable
    /\ place = "prepared" => rows[c.job].status = "preparing"
    /\ place \in Working => rows[c.job].status = "running"
    /\ place \in Executing => c.view.status = rows[c.job].status

Held == \A r \in Runners : HeldAt(pc[r], ctx[r], row)

\* A cancel request has found its job.
CancelsKnown ==
    \A a \in CancelThreads :
        pc[a] = "cancelling" => row[ctx[a].job].status # "absent"

\* Results are in the store exactly for completed jobs.
PublishedIffCompleted ==
    \A j \in Jobs : Published(j) <=> row[j].status = "completed"

\* The results of a job are those of one runner.
OneRunner ==
    \A j \in Jobs : \A r, s \in Runners :
        <<j, r>> \in trackRows /\ <<j, s>> \in trackRows => r = s

ApartInv == Held /\ CancelsKnown /\ PublishedIffCompleted /\ OneRunner

\* A step that changes the status of no job but the one run s works on (or
\* one that did not exist) leaves the rows of the other runs as they were.
LEMMA HeldByOthers ==
    ASSUME TypeInv, Held, RunsApart, NEW s \in Threads,
           \A k \in Jobs :
             \/ row'[k].status = row[k].status
             \/ row[k].status = "absent"
             \/ s \in Runners /\ pc[s] # "idle" /\ k = ctx[s].job,
           NEW t \in Runners, t # s, pc'[t] = pc[t], ctx'[t] = ctx[t]
    PROVE  HeldAt(pc'[t], ctx'[t], row')
<1>1. CASE pc[t] \in {"idle", "cancelling"}
  BY <1>1 DEF HeldAt, Working, Executing
<1>2. CASE pc[t] \notin {"idle", "cancelling"}
  <2>1. ctx[t].job \in Jobs /\ HeldAt(pc[t], ctx[t], row)
    BY <1>2, BusyThread DEF Held
  <2>2. pc[t] \in {"picked", "loaded", "prepared"} \cup Working
    BY <1>2 DEF TypeInv, TypeOK, Places, Executing, Working
  <2>3. row[ctx[t].job].status # "absent"
    BY <2>1, <2>2 DEF HeldAt, Startable
  <2>4. row'[ctx[t].job].status = row[ctx[t].job].status
    BY <1>2, <2>1, <2>3 DEF RunsApart
  <2> QED
    BY <2>1, <2>4 DEF HeldAt
<1> QED
  BY <1>1, <1>2

\* What is left to show when one thread moves.
LEMMA HeldMove ==
    ASSUME TypeInv, Held, RunsApart, NEW s \in Threads, NEW place, NEW c,
           pc' = [pc EXCEPT ![s] = place], ctx' = [ctx EXCEPT ![s] = c],
           \A k \in Jobs :
             \/ row'[k].status = row[k].status
             \/ row[k].status = "absent"
             \/ s \in Runners /\ pc[s] # "idle" /\ k = ctx[s].job,
           s \in Runners => HeldAt(place, c, row')
    PROVE  Held'
<1> SUFFICES ASSUME NEW t \in Runners
             PROVE  HeldAt(pc'[t], ctx'[t], row')
  BY DEF Held
<1>1. DOMAIN pc = Threads /\ DOMAIN ctx = Threads
  BY DEF TypeInv, TypeOK
<1>2. CASE t = s
  BY <1>1, <1>2
<1>3. CASE t # s
  <2>1. pc'[t] = pc[t] /\ ctx'[t] = ctx[t]
    BY <1>1, <1>3
  <2> QED
    BY <1>3, <2>1, HeldByOthers
<1> QED
  BY <1>2, <1>3

\* The same when the rows stay as they are, and when the thread leaves.
LEMMA HeldIdle ==
    ASSUME NEW c, NEW rows
    PROVE  HeldAt("idle", c, rows)
BY DEF HeldAt, Working, Executing

LEMMA HeldLeave ==
    ASSUME TypeInv, Held, RunsApart, NEW s \in Threads, Leave(s),
           \A k \in Jobs :
             \/ row'[k].status = row[k].status
             \/ s \in Runners /\ pc[s] # "idle" /\ k = ctx[s].job
    PROVE  Held'
BY HeldMove, HeldIdle DEF Leave, Goto

\* Steps that are not part of a run.
LEMMA HeldOutside ==
    ASSUME TypeInv, Held, RunsApart,
           \/ Requests
           \/ \E a \in CancelThreads : CommitCancel(a)
           \/ \E w \in Workers : PickJob(w) \/ Stop(w) \/ Restart(w)
           \/ \E w \in Workers : Crash({w})
           \/ Crash(ApiThreads)
           \/ \E j \in Jobs : ExpireVideo(j)
    PROVE  Held'
<1>1. /\ row \in [Jobs -> JobRow] /\ ctx \in [Threads -> Context]
      /\ DOMAIN pc = Threads
  BY DEF TypeInv, TypeOK
<1>2. ASSUME NEW k \in Jobs, InsertJob(k)
      PROVE  /\ row'[k].status = "queued"
             /\ row[k].status = "absent"
             /\ \A i \in Jobs : i # k => row'[i] = row[i]
  BY <1>1, <1>2 DEF InsertJob, JobRow
<1>3. ASSUME UNCHANGED <<row, pc, ctx>>
      PROVE  Held'
  BY <1>3 DEF Held
<1>4. ASSUME NEW j \in Jobs, NEW r \in Runners, NEW c,
             c = [ctx[r] EXCEPT !.job = j],
             Goto(r, "picked"), ctx' = [ctx EXCEPT ![r] = c],
             row'[j].status \in Startable,
             \A k \in Jobs : \/ row'[k].status = row[k].status
                             \/ row[k].status = "absent"
      PROVE  Held'
  <2>1. c.job = j
    BY <1>1, <1>4 DEF Context
  <2>2. HeldAt("picked", c, row')
    BY <1>4, <2>1 DEF HeldAt, Working, Executing
  <2> QED
    BY <1>4, <2>2, HeldMove DEF Goto
<1>5. ASSUME NEW j \in Jobs, NEW a \in CancelThreads,
             Upload(a, j) \/ RequestCancel(a, j)
      PROVE  Held'
  <2>1. CASE Upload(a, j)
    <3> SUFFICES ASSUME NEW t \in Runners
                 PROVE  HeldAt(pc'[t], ctx'[t], row')
      BY DEF Held
    <3>1. t # a
      BY ThreadsAssumption
    <3>2. /\ pc'[t] = pc[t] /\ ctx'[t] = ctx[t]
          /\ \A k \in Jobs : \/ row'[k].status = row[k].status
                             \/ row[k].status = "absent"
      BY <1>2, <2>1 DEF Upload
    <3> QED
      BY <3>1, <3>2, HeldByOthers
  <2>2. CASE RequestCancel(a, j)
    <3>1. a \notin Runners
      BY ThreadsAssumption
    <3> QED
      BY <2>2, <3>1, HeldMove DEF RequestCancel, Goto
  <2> QED
    BY <1>5, <2>1, <2>2
<1>6. ASSUME NEW j \in Jobs, NEW a \in RunThreads, UploadAndRun(a, j)
      PROVE  Held'
  <2>1. ctx' = [ctx EXCEPT ![a] = [ctx[a] EXCEPT !.job = j]]
    BY <1>6 DEF UploadAndRun
  <2> QED
    BY <1>2, <1>4, <1>6, <2>1 DEF UploadAndRun, Startable
<1>7. ASSUME NEW j \in Jobs, NEW a \in RunThreads, RunJob(a, j)
      PROVE  Held'
  <2>1. ctx' = [ctx EXCEPT ![a] = [ctx[a] EXCEPT !.job = j]]
    BY <1>7 DEF RunJob
  <2> QED
    BY <1>4, <1>7, <2>1 DEF RunJob, Startable
<1>8. ASSUME NEW w \in Workers, PickJob(w)
      PROVE  Held'
  <2>1. PICK j \in Jobs : /\ row[j].status = "queued"
                          /\ Goto(w, "picked")
                          /\ ctx' = [ctx EXCEPT ![w].job = j]
    BY <1>8 DEF PickJob
  <2>2. ctx' = [ctx EXCEPT ![w] = [ctx[w] EXCEPT !.job = j]] /\ row' = row
    BY <1>8, <2>1 DEF PickJob
  <2> QED
    BY <1>4, <2>1, <2>2 DEF Startable
<1>9. ASSUME NEW a \in CancelThreads, CommitCancel(a)
      PROVE  Held'
  BY <1>9, CancelEffect, HeldLeave DEF CommitCancel
<1>10. ASSUME NEW P, Crash(P)
       PROVE  Held'
  <2>1. /\ pc' = [t \in Threads |-> IF t \in P THEN "idle" ELSE pc[t]]
        /\ ctx' = [t \in Threads |-> IF t \in P THEN IdleContext ELSE ctx[t]]
        /\ row' = row
    BY <1>10 DEF Crash
  <2> QED
    BY <2>1, HeldIdle DEF Held
<1> QED
  BY <1>3, <1>5, <1>6, <1>7, <1>8, <1>9, <1>10
     DEF Requests, Stop, Restart, ExpireVideo

\* The steps of a run: each finds the status its run has written last.
LEMMA HeldRun ==
    ASSUME TypeInv, Held, RunsApart, NEW r \in Runners,
           RunStep(r) \/ ProcessingError(r)
    PROVE  Held'
<1>1. /\ row \in [Jobs -> JobRow] /\ ctx[r] \in Context
      /\ pc \in [Threads -> Places] /\ DOMAIN ctx = Threads
      /\ HeldAt(pc[r], ctx[r], row)
      /\ pc[r] # "idle" => ctx[r].job \in Jobs
  BY BusyThread DEF TypeInv, TypeOK, Held
<1>2. ASSUME NEW view \in JobRow
      PROVE  LET c == [ctx[r] EXCEPT !.view = view]
             IN  c.job = ctx[r].job /\ c.view = view
  BY <1>1 DEF Context
<1>3. ASSUME NEW s, Writes(r, s), pc[r] # "idle"
      PROVE  /\ row'[ctx[r].job].status =
                  IF s # ctx[r].view.status THEN s
                  ELSE row[ctx[r].job].status
             /\ \A k \in Jobs : \/ row'[k].status = row[k].status
                                \/ k = ctx[r].job
  BY <1>1, <1>3, WriteEffect
<1>4. ASSUME Load(r)
      PROVE  Held'
  <2> DEFINE c == [ctx[r] EXCEPT !.view = row[ctx[r].job]]
  <2>1. c.job = ctx[r].job /\ c.view = row[ctx[r].job]
    BY <1>1, <1>2, <1>4 DEF Load
  <2>2. ctx' = [ctx EXCEPT ![r] = c]
    BY <1>4 DEF Load
  <2> HIDE DEF c
  <2>3. HeldAt("loaded", c, row')
    BY <1>1, <1>4, <2>1 DEF Load, HeldAt, Working, Executing
  <2> QED
    BY <1>4, <2>2, <2>3, HeldMove DEF Load, Goto
<1>5. ASSUME NEW new, NEW place, NEW s, Save(r, new, place), Writes(r, s),
             pc[r] # "idle", new.status = s, s # ctx[r].view.status,
             \/ place = "prepared" /\ s = "preparing"
             \/ place = "frames" /\ s = "running"
      PROVE  Held'
  <2> DEFINE c == [ctx[r] EXCEPT !.view = new]
  <2>1. c.job = ctx[r].job /\ c.view = new
    BY <1>1 DEF Context
  <2>2. ctx' = [ctx EXCEPT ![r] = c]
    BY <1>5 DEF Save
  <2> HIDE DEF c
  <2>3. HeldAt(place, c, row')
    BY <1>1, <1>3, <1>5, <2>1 DEF HeldAt, Working, Executing
  <2> QED
    BY <1>3, <1>5, <2>2, <2>3, HeldMove DEF Save, Goto
<1>6. ASSUME Prepare(r)
      PROVE  Held'
  <2> DEFINE v == [ctx[r].view EXCEPT !.status = "preparing"]
             new == [v EXCEPT !.progress = 1]
  <2>1. ctx[r].view \in JobRow
    BY <1>1 DEF Context
  <2>2. v \in JobRow /\ v.status = "preparing"
    BY <2>1, RowColumns DEF JobRow, Statuses
  <2> HIDE DEF v
  <2>3. new.status = "preparing"
    BY <2>2 DEF JobRow
  <2> HIDE DEF new
  <2>4. Save(r, new, "prepared")
    BY <1>6 DEF Prepare, new, v
  <2>5. ctx[r].view.status # "preparing" /\ pc[r] # "idle"
    BY <1>1, <1>6 DEF Prepare, HeldAt, Startable, Executing
  <2> QED
    BY <1>5, <1>6, <2>3, <2>4, <2>5, RunWrites
<1>7. ASSUME Start(r)
      PROVE  Held'
  <2> DEFINE new == [ctx[r].view EXCEPT !.status = "running"]
  <2>1. new.status = "running"
    BY <1>1 DEF Context, JobRow
  <2> HIDE DEF new
  <2>2. Save(r, new, "frames")
    BY <1>7 DEF Start, new
  <2>3. ctx[r].view.status # "running" /\ pc[r] # "idle"
    BY <1>1, <1>7 DEF Start, HeldAt, Executing
  <2> QED
    BY <1>5, <1>7, <2>1, <2>2, <2>3, RunWrites
<1>8. ASSUME pc[r] \in Working, pc'[r] \in Working,
             pc' = [pc EXCEPT ![r] = pc'[r]],
             ctx' = [ctx EXCEPT ![r] = ctx'[r]],
             ctx'[r].job = ctx[r].job,
             ctx'[r].view.status
               \in {ctx[r].view.status, row[ctx[r].job].status},
             \A k \in Jobs : row'[k].status = row[k].status
      PROVE  Held'
  <2>1. /\ row'[ctx[r].job].status = "running"
        /\ ctx'[r].view.status = "running"
    BY <1>1, <1>8 DEF HeldAt, Working, Executing
  <2>2. HeldAt(pc'[r], ctx'[r], row')
    BY <1>8, <2>1 DEF HeldAt, Working, Executing
  <2> QED
    BY <1>8, <2>2, HeldMove
<1>9. ASSUME NEW place, NEW c, pc' = [pc EXCEPT ![r] = place],
             ctx' = [ctx EXCEPT ![r] = c]
      PROVE  /\ pc'[r] = place /\ pc' = [pc EXCEPT ![r] = pc'[r]]
             /\ ctx'[r] = c /\ ctx' = [ctx EXCEPT ![r] = ctx'[r]]
  BY <1>1, <1>9
<1>10. ASSUME ReadFrame(r)
       PROVE  Held'
  <2> DEFINE view == row[ctx[r].job]
             c == [ctx[r] EXCEPT !.view = view]
             d == [c EXCEPT !.outcome = "cancelled"]
             e == [c EXCEPT !.frame = ctx[r].frame + 1]
  <2>1. pc[r] = "frames" /\ row' = row
    BY <1>10 DEF ReadFrame
  <2>2. /\ c.job = ctx[r].job /\ c.view = view
        /\ d.job = ctx[r].job /\ d.view = view
        /\ e.job = ctx[r].job /\ e.view = view
    BY <1>1 DEF Context
  <2>3. \/ /\ pc' = [pc EXCEPT ![r] = "raised"]
           /\ ctx' = [ctx EXCEPT ![r] = d]
        \/ /\ pc' = [pc EXCEPT ![r] = "frames"]
           /\ ctx' = [ctx EXCEPT ![r] = e]
        \/ /\ pc' = [pc EXCEPT ![r] = "analysing"]
           /\ ctx' = [ctx EXCEPT ![r] = c]
    BY <1>1, <1>10, <2>1 DEF ReadFrame, Goto
  <2> HIDE DEF c, d, e
  <2>4. /\ pc'[r] \in {"raised", "frames", "analysing"}
        /\ ctx'[r] \in {c, d, e}
        /\ pc' = [pc EXCEPT ![r] = pc'[r]]
        /\ ctx' = [ctx EXCEPT ![r] = ctx'[r]]
    BY <1>9, <2>3
  <2> QED
    BY <1>8, <2>1, <2>2, <2>4 DEF Working
<1>11. ASSUME FinishFrame(r)
       PROVE  Held'
  <2> DEFINE new == IF Processed(ctx[r].frame) % ReportEvery = 0
                    THEN [ctx[r].view EXCEPT
                            !.progress = Fraction(ctx[r].job, ctx[r].frame)]
                    ELSE ctx[r].view
             c == [ctx[r] EXCEPT !.view = new, !.frame = ctx[r].frame + 1]
  <2>1. /\ pc[r] = "analysing" /\ ctx' = [ctx EXCEPT ![r] = c]
        /\ pc' = [pc EXCEPT ![r] = "frames"]
    BY <1>11 DEF FinishFrame, Goto
  <2>2. new.status = ctx[r].view.status
    BY <1>1 DEF Context, JobRow
  <2> HIDE DEF new
  <2>3. c.job = ctx[r].job /\ c.view = new
    BY <1>1 DEF Context
  <2> HIDE DEF c
  <2>4. \A k \in Jobs : row'[k].status = row[k].status
    BY <1>11, RunWrites, WriteEffect
  <2> QED
    BY <1>8, <1>9, <2>1, <2>2, <2>3, <2>4 DEF Working
<1>12. ASSUME EndOfVideo(r)
       PROVE  Held'
  <2> DEFINE new == [ctx[r].view EXCEPT !.progress = 100]
  <2>1. PICK found \in Findings :
          ctx' = [ctx EXCEPT ![r] =
                    [@ EXCEPT !.view = new, !.found = found, !.todo = found]]
    BY <1>12 DEF EndOfVideo
  <2>2. new.status = ctx[r].view.status
    BY <1>1 DEF Context, JobRow
  <2> HIDE DEF new
  <2> DEFINE c == [ctx[r] EXCEPT !.view = new, !.found = found, !.todo = found]
  <2>3. c.job = ctx[r].job /\ c.view = new
    BY <1>1 DEF Context
  <2>4. /\ ctx' = [ctx EXCEPT ![r] = c] /\ pc[r] = "frames"
        /\ pc' = [pc EXCEPT ![r] = "persisting"]
    BY <1>12, <2>1 DEF EndOfVideo, Goto
  <2> HIDE DEF c
  <2>5. \A k \in Jobs : row'[k].status = row[k].status
    BY <1>12, RunWrites, WriteEffect
  <2> QED
    BY <1>8, <1>9, <2>2, <2>3, <2>4, <2>5 DEF Working
<1>13. ASSUME NEW left, NEW added, pc[r] = "persisting",
              UNCHANGED <<row, pc>>,
              ctx' = [ctx EXCEPT ![r] = [@ EXCEPT !.todo = left,
                                                  !.pending = added]]
       PROVE  Held'
  <2> DEFINE c == [ctx[r] EXCEPT !.todo = left, !.pending = added]
  <2>1. c.job = ctx[r].job /\ c.view = ctx[r].view
    BY <1>1 DEF Context
  <2>2. ctx' = [ctx EXCEPT ![r] = c] /\ pc' = [pc EXCEPT ![r] = "persisting"]
    BY <1>1, <1>13
  <2> HIDE DEF c
  <2> QED
    BY <1>8, <1>9, <1>13, <2>1, <2>2 DEF Working
<1>14. ASSUME \/ \E m \in MilestoneTypes \X Tracks : ScanMilestone(r, m)
              \/ \E key \in AlertKeys : ScanAlert(r, key)
       PROVE  Held'
  BY <1>13, <1>14 DEF ScanMilestone, ScanAlert
<1>15. ASSUME ProcessingError(r)
       PROVE  Held'
  <2> DEFINE c == [ctx[r] EXCEPT !.outcome = "failed"]
  <2>1. c.job = ctx[r].job /\ c.view = ctx[r].view
    BY <1>1 DEF Context
  <2>2. ctx' = [ctx EXCEPT ![r] = c] /\ pc' = [pc EXCEPT ![r] = "raised"]
    BY <1>15 DEF ProcessingError, Goto
  <2> HIDE DEF c
  <2>3. pc[r] \in Working /\ row' = row
    BY <1>15 DEF ProcessingError, Working
  <2> QED
    BY <1>8, <1>9, <2>1, <2>2, <2>3 DEF Working
<1>16. ASSUME Rollback(r)
       PROVE  Held'
  <2> DEFINE c == [IdleContext EXCEPT !.job = ctx[r].job,
                     !.view = row[ctx[r].job], !.outcome = ctx[r].outcome]
  <2>1. c.job = ctx[r].job /\ c.view = row[ctx[r].job]
    BY DEF IdleContext
  <2>2. ctx' = [ctx EXCEPT ![r] = c] /\ pc' = [pc EXCEPT ![r] = "reporting"]
    BY <1>16 DEF Rollback, Goto
  <2> HIDE DEF c
  <2>3. pc[r] \in Working /\ row' = row
    BY <1>16 DEF Rollback, Working
  <2> QED
    BY <1>8, <1>9, <2>1, <2>2, <2>3 DEF Working
<1>17. ASSUME Complete(r) \/ Report(r)
       PROVE  Held'
  <2>1. /\ pc[r] # "idle" /\ Leave(r)
        /\ \E s : Writes(r, s)
    BY <1>17, RunWrites DEF Complete, Report
  <2> QED
    BY <1>3, <2>1, HeldLeave
<1>18. ASSUME LoadWithoutVideo(r)
       PROVE  Held'
  BY <1>18, HeldLeave DEF LoadWithoutVideo
<1> QED
  BY <1>4, <1>6, <1>7, <1>10, <1>11, <1>12, <1>14, <1>15, <1>16, <1>17, <1>18
     DEF RunStep

LEMMA HeldStep ==
    ASSUME TypeInv, Held, RunsApart, [Next]_vars
    PROVE  Held'
<1>1. CASE UNCHANGED vars
  BY <1>1 DEF vars, Held
<1>2. CASE \E r \in Runners : AbandonRun(r)
  BY <1>2, HeldLeave DEF AbandonRun
<1> QED
  BY <1>1, <1>2, HeldOutside, HeldRun DEF Next

\* Which steps change a status: an upload, and the four commits of a run
\* that write one.
LEMMA StatusStep ==
    ASSUME TypeInv, [Next]_vars, NEW j \in Jobs
    PROVE  \/ row'[j].status = row[j].status
           \/ row[j].status = "absent" /\ row'[j].status = "queued"
           \/ \E r \in Runners :
                /\ ctx[r].job = j
                /\ Prepare(r) \/ Start(r) \/ Complete(r) \/ Report(r)
<1> DEFINE Goal == \/ row'[j].status = row[j].status
                   \/ row[j].status = "absent" /\ row'[j].status = "queued"
                   \/ \E r \in Runners :
                        /\ ctx[r].job = j
                        /\ Prepare(r) \/ Start(r) \/ Complete(r) \/ Report(r)
<1>1. row \in [Jobs -> JobRow]
  BY DEF TypeInv, TypeOK
<1>2. ASSUME NEW k \in Jobs, InsertJob(k)
      PROVE  Goal
  BY <1>1, <1>2 DEF InsertJob, JobRow
<1>3. ASSUME NEW r \in Runners, Prepare(r) \/ Start(r) \/ Complete(r) \/ Report(r)
      PROVE  Goal
  BY <1>3, RunWrites, WriteEffect
<1>4. ASSUME NEW r \in Runners, FinishFrame(r) \/ EndOfVideo(r)
      PROVE  Goal
  BY <1>4, RunWrites, WriteEffect
<1>5. ASSUME UNCHANGED row
      PROVE  Goal
  BY <1>5
<1>6. ASSUME NEW a \in CancelThreads, CommitCancel(a)
      PROVE  Goal
  BY <1>6, CancelEffect
<1> HIDE DEF Goal
<1>7. ASSUME NEW r \in Runners, RunStep(r) \/ ProcessingError(r)
      PROVE  Goal
  BY <1>3, <1>4, <1>5, <1>7
     DEF RunStep, ProcessingError, Load, LoadWithoutVideo, ReadFrame,
         ScanMilestone, ScanAlert, Rollback
<1>8. ASSUME Requests
      PROVE  Goal
  BY <1>2, <1>5, <1>8
     DEF Requests, Upload, UploadAndRun, RunJob, RequestCancel
<1>9. Goal
  BY <1>5, <1>6, <1>7, <1>8
     DEF Next, vars, PickJob, Stop, Restart, AbandonRun, Crash, ExpireVideo
<1> QED
  BY <1>9 DEF Goal

\* A run that commits a status finds its job in the status it expects.
LEMMA HeldStatus ==
    ASSUME TypeInv, Held, NEW r \in Runners
    PROVE  /\ pc[r] # "idle" => ctx[r].job \in Jobs
           /\ Prepare(r) => row[ctx[r].job].status \in Startable
           /\ Start(r) => row[ctx[r].job].status = "preparing"
           /\ Complete(r) \/ Report(r) => row[ctx[r].job].status = "running"
           /\ Prepare(r) \/ Start(r) \/ Complete(r) \/ Report(r)
                => /\ pc[r] # "idle"
                   /\ ctx[r].view.status = row[ctx[r].job].status
BY BusyThread DEF Held, HeldAt, Working, Executing, Prepare, Start, Complete,
   Report

LEMMA CancelsKnownStep ==
    ASSUME TypeInv, CancelsKnown, [Next]_vars
    PROVE  CancelsKnown'
<1> SUFFICES ASSUME NEW a \in CancelThreads, pc'[a] = "cancelling"
             PROVE  row'[ctx'[a].job].status # "absent"
  BY DEF CancelsKnown
<1>1. /\ DOMAIN pc = Threads /\ DOMAIN ctx = Threads /\ ctx[a] \in Context
      /\ a \notin Runners
  BY ThreadsAssumption DEF TypeInv, TypeOK
<1>2. CASE pc'[a] = pc[a] /\ ctx'[a] = ctx[a]
  <2>1. ctx[a].job \in Jobs /\ row[ctx[a].job].status # "absent"
    BY <1>2, BusyThread DEF CancelsKnown
  <2> QED
    BY <1>2, <2>1, RowStep DEF RowEffect
<1>3. ASSUME NEW j \in Jobs, RequestCancel(a, j)
      PROVE  row'[ctx'[a].job].status # "absent"
  <2> DEFINE c == [ctx[a] EXCEPT !.job = j, !.view = row[j]]
  <2>1. c.job = j
    BY <1>1 DEF Context
  <2>2. ctx'[a] = c
    BY <1>1, <1>3 DEF RequestCancel
  <2> HIDE DEF c
  <2> QED
    BY <1>3, <2>1, <2>2 DEF RequestCancel
<1>4. ASSUME NEW s \in Threads, s # a,
             \E place : pc' = [pc EXCEPT ![s] = place],
             \E c : ctx' = [ctx EXCEPT ![s] = c]
      PROVE  pc'[a] = pc[a] /\ ctx'[a] = ctx[a]
  BY <1>1, <1>4
<1>5. ASSUME NEW s \in CancelThreads, Leave(s)
      PROVE  pc'[a] = pc[a] /\ ctx'[a] = ctx[a]
  BY <1>1, <1>5 DEF Leave, Goto
<1>6. ASSUME NEW s \in Runners,
             RunStep(s) \/ ProcessingError(s) \/ AbandonRun(s)
      PROVE  pc'[a] = pc[a] /\ ctx'[a] = ctx[a]
  BY <1>1, <1>6
     DEF RunStep, Load, LoadWithoutVideo, Prepare, Start, Save, ReadFrame,
         FinishFrame, EndOfVideo, ScanMilestone, ScanAlert, Complete, Rollback,
         Report, ProcessingError, AbandonRun, Leave, Goto
<1>7. ASSUME NEW j \in Jobs, NEW s \in Runners, Goto(s, "picked"),
             ctx' = [ctx EXCEPT ![s].job = j]
      PROVE  pc'[a] = pc[a] /\ ctx'[a] = ctx[a]
  BY <1>1, <1>7 DEF Goto
<1>8. ASSUME NEW j \in Jobs, NEW s \in CancelThreads, RequestCancel(s, j),
             s # a
      PROVE  pc'[a] = pc[a] /\ ctx'[a] = ctx[a]
  BY <1>1, <1>8 DEF RequestCancel, Goto
<1>9. ASSUME NEW P, Crash(P)
      PROVE  pc'[a] = pc[a] /\ ctx'[a] = ctx[a]
  BY <1>9 DEF Crash
<1>10. CASE Requests
  BY <1>2, <1>3, <1>7, <1>8, <1>10 DEF Requests, Upload, UploadAndRun, RunJob
<1> QED
  BY <1>2, <1>5, <1>6, <1>7, <1>9, <1>10
     DEF Next, vars, CommitCancel, PickJob, Stop, Restart, ExpireVideo

LEMMA PublishedStep ==
    ASSUME TypeInv, Held, PublishedIffCompleted, [Next]_vars
    PROVE  PublishedIffCompleted'
<1> SUFFICES ASSUME NEW j \in Jobs
             PROVE  Published(j)' <=> row'[j].status = "completed"
  BY DEF PublishedIffCompleted
<1>1. ASSUME NEW r \in Runners, Complete(r), ctx[r].job = j
      PROVE  Published(j)' /\ row'[j].status = "completed"
  <2>1. row'[j].status = "completed"
    BY <1>1, HeldStatus, RunWrites, WriteEffect
  <2>2. <<j, r>> \in trackRows'
    BY <1>1 DEF Complete, NewTracks
  <2> QED
    BY <2>1, <2>2 DEF Published
<1>2. CASE \A r \in Runners : Complete(r) => ctx[r].job # j
  <2>1. Published(j)' <=> Published(j)
    BY <1>2, ResultsStep DEF results, Complete, NewTracks, Published
  <2>2. row'[j].status = "completed" <=> row[j].status = "completed"
    BY <1>2, RowStep, StatusStep, HeldStatus DEF RowEffect, Startable
  <2> QED
    BY <2>1, <2>2 DEF PublishedIffCompleted
<1> QED
  BY <1>1, <1>2

LEMMA OneRunnerStep ==
    ASSUME TypeInv, Held, PublishedIffCompleted, OneRunner, [Next]_vars
    PROVE  OneRunner'
<1>1. CASE UNCHANGED results
  BY <1>1 DEF results, OneRunner
<1>2. ASSUME NEW r \in Runners, Complete(r)
      PROVE  OneRunner'
  <2>1. trackRows' = trackRows \cup {<<ctx[r].job, r>>}
    BY <1>2 DEF Complete, NewTracks
  <2>2. ~Published(ctx[r].job)
    BY <1>2, HeldStatus DEF PublishedIffCompleted
  <2> QED
    BY <2>1, <2>2 DEF OneRunner, Published
<1> QED
  BY <1>1, <1>2, ResultsStep

LEMMA InitApart == Init => ApartInv
<1> SUFFICES ASSUME Init PROVE ApartInv
  OBVIOUS
<1>1. Held /\ CancelsKnown
  BY HeldIdle DEF Init, Held, CancelsKnown
<1>2. PublishedIffCompleted /\ OneRunner
  BY DEF Init, PublishedIffCompleted, OneRunner, Published, BlankRow
<1> QED
  BY <1>1, <1>2 DEF ApartInv

LEMMA ApartStep ==
    ASSUME TypeInv, ApartInv, RunsApart, [Next]_vars
    PROVE  ApartInv'
BY HeldStep, CancelsKnownStep, PublishedStep, OneRunnerStep DEF ApartInv

\* The invariant of runs that do not overlap, from the hypothesis that they
\* do not.
LEMMA ApartHolds == Spec /\ []RunsApart => [](SafetyInv /\ ApartInv)
<1>1. SafetyInv /\ ApartInv /\ RunsApart /\ [Next]_vars => ApartInv'
  BY ApartStep DEF SafetyInv
<1> QED
  BY <1>1, InitApart, SafetyHolds, PTL DEF Spec

-----------------------------------------------------------------------------
(* Runs that do not overlap implement the life cycle of JobLifecycle.      *)

\* One job changes its status as the life cycle lets it.
LEMMA LifecycleMove ==
    ASSUME NEW j \in Jobs, NEW from, NEW to,
           row[j].status \in from, row'[j].status = to,
           \A k \in Jobs : k # j => row'[k].status = row[k].status,
           \A k \in Jobs : row'[k].cancelRequested = row[k].cancelRequested,
           UNCHANGED trackRows
    PROVE  Lifecycle!Move(j, from, to)
BY DEF Lifecycle!Move, Published

\* A step that changes none of the three columns stutters.
LEMMA LifecycleStutter ==
    ASSUME \A k \in Jobs : /\ row'[k].status = row[k].status
                           /\ row'[k].cancelRequested = row[k].cancelRequested,
           UNCHANGED trackRows
    PROVE  UNCHANGED Lifecycle!lifecycleVars
BY DEF Lifecycle!lifecycleVars, Published

LEMMA LifecycleStep ==
    ASSUME SafetyInv, ApartInv, [Next]_vars
    PROVE  [Lifecycle!Next]_(Lifecycle!lifecycleVars)
<1> DEFINE Goal == [Lifecycle!Next]_(Lifecycle!lifecycleVars)
<1>1. /\ TypeInv /\ Held /\ RunInv
      /\ row \in [Jobs -> JobRow]
  BY DEF SafetyInv, ApartInv, TypeInv, TypeOK
<1>2. ASSUME UNCHANGED <<row, trackRows>>
      PROVE  Goal
  BY <1>2, LifecycleStutter
<1>3. ASSUME NEW j \in Jobs, InsertJob(j), UNCHANGED trackRows
      PROVE  Goal
  <2>1. /\ row[j].status \in {"absent"} /\ row'[j].status = "queued"
        /\ row'[j].cancelRequested = row[j].cancelRequested
        /\ \A k \in Jobs : k # j => row'[k] = row[k]
    BY <1>1, <1>3 DEF InsertJob, JobRow
  <2>2. Lifecycle!Create(j)
    BY <1>3, <2>1, LifecycleMove DEF Lifecycle!Create
  <2> QED
    BY <2>2 DEF Lifecycle!Next
<1>4. ASSUME NEW a \in CancelThreads, CommitCancel(a)
      PROVE  Goal
  <2>0. PICK j \in Jobs : j = ctx[a].job
    BY <1>1, <1>4, BusyThread DEF CommitCancel
  <2>1. row[j].status # "absent" /\ UNCHANGED trackRows
    BY <1>4, <2>0 DEF CommitCancel, ApartInv, CancelsKnown, results
  <2>2. CASE row'[j].cancelRequested = row[j].cancelRequested
    BY <1>1, <1>4, <2>0, <2>1, <2>2, CancelEffect, LifecycleStutter
  <2>3. CASE row'[j].cancelRequested
    <3>1. row'[j].cancelRequested = TRUE
      BY <1>1, <1>4, <2>3, CancelEffect DEF JobRow
    <3>2. Lifecycle!RequestCancel(j)
      BY <1>1, <1>4, <2>0, <2>1, <3>1, CancelEffect
         DEF Lifecycle!RequestCancel, Published
    <3> QED
      BY <3>2 DEF Lifecycle!Next
  <2> QED
    BY <1>1, <1>4, <2>2, <2>3, CancelEffect
<1>5. ASSUME NEW r \in Runners, FinishFrame(r) \/ EndOfVideo(r)
      PROVE  Goal
  <2>1. UNCHANGED trackRows
    BY <1>5 DEF FinishFrame, EndOfVideo, results
  <2> QED
    BY <1>1, <1>5, <2>1, RunWrites, WriteEffect, LifecycleStutter
<1>6. ASSUME NEW r \in Runners, pc[r] # "idle"
      PROVE  ctx[r].job \in Jobs
  BY <1>1, <1>6, BusyThread
<1>7. ASSUME NEW r \in Runners, NEW s, Writes(r, s), s # ctx[r].view.status,
             NEW j \in Jobs, j = ctx[r].job
      PROVE  /\ row'[j].status = s
             /\ \A k \in Jobs : k # j => row'[k].status = row[k].status
             /\ \A k \in Jobs :
                  row'[k].cancelRequested = row[k].cancelRequested
  BY <1>1, <1>7, WriteEffect
<1>8. ASSUME NEW r \in Runners, Prepare(r) \/ Start(r)
      PROVE  Goal
  <2>1. PICK j \in Jobs : j = ctx[r].job
    BY <1>6, <1>8 DEF Prepare, Start
  <2>2. UNCHANGED trackRows
    BY <1>8 DEF Prepare, Start, Save, results
  <2>3. CASE Prepare(r)
    <3>1. /\ Writes(r, "preparing")
          /\ ctx[r].view.status # "preparing"
          /\ row[j].status \in Lifecycle!Startable
      BY <1>1, <2>1, <2>3, HeldStatus, RunWrites
         DEF Startable, Lifecycle!Startable
    <3>2. Lifecycle!Prepare(j)
      BY <1>7, <2>1, <2>2, <3>1, LifecycleMove DEF Lifecycle!Prepare
    <3> QED
      BY <3>2 DEF Lifecycle!Next
  <2>4. CASE Start(r)
    <3>1. /\ Writes(r, "running")
          /\ ctx[r].view.status # "running"
          /\ row[j].status \in {"preparing"}
      BY <1>1, <2>1, <2>4, HeldStatus, RunWrites
    <3>2. Lifecycle!Start(j)
      BY <1>7, <2>1, <2>2, <3>1, LifecycleMove DEF Lifecycle!Start
    <3> QED
      BY <3>2 DEF Lifecycle!Next
  <2> QED
    BY <1>8, <2>3, <2>4
<1>9. ASSUME NEW r \in Runners, Complete(r)
      PROVE  Goal
  <2>1. PICK j \in Jobs : j = ctx[r].job
    BY <1>6, <1>9 DEF Complete
  <2>2. /\ Writes(r, "completed")
        /\ ctx[r].view.status # "completed"
        /\ row[j].status = "running"
        /\ trackRows' = trackRows \cup {<<j, r>>}
    BY <1>1, <1>9, <2>1, HeldStatus, RunWrites DEF Complete, NewTracks
  <2>3. /\ ~Published(j)
        /\ Published(j)'
        /\ \A k \in Jobs : k # j => (Published(k)' <=> Published(k))
    BY <2>2 DEF ApartInv, PublishedIffCompleted, Published
  <2>4. /\ row'[j].status = "completed"
        /\ \A k \in Jobs : k # j => row'[k].status = row[k].status
        /\ \A k \in Jobs : row'[k].cancelRequested = row[k].cancelRequested
    BY <1>7, <2>1, <2>2
  <2>5. [k \in Jobs |-> row'[k].status]
          = [[k \in Jobs |-> row[k].status] EXCEPT ![j] = "completed"]
    BY <2>4
  <2>6. [k \in Jobs |-> row'[k].cancelRequested]
          = [k \in Jobs |-> row[k].cancelRequested]
    BY <2>4
  <2>7. [k \in Jobs |-> \E x \in Runners : <<k, x>> \in trackRows']
          = [[k \in Jobs |-> \E x \in Runners : <<k, x>> \in trackRows]
               EXCEPT ![j] = TRUE]
    <3>1. /\ \E x \in Runners : <<j, x>> \in trackRows'
          /\ \A k \in Jobs : k # j =>
               (\E x \in Runners : <<k, x>> \in trackRows')
                 = (\E x \in Runners : <<k, x>> \in trackRows)
      BY <2>3 DEF Published
    <3> QED
      BY <3>1, Zenon
  <2>8. Lifecycle!Complete(j)
    BY <2>2, <2>3, <2>5, <2>6, <2>7 DEF Lifecycle!Complete, Published
  <2> QED
    BY <2>8 DEF Lifecycle!Next
<1>10. ASSUME NEW r \in Runners, Report(r)
       PROVE  Goal
  <2>1. PICK j \in Jobs : j = ctx[r].job
    BY <1>6, <1>10 DEF Report
  <2>2. /\ Writes(r, ctx[r].outcome) /\ pc[r] = "reporting"
        /\ ctx[r].outcome \in {"failed", "cancelled"}
        /\ ctx[r].view.status = "running"
        /\ row[j].status \in {"running"}
        /\ UNCHANGED trackRows
    BY <1>1, <1>10, <2>1, HeldStatus, RunWrites, ContextType
       DEF Report, results, TypeInv
  <2>3. CASE ctx[r].outcome = "failed"
    <3>1. Lifecycle!Fail(j)
      BY <1>7, <2>1, <2>2, <2>3, LifecycleMove DEF Lifecycle!Fail
    <3> QED
      BY <3>1 DEF Lifecycle!Next
  <2>4. CASE ctx[r].outcome = "cancelled"
    <3>1. row[j].cancelRequested
      BY <1>1, <2>1, <2>2, <2>4 DEF RunInv, CancelBacked, Raising
    <3>2. Lifecycle!Move(j, {"running"}, "cancelled")
      BY <1>7, <2>1, <2>2, <2>4, LifecycleMove
    <3>3. Lifecycle!Cancel(j)
      BY <3>1, <3>2 DEF Lifecycle!Cancel
    <3> QED
      BY <3>3 DEF Lifecycle!Next
  <2> QED
    BY <2>2, <2>3, <2>4
<1> HIDE DEF Goal
<1>11. ASSUME NEW r \in Runners, RunStep(r) \/ ProcessingError(r)
       PROVE  Goal
  BY <1>2, <1>5, <1>8, <1>9, <1>10, <1>11
     DEF RunStep, ProcessingError, Load, LoadWithoutVideo, ReadFrame,
         ScanMilestone, ScanAlert, Rollback, results
<1>12. ASSUME Requests
       PROVE  Goal
  BY <1>2, <1>3, <1>12
     DEF Requests, Upload, UploadAndRun, RunJob, RequestCancel, results
<1>13. Goal
  BY <1>2, <1>4, <1>11, <1>12
     DEF Next, vars, PickJob, Stop, Restart, AbandonRun, Crash, ExpireVideo,
         results
<1> QED
  BY <1>13 DEF Goal

LEMMA LifecycleInit == Init => Lifecycle!Init
BY DEF Init, Lifecycle!Init, BlankRow, Published

-----------------------------------------------------------------------------
(* A deployment that keeps the runs of a job apart.                        *)

\* One worker, at most one API thread that runs jobs, and clients that only
\* run jobs that have failed or were cancelled.
SequentialDeployment ==
    /\ ~RunsQueuedJobs
    /\ \A v, w \in Workers : v = w
    /\ \A a, b \in RunThreads : a = b

\* Until a run writes its first status, the worker's job is queued and the
\* API thread's is not.
KindsApart ==
    /\ \A r \in Runners : pc[r] # "cancelling"
    /\ \A r \in Runners :
        pc[r] \in {"picked", "loaded"} =>
            IF r \in Workers THEN row[ctx[r].job].status = "queued"
                             ELSE row[ctx[r].job].status # "queued"

\* A run begins: no other thread moves, and the row of the job is as the
\* worker or the API thread has just read it.
Begins(r) ==
    /\ pc[r] = "idle" /\ pc'[r] = "picked"
    /\ \A s \in Runners : s # r => pc'[s] = pc[s] /\ ctx'[s] = ctx[s]
    /\ \/ RunsQueuedJobs
       \/ /\ UNCHANGED row
          /\ \/ r \in Workers /\ row[ctx'[r].job].status = "queued"
             \/ /\ r \in RunThreads
                /\ row[ctx'[r].job].status \in {"failed", "cancelled"}

\* A run goes on with its job and does not fall back to reading it.
Continues(r) ==
    /\ pc[r] # "idle"
    /\ ctx'[r].job = ctx[r].job
    /\ pc'[r] = "cancelling" => pc[r] = "cancelling"
    /\ pc'[r] \in {"picked", "loaded"} =>
        pc[r] \in {"picked", "loaded"} /\ ~Prepare(r)

RunnerEffect(r) == pc'[r] = "idle" \/ Continues(r) \/ Begins(r)

\* A step of a run moves only that run, which keeps its job and does not go
\* back to reading it, unless it leaves.
Keeps(r) ==
    /\ pc[r] # "idle" /\ pc'[r] \notin {"picked", "cancelling"}
    /\ pc' = [pc EXCEPT ![r] = pc'[r]]
    /\ ctx' = [ctx EXCEPT ![r] = ctx'[r]]
    /\ ctx'[r].job = ctx[r].job
    /\ pc'[r] = "loaded" => pc[r] = "picked"

LEMMA RunKeeps ==
    ASSUME TypeInv, NEW r \in Runners, RunStep(r) \/ ProcessingError(r)
    PROVE  Leave(r) \/ Keeps(r)
<1>1. /\ pc \in [Threads -> Places] /\ DOMAIN ctx = Threads
      /\ ctx[r] \in Context
  BY DEF TypeInv, TypeOK
<1>2. ASSUME NEW place, NEW c, pc' = [pc EXCEPT ![r] = place],
             ctx' = [ctx EXCEPT ![r] = c]
      PROVE  /\ pc'[r] = place /\ pc' = [pc EXCEPT ![r] = pc'[r]]
             /\ ctx'[r] = c /\ ctx' = [ctx EXCEPT ![r] = ctx'[r]]
  BY <1>1, <1>2
<1>3. ASSUME Load(r) \/ Prepare(r) \/ Start(r)
      PROVE  Keeps(r)
  <2>1. PICK place, view :
          /\ \/ place = "loaded" /\ pc[r] = "picked"
             \/ place \in {"prepared", "frames"} /\ pc[r] # "idle"
          /\ pc' = [pc EXCEPT ![r] = place]
          /\ ctx' = [ctx EXCEPT ![r].view = view]
    BY <1>3 DEF Load, Prepare, Start, Save, Goto
  <2> DEFINE c == [ctx[r] EXCEPT !.view = view]
  <2>2. c.job = ctx[r].job
    BY <1>1 DEF Context
  <2>3. ctx' = [ctx EXCEPT ![r] = c]
    BY <2>1
  <2> HIDE DEF c
  <2>4. pc'[r] = place /\ pc' = [pc EXCEPT ![r] = pc'[r]]
    BY <1>1, <2>1
  <2>5. ctx'[r] = c /\ ctx' = [ctx EXCEPT ![r] = ctx'[r]]
    BY <1>1, <2>3
  <2> QED
    BY <2>1, <2>2, <2>4, <2>5 DEF Keeps
<1>4. ASSUME ReadFrame(r)
      PROVE  Keeps(r)
  <2> DEFINE c == [ctx[r] EXCEPT !.view = row[ctx[r].job]]
             d == [c EXCEPT !.outcome = "cancelled"]
             e == [c EXCEPT !.frame = ctx[r].frame + 1]
  <2>1. c.job = ctx[r].job /\ d.job = ctx[r].job /\ e.job = ctx[r].job
    BY <1>1 DEF Context
  <2>2. /\ pc[r] = "frames"
        /\ \/ /\ pc' = [pc EXCEPT ![r] = "raised"]
              /\ ctx' = [ctx EXCEPT ![r] = d]
           \/ /\ pc' = [pc EXCEPT ![r] = "frames"]
              /\ ctx' = [ctx EXCEPT ![r] = e]
           \/ /\ pc' = [pc EXCEPT ![r] = "analysing"]
              /\ ctx' = [ctx EXCEPT ![r] = c]
    BY <1>1, <1>4 DEF ReadFrame, Goto
  <2> HIDE DEF c, d, e
  <2>3. /\ pc'[r] \in {"raised", "frames", "analysing"}
        /\ ctx'[r] \in {c, d, e}
        /\ pc' = [pc EXCEPT ![r] = pc'[r]]
        /\ ctx' = [ctx EXCEPT ![r] = ctx'[r]]
    BY <1>2, <2>2
  <2> QED
    BY <2>1, <2>2, <2>3 DEF Keeps
<1>5. ASSUME FinishFrame(r)
      PROVE  Keeps(r)
  <2>1. PICK new : ctx' = [ctx EXCEPT ![r] =
                      [@ EXCEPT !.view = new, !.frame = ctx[r].frame + 1]]
    BY <1>5 DEF FinishFrame
  <2> DEFINE c == [ctx[r] EXCEPT !.view = new, !.frame = ctx[r].frame + 1]
  <2>2. /\ ctx' = [ctx EXCEPT ![r] = c] /\ pc[r] = "analysing"
        /\ pc' = [pc EXCEPT ![r] = "frames"] /\ c.job = ctx[r].job
    BY <1>1, <1>5, <2>1 DEF FinishFrame, Goto, Context
  <2> HIDE DEF c
  <2> QED
    BY <1>2, <2>2 DEF Keeps
<1>6. ASSUME EndOfVideo(r)
      PROVE  Keeps(r)
  <2>1. PICK new, found :
          ctx' = [ctx EXCEPT ![r] =
                    [@ EXCEPT !.view = new, !.found = found, !.todo = found]]
    BY <1>6 DEF EndOfVideo
  <2> DEFINE c == [ctx[r] EXCEPT !.view = new, !.found = found, !.todo = found]
  <2>2. /\ ctx' = [ctx EXCEPT ![r] = c] /\ pc[r] = "frames"
        /\ pc' = [pc EXCEPT ![r] = "persisting"] /\ c.job = ctx[r].job
    BY <1>1, <1>6, <2>1 DEF EndOfVideo, Goto, Context
  <2> HIDE DEF c
  <2> QED
    BY <1>2, <2>2 DEF Keeps
<1>7. ASSUME \/ \E m \in MilestoneTypes \X Tracks : ScanMilestone(r, m)
             \/ \E key \in AlertKeys : ScanAlert(r, key)
      PROVE  Keeps(r)
  <2>1. PICK left, added :
          ctx' = [ctx EXCEPT ![r] =
                    [@ EXCEPT !.todo = left, !.pending = added]]
    BY <1>7 DEF ScanMilestone, ScanAlert
  <2> DEFINE c == [ctx[r] EXCEPT !.todo = left, !.pending = added]
  <2>2. ctx' = [ctx EXCEPT ![r] = c] /\ c.job = ctx[r].job
    BY <1>1, <2>1 DEF Context
  <2>3. pc[r] = "persisting" /\ pc' = pc
    BY <1>7 DEF ScanMilestone, ScanAlert
  <2>4. pc' = [pc EXCEPT ![r] = "persisting"]
    BY <1>1, <2>3
  <2> HIDE DEF c
  <2> QED
    BY <1>2, <2>2, <2>3, <2>4 DEF Keeps
<1>8. ASSUME ProcessingError(r)
      PROVE  Keeps(r)
  <2> DEFINE c == [ctx[r] EXCEPT !.outcome = "failed"]
  <2>1. /\ ctx' = [ctx EXCEPT ![r] = c] /\ pc[r] # "idle"
        /\ pc' = [pc EXCEPT ![r] = "raised"] /\ c.job = ctx[r].job
    BY <1>1, <1>8 DEF ProcessingError, Goto, Context
  <2> HIDE DEF c
  <2> QED
    BY <1>2, <2>1 DEF Keeps
<1>9. ASSUME Rollback(r)
      PROVE  Keeps(r)
  <2> DEFINE c == [IdleContext EXCEPT !.job = ctx[r].job,
                     !.view = row[ctx[r].job], !.outcome = ctx[r].outcome]
  <2>1. /\ ctx' = [ctx EXCEPT ![r] = c] /\ pc[r] = "raised"
        /\ pc' = [pc EXCEPT ![r] = "reporting"] /\ c.job = ctx[r].job
    BY <1>9 DEF Rollback, Goto, IdleContext
  <2> HIDE DEF c
  <2> QED
    BY <1>2, <2>1 DEF Keeps
<1> QED
  BY <1>3, <1>4, <1>5, <1>6, <1>7, <1>8, <1>9
     DEF RunStep, LoadWithoutVideo, Complete, Report

LEMMA RunnerMoves ==
    ASSUME TypeInv, [Next]_vars, NEW r \in Runners
    PROVE  RunnerEffect(r)
<1>1. /\ pc \in [Threads -> Places] /\ DOMAIN ctx = Threads
      /\ \A s \in Threads : ctx[s] \in Context
  BY DEF TypeInv, TypeOK
<1>2. ASSUME pc'[r] = pc[r], ctx'[r] = ctx[r], ~Prepare(r)
      PROVE  RunnerEffect(r)
  BY <1>2 DEF RunnerEffect, Continues
<1>3. ASSUME NEW s \in Threads, s # r,
             \E place : pc' = [pc EXCEPT ![s] = place],
             \E c : ctx' = [ctx EXCEPT ![s] = c]
      PROVE  RunnerEffect(r)
  <2>1. pc'[r] = pc[r] /\ ctx'[r] = ctx[r]
    BY <1>1, <1>3
  <2>2. ~Prepare(r)
    BY <1>1, <2>1 DEF Prepare, Save, Goto
  <2> QED
    BY <1>2, <2>1, <2>2
<1>4. ASSUME UNCHANGED <<pc, ctx>>
      PROVE  RunnerEffect(r)
  BY <1>1, <1>2, <1>4 DEF Prepare, Save, Goto
<1>5. ASSUME NEW s \in Threads, Leave(s)
      PROVE  RunnerEffect(r)
  <2>1. CASE s = r
    BY <1>1, <1>5, <2>1 DEF Leave, Goto, RunnerEffect
  <2>2. CASE s # r
    BY <1>3, <1>5, <2>2 DEF Leave, Goto
  <2> QED
    BY <2>1, <2>2
<1>6. ASSUME NEW s \in Runners, NEW j \in Jobs, pc[s] = "idle",
             Goto(s, "picked"), ctx' = [ctx EXCEPT ![s].job = j],
             \/ RunsQueuedJobs
             \/ /\ UNCHANGED row
                /\ \/ s \in Workers /\ row[j].status = "queued"
                   \/ /\ s \in RunThreads
                      /\ row[j].status \in {"failed", "cancelled"}
      PROVE  RunnerEffect(r)
  <2>1. CASE s = r
    <3>1. ctx'[r].job = j
      BY <1>1, <1>6, <2>1 DEF Context
    <3>2. \A x \in Runners : x # r => pc'[x] = pc[x] /\ ctx'[x] = ctx[x]
      BY <1>1, <1>6, <2>1 DEF Goto
    <3>3. pc[r] = "idle" /\ pc'[r] = "picked"
      BY <1>1, <1>6, <2>1 DEF Goto
    <3> QED
      BY <1>6, <2>1, <3>1, <3>2, <3>3 DEF RunnerEffect, Begins
  <2>2. CASE s # r
    BY <1>3, <1>6, <2>2 DEF Goto
  <2> QED
    BY <2>1, <2>2
<1>7. ASSUME NEW a \in CancelThreads, NEW j \in Jobs, RequestCancel(a, j)
      PROVE  RunnerEffect(r)
  <2>1. a # r
    BY ThreadsAssumption
  <2> QED
    BY <1>3, <1>7, <2>1 DEF RequestCancel, Goto
<1>8. CASE Requests
  BY <1>4, <1>6, <1>7, <1>8 DEF Requests, Upload, UploadAndRun, RunJob
<1>9. ASSUME NEW w \in Workers, PickJob(w)
      PROVE  RunnerEffect(r)
  BY <1>6, <1>9 DEF PickJob
<1>10. ASSUME NEW P, Crash(P)
       PROVE  RunnerEffect(r)
  <2>1. CASE r \in P
    BY <1>10, <2>1 DEF Crash, RunnerEffect
  <2>2. CASE r \notin P
    <3>1. pc'[r] = pc[r] /\ ctx'[r] = ctx[r]
      BY <1>10, <2>2 DEF Crash
    <3>2. ~Prepare(r)
      BY <1>1, <3>1 DEF Prepare, Save, Goto
    <3> QED
      BY <1>2, <3>1, <3>2
  <2> QED
    BY <2>1, <2>2
<1>11. ASSUME NEW s \in Runners, RunStep(s) \/ ProcessingError(s)
       PROVE  RunnerEffect(r)
  <2>1. CASE Leave(s)
    BY <1>5, <2>1
  <2>2. CASE Keeps(s) /\ s = r
    <3>1. Prepare(r) => pc'[r] = "prepared"
      BY <1>1 DEF Prepare, Save, Goto
    <3>2. Continues(r)
      BY <2>2, <3>1 DEF Keeps, Continues
    <3> QED
      BY <3>2 DEF RunnerEffect
  <2>3. CASE Keeps(s) /\ s # r
    BY <1>3, <2>3 DEF Keeps
  <2> QED
    BY <1>11, <2>1, <2>2, <2>3, RunKeeps
<1> QED
  BY <1>4, <1>5, <1>8, <1>9, <1>10, <1>11
     DEF Next, vars, CommitCancel, Stop, Restart, AbandonRun, ExpireVideo

LEMMA RunsApartStep ==
    ASSUME TypeInv, Held, RunsApart, KindsApart, SequentialDeployment,
           [Next]_vars
    PROVE  RunsApart'
<1>1. ASSUME NEW r \in Runners, NEW s \in Runners, r # s, Begins(r),
             pc'[s] # "idle", ctx'[r].job = ctx'[s].job
      PROVE  FALSE
  <2>1. /\ pc[s] # "idle" /\ ctx[s].job = ctx'[r].job
        /\ HeldAt(pc[s], ctx[s], row)
        /\ pc[s] \in Places \ {"cancelling"}
    BY <1>1 DEF Begins, Held, KindsApart, TypeInv, TypeOK
  <2>2. CASE r \in Workers
    <3>1. row[ctx[s].job].status = "queued" /\ s \notin Workers
      BY <1>1, <2>1, <2>2, ThreadsAssumption DEF Begins, SequentialDeployment
    <3> QED
      BY <2>1, <3>1
         DEF KindsApart, HeldAt, Places, Executing, Working
  <2>3. CASE r \in RunThreads
    <3>1. /\ row[ctx[s].job].status \in {"failed", "cancelled"}
          /\ s \in Workers
      BY <1>1, <2>1, <2>3, ThreadsAssumption DEF Begins, SequentialDeployment
    <3> QED
      BY <2>1, <3>1
         DEF KindsApart, HeldAt, Places, Executing, Working
  <2> QED
    BY <2>2, <2>3
<1> SUFFICES ASSUME NEW r \in Runners, NEW s \in Runners,
                    pc'[r] # "idle", pc'[s] # "idle",
                    ctx'[r].job = ctx'[s].job, r # s
             PROVE  FALSE
  BY DEF RunsApart
<1>2. RunnerEffect(r) /\ RunnerEffect(s)
  BY RunnerMoves
<1>3. CASE Continues(r) /\ Continues(s)
  BY <1>3 DEF Continues, RunsApart
<1> QED
  BY <1>1, <1>2, <1>3 DEF RunnerEffect

LEMMA KindsApartStep ==
    ASSUME TypeInv, Held, RunsApart, KindsApart, SequentialDeployment,
           [Next]_vars
    PROVE  KindsApart'
<1>1. ASSUME NEW r \in Runners
      PROVE  pc'[r] # "cancelling"
  BY RunnerMoves DEF RunnerEffect, Begins, Continues, KindsApart
<1>2. ASSUME NEW r \in Runners, pc'[r] \in {"picked", "loaded"}
      PROVE  IF r \in Workers THEN row'[ctx'[r].job].status = "queued"
                              ELSE row'[ctx'[r].job].status # "queued"
  <2>1. CASE Begins(r)
    BY <2>1, ThreadsAssumption DEF Begins, SequentialDeployment
  <2>2. CASE Continues(r)
    <3>1. /\ pc[r] \in {"picked", "loaded"} /\ ~Prepare(r)
          /\ ctx'[r].job = ctx[r].job /\ ctx[r].job \in Jobs
      BY <1>2, <2>2, BusyThread DEF Continues
    <3>2. row[ctx[r].job].status # "absent"
      BY <3>1 DEF Held, HeldAt, Startable
    <3>3. ASSUME NEW s \in Runners, ctx[s].job = ctx[r].job,
                 Prepare(s) \/ Start(s) \/ Complete(s) \/ Report(s)
          PROVE  FALSE
      <4>1. s = r
        BY <3>1, <3>3 DEF RunsApart, Prepare, Start, Complete, Report
      <4> QED
        BY <3>1, <3>3, <4>1 DEF Start, Complete, Report
    <3>4. row'[ctx[r].job].status = row[ctx[r].job].status
      BY <3>1, <3>2, <3>3, StatusStep
    <3> QED
      BY <3>1, <3>4 DEF KindsApart
  <2> QED
    BY <1>2, <2>1, <2>2, RunnerMoves DEF RunnerEffect
<1> QED
  BY <1>1, <1>2 DEF KindsApart

-----------------------------------------------------------------------------
(* A cancelled job stays uncompleted.                                      *)

\* A run begins with the first frame.
Begun(place, c) ==
    place \in {"idle", "picked", "loaded", "prepared"} => c.frame = 0

RunsBeginAtZero == \A r \in Runners : Begun(pc[r], ctx[r])

\* A run that has no frame behind it will look at the flag before any result.
LooksAhead(place, c) ==
    place \notin {"analysing", "persisting"} /\ (place = "frames" => c.frame = 0)

\* The flag of a job is set, and every run of it still has to look at it.
CancelAwaits(j) ==
    /\ row[j].cancelRequested
    /\ row[j].status # "completed"
    /\ \A r \in Runners : ctx[r].job = j => LooksAhead(pc[r], ctx[r])

\* Where a step leaves a run between its first frame and its results.
FrameEffect(r) ==
    \/ pc'[r] = pc[r] /\ ctx'[r] = ctx[r]
    \/ pc'[r] = "idle" /\ ctx'[r] = IdleContext
    \/ pc[r] = "idle" /\ pc'[r] = "picked" /\ ctx'[r].frame = ctx[r].frame
    \/ pc'[r] \in {"raised", "reporting"}
    \/ /\ ctx'[r].job = ctx[r].job
       /\ \/ /\ pc[r] \in {"picked", "loaded", "prepared"}
             /\ pc'[r] \in {"loaded", "prepared", "frames"}
             /\ ctx'[r].frame = ctx[r].frame
          \/ /\ pc[r] = "frames" /\ pc'[r] \in {"frames", "analysing"}
             /\ ~row[ctx[r].job].cancelRequested
          \/ /\ pc[r] = "frames" /\ pc'[r] = "persisting"
             /\ ctx[r].frame = FramesOf[ctx[r].job]
          \/ /\ pc[r] \in {"analysing", "persisting"}
             /\ pc'[r] \in {"frames", "persisting"}

LEMMA RunFrames ==
    ASSUME TypeInv, NEW r \in Runners, RunStep(r) \/ ProcessingError(r), Keeps(r)
    PROVE  FrameEffect(r)
<1>1. /\ pc \in [Threads -> Places] /\ DOMAIN ctx = Threads
      /\ DOMAIN pc = Threads /\ ctx[r] \in Context
      /\ ctx'[r].job = ctx[r].job
  BY DEF TypeInv, TypeOK, Keeps
<1>2. ASSUME Load(r) \/ Prepare(r) \/ Start(r)
      PROVE  FrameEffect(r)
  <2>1. PICK place, view :
          /\ place \in {"loaded", "prepared", "frames"}
          /\ pc' = [pc EXCEPT ![r] = place]
          /\ ctx' = [ctx EXCEPT ![r].view = view]
    BY <1>2 DEF Load, Prepare, Start, Save, Goto
  <2>2. pc'[r] = place /\ ctx'[r].frame = ctx[r].frame
    BY <1>1, <2>1 DEF Context
  <2>3. pc[r] \in {"picked", "loaded", "prepared"}
    BY <1>2 DEF Load, Prepare, Start
  <2> QED
    BY <1>1, <2>1, <2>2, <2>3 DEF FrameEffect
<1>3. ASSUME ReadFrame(r)
      PROVE  FrameEffect(r)
  <2>1. /\ pc[r] = "frames"
        /\ \/ pc' = [pc EXCEPT ![r] = "raised"]
           \/ /\ pc' \in {pc, [pc EXCEPT ![r] = "analysing"]}
              /\ ~row[ctx[r].job].cancelRequested
    BY <1>3 DEF ReadFrame, Goto
  <2>2. \/ pc'[r] = "raised"
        \/ /\ pc'[r] \in {"frames", "analysing"}
           /\ ~row[ctx[r].job].cancelRequested
    BY <1>1, <2>1
  <2> QED
    BY <1>1, <2>1, <2>2 DEF FrameEffect
<1>4. ASSUME EndOfVideo(r)
      PROVE  FrameEffect(r)
  <2>1. /\ pc[r] = "frames" /\ ctx[r].frame = FramesOf[ctx[r].job]
        /\ pc'[r] = "persisting"
    BY <1>1, <1>4 DEF EndOfVideo, Goto
  <2> QED
    BY <1>1, <2>1 DEF FrameEffect
<1>5. ASSUME \/ FinishFrame(r)
             \/ \E m \in MilestoneTypes \X Tracks : ScanMilestone(r, m)
             \/ \E key \in AlertKeys : ScanAlert(r, key)
      PROVE  FrameEffect(r)
  <2>1. /\ pc[r] \in {"analysing", "persisting"}
        /\ pc'[r] \in {"frames", "persisting"}
    BY <1>1, <1>5 DEF FinishFrame, ScanMilestone, ScanAlert, Goto
  <2> QED
    BY <1>1, <2>1 DEF FrameEffect
<1>6. ASSUME ProcessingError(r) \/ Rollback(r)
      PROVE  FrameEffect(r)
  <2>1. pc'[r] \in {"raised", "reporting"}
    BY <1>1, <1>6 DEF ProcessingError, Rollback, Goto
  <2> QED
    BY <2>1 DEF FrameEffect
<1>7. ASSUME Leave(r)
      PROVE  FrameEffect(r)
  BY <1>1, <1>7 DEF Leave, Goto, FrameEffect
<1> QED
  BY <1>2, <1>3, <1>4, <1>5, <1>6, <1>7
     DEF RunStep, LoadWithoutVideo, Complete, Report

LEMMA FrameStep ==
    ASSUME TypeInv, [Next]_vars, NEW r \in Runners
    PROVE  FrameEffect(r)
<1>1. DOMAIN pc = Threads /\ DOMAIN ctx = Threads /\ ctx[r] \in Context
  BY DEF TypeInv, TypeOK
<1>2. ASSUME UNCHANGED <<pc, ctx>>
      PROVE  FrameEffect(r)
  BY <1>2 DEF FrameEffect
<1>3. ASSUME NEW s \in Threads, s # r,
             \E place : pc' = [pc EXCEPT ![s] = place],
             \E c : ctx' = [ctx EXCEPT ![s] = c]
      PROVE  FrameEffect(r)
  BY <1>1, <1>3 DEF FrameEffect
<1>4. ASSUME NEW s \in Threads, Leave(s)
      PROVE  FrameEffect(r)
  BY <1>1, <1>4 DEF Leave, Goto, FrameEffect
<1>5. ASSUME NEW s \in Runners, NEW j \in Jobs, pc[s] = "idle",
             Goto(s, "picked"), ctx' = [ctx EXCEPT ![s].job = j]
      PROVE  FrameEffect(r)
  <2>1. CASE s = r
    <3>1. pc[r] = "idle" /\ pc'[r] = "picked" /\ ctx'[r].frame = ctx[r].frame
      BY <1>1, <1>5, <2>1 DEF Goto, Context
    <3> QED
      BY <3>1 DEF FrameEffect
  <2>2. CASE s # r
    BY <1>3, <1>5, <2>2 DEF Goto
  <2> QED
    BY <2>1, <2>2
<1>6. ASSUME NEW a \in CancelThreads, NEW j \in Jobs, RequestCancel(a, j)
      PROVE  FrameEffect(r)
  <2>1. a # r
    BY ThreadsAssumption
  <2> QED
    BY <1>3, <1>6, <2>1 DEF RequestCancel, Goto
<1>7. CASE Requests
  BY <1>2, <1>5, <1>6, <1>7 DEF Requests, Upload, UploadAndRun, RunJob
<1>8. ASSUME NEW w \in Workers, PickJob(w)
      PROVE  FrameEffect(r)
  BY <1>5, <1>8 DEF PickJob
<1>9. ASSUME NEW P, Crash(P)
      PROVE  FrameEffect(r)
  BY <1>9 DEF Crash, FrameEffect
<1>10. ASSUME NEW s \in Runners, RunStep(s) \/ ProcessingError(s)
       PROVE  FrameEffect(r)
  <2>1. CASE Leave(s)
    BY <1>4, <2>1
  <2>2. CASE Keeps(s) /\ s = r
    BY <1>10, <2>2, RunFrames
  <2>3. CASE Keeps(s) /\ s # r
    BY <1>3, <2>3 DEF Keeps
  <2> QED
    BY <1>10, <2>1, <2>2, <2>3, RunKeeps
<1> QED
  BY <1>2, <1>4, <1>7, <1>8, <1>9, <1>10
     DEF Next, vars, CommitCancel, Stop, Restart, AbandonRun, ExpireVideo

LEMMA BeginHolds == Spec => []RunsBeginAtZero
<1>1. Init => RunsBeginAtZero
  BY DEF Init, RunsBeginAtZero, Begun, IdleContext
<1>2. SafetyInv /\ RunsBeginAtZero /\ [Next]_vars => RunsBeginAtZero'
  <2> SUFFICES ASSUME TypeInv, RunsBeginAtZero, [Next]_vars, NEW r \in Runners
               PROVE  Begun(pc'[r], ctx'[r])
    BY DEF SafetyInv, RunsBeginAtZero
  <2>1. FrameEffect(r) /\ Begun(pc[r], ctx[r])
    BY FrameStep DEF RunsBeginAtZero
  <2> QED
    BY <2>1 DEF FrameEffect, Begun, IdleContext
<1> QED
  BY <1>1, <1>2, SafetyHolds, PTL DEF Spec

\* Where runs are apart, no run of a job that has ended is in its frames.
LEMMA CancelledAwaits ==
    ASSUME SafetyInv, Held, NEW j \in Jobs, row[j].status = "cancelled"
    PROVE  CancelAwaits(j)
<1>1. row[j].cancelRequested
  BY DEF SafetyInv, StoreInv, CancelledWasRequested
<1>2. \A r \in Runners : ctx[r].job = j => pc[r] \notin Working
  BY DEF Held, HeldAt
<1> QED
  BY <1>1, <1>2 DEF CancelAwaits, LooksAhead, Working

LEMMA CancelAwaitsStep ==
    ASSUME TypeInv, RunsBeginAtZero, [Next]_vars,
           NEW j \in Jobs, FramesOf[j] > 0, CancelAwaits(j)
    PROVE  CancelAwaits(j)'
<1>1. row'[j].cancelRequested
  BY RowStep DEF RowEffect, CancelAwaits
<1>2. row'[j].status # "completed"
  <2>1. ASSUME NEW r \in Runners, ctx[r].job = j
        PROVE  ~Complete(r)
    BY <2>1 DEF Complete, CancelAwaits, LooksAhead
  <2>2. ASSUME NEW r \in Runners, ctx[r].job = j,
               Prepare(r) \/ Start(r) \/ Report(r)
        PROVE  row'[j].status # "completed"
    <3>1. PICK s : Writes(r, s) /\ s # "completed"
      BY <2>2, RunWrites, ContextType DEF TypeInv
    <3> QED
      BY <3>1, WriteEffect DEF CancelAwaits
  <2> QED
    BY <2>1, <2>2, StatusStep DEF CancelAwaits
<1>3. ASSUME NEW r \in Runners, ctx'[r].job = j
      PROVE  LooksAhead(pc'[r], ctx'[r])
  <2>1. FrameEffect(r) /\ Begun(pc[r], ctx[r])
    BY FrameStep DEF RunsBeginAtZero
  <2>2. row[j].cancelRequested /\ (ctx[r].job = j => LooksAhead(pc[r], ctx[r]))
    BY DEF CancelAwaits
  <2>3. FramesOf[j] # 0
    BY JobsAssumption
  <2> QED
    BY <1>3, <2>1, <2>2, <2>3 DEF FrameEffect, Begun, LooksAhead
<1> QED
  BY <1>1, <1>2, <1>3 DEF CancelAwaits

-----------------------------------------------------------------------------
(* Turnarounds whose jobs run one after the other.                         *)

\* No two runs for one turnaround are in progress at the same time.
TurnaroundsApart ==
    \A r, s \in Runners :
        \/ r = s
        \/ pc[r] = "idle" \/ pc[s] = "idle"
        \/ TurnaroundOf[ctx[r].job] # TurnaroundOf[ctx[s].job]
        \/ TurnaroundOf[ctx[r].job] = NoTurnaround

\* The milestones a run is about to store are of types its turnaround does
\* not have.
PendingIsNew ==
    \A r \in Runners : \A m \in ctx[r].pending.milestones :
        Persisting(r) =>
            /\ TurnaroundOf[ctx[r].job] # NoTurnaround
            /\ ~MilestoneKnown(TurnaroundOf[ctx[r].job], m[1])

\* Whoever stores a milestone for the turnaround of another run that is
\* looking its candidates up would overlap with it.
LEMMA KnownStays ==
    ASSUME TypeInv, TurnaroundsApart, [Next]_vars, NEW r \in Runners,
           pc[r] # "idle", NEW t, t = TurnaroundOf[ctx[r].job],
           t # NoTurnaround, ~Complete(r), NEW type
    PROVE  MilestoneKnown(t, type)' <=> MilestoneKnown(t, type)
<1>1. CASE UNCHANGED results
  BY <1>1 DEF results, MilestoneKnown
<1>2. ASSUME NEW s \in Runners, Complete(s)
      PROVE  MilestoneKnown(t, type)' <=> MilestoneKnown(t, type)
  <2>1. s # r /\ pc[s] # "idle"
    BY <1>2 DEF Complete
  <2>2. TurnaroundOf[ctx[s].job] # t
    BY <2>1 DEF TurnaroundsApart
  <2>3. \A m \in NewMilestones(s) : m.turnaround # t
    BY <2>2 DEF NewMilestones
  <2>4. milestoneRows' = milestoneRows \cup NewMilestones(s)
    BY <1>2 DEF Complete
  <2> QED
    BY <2>3, <2>4 DEF MilestoneKnown
<1> QED
  BY <1>1, <1>2, ResultsStep

LEMMA PendingIsNewStep ==
    ASSUME TypeInv, PendingClean, TurnaroundsApart, PendingIsNew, [Next]_vars
    PROVE  PendingIsNew'
<1> SUFFICES ASSUME NEW r \in Runners, NEW m \in ctx'[r].pending.milestones,
                    Persisting(r)'
             PROVE  (/\ TurnaroundOf[ctx[r].job] # NoTurnaround
                     /\ ~MilestoneKnown(TurnaroundOf[ctx[r].job], m[1]))'
  BY DEF PendingIsNew
<1> DEFINE t == TurnaroundOf[ctx[r].job]
<1>1. /\ pc'[r] = "persisting"
      /\ DOMAIN pc = Threads
  BY DEF Persisting, TypeInv, TypeOK
<1>2. ~Complete(r)
  BY <1>1 DEF Complete, Leave, Goto
<1>3. ASSUME pc[r] # "idle", ctx'[r].job = ctx[r].job, t # NoTurnaround,
             ~MilestoneKnown(t, m[1])
      PROVE  (/\ TurnaroundOf[ctx[r].job] # NoTurnaround
              /\ ~MilestoneKnown(TurnaroundOf[ctx[r].job], m[1]))'
  BY <1>2, <1>3, KnownStays DEF MilestoneKnown
<1>4. CASE Rests(r)
  <2>1. pc[r] = "persisting" /\ ctx'[r] = ctx[r]
    BY <1>1, <1>4 DEF Rests
  <2> QED
    BY <1>3, <2>1 DEF PendingIsNew, Persisting
<1>5. CASE Persists(r)
  <2>1. ctx'[r].job = ctx[r].job
    BY <1>5 DEF Persists
  <2>2. CASE ~Persisting(r)
    BY <1>5, <2>2 DEF Persists, PendingClean, Raising
  <2>3. CASE Persisting(r) /\ m \in ctx[r].pending.milestones
    BY <1>3, <2>1, <2>3 DEF PendingIsNew, Persisting
  <2>4. CASE Persisting(r) /\ m \notin ctx[r].pending.milestones
    <3>1. t # NoTurnaround /\ ~MilestoneKnown(t, m[1])
      BY <1>5, <2>4 DEF Persists
    <3> QED
      BY <1>3, <2>1, <2>4, <3>1 DEF Persisting
  <2> QED
    BY <2>2, <2>3, <2>4
<1> QED
  BY <1>1, <1>4, <1>5, ThreadStepEffect
     DEF ThreadEffect, Goes, Raises, Persisting

LEMMA MilestonesStep ==
    ASSUME TypeInv, PendingIsNew, MilestonesFromOneRun, [Next]_vars
    PROVE  MilestonesFromOneRun'
<1>1. CASE UNCHANGED results
  BY <1>1 DEF results, MilestonesFromOneRun
<1>2. ASSUME NEW r \in Runners, Complete(r)
      PROVE  MilestonesFromOneRun'
  <2>1. milestoneRows' = milestoneRows \cup NewMilestones(r)
    BY <1>2 DEF Complete
  <2>2. \A n \in NewMilestones(r) :
          /\ n.job = ctx[r].job /\ n.by = r
          /\ ~MilestoneKnown(n.turnaround, n.type)
    <3> SUFFICES ASSUME NEW n \in NewMilestones(r)
                 PROVE  /\ n.job = ctx[r].job /\ n.by = r
                        /\ ~MilestoneKnown(n.turnaround, n.type)
      OBVIOUS
    <3>1. PICK m \in ctx[r].pending.milestones :
            n = [turnaround |-> TurnaroundOf[ctx[r].job], type |-> m[1],
                 track |-> m[2], job |-> ctx[r].job, by |-> r]
      BY DEF NewMilestones
    <3>2. /\ n.turnaround = TurnaroundOf[ctx[r].job] /\ n.type = m[1]
          /\ n.job = ctx[r].job /\ n.by = r
      BY <3>1
    <3>3. Persisting(r)
      BY <1>2 DEF Complete, Persisting
    <3> QED
      BY <3>2, <3>3 DEF PendingIsNew
  <2> QED
    BY <2>1, <2>2 DEF MilestonesFromOneRun, MilestoneKnown
<1> QED
  BY <1>1, <1>2, ResultsStep

-----------------------------------------------------------------------------
(* The theorems. *)

\* A job that is marked complete has its results in the store.
THEOREM CompletionTheorem == Spec => []CompletedHasResults
<1>1. SafetyInv => CompletedHasResults
  BY DEF SafetyInv, StoreInv
<1> QED
  BY <1>1, SafetyHolds, PTL

\* The rows of a run are stored together or not at all.
THEOREM AtomicResultsTheorem == Spec => []NoPartialResults
<1>1. SafetyInv => NoPartialResults
  BY DEF SafetyInv, StoreInv
<1> QED
  BY <1>1, SafetyHolds, PTL

\* The status of a turnaround and its milestones agree.
THEOREM OnStandTheorem == Spec => []OnStandIffAircraftOnBlock
<1>1. SafetyInv => OnStandIffAircraftOnBlock
  BY DEF SafetyInv, StoreInv
<1> QED
  BY <1>1, SafetyHolds, PTL

\* No job ends as cancelled unasked.
THEOREM CancellationTheorem == Spec => []CancelledWasRequested
<1>1. SafetyInv => CancelledWasRequested
  BY DEF SafetyInv, StoreInv
<1> QED
  BY <1>1, SafetyHolds, PTL

\* No commit from a stale session takes a cancel flag back.
THEOREM FlagTheorem == Spec => FlagIsNeverLost
<1>1. SafetyInv /\ [Next]_vars =>
        [\A j \in Jobs : row[j].cancelRequested => row'[j].cancelRequested]_vars
  BY RowStep DEF SafetyInv, RowEffect
<1> QED
  BY <1>1, SafetyHolds, PTL DEF Spec, FlagIsNeverLost

\* Where the runs of a job do not overlap, a job has results exactly if it is
\* completed, and those of one run only.
THEOREM OneResultSetTheorem == Spec /\ []RunsApart => []OneResultSet
<1>1. ApartInv => OneResultSet
  BY DEF ApartInv, PublishedIffCompleted, OneRunner, OneResultSet
<1> QED
  BY <1>1, ApartHolds, PTL

\* Where the runs of a job do not overlap, every step on the rows is a step
\* of the job life cycle or changes nothing of it.
THEOREM LifecycleTheorem == Spec /\ []RunsApart => ImplementsLifecycle
<1>1. SafetyInv /\ ApartInv /\ [Next]_vars
        => [Lifecycle!Next]_(Lifecycle!lifecycleVars)
  BY LifecycleStep
<1> QED
  BY <1>1, LifecycleInit, ApartHolds, PTL
     DEF Spec, ImplementsLifecycle, Lifecycle!Spec

\* Where the runs of a job do not overlap, a job that was cancelled never
\* completes, however often it is run again: the flag stays, and every run
\* looks at it before its first frame.
THEOREM CancelTheorem == Spec /\ []RunsApart => CancelIsFinal
<1>1. ASSUME NEW j \in Jobs, FramesOf[j] > 0
      PROVE  Spec /\ []RunsApart =>
               []((row[j].status = "cancelled") => [](row[j].status # "completed"))
  <2>1. SafetyInv /\ ApartInv /\ row[j].status = "cancelled" => CancelAwaits(j)
    BY <1>1, CancelledAwaits DEF ApartInv
  <2>2. SafetyInv /\ RunsBeginAtZero /\ CancelAwaits(j) /\ [Next]_vars
          => CancelAwaits(j)'
    BY <1>1, CancelAwaitsStep DEF SafetyInv
  <2>3. CancelAwaits(j) => row[j].status # "completed"
    BY DEF CancelAwaits
  <2> QED
    BY <2>1, <2>2, <2>3, ApartHolds, BeginHolds, PTL DEF Spec
<1> QED
  BY <1>1 DEF CancelIsFinal

\* A deployment with one worker keeps the runs of each job apart, however
\* runs fail, cancel requests arrive and processes crash.
THEOREM SequentialTheorem ==
    ASSUME SequentialDeployment
    PROVE  Spec => []RunsApart
<1> DEFINE SequentialInv == SafetyInv /\ ApartInv /\ RunsApart /\ KindsApart
<1>1. Init => SequentialInv
  <2>1. Init => RunsApart /\ KindsApart
    BY DEF Init, RunsApart, KindsApart
  <2> QED
    BY <2>1, InitSafety, InitApart
<1>2. SequentialInv /\ [Next]_vars => SequentialInv'
  <2>1. SafetyInv /\ [Next]_vars => SafetyInv'
    BY SafetyStep
  <2>2. SequentialInv /\ [Next]_vars => ApartInv'
    BY ApartStep DEF SafetyInv
  <2>3. SequentialInv /\ [Next]_vars => RunsApart' /\ KindsApart'
    BY RunsApartStep, KindsApartStep DEF SafetyInv, ApartInv
  <2> QED
    BY <2>1, <2>2, <2>3
<1> QED
  BY <1>1, <1>2, PTL DEF Spec

\* So in such a deployment no retry, crash, error or late cancel request
\* gives a job a second set of results, leads it off its life cycle, or
\* completes it after it was cancelled.
THEOREM SequentialResultsTheorem ==
    ASSUME SequentialDeployment
    PROVE  Spec => []OneResultSet /\ ImplementsLifecycle /\ CancelIsFinal
BY SequentialTheorem, OneResultSetTheorem, LifecycleTheorem, CancelTheorem, PTL

\* Where the jobs of a turnaround run one after the other, as with one
\* worker and nobody running jobs by hand, all its milestones of one type are
\* of one run.
THEOREM MilestonesTheorem == Spec /\ []TurnaroundsApart => []MilestonesFromOneRun
<1>1. Init => PendingIsNew /\ MilestonesFromOneRun
  BY DEF Init, PendingIsNew, MilestonesFromOneRun, Persisting
<1>2. SafetyInv /\ PendingIsNew /\ MilestonesFromOneRun /\ TurnaroundsApart
        /\ [Next]_vars => PendingIsNew' /\ MilestonesFromOneRun'
  BY PendingIsNewStep, MilestonesStep DEF SafetyInv, RunInv
<1> QED
  BY <1>1, <1>2, SafetyHolds, PTL DEF Spec

\* A single runner keeps the jobs of every turnaround apart.
THEOREM SingleRunnerTheorem ==
    ASSUME \A r, s \in Runners : r = s
    PROVE  Spec => []MilestonesFromOneRun
<1>1. TurnaroundsApart
  BY DEF TurnaroundsApart
<1> QED
  BY <1>1, MilestonesTheorem, PTL

=============================================================================
