---------------------------- MODULE AlertEvidence ----------------------------
(***************************************************************************)
(* What run_processing_job makes of the alerts of a video: the candidates  *)
(* whose deduplication key is new are stored, each with the snapshot and   *)
(* the clip that process_video has written for it.                         *)
(***************************************************************************)
EXTENDS VideoAnalysis

CONSTANTS
    BucketWidth,      \* the ten seconds of deduplication_key, in ticks
    EvidenceBefore,   \* evidence_before_seconds of the processing profile
    EvidenceAfter     \* evidence_after_seconds

ASSUME EvidenceAssumption ==
    /\ BucketWidth \in Nat \ {0}
    /\ EvidenceBefore \in Nat /\ EvidenceAfter \in Nat

-----------------------------------------------------------------------------

Bucket(a) == a.time \div BucketWidth

\* (mutant) The track is left out of the key.
DeduplicationKeyOfRule(a) == <<a.rule, Bucket(a)>>

\* deduplication_key; the job is the run of this module.
DeduplicationKey(a) == <<a.rule, a.track, Bucket(a)>>

\* The order of result.alerts, as far as keys can be equal.
StoredBefore(a, b) == a.time < b.time \/ (a.time = b.time /\ a.other < b.other)

\* The look-up of the key finds the alerts stored before, which are flushed.
Stored(a) ==
    ~\E b \in alerts : DeduplicationKey(b) = DeduplicationKey(a) /\ StoredBefore(b, a)

\* The files whose names start with rule and track of the alert (_alert_key has
\* the milliseconds after them).
FilesFound(a) == {b \in alerts : Key(b) = Key(a)}

\* snapshot_match and clip_match: the first match in the order in which files
\* were written; the time of the alert they were written for.
SnapshotTime(a) ==
    CHOOSE t \in {b.time : b \in FilesFound(a)} :
        \A b \in FilesFound(a) : t <= b.time

-----------------------------------------------------------------------------
(* Clips, which are cut from the annotated video after its last frame. *)

\* A frame of the annotated video is at the time of the sampled frame: it is
\* written with fps source_fps / sample_every.
AnnotatedFrames == {observations[n].time : n \in DOMAIN observations}

\* (mutant) The clip starts with the alert.
ClipFramesAfter(time) == AnnotatedFrames \cap time..(time + EvidenceAfter)

\* _extract_clip.  A start before the video is its start, and there is nothing
\* to write after its end.
ClipFrames(time) ==
    AnnotatedFrames \cap (time - EvidenceBefore)..(time + EvidenceAfter)

\* clip_match: the first clip that was found, where those of `failed` could not
\* be cut; without any, the annotated video.
EvidenceClip(a, failed) ==
    LET times == {b.time : b \in FilesFound(a) \ failed} IN
    IF times = {} THEN AnnotatedFrames
    ELSE ClipFrames(CHOOSE t \in times : \A u \in times : t <= u)

-----------------------------------------------------------------------------
(* Properties. *)

\* A candidate that is not stored repeats a stored one of its rule and track
\* from less than ten seconds before, and its rule allows that: its cooldown is
\* shorter than ten seconds.  Nothing else is lost to the deduplication.
DroppedAlertIsExplained ==
    \A a \in alerts : ~Stored(a) =>
        \E b \in alerts :
            /\ Stored(b) /\ Key(b) = Key(a)
            /\ a.time - b.time \in 0..(BucketWidth - 1)
            /\ a.rule.cooldown < BucketWidth

\* docs/vision-pipeline.md:50, "render synchronized snapshot": the evidence of a
\* stored alert was recorded for it, or for an earlier alert of its rule and track,
\* which is then a cooldown older.  Whichever clips fail, it is seen in its clip,
\* or the clip is of another such alert and too far from it.
EvidenceIsExplained ==
    \A a \in alerts : Stored(a) =>
        /\ \/ SnapshotTime(a) = a.time
           \/ a.time - SnapshotTime(a) >= a.rule.cooldown
        /\ finalized =>
            \A failed \in SUBSET FilesFound(a) :
                a.time \in EvidenceClip(a, failed)
                \/ \E b \in FilesFound(a) \ failed :
                        \/ a.time - b.time > EvidenceAfter
                        \/ b.time - a.time > EvidenceBefore

=============================================================================
