------------------------------- MODULE Tracker -------------------------------
(***************************************************************************)
(* CentroidTracker of vision/tracker.py: detections of a frame continue    *)
(* the nearest track of their class within a distance gate, tracks that    *)
(* miss too many frames end, and what is left starts new tracks.           *)
(*                                                                         *)
(* Centroids are integers on a line, times are integers (ticks).           *)
(* Confidences and boxes are left out: no decision here depends on them.   *)
(***************************************************************************)
EXTENDS Integers, FiniteSets, Sequences

CONSTANTS
    Classes,      \* class names of the detector
    Places,       \* centroids a detection can have
    MaxDistance,  \* max_distance: the gate
    MaxMissed     \* max_missed

ASSUME TrackerAssumption ==
    /\ Places \subseteq Int
    /\ MaxDistance \in Nat
    /\ MaxMissed \in Nat

VARIABLES
    tracks,    \* the dict `tracks`: next_id is Len(tracks) + 1
    finished   \* ids of the tracks in the list `finished`

tracker == <<tracks, finished>>

Detection  == [class : Classes, at : Places]
TrackPoint == [time : Int, at : Places]
TrackState == [class : Classes, points : Seq(TrackPoint),
               missed : 0..(MaxMissed + 1), active : BOOLEAN]

-----------------------------------------------------------------------------

Dist(a, b) == IF a < b THEN b - a ELSE a - b

Latest(track) == track.points[Len(track.points)]

Active(ts) == {i \in DOMAIN ts : ts[i].active}

\* The triples (distance, track id, detection index) that pass the gate.
Candidates(ts, detections) ==
    {c \in [gap : 0..MaxDistance, track : Active(ts), det : DOMAIN detections] :
        /\ ts[c.track].class = detections[c.det].class
        /\ c.gap = Dist(Latest(ts[c.track]).at, detections[c.det].at)}

\* The order of Python tuples.
Before(c, d) ==
    \/ c.gap < d.gap
    \/ c.gap = d.gap /\ c.track < d.track
    \/ c.gap = d.gap /\ c.track = d.track /\ c.det < d.det

\* The greedy choice over the sorted candidates: a candidate is taken exactly
\* if no earlier one that is taken has its track or its detection.
Matching(ts, detections) ==
    LET all == Candidates(ts, detections) IN
    CHOOSE taken \in SUBSET all :
        \A c \in all :
            c \in taken <=>
                ~\E d \in taken : /\ Before(d, c)
                                  /\ d.track = c.track \/ d.det = c.det

\* (mutant) missed_frames is not reset when a track is seen again.
ContinueAndCount(track, detection, now) ==
    [track EXCEPT !.points = Append(@, [time |-> now, at |-> detection.at])]

Continue(track, detection, now) ==
    [track EXCEPT
        !.points = Append(@, [time |-> now, at |-> detection.at]),
        !.missed = 0]

Miss(track) ==
    [track EXCEPT !.missed = @ + 1, !.active = track.missed + 1 <= MaxMissed]

NewTrack(detection, now) ==
    [class |-> detection.class, missed |-> 0, active |-> TRUE,
     points |-> <<[time |-> now, at |-> detection.at]>>]

\* (mutant) A detection that lost its track to a nearer one is dropped.
UnclaimedOnly(ts, detections) ==
    {k \in DOMAIN detections : \A c \in Candidates(ts, detections) : c.det # k}

Unmatched(ts, detections) ==
    {k \in DOMAIN detections : \A c \in Matching(ts, detections) : c.det # k}

\* The members of a finite set of integers, the least one first.
InOrder(S) ==
    CHOOSE s \in [1..Cardinality(S) -> S] :
        \A m, n \in DOMAIN s : m < n => s[m] < s[n]

-----------------------------------------------------------------------------

TrackerInit == tracks = <<>> /\ finished = <<>>

\* update: matches, misses and new tracks of one frame.
Update(detections, now) ==
    LET matching == Matching(tracks, detections)
        fresh == InOrder(Unmatched(tracks, detections))
        Seen(i) == {c \in matching : c.track = i}
        old == [i \in DOMAIN tracks |->
                  IF Seen(i) # {}
                  THEN LET c == CHOOSE c \in Seen(i) : TRUE
                       IN Continue(tracks[i], detections[c.det], now)
                  ELSE IF tracks[i].active THEN Miss(tracks[i]) ELSE tracks[i]]
        lost == Active(tracks) \ Active(old)
    IN
    /\ tracks' = old \o [n \in DOMAIN fresh |->
                            NewTrack(detections[fresh[n]], now)]
    /\ finished' = finished \o InOrder(lost)

\* finalize: what is still active ends.
Finalize ==
    /\ tracks' = [i \in DOMAIN tracks |-> [tracks[i] EXCEPT !.active = FALSE]]
    /\ finished' = finished \o InOrder(Active(tracks))

=============================================================================
