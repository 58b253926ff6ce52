------------------------- MODULE VideoAnalysis_proofs -------------------------
(***************************************************************************)
(* The frame loop of a video, for every detector, every set of rules and   *)
(* milestone rules, every frame rate and every length of the video: the    *)
(* tracker loses and doubles no detection, and alerts, milestones and      *)
(* evidence agree with the points of the tracks.  The last part is the     *)
(* matcher of evaluation.py, for every list of predictions and events, and *)
(* for the alerts of a video.                                              *)
(*                                                                         *)
(* A set of natural numbers has a least member (NatMin, from WFMin); every *)
(* argument over a data structure below is by a least counterexample.      *)
(***************************************************************************)
EXTENDS VideoEvaluation, FiniteSetTheorems, WellFoundedInduction, TLAPS

-----------------------------------------------------------------------------
(* Lists of integers in order. *)

\* Every set of natural numbers that is not empty has a least one.
LEMMA NatMin ==
    ASSUME NEW T \in SUBSET Nat, T # {}
    PROVE  \E x \in T : \A y \in T : x <= y
<1> DEFINE R == {p \in Nat \X Nat : p[1] < p[2]}
<1>1. IsWellFoundedOn(R, Nat)
    BY NatLessThanWellFounded DEF OpToRel
<1>2. \A x, y \in Nat : x < y => <<x, y>> \in R
    OBVIOUS
<1> HIDE DEF R
<1>3. PICK x \in T : \A y \in T : ~(<<y, x>> \in R)
    BY <1>1, WFMin
<1>4. ASSUME NEW y \in T
      PROVE  x <= y
    <2>1. ~(y < x)
        BY <1>2, <1>3
    <2> QED
        BY <2>1
<1> QED
    BY <1>4

\* A finite set of natural numbers can be listed in order.
LEMMA OrderExists ==
    ASSUME NEW S \in SUBSET Nat, IsFiniteSet(S)
    PROVE  \E s \in [1..Cardinality(S) -> S] :
                \A m, n \in DOMAIN s : m < n => s[m] < s[n]
<1> DEFINE Listed(X) == \E s \in [1..Cardinality(X) -> X] :
                            \A m, n \in DOMAIN s : m < n => s[m] < s[n]
           Bad == {X \in SUBSET S : ~Listed(X)}
           Sizes == {Cardinality(X) : X \in Bad}
<1>1. \A X \in SUBSET S : IsFiniteSet(X) /\ Cardinality(X) \in Nat
    BY FS_Subset, FS_CardinalityType
<1> SUFFICES ASSUME Bad # {}
             PROVE  FALSE
    OBVIOUS
<1>2. PICK X \in Bad : \A Y \in Bad : Cardinality(X) <= Cardinality(Y)
    <2>1. Sizes \in SUBSET Nat /\ Sizes # {}
        BY <1>1
    <2>2. PICK k \in Sizes : \A l \in Sizes : k <= l
        BY <2>1, NatMin
    <2> QED
        BY <2>2
<1>3. IsFiniteSet(X) /\ Cardinality(X) \in Nat /\ X \in SUBSET Nat
    BY <1>1
<1>4. X # {}
    <2> SUFFICES ASSUME X = {}
                 PROVE  FALSE
        OBVIOUS
    <2>1. Cardinality(X) = 0
        BY FS_EmptySet
    <2>2. 1..0 = {}
        OBVIOUS
    <2>3. [n \in 1..0 |-> n] \in [1..Cardinality(X) -> X]
        BY <2>1, <2>2
    <2>4. \A m, n \in DOMAIN [n \in 1..0 |-> n] : FALSE
        BY <2>2
    <2> QED
        BY <2>3, <2>4
<1>5. PICK x \in X : \A y \in X : x <= y
    BY <1>3, <1>4, NatMin
<1> DEFINE Y == X \ {x}
<1>6. Cardinality(Y) = Cardinality(X) - 1 /\ Cardinality(X) >= 1
    <2>1. Cardinality(Y) = Cardinality(X) - 1 /\ IsFiniteSet(Y)
        BY <1>3, FS_RemoveElement
    <2>2. Cardinality(Y) \in Nat
        BY <2>1, FS_CardinalityType
    <2> QED
        BY <2>1, <2>2, <1>3
<1>7. Listed(Y)
    <2>1. Y \in SUBSET S
        OBVIOUS
    <2>2. ~(Cardinality(X) <= Cardinality(Y))
        BY <1>3, <1>6
    <2> QED
        BY <2>1, <2>2, <1>2
<1> DEFINE N == Cardinality(X)
<1> HIDE DEF N
<1>8. PICK t \in [1..(N - 1) -> Y] :
            \A m, n \in 1..(N - 1) : m < n => t[m] < t[n]
    BY <1>6, <1>7 DEF N
<1> DEFINE s == [n \in 1..N |-> IF n = 1 THEN x ELSE t[n - 1]]
<1>9. N \in Nat /\ N >= 1
    BY <1>3, <1>6 DEF N
<1>10. \A n \in 1..N : n # 1 => n - 1 \in 1..(N - 1)
    BY <1>9
<1>11. \A n \in 1..N : s[n] = IF n = 1 THEN x ELSE t[n - 1]
    OBVIOUS
<1>12. s \in [1..N -> X] /\ DOMAIN s = 1..N
    BY <1>8, <1>10
<1> HIDE DEF s
<1>13. ASSUME NEW m \in 1..N, NEW n \in 1..N, m < n
       PROVE  s[m] < s[n]
    <2>1. n # 1 /\ n - 1 \in 1..(N - 1)
        BY <1>13, <1>9
    <2>2. s[n] = t[n - 1] /\ t[n - 1] \in Y
        BY <2>1, <1>8, <1>11
    <2>3. CASE m = 1
        <3>1. x <= t[n - 1] /\ x # t[n - 1] /\ x \in Nat /\ t[n - 1] \in Nat
            BY <2>2, <1>5, <1>3
        <3> QED
            BY <2>2, <2>3, <3>1, <1>11
    <2>4. CASE m # 1
        <3>1. m - 1 \in 1..(N - 1) /\ m - 1 < n - 1
            BY <2>4, <1>9, <1>13
        <3> QED
            BY <2>1, <2>2, <2>4, <3>1, <1>8, <1>11
    <2> QED
        BY <2>3, <2>4
<1>14. Listed(X)
    BY <1>12, <1>13 DEF N
<1> QED
    BY <1>2, <1>14

\* InOrder lists every member of a finite set once.
LEMMA InOrderLists ==
    ASSUME NEW S \in SUBSET Nat, IsFiniteSet(S)
    PROVE  /\ Cardinality(S) \in Nat
           /\ InOrder(S) \in [1..Cardinality(S) -> S]
           /\ \A m, n \in 1..Cardinality(S) :
                    InOrder(S)[m] = InOrder(S)[n] => m = n
           /\ \A x \in S : \E n \in 1..Cardinality(S) : InOrder(S)[n] = x
<1> DEFINE s == InOrder(S)
           N == Cardinality(S)
<1>1. N \in Nat
    BY FS_CardinalityType
<1>2. s \in [1..N -> S] /\ \A m, n \in DOMAIN s : m < n => s[m] < s[n]
    BY OrderExists DEF InOrder
<1> HIDE DEF s
<1>3. ASSUME NEW m \in 1..N, NEW n \in 1..N, s[m] = s[n]
      PROVE  m = n
    <2>1. s[m] \in S /\ s[m] \in Nat
        BY <1>2
    <2>2. ~(m < n) /\ ~(n < m)
        BY <2>1, <1>2, <1>3
    <2> QED
        BY <2>2, <1>1
<1>4. s \in Injection(1..N, S)
    BY <1>2, <1>3 DEF Injection, IsInjective
<1>5. IsFiniteSet(1..N) /\ Cardinality(1..N) = N
    BY <1>1, FS_Interval
<1>6. s \in Surjection(1..N, S)
    BY <1>4, <1>5, FS_Injection
<1> QED
    BY <1>1, <1>2, <1>3, <1>6 DEF Surjection, s

-----------------------------------------------------------------------------
(* The greedy choice of the tracker pairs tracks and detections one to one. *)

Triple == [gap : Nat, track : Nat, det : Nat]

Rivals(c, d) == d.track = c.track \/ d.det = c.det

\* What the greedy choice over the candidates `all` takes.
IsGreedy(taken, all) ==
    \A c \in all :
        c \in taken <=> ~\E d \in taken : Before(d, c) /\ Rivals(c, d)

\* Sorted candidates are in a total order.
LEMMA BeforeIsTotal ==
    ASSUME NEW c \in Triple, NEW d \in Triple
    PROVE  /\ Before(c, d) \/ Before(d, c) \/ c = d
           /\ ~(Before(c, d) /\ Before(d, c))
           /\ ~Before(c, c)
<1>1. /\ c.gap \in Nat /\ c.track \in Nat /\ c.det \in Nat
      /\ d.gap \in Nat /\ d.track \in Nat /\ d.det \in Nat
    BY DEF Triple
<1>2. c.gap = d.gap /\ c.track = d.track /\ c.det = d.det => c = d
    BY DEF Triple
<1> QED
    BY <1>1, <1>2 DEF Before

\* A set of candidates that is not empty has a first one.
LEMMA FirstCandidate ==
    ASSUME NEW A \in SUBSET Triple, A # {}
    PROVE  \E c \in A : \A d \in A : ~Before(d, c)
<1> DEFINE Gaps == {c.gap : c \in A}
<1>1. Gaps \in SUBSET Nat /\ Gaps # {}
    BY DEF Triple
<1>2. PICK g \in Gaps : \A h \in Gaps : g <= h
    BY <1>1, NatMin
<1> DEFINE B == {c \in A : c.gap = g}
           Tracks == {c.track : c \in B}
<1>3. Tracks \in SUBSET Nat /\ Tracks # {}
    BY <1>2 DEF Triple
<1>4. PICK t \in Tracks : \A u \in Tracks : t <= u
    BY <1>3, NatMin
<1> DEFINE C == {c \in B : c.track = t}
           Dets == {c.det : c \in C}
<1>5. Dets \in SUBSET Nat /\ Dets # {}
    BY <1>4 DEF Triple
<1>6. PICK k \in Dets : \A l \in Dets : k <= l
    BY <1>5, NatMin
<1>7. PICK c \in C : c.det = k
    BY <1>6
<1>8. ASSUME NEW d \in A
      PROVE  ~Before(d, c)
    <2>1. /\ d.gap \in Nat /\ d.track \in Nat /\ d.det \in Nat
          /\ c.gap \in Nat /\ c.track \in Nat /\ c.det \in Nat
        BY DEF Triple
    <2>2. c.gap <= d.gap
        BY <1>2, <1>7
    <2>3. d.gap = c.gap => c.track <= d.track
        BY <1>4, <1>7
    <2>4. d.gap = c.gap /\ d.track = c.track => c.det <= d.det
        BY <1>6, <1>7
    <2> QED
        BY <2>1, <2>2, <2>3, <2>4 DEF Before
<1> QED
    BY <1>7, <1>8

\* The greedy choice can always be made.
LEMMA GreedyExists ==
    ASSUME NEW all \in SUBSET Triple, IsFiniteSet(all)
    PROVE  \E taken \in SUBSET all : IsGreedy(taken, all)
<1> DEFINE Chosen(A) == \E taken \in SUBSET A : IsGreedy(taken, A)
           Bad == {A \in SUBSET all : ~Chosen(A)}
           Sizes == {Cardinality(A) : A \in Bad}
<1>1. \A A \in SUBSET all : IsFiniteSet(A) /\ Cardinality(A) \in Nat
    BY FS_Subset, FS_CardinalityType
<1> SUFFICES ASSUME Bad # {}
             PROVE  FALSE
    OBVIOUS
<1>2. PICK A \in Bad : \A B \in Bad : Cardinality(A) <= Cardinality(B)
    <2>1. Sizes \in SUBSET Nat /\ Sizes # {}
        BY <1>1
    <2>2. PICK k \in Sizes : \A l \in Sizes : k <= l
        BY <2>1, NatMin
    <2> QED
        BY <2>2
<1>3. A # {}
    BY <1>2 DEF IsGreedy
<1>4. PICK c \in A : \A d \in A : ~Before(d, c)
    BY <1>3, FirstCandidate
<1> DEFINE B == {d \in A : ~Rivals(c, d)}
<1>5. Chosen(B)
    <2>1. B \in SUBSET all /\ B \in SUBSET A /\ B # A
        BY DEF Rivals
    <2>2. Cardinality(B) <= Cardinality(A) /\ Cardinality(B) # Cardinality(A)
        BY <2>1, <1>1, FS_Subset
    <2> QED
        BY <2>1, <2>2, <1>1, <1>2
<1>6. PICK rest \in SUBSET B : IsGreedy(rest, B)
    BY <1>5
<1> DEFINE taken == rest \cup {c}
<1>7. ASSUME NEW d \in A
      PROVE  d \in taken <=> ~\E e \in taken : Before(e, d) /\ Rivals(d, e)
    <2>1. c \in Triple /\ d \in Triple /\ A \subseteq Triple /\ rest \subseteq A
        OBVIOUS
    <2>2. CASE d = c
        BY <2>1, <2>2, <1>4, BeforeIsTotal
    <2>3. CASE d # c /\ Rivals(c, d)
        <3>1. Before(c, d)
            BY <2>1, <2>3, <1>4, BeforeIsTotal
        <3>2. Rivals(d, c)
            BY <2>3 DEF Rivals
        <3> QED
            BY <2>3, <3>1, <3>2
    <2>4. CASE d \in B
        <3>1. d \in rest <=> ~\E e \in rest : Before(e, d) /\ Rivals(d, e)
            BY <2>4, <1>6 DEF IsGreedy
        <3>2. ~Rivals(d, c) /\ d # c
            BY <2>4 DEF Rivals
        <3> QED
            BY <3>1, <3>2
    <2> QED
        BY <2>2, <2>3, <2>4
<1>8. taken \in SUBSET A /\ IsGreedy(taken, A)
    BY <1>7 DEF IsGreedy
<1> QED
    BY <1>2, <1>8

\* There are finitely many candidates, since there are finitely many tracks and
\* detections.
LEMMA CandidatesFinite ==
    ASSUME NEW ts, NEW detections, NEW m \in Nat, NEW n \in Nat,
           DOMAIN ts = 1..m, DOMAIN detections = 1..n
    PROVE  /\ Candidates(ts, detections) \in SUBSET Triple
           /\ IsFiniteSet(Candidates(ts, detections))
<1> DEFINE P == ((0..MaxDistance) \X (1..m)) \X (1..n)
           T == [gap : 0..MaxDistance, track : 1..m, det : 1..n]
           f == [p \in P |-> [gap |-> p[1][1], track |-> p[1][2], det |-> p[2]]]
<1>1. MaxDistance \in Nat
    BY TrackerAssumption
<1>2. IsFiniteSet(P)
    <2>1. IsFiniteSet(0..MaxDistance) /\ IsFiniteSet(1..m) /\ IsFiniteSet(1..n)
        BY <1>1, FS_Interval
    <2>2. IsFiniteSet((0..MaxDistance) \X (1..m))
        BY <2>1, FS_Product
    <2> QED
        BY <2>1, <2>2, FS_Product
<1>3. f \in [P -> T]
    OBVIOUS
<1>4. ASSUME NEW t \in T
      PROVE  \E p \in P : f[p] = t
    <2>1. /\ <<<<t.gap, t.track>>, t.det>> \in P
          /\ f[<<<<t.gap, t.track>>, t.det>>]
                = [gap |-> t.gap, track |-> t.track, det |-> t.det]
        OBVIOUS
    <2>2. t = [gap |-> t.gap, track |-> t.track, det |-> t.det]
        OBVIOUS
    <2> QED
        BY <2>1, <2>2
<1>5. IsFiniteSet(T)
    <2>1. f \in Surjection(P, T)
        BY <1>3, <1>4 DEF Surjection
    <2> HIDE DEF f, P, T
    <2> QED
        BY <2>1, <1>2, FS_Surjection
<1>6. Candidates(ts, detections) \in SUBSET T
    BY DEF Candidates, Active
<1>7. T \subseteq Triple
    BY <1>1 DEF Triple
<1> HIDE DEF T
<1> QED
    BY <1>5, <1>6, <1>7, FS_Subset

\* Matching is the greedy choice: it takes no track and no detection twice.
LEMMA MatchingIsOneToOne ==
    ASSUME NEW ts, NEW detections, NEW m \in Nat, NEW n \in Nat,
           DOMAIN ts = 1..m, DOMAIN detections = 1..n
    PROVE  /\ Matching(ts, detections) \in SUBSET Candidates(ts, detections)
           /\ \A c, d \in Matching(ts, detections) : Rivals(c, d) => c = d
<1> DEFINE all == Candidates(ts, detections)
           taken == Matching(ts, detections)
<1>1. all \in SUBSET Triple /\ IsFiniteSet(all)
    BY CandidatesFinite
<1> HIDE DEF all
<1>2. taken \in SUBSET all /\ IsGreedy(taken, all)
    <2>1. \E g \in SUBSET all : IsGreedy(g, all)
        BY <1>1, GreedyExists
    <2> QED
        BY <2>1 DEF Matching, IsGreedy, Rivals, all
<1> HIDE DEF taken
<1>3. ASSUME NEW c \in taken, NEW d \in taken, Rivals(c, d)
      PROVE  c = d
    <2>1. c \in all /\ d \in all /\ c \in Triple /\ d \in Triple
        BY <1>1, <1>2
    <2>2. ~Before(d, c)
        BY <2>1, <1>2, <1>3 DEF IsGreedy
    <2>3. Rivals(d, c)
        BY <1>3 DEF Rivals
    <2>4. ~Before(c, d)
        BY <2>1, <2>3, <1>2 DEF IsGreedy
    <2> QED
        BY <2>1, <2>2, <2>4, BeforeIsTotal
<1> QED
    BY <1>2, <1>3 DEF all, taken

-----------------------------------------------------------------------------
(* What a frame does to the tracks. *)

\* The track that goes on, as a record.
LEMMA ContinueFacts ==
    ASSUME NEW t \in TrackState, NEW d \in Detection, NEW now \in Int
    PROVE  /\ Continue(t, d, now) \in TrackState
           /\ Continue(t, d, now).class = t.class
           /\ Continue(t, d, now).active = t.active
           /\ Continue(t, d, now).missed = 0
           /\ Continue(t, d, now).points
                    = Append(t.points, [time |-> now, at |-> d.at])
           /\ Continue(t, d, now).points # <<>>
<1> DEFINE new == [time |-> now, at |-> d.at]
           p == Append(t.points, new)
<1>1. new \in TrackPoint /\ t.points \in Seq(TrackPoint)
    BY DEF TrackPoint, Detection, TrackState
<1> HIDE DEF new
<1>2. p \in Seq(TrackPoint) /\ p # <<>>
    BY <1>1
<1>3. 0 \in 0..(MaxMissed + 1)
    BY TrackerAssumption
<1> HIDE DEF p
<1>4. PICK u : u = [t EXCEPT !.points = p]
    OBVIOUS
<1>5. u = [class |-> t.class, points |-> p, missed |-> t.missed,
           active |-> t.active]
    BY <1>4 DEF TrackState
<1>6. PICK v : v = [u EXCEPT !.missed = 0]
    OBVIOUS
<1>7. v = [class |-> t.class, points |-> p, missed |-> 0, active |-> t.active]
    BY <1>5, <1>6
<1>8. Continue(t, d, now) = v
    BY Zenon, <1>4, <1>6 DEF Continue, p, new
<1>9. t.class \in Classes /\ t.active \in BOOLEAN
    BY DEF TrackState
<1> QED
    BY <1>2, <1>3, <1>7, <1>8, <1>9 DEF TrackState, p, new

\* The track that misses a frame, as a record.
LEMMA MissFacts ==
    ASSUME NEW t \in TrackState, t.missed <= MaxMissed
    PROVE  /\ Miss(t) \in TrackState
           /\ Miss(t).class = t.class
           /\ Miss(t).points = t.points
           /\ Miss(t).missed = t.missed + 1
           /\ Miss(t).active = (t.missed + 1 <= MaxMissed)
<1> DEFINE m == t.missed + 1
           a == t.missed + 1 <= MaxMissed
<1>1. m \in 0..(MaxMissed + 1) /\ a \in BOOLEAN
    BY TrackerAssumption DEF TrackState
<1>2. PICK u : u = [t EXCEPT !.missed = m]
    OBVIOUS
<1>3. PICK v : v = [u EXCEPT !.active = a]
    OBVIOUS
<1>4. Miss(t) = v
    BY Zenon, <1>2, <1>3 DEF Miss
<1> HIDE DEF m, a
<1>5. u = [class |-> t.class, points |-> t.points, missed |-> m,
           active |-> t.active]
    BY <1>2 DEF TrackState
<1>6. v = [class |-> t.class, points |-> t.points, missed |-> m, active |-> a]
    BY <1>3, <1>5
<1>7. t.class \in Classes /\ t.points \in Seq(TrackPoint)
    BY DEF TrackState
<1>8. /\ v \in TrackState /\ v.class = t.class /\ v.points = t.points
      /\ v.missed = m /\ v.active = a
    BY <1>1, <1>6, <1>7 DEF TrackState
<1> QED
    BY <1>4, <1>8 DEF m, a

\* The track that starts, as a record.
LEMMA NewTrackFacts ==
    ASSUME NEW d \in Detection, NEW now \in Int
    PROVE  /\ NewTrack(d, now) \in TrackState
           /\ NewTrack(d, now).class = d.class
           /\ NewTrack(d, now).active = TRUE
           /\ NewTrack(d, now).missed = 0
           /\ NewTrack(d, now).points = <<[time |-> now, at |-> d.at]>>
           /\ NewTrack(d, now).points # <<>>
<1>1. [time |-> now, at |-> d.at] \in TrackPoint /\ d.class \in Classes
    BY DEF TrackPoint, Detection
<1>2. 0 \in 0..(MaxMissed + 1)
    BY TrackerAssumption
<1> QED
    BY <1>1, <1>2 DEF NewTrack, TrackState

\* The tracks as update keeps them: one that is active has not missed too much.
TracksKept ==
    /\ tracks \in Seq(TrackState)
    /\ \A i \in DOMAIN tracks :
            /\ tracks[i].points # <<>>
            /\ tracks[i].active => tracks[i].missed <= MaxMissed

\* Detection `k` of a frame has become the last point of track `home[k]` of `ts`,
\* one that was active before or a new one, and what no detection has become
\* part of has missed the frame.
Homes(home, ts, detections, now) ==
    /\ \E l \in Nat : ts = [i \in 1..l |-> ts[i]]
    /\ DOMAIN tracks \subseteq DOMAIN ts
    /\ home \in [DOMAIN detections -> DOMAIN ts]
    /\ \A k, l \in DOMAIN detections : home[k] = home[l] => k = l
    /\ \A k \in DOMAIN detections :
            IF home[k] \in DOMAIN tracks
            THEN /\ tracks[home[k]].active
                 /\ tracks[home[k]].class = detections[k].class
                 /\ ts[home[k]] = Continue(tracks[home[k]], detections[k], now)
            ELSE ts[home[k]] = NewTrack(detections[k], now)
    /\ \A i \in DOMAIN ts :
            \/ \E k \in DOMAIN detections : home[k] = i
            \/ /\ i \in DOMAIN tracks
               /\ ts[i] = IF tracks[i].active THEN Miss(tracks[i]) ELSE tracks[i]

\* update finds every detection a track of its own.
LEMMA UpdateHomes ==
    ASSUME TracksKept, NEW detections \in Seq(Detection), NEW now \in Int,
           Update(detections, now)
    PROVE  \E home : Homes(home, tracks', detections, now)
<1> DEFINE taken == Matching(tracks, detections)
           left == Unmatched(tracks, detections)
           m == Len(tracks)
           n == Len(detections)
           Seen(i) == {c \in taken : c.track = i}
           old == [i \in DOMAIN tracks |->
                     IF Seen(i) # {}
                     THEN LET c == CHOOSE c \in Seen(i) : TRUE
                          IN Continue(tracks[i], detections[c.det], now)
                     ELSE IF tracks[i].active THEN Miss(tracks[i]) ELSE tracks[i]]
           size == Cardinality(left)
           fresh == InOrder(left)
           made == [k \in DOMAIN fresh |-> NewTrack(detections[fresh[k]], now)]
<1>1. m \in Nat /\ DOMAIN tracks = 1..m /\ n \in Nat /\ DOMAIN detections = 1..n
    BY DEF TracksKept
<1> HIDE DEF m, n
<1>2. /\ taken \in SUBSET Candidates(tracks, detections)
      /\ \A c, d \in taken : Rivals(c, d) => c = d
    BY <1>1, MatchingIsOneToOne
<1>3. \A c \in taken :
        /\ c.track \in 1..m /\ tracks[c.track].active
        /\ c.det \in 1..n /\ tracks[c.track].class = detections[c.det].class
    BY <1>1, <1>2 DEF Candidates, Active
<1>4. tracks' = old \o made
    BY DEF Update
<1>5. left \in SUBSET Nat /\ IsFiniteSet(left) /\ left \in SUBSET (1..n)
    <2>1. left \in SUBSET (1..n) /\ 1..n \in SUBSET Nat /\ IsFiniteSet(1..n)
        BY <1>1, FS_Interval DEF Unmatched
    <2> HIDE DEF left
    <2> QED
        BY <2>1, FS_Subset
<1> HIDE DEF taken, left, fresh, size
<1>6. /\ size \in Nat /\ fresh \in [1..size -> left]
      /\ \A k, l \in 1..size : fresh[k] = fresh[l] => k = l
      /\ \A k \in left : \E l \in 1..size : fresh[l] = k
    BY <1>5, InOrderLists DEF fresh, size
<1>7. /\ old = [i \in 1..m |-> old[i]] /\ made = [k \in 1..size |-> made[k]]
      /\ \A k \in 1..size : made[k] = NewTrack(detections[fresh[k]], now)
    BY <1>1, <1>6
<1>8. ASSUME NEW c \in taken
      PROVE  old[c.track] = Continue(tracks[c.track], detections[c.det], now)
    <2>1. Seen(c.track) = {c}
        BY <1>2 DEF Rivals
    <2>2. c.track \in DOMAIN tracks
        BY <1>1, <1>3
    <2> QED
        BY <2>1, <2>2
<1>9. ASSUME NEW i \in 1..m, \A c \in taken : c.track # i
      PROVE  old[i] = IF tracks[i].active THEN Miss(tracks[i]) ELSE tracks[i]
    BY <1>1, <1>9
<1> HIDE DEF old, made
<1>10. /\ DOMAIN tracks' = 1..(m + size)
       /\ \A i \in 1..m : tracks'[i] = old[i]
       /\ \A k \in 1..size : tracks'[m + k] = made[k]
       /\ \E l \in Nat : tracks' = [i \in 1..l |-> tracks'[i]]
    <2> DEFINE X == {old[i] : i \in 1..m} \cup {made[k] : k \in 1..size}
    <2>1. old \in [1..m -> X] /\ made \in [1..size -> X]
        BY <1>7
    <2> HIDE DEF X
    <2>2. /\ old \in Seq(X) /\ Len(old) = m
          /\ made \in Seq(X) /\ Len(made) = size
        BY <1>1, <1>6, <2>1
    <2>3. tracks' \in Seq(X)
        BY <1>4, <2>2
    <2>4. \E l \in Nat : tracks' = [i \in 1..l |-> tracks'[i]]
        BY <2>3
    <2> QED
        BY <1>1, <1>4, <1>6, <2>2, <2>4
<1> DEFINE Home(k) == IF k \in left
                      THEN m + (CHOOSE l \in 1..size : fresh[l] = k)
                      ELSE (CHOOSE c \in taken : c.det = k).track
           home == [k \in 1..n |-> Home(k)]
<1>11. ASSUME NEW k \in left
       PROVE  \E l \in 1..size : /\ fresh[l] = k /\ Home(k) = m + l
                                 /\ Home(k) \notin 1..m
                                 /\ Home(k) \in 1..(m + size)
                                 /\ tracks'[Home(k)] = NewTrack(detections[k], now)
    <2>1. PICK l \in 1..size : fresh[l] = k /\ Home(k) = m + l
        BY <1>6
    <2>2. m + l \notin 1..m /\ m + l \in 1..(m + size)
        BY <1>1, <1>6
    <2> QED
        BY <2>1, <2>2, <1>7, <1>10
<1>12. ASSUME NEW k \in 1..n, k \notin left
       PROVE  \E c \in taken : c.det = k /\ Home(k) = c.track
    BY <1>12, <1>1 DEF left, Unmatched, taken
<1>13. ASSUME NEW c \in taken
       PROVE  c.det \in 1..n /\ c.det \notin left
    BY <1>1, <1>3 DEF left, Unmatched, taken
<1>14. \A k \in 1..n : home[k] = Home(k)
    OBVIOUS
<1>15. DOMAIN home = 1..n
    OBVIOUS
<1> HIDE DEF home, Home
<1>16. 1..m \subseteq 1..(m + size)
    BY <1>1, <1>6
<1>17. home \in [1..n -> 1..(m + size)]
    <2>1. ASSUME NEW k \in 1..n
          PROVE  home[k] \in 1..(m + size)
        BY <1>3, <1>11, <1>12, <1>14, <1>16
    <2>2. home = [k \in 1..n |-> home[k]]
        BY DEF home
    <2> QED
        BY <2>1, <2>2
<1>18. ASSUME NEW k \in 1..n, NEW l \in 1..n, home[k] = home[l]
       PROVE  k = l
    <2>1. CASE k \in left /\ l \in left
        <3>1. PICK p \in 1..size : fresh[p] = k /\ Home(k) = m + p
            BY <2>1, <1>11
        <3>2. PICK q \in 1..size : fresh[q] = l /\ Home(l) = m + q
            BY <2>1, <1>11
        <3>3. p = q
            BY <3>1, <3>2, <1>1, <1>6, <1>14, <1>18
        <3> QED
            BY <3>1, <3>2, <3>3
    <2>2. CASE k \in left /\ l \notin left
        BY <2>2, <1>3, <1>11, <1>12, <1>14, <1>18
    <2>3. CASE k \notin left /\ l \in left
        BY <2>3, <1>3, <1>11, <1>12, <1>14, <1>18
    <2>4. CASE k \notin left /\ l \notin left
        BY <2>4, <1>2, <1>12, <1>14, <1>18 DEF Rivals
    <2> QED
        BY <2>1, <2>2, <2>3, <2>4
<1>19. ASSUME NEW k \in 1..n
       PROVE  IF home[k] \in DOMAIN tracks
              THEN /\ tracks[home[k]].active
                   /\ tracks[home[k]].class = detections[k].class
                   /\ tracks'[home[k]] = Continue(tracks[home[k]], detections[k], now)
              ELSE tracks'[home[k]] = NewTrack(detections[k], now)
    <2>1. CASE k \in left
        BY <2>1, <1>1, <1>11, <1>14
    <2>2. CASE k \notin left
        <3>1. PICK c \in taken : c.det = k /\ home[k] = c.track
            BY <2>2, <1>12, <1>14
        <3> QED
            BY <3>1, <1>1, <1>3, <1>8, <1>10
    <2> QED
        BY <2>1, <2>2
<1>20. ASSUME NEW i \in DOMAIN tracks'
       PROVE  \/ \E k \in 1..n : home[k] = i
              \/ /\ i \in DOMAIN tracks
                 /\ tracks'[i] = IF tracks[i].active THEN Miss(tracks[i])
                                                     ELSE tracks[i]
    <2>1. CASE i \notin 1..m
        <3>1. i - m \in 1..size /\ m + (i - m) = i
            BY <2>1, <1>1, <1>6, <1>10
        <3>2. fresh[i - m] \in left
            BY <3>1, <1>6
        <3>3. PICK l \in 1..size : /\ fresh[l] = fresh[i - m]
                                   /\ Home(fresh[i - m]) = m + l
            BY <3>2, <1>11
        <3>4. l = i - m
            BY <3>1, <3>3, <1>6
        <3>5. fresh[i - m] \in 1..n /\ home[fresh[i - m]] = i
            BY <3>1, <3>2, <3>3, <3>4, <1>5, <1>14
        <3> QED
            BY <3>5
    <2>2. CASE \E c \in taken : c.track = i
        <3>1. PICK c \in taken : c.track = i
            BY <2>2
        <3>2. c.det \in 1..n /\ c.det \notin left
            BY <1>13
        <3>3. PICK d \in taken : d.det = c.det /\ Home(c.det) = d.track
            BY <3>2, <1>12
        <3>4. d = c
            BY <3>3, <1>2 DEF Rivals
        <3> QED
            BY <3>1, <3>2, <3>3, <3>4, <1>14
    <2>3. CASE i \in 1..m /\ \A c \in taken : c.track # i
        BY <2>3, <1>1, <1>9, <1>10
    <2> QED
        BY <2>1, <2>2, <2>3
<1>21. DOMAIN tracks \subseteq DOMAIN tracks'
    BY <1>1, <1>10, <1>16
<1>22. home \in [DOMAIN detections -> DOMAIN tracks']
    BY <1>1, <1>10, <1>17
<1>23. \A k, l \in DOMAIN detections : home[k] = home[l] => k = l
    BY <1>1, <1>18
<1>24. DOMAIN detections = 1..n
    BY <1>1
<1>25. Homes(home, tracks', detections, now)
    BY Zenon, <1>10, <1>19, <1>20, <1>21, <1>22, <1>23, <1>24 DEF Homes
<1> QED
    BY <1>25

\* A frame keeps the tracks as they should be.
LEMMA TracksStep ==
    ASSUME TracksKept, NEW detections \in Seq(Detection), NEW now \in Int,
           Update(detections, now)
    PROVE  TracksKept'
<1> SUFFICES /\ tracks' \in Seq(TrackState)
             /\ \A i \in DOMAIN tracks' :
                    /\ tracks'[i].points # <<>>
                    /\ tracks'[i].active => tracks'[i].missed <= MaxMissed
    BY DEF TracksKept
<1>1. PICK home : Homes(home, tracks', detections, now)
    BY UpdateHomes
<1>2. ASSUME NEW i \in DOMAIN tracks'
      PROVE  /\ tracks'[i] \in TrackState
             /\ tracks'[i].points # <<>>
             /\ tracks'[i].active => tracks'[i].missed <= MaxMissed
    <2>1. CASE \E k \in DOMAIN detections : home[k] = i
        <3>1. PICK k \in DOMAIN detections : home[k] = i
            BY <2>1
        <3>2. detections[k] \in Detection
            OBVIOUS
        <3>3. 0 <= MaxMissed
            BY TrackerAssumption
        <3>4. CASE i \in DOMAIN tracks
            <4>1. tracks[i] \in TrackState
                BY <3>4 DEF TracksKept
            <4>2. tracks'[i] = Continue(tracks[i], detections[k], now)
                BY <3>1, <3>4, <1>1 DEF Homes
            <4>3. PICK w : w = Continue(tracks[i], detections[k], now)
                OBVIOUS
            <4>4. w \in TrackState /\ w.missed = 0 /\ w.points # <<>>
                BY <4>1, <4>3, <3>2, ContinueFacts
            <4>5. w \in TrackState /\ w.missed <= MaxMissed /\ w.points # <<>>
                BY <4>4, <3>3
            <4> QED
                BY Zenon, <4>2, <4>3, <4>5
        <3>5. CASE i \notin DOMAIN tracks
            <4>1. tracks'[i] = NewTrack(detections[k], now)
                BY <3>1, <3>5, <1>1 DEF Homes
            <4>2. PICK w : w = NewTrack(detections[k], now)
                OBVIOUS
            <4>3. w \in TrackState /\ w.missed = 0 /\ w.points # <<>>
                BY <4>2, <3>2, NewTrackFacts
            <4>4. w \in TrackState /\ w.missed <= MaxMissed /\ w.points # <<>>
                BY <4>3, <3>3
            <4> QED
                BY Zenon, <4>1, <4>2, <4>4
        <3> QED
            BY <3>4, <3>5
    <2>2. CASE i \in DOMAIN tracks /\ tracks[i].active /\ tracks'[i] = Miss(tracks[i])
        <3>1. tracks[i] \in TrackState /\ tracks[i].missed <= MaxMissed
            BY <2>2 DEF TracksKept
        <3>2. tracks[i].points # <<>>
            BY <2>2 DEF TracksKept
        <3> QED
            BY <2>2, <3>1, <3>2, MissFacts
    <2>3. CASE i \in DOMAIN tracks /\ ~tracks[i].active /\ tracks'[i] = tracks[i]
        BY <2>3 DEF TracksKept
    <2> QED
        BY <2>1, <2>2, <2>3, <1>1 DEF Homes
<1>3. tracks' \in Seq(TrackState)
    <2>1. PICK l \in Nat : tracks' = [i \in 1..l |-> tracks'[i]]
        BY <1>1 DEF Homes
    <2> QED
        BY <1>2, <2>1
<1> QED
    BY <1>2, <1>3

-----------------------------------------------------------------------------
(* Every detection has a track of its own. *)

Point(now, at) == [time |-> now, at |-> at]

\* What a frame can do to track `i`.
Starts(i, d, now) ==
    /\ i \notin DOMAIN tracks
    /\ tracks'[i].points = <<Point(now, d.at)>>
    /\ tracks'[i].class = d.class
    /\ tracks'[i].active = TRUE /\ tracks'[i].missed = 0

Continues(i, d, now) ==
    /\ i \in DOMAIN tracks /\ tracks[i].active
    /\ tracks'[i].points = Append(tracks[i].points, Point(now, d.at))
    /\ tracks'[i].class = tracks[i].class /\ tracks[i].class = d.class
    /\ tracks'[i].active = TRUE /\ tracks'[i].missed = 0

Misses(i) ==
    /\ i \in DOMAIN tracks /\ tracks[i].active
    /\ tracks'[i].points = tracks[i].points
    /\ tracks'[i].class = tracks[i].class
    /\ tracks'[i].missed = tracks[i].missed + 1
    /\ tracks'[i].active = (tracks[i].missed + 1 <= MaxMissed)

Stays(i) == i \in DOMAIN tracks /\ ~tracks[i].active /\ tracks'[i] = tracks[i]

\* Every detection of a frame starts or continues a track of its own.
LEMMA TrackHomes ==
    ASSUME TracksKept, NEW detections \in Seq(Detection), NEW now \in Int,
           Update(detections, now)
    PROVE  /\ DOMAIN tracks \subseteq DOMAIN tracks'
           /\ \E home \in [DOMAIN detections -> DOMAIN tracks'] :
                /\ \A k, l \in DOMAIN detections : home[k] = home[l] => k = l
                /\ \A k \in DOMAIN detections :
                        \/ Starts(home[k], detections[k], now)
                        \/ Continues(home[k], detections[k], now)
                /\ \A i \in DOMAIN tracks' :
                        \/ \E k \in DOMAIN detections : home[k] = i
                        \/ Misses(i)
                        \/ Stays(i)
<1>1. PICK home : Homes(home, tracks', detections, now)
    BY UpdateHomes
<1>2. ASSUME NEW i \in DOMAIN tracks', NEW k \in DOMAIN detections, home[k] = i
      PROVE  Starts(i, detections[k], now) \/ Continues(i, detections[k], now)
    <2>1. detections[k] \in Detection
        OBVIOUS
    <2>2. CASE i \in DOMAIN tracks
        <3>1. /\ tracks[i].active /\ tracks[i].class = detections[k].class
              /\ tracks'[i] = Continue(tracks[i], detections[k], now)
            BY Zenon, <1>1, <1>2, <2>2 DEF Homes
        <3>2. tracks[i] \in TrackState
            BY <2>2 DEF TracksKept
        <3>3. tracks[i].active = TRUE
            BY <3>1, <3>2 DEF TrackState
        <3> QED
            BY <2>1, <2>2, <3>1, <3>2, <3>3, ContinueFacts DEF Continues, Point
    <2>3. CASE i \notin DOMAIN tracks
        <3>1. tracks'[i] = NewTrack(detections[k], now)
            BY Zenon, <1>1, <1>2, <2>3 DEF Homes
        <3>2. PICK w : w = NewTrack(detections[k], now)
            OBVIOUS
        <3>3. /\ w.points = <<[time |-> now, at |-> detections[k].at]>>
              /\ w.class = detections[k].class /\ w.active = TRUE /\ w.missed = 0
            BY <2>1, <3>2, NewTrackFacts
        <3> QED
            BY Zenon, <2>3, <3>1, <3>2, <3>3 DEF Starts, Point
    <2> QED
        BY <2>2, <2>3
<1>3. ASSUME NEW i \in DOMAIN tracks, tracks[i].active, tracks'[i] = Miss(tracks[i])
      PROVE  Misses(i)
    <2>1. tracks[i] \in TrackState /\ tracks[i].missed <= MaxMissed
        BY <1>3 DEF TracksKept
    <2> QED
        BY <1>3, <2>1, MissFacts DEF Misses
<1>4. DOMAIN tracks \subseteq DOMAIN tracks'
    BY <1>1 DEF Homes
<1>5. ASSUME NEW i \in DOMAIN tracks'
      PROVE  \/ \E k \in DOMAIN detections : home[k] = i
             \/ /\ i \in DOMAIN tracks
                /\ tracks'[i] = IF tracks[i].active THEN Miss(tracks[i]) ELSE tracks[i]
    BY Zenon, <1>1 DEF Homes
<1>6. ASSUME NEW i \in DOMAIN tracks'
      PROVE  \/ \E k \in DOMAIN detections : home[k] = i
             \/ Misses(i)
             \/ Stays(i)
    <2>1. CASE i \in DOMAIN tracks /\ tracks[i].active /\ tracks'[i] = Miss(tracks[i])
        BY <2>1, <1>3
    <2>2. CASE i \in DOMAIN tracks /\ ~tracks[i].active /\ tracks'[i] = tracks[i]
        BY <2>2 DEF Stays
    <2> QED
        BY <1>5, <2>1, <2>2
<1>7. /\ home \in [DOMAIN detections -> DOMAIN tracks']
      /\ \A k, l \in DOMAIN detections : home[k] = home[l] => k = l
    BY <1>1 DEF Homes
<1>8. \A k \in DOMAIN detections :
            /\ home[k] \in DOMAIN tracks'
            /\ \/ Starts(home[k], detections[k], now)
               \/ Continues(home[k], detections[k], now)
    BY <1>2, <1>7
<1> QED
    BY <1>4, <1>6, <1>7, <1>8

\* A track starts, continues, misses or stays as it was.
LEMMA TrackChanges ==
    ASSUME TracksKept, NEW detections \in Seq(Detection), NEW now \in Int,
           Update(detections, now)
    PROVE  /\ DOMAIN tracks \subseteq DOMAIN tracks'
           /\ \A i \in DOMAIN tracks' :
                \/ \E k \in DOMAIN detections : \/ Starts(i, detections[k], now)
                                                \/ Continues(i, detections[k], now)
                \/ Misses(i)
                \/ Stays(i)
<1>1. PICK home \in [DOMAIN detections -> DOMAIN tracks'] :
        /\ \A k \in DOMAIN detections : \/ Starts(home[k], detections[k], now)
                                        \/ Continues(home[k], detections[k], now)
        /\ \A i \in DOMAIN tracks' :
                \/ \E k \in DOMAIN detections : home[k] = i
                \/ Misses(i)
                \/ Stays(i)
    BY TrackHomes
<1> QED
    BY <1>1, TrackHomes

-----------------------------------------------------------------------------
(* The time of the frames. *)

\* Time passes by a frame time from frame to frame.
LEMMA TimeGrows ==
    /\ \A n \in Int : Time(n) \in Int /\ Time(n + 1) = Time(n) + FrameTime
    /\ \A m, n \in Int : m < n => Time(m) < Time(n)
    /\ FrameTime \in Nat \ {0}
<1>1. FrameTime \in Nat \ {0}
    BY AnalysisAssumption
<1>2. ASSUME NEW n \in Int
      PROVE  Time(n) \in Int /\ Time(n + 1) = Time(n) + FrameTime
    BY <1>1 DEF Time
<1>3. ASSUME NEW m \in Int, NEW n \in Int, m < n
      PROVE  Time(m) < Time(n)
    BY <1>1, <1>3 DEF Time
<1> QED
    BY <1>1, <1>2, <1>3

FramesTimed ==
    /\ observations \in Seq([time : Int, found : Scenes])
    /\ \A n \in DOMAIN observations : observations[n].time = Time(n - 1)

\* The points of a track are of frames, in their order.
PointsTimed ==
    \A i \in DOMAIN tracks :
        /\ \A p \in DOMAIN tracks[i].points :
                \E n \in DOMAIN observations :
                    tracks[i].points[p].time = observations[n].time
        /\ \A p, q \in DOMAIN tracks[i].points :
                p < q => tracks[i].points[p].time < tracks[i].points[q].time

\* missed_frames counts the frames since a track was last seen, and a track has
\* ended when there were too many.
MissesCounted ==
    ~finalized =>
        \A i \in DOMAIN tracks :
            IF tracks[i].active
            THEN Now - Latest(tracks[i]).time = tracks[i].missed * FrameTime
            ELSE Now - Latest(tracks[i]).time > MaxMissed * FrameTime

LoopInv == TracksKept /\ FramesTimed /\ PointsTimed /\ MissesCounted

\* The frame of Analyse comes after all the others.
LEMMA FrameFacts ==
    ASSUME FramesTimed, NEW detections \in Scenes, Analyse(detections)
    PROVE  /\ detections \in Seq(Detection)
           /\ Len(observations) \in Nat
           /\ DOMAIN observations = 1..Len(observations)
           /\ Time(Len(observations)) \in Int
           /\ DOMAIN observations' = 1..(Len(observations) + 1)
           /\ \A n \in DOMAIN observations :
                    /\ observations'[n] = observations[n]
                    /\ observations[n].time \in Int
                    /\ observations[n].time < Time(Len(observations))
           /\ observations'[Len(observations) + 1]
                    = [time |-> Time(Len(observations)), found |-> detections]
           /\ Now \in Int /\ Now' = Time(Len(observations))
           /\ Now' = Now + FrameTime
           /\ Now' \in Int
           /\ ~finalized /\ ~finalized'
           /\ FramesTimed'
<1> DEFINE l == Len(observations)
           o == [time |-> Time(l), found |-> detections]
<1>1. detections \in Seq(Detection)
    BY AnalysisAssumption
<1>2. l \in Nat /\ DOMAIN observations = 1..l
    BY DEF FramesTimed
<1>3. Time(l) \in Int /\ o \in [time : Int, found : Scenes]
    BY <1>2, TimeGrows
<1>4. observations' = Append(observations, o) /\ ~finalized /\ ~finalized'
    BY DEF Analyse
<1> HIDE DEF o
<1>5. /\ DOMAIN observations' = 1..(l + 1) /\ Len(observations') = l + 1
      /\ observations'[l + 1] = o
      /\ observations' \in Seq([time : Int, found : Scenes])
      /\ \A n \in 1..l : observations'[n] = observations[n]
    BY <1>2, <1>3, <1>4 DEF FramesTimed
<1>6. ASSUME NEW n \in 1..l
      PROVE  observations[n].time \in Int /\ observations[n].time < Time(l)
    <2>1. observations[n].time = Time(n - 1) /\ n - 1 \in Int /\ n - 1 < l
        BY <1>2 DEF FramesTimed
    <2> QED
        BY <2>1, <1>2, TimeGrows
<1>7. Now = Time(l - 1) /\ Now' = Time(l)
    <2>1. Now' = Time(l + 1 - 1)
        BY <1>5 DEF Now
    <2>2. l + 1 - 1 = l
        BY <1>2
    <2> QED
        BY <2>1, <2>2 DEF Now
<1>8. Now \in Int /\ Now' = Now + FrameTime
    <2>1. l - 1 \in Int /\ l - 1 + 1 = l
        BY <1>2
    <2> QED
        BY <1>7, <2>1, TimeGrows
<1>9. FramesTimed'
    <2>1. ASSUME NEW n \in 1..(l + 1)
          PROVE  observations'[n].time = Time(n - 1)
        <3>1. CASE n = l + 1
            <4>1. n - 1 = l
                BY <3>1, <1>2
            <4> QED
                BY <3>1, <4>1, <1>5 DEF o
        <3>2. CASE n \in 1..l
            BY <3>2, <1>2, <1>5 DEF FramesTimed
        <3> QED
            BY <3>1, <3>2, <1>2
    <2> QED
        BY <2>1, <1>5 DEF FramesTimed, Time
<1> QED
    BY <1>1, <1>2, <1>3, <1>4, <1>5, <1>6, <1>7, <1>8, <1>9 DEF o

-----------------------------------------------------------------------------
(* The invariant of the frame loop. *)

\* The fields of a track.
LEMMA TrackTypes ==
    ASSUME TracksKept, NEW i \in DOMAIN tracks
    PROVE  /\ tracks[i] \in TrackState
           /\ tracks[i].missed \in Int
           /\ tracks[i].points \in Seq(TrackPoint) /\ tracks[i].points # <<>>
           /\ tracks[i].active => tracks[i].missed <= MaxMissed
           /\ tracks[i].active \in BOOLEAN
<1>1. /\ tracks[i] \in TrackState /\ tracks[i].points # <<>>
      /\ tracks[i].active => tracks[i].missed <= MaxMissed
    BY DEF TracksKept
<1>2. PICK t \in TrackState : t = tracks[i]
    BY <1>1
<1>3. t.missed \in Int /\ t.points \in Seq(TrackPoint) /\ t.active \in BOOLEAN
    BY TrackerAssumption DEF TrackState
<1> QED
    BY <1>1, <1>2, <1>3

\* A frame keeps the points in order, and the count of the misses.
LEMMA PointsStep ==
    ASSUME LoopInv, NEW detections \in Scenes, Analyse(detections)
    PROVE  PointsTimed' /\ MissesCounted'
<1> DEFINE l == Len(observations)
           now == Time(l)
<1>1. /\ detections \in Seq(Detection)
      /\ l \in Nat
      /\ DOMAIN observations = 1..l
      /\ now \in Int
      /\ DOMAIN observations' = 1..(l + 1)
      /\ \A n \in DOMAIN observations :
                /\ observations'[n] = observations[n]
                /\ observations[n].time \in Int
                /\ observations[n].time < now
      /\ observations'[l + 1] = [time |-> now, found |-> detections]
      /\ Now \in Int /\ Now' = now
      /\ Now' = Now + FrameTime
      /\ ~finalized /\ ~finalized'
    BY FrameFacts DEF LoopInv
<1>2. Update(detections, now)
    BY DEF Analyse
<1> HIDE DEF l, now
<1>3. \A i \in DOMAIN tracks' :
                \/ \E k \in DOMAIN detections : \/ Starts(i, detections[k], now)
                                                \/ Continues(i, detections[k], now)
                \/ Misses(i)
                \/ Stays(i)
    BY <1>1, <1>2, TrackChanges DEF LoopInv
<1>4. TracksKept'
    BY <1>1, <1>2, TracksStep DEF LoopInv
<1>5. l + 1 \in DOMAIN observations' /\ observations'[l + 1].time = now
    BY <1>1
<1>6. ASSUME NEW i \in DOMAIN tracks
      PROVE  /\ tracks[i] \in TrackState
             /\ tracks[i].missed \in Int
             /\ tracks[i].points \in Seq(TrackPoint) /\ tracks[i].points # <<>>
             /\ tracks[i].active => tracks[i].missed <= MaxMissed
             /\ tracks[i].active \in BOOLEAN
    BY TrackTypes DEF LoopInv
<1>7. MaxMissed \in Nat /\ FrameTime \in Nat \ {0}
    BY TrackerAssumption, TimeGrows
<1> DEFINE InTime(i) ==
        /\ \A p \in DOMAIN tracks'[i].points :
                \E n \in DOMAIN observations' :
                    tracks'[i].points[p].time = observations'[n].time
        /\ \A p, q \in DOMAIN tracks'[i].points :
                p < q => tracks'[i].points[p].time < tracks'[i].points[q].time
           Counted(i) ==
            IF tracks'[i].active
            THEN Now' - Latest(tracks'[i]).time = tracks'[i].missed * FrameTime
            ELSE Now' - Latest(tracks'[i]).time > MaxMissed * FrameTime
<1>8. ASSUME NEW i \in DOMAIN tracks', NEW d, Starts(i, d, now)
      PROVE  InTime(i) /\ Counted(i)
    <2>1. PICK w : w = tracks'[i]
        OBVIOUS
    <2>2. w.points = <<Point(now, d.at)>> /\ w.active = TRUE /\ w.missed = 0
        BY <1>8, <2>1 DEF Starts
    <2>3. DOMAIN w.points = {1} /\ w.points[1] = Point(now, d.at) /\ Len(w.points) = 1
        BY <2>2
    <2>4. Point(now, d.at).time = now
        BY DEF Point
    <2>5. \A p \in DOMAIN w.points : w.points[p].time = now
        BY <2>3, <2>4
    <2>6. \A p, q \in DOMAIN w.points : ~(p < q)
        BY <2>3
    <2>7. InTime(i)
        BY <2>1, <2>5, <2>6, <1>5
    <2>8. Latest(w).time = now
        BY <2>3, <2>4 DEF Latest
    <2>9. Now' - Latest(w).time = w.missed * FrameTime
        BY <2>2, <2>8, <1>1, <1>7
    <2> QED
        BY <2>1, <2>2, <2>7, <2>9
<1>9. ASSUME NEW i \in DOMAIN tracks', NEW d, Continues(i, d, now)
      PROVE  InTime(i) /\ Counted(i)
    <2>1. PICK w : w = tracks'[i]
        OBVIOUS
    <2>2. PICK s : s = tracks[i].points
        OBVIOUS
    <2>3. PICK z : z = Point(now, d.at)
        OBVIOUS
    <2>4. z.time = now
        BY <2>3 DEF Point
    <2>5. /\ i \in DOMAIN tracks /\ w.active = TRUE /\ w.missed = 0
          /\ w.points = Append(s, z)
        BY <1>9, <2>1, <2>2, <2>3 DEF Continues
    <2>6. s \in Seq(TrackPoint) /\ Len(s) \in Nat
        BY <1>6, <2>2, <2>5
    <2>7. /\ DOMAIN w.points = 1..(Len(s) + 1)
          /\ Len(w.points) = Len(s) + 1
          /\ \A p \in 1..Len(s) : w.points[p] = s[p]
          /\ w.points[Len(s) + 1] = z
        BY <2>5, <2>6
    <2>8. ASSUME NEW p \in 1..Len(s)
          PROVE  \E n \in DOMAIN observations :
                    /\ s[p].time = observations[n].time
                    /\ s[p].time \in Int /\ s[p].time < now
        <3>1. p \in DOMAIN s
            BY <2>6
        <3>2. PICK n \in DOMAIN observations : s[p].time = observations[n].time
            BY <3>1, <2>2, <2>5 DEF LoopInv, PointsTimed
        <3> QED
            BY <3>2, <1>1
    <2>9. ASSUME NEW p \in DOMAIN w.points
          PROVE  \E n \in DOMAIN observations' :
                    w.points[p].time = observations'[n].time
        <3>1. CASE p = Len(s) + 1
            BY <3>1, <2>4, <2>7, <1>5
        <3>2. CASE p \in 1..Len(s)
            <4>1. PICK n \in DOMAIN observations : s[p].time = observations[n].time
                BY <3>2, <2>8
            <4>2. n \in DOMAIN observations'
                BY <1>1
            <4> QED
                BY <3>2, <4>1, <4>2, <2>7, <1>1
        <3> QED
            BY <3>1, <3>2, <2>6, <2>7
    <2>10. ASSUME NEW p \in DOMAIN w.points, NEW q \in DOMAIN w.points, p < q
           PROVE  w.points[p].time < w.points[q].time
        <3>1. p \in 1..Len(s)
            BY <2>6, <2>7, <2>10
        <3>2. CASE q = Len(s) + 1
            BY <3>1, <3>2, <2>4, <2>7, <2>8
        <3>3. CASE q \in 1..Len(s)
            <4>1. p \in DOMAIN s /\ q \in DOMAIN s
                BY <3>1, <3>3, <2>6
            <4>2. s[p].time < s[q].time
                BY <4>1, <2>2, <2>5, <2>10 DEF LoopInv, PointsTimed
            <4> QED
                BY <3>1, <3>3, <4>2, <2>7
        <3> QED
            BY <3>2, <3>3, <2>6, <2>7
    <2>11. InTime(i)
        BY <2>1, <2>9, <2>10
    <2>12. Latest(w).time = now
        BY <2>4, <2>7 DEF Latest
    <2>13. Now' - Latest(w).time = w.missed * FrameTime
        BY <2>5, <2>12, <1>1, <1>7
    <2> QED
        BY <2>1, <2>5, <2>11, <2>13
<1>10. ASSUME NEW i \in DOMAIN tracks, tracks'[i].points = tracks[i].points
       PROVE  /\ InTime(i)
              /\ Latest(tracks'[i]) = Latest(tracks[i])
              /\ Latest(tracks[i]).time \in Int
    <2>1. PICK s : s = tracks[i].points
        OBVIOUS
    <2>2. s \in Seq(TrackPoint) /\ s # <<>>
        BY <1>6, <2>1
    <2>3. Len(s) \in DOMAIN s /\ s[Len(s)] \in TrackPoint
        BY <2>2
    <2>4. s[Len(s)].time \in Int
        BY <2>3 DEF TrackPoint
    <2>5. \A p \in DOMAIN s :
                \E n \in DOMAIN observations' : s[p].time = observations'[n].time
        <3>1. SUFFICES ASSUME NEW p \in DOMAIN s
                       PROVE  \E n \in DOMAIN observations' :
                                    s[p].time = observations'[n].time
            OBVIOUS
        <3>2. PICK n \in DOMAIN observations : s[p].time = observations[n].time
            BY <2>1 DEF LoopInv, PointsTimed
        <3>3. n \in DOMAIN observations'
            BY <1>1
        <3> QED
            BY <3>2, <3>3, <1>1
    <2>6. \A p, q \in DOMAIN s : p < q => s[p].time < s[q].time
        BY <2>1 DEF LoopInv, PointsTimed
    <2>7. tracks'[i].points = s
        BY <1>10, <2>1
    <2>8. InTime(i)
        BY <2>5, <2>6, <2>7
    <2> QED
        BY <2>1, <2>4, <2>7, <2>8 DEF Latest
<1>11. ASSUME NEW i \in DOMAIN tracks', Misses(i)
       PROVE  InTime(i) /\ Counted(i)
    <2>1. /\ i \in DOMAIN tracks /\ tracks[i].active
          /\ tracks'[i].points = tracks[i].points
          /\ tracks'[i].missed = tracks[i].missed + 1
          /\ tracks'[i].active = (tracks[i].missed + 1 <= MaxMissed)
        BY <1>11 DEF Misses
    <2>2. PICK m \in Int : m = tracks[i].missed
        BY <1>6, <2>1
    <2>3. PICK t \in Int : t = Latest(tracks[i]).time
        BY <1>10, <2>1
    <2>4. Now - t = m * FrameTime /\ m <= MaxMissed
        BY <1>1, <1>6, <2>1, <2>2, <2>3 DEF LoopInv, MissesCounted
    <2>5. Now' - t = (m + 1) * FrameTime
        BY <2>4, <1>1, <1>7
    <2>6. m + 1 > MaxMissed => Now' - t > MaxMissed * FrameTime
        <3>1. m + 1 > MaxMissed => m + 1 = MaxMissed + 1
            BY <2>4, <1>7
        <3>2. (MaxMissed + 1) * FrameTime > MaxMissed * FrameTime
            BY <1>7
        <3> QED
            BY <2>5, <3>1, <3>2
    <2>7. /\ Latest(tracks'[i]).time = t /\ tracks'[i].missed = m + 1
          /\ tracks'[i].active = (m + 1 <= MaxMissed) /\ InTime(i)
        BY <1>10, <2>1, <2>2, <2>3
    <2>8. CASE m + 1 <= MaxMissed
        BY <2>5, <2>7, <2>8
    <2>9. CASE ~(m + 1 <= MaxMissed)
        <3>1. m + 1 > MaxMissed
            BY <2>9, <1>7
        <3> QED
            BY <2>6, <2>7, <2>9, <3>1
    <2> QED
        BY <2>8, <2>9
<1>12. ASSUME NEW i \in DOMAIN tracks', Stays(i)
       PROVE  InTime(i) /\ Counted(i)
    <2>1. i \in DOMAIN tracks /\ ~tracks[i].active /\ tracks'[i] = tracks[i]
        BY <1>12 DEF Stays
    <2>2. PICK t \in Int : t = Latest(tracks[i]).time
        BY <1>10, <2>1
    <2>3. Now - t > MaxMissed * FrameTime
        BY <1>1, <2>1, <2>2 DEF LoopInv, MissesCounted
    <2>4. MaxMissed * FrameTime \in Int
        BY <1>7
    <2>5. Now' - t > MaxMissed * FrameTime
        BY <2>3, <2>4, <1>1, <1>7
    <2> QED
        BY <2>1, <2>2, <2>5, <1>10
<1>13. ASSUME NEW i \in DOMAIN tracks'
       PROVE  InTime(i) /\ Counted(i)
    BY <1>3, <1>8, <1>9, <1>11, <1>12
<1> QED
    BY <1>13 DEF PointsTimed, MissesCounted

\* The end of the video ends the tracks and leaves their points alone.
LEMMA EndOfTracks ==
    ASSUME TracksKept, EndOfVideo
    PROVE  /\ DOMAIN tracks' = DOMAIN tracks
           /\ \A i \in DOMAIN tracks :
                /\ tracks'[i] \in TrackState
                /\ tracks'[i].points = tracks[i].points
                /\ tracks'[i].class = tracks[i].class
                /\ tracks'[i].active = FALSE
           /\ tracks' \in Seq(TrackState)
<1>1. tracks' = [i \in DOMAIN tracks |-> [tracks[i] EXCEPT !.active = FALSE]]
    BY DEF EndOfVideo, Finalize
<1>2. ASSUME NEW i \in DOMAIN tracks
      PROVE  /\ tracks'[i] \in TrackState
             /\ tracks'[i].points = tracks[i].points
             /\ tracks'[i].class = tracks[i].class
             /\ tracks'[i].active = FALSE
    <2>1. PICK t \in TrackState : t = tracks[i]
        BY TrackTypes
    <2>2. PICK u : u = [t EXCEPT !.active = FALSE]
        OBVIOUS
    <2>3. u = [class |-> t.class, points |-> t.points, missed |-> t.missed,
               active |-> FALSE]
        BY <2>2 DEF TrackState
    <2>4. u \in TrackState
        BY <2>3 DEF TrackState
    <2>5. tracks'[i] = u
        BY Zenon, <1>1, <2>1, <2>2
    <2> QED
        BY <2>1, <2>3, <2>4, <2>5
<1>3. PICK n \in Nat : DOMAIN tracks = 1..n
    BY DEF TracksKept
<1>4. DOMAIN tracks' = 1..n
    BY <1>1, <1>3
<1>5. tracks' = [i \in 1..n |-> tracks'[i]]
    BY <1>1, <1>3
<1>6. tracks' \in [1..n -> TrackState]
    BY <1>2, <1>3, <1>5
<1>7. tracks' \in Seq(TrackState)
    BY <1>6
<1> QED
    BY <1>2, <1>3, <1>4, <1>7

\* The last frame is the latest one.
LEMMA FrameOrder ==
    ASSUME FramesTimed
    PROVE  /\ Len(observations) \in Nat
           /\ DOMAIN observations = 1..Len(observations)
           /\ Now \in Int
           /\ \A n \in DOMAIN observations :
                observations[n].time \in Int /\ observations[n].time <= Now
           /\ \A m, n \in DOMAIN observations :
                m < n => observations[m].time < observations[n].time
           /\ Len(observations) # 0 => observations[Len(observations)].time = Now
<1>1. Len(observations) \in Nat /\ DOMAIN observations = 1..Len(observations)
    BY DEF FramesTimed
<1>2. PICK l \in Nat : l = Len(observations)
    BY <1>1
<1>3. Now = Time(l - 1) /\ Now \in Int
    BY <1>2, TimeGrows DEF Now
<1>4. ASSUME NEW n \in 1..l
      PROVE  observations[n].time \in Int /\ observations[n].time <= Now
    <2>1. observations[n].time = Time(n - 1) /\ n - 1 \in Int
        BY <1>1, <1>2 DEF FramesTimed
    <2>2. PICK t \in Int : t = Time(n - 1)
        BY <2>1, TimeGrows
    <2>3. CASE n = l
        BY <2>1, <2>2, <2>3, <1>3
    <2>4. CASE n # l
        <3>1. n - 1 < l - 1 /\ l - 1 \in Int
            BY <2>4
        <3>2. Time(n - 1) < Time(l - 1)
            BY <2>1, <3>1, TimeGrows
        <3> QED
            BY <2>1, <2>2, <3>2, <1>3
    <2> QED
        BY <2>3, <2>4
<1>5. ASSUME NEW m \in 1..l, NEW n \in 1..l, m < n
      PROVE  observations[m].time < observations[n].time
    <2>1. observations[m].time = Time(m - 1) /\ observations[n].time = Time(n - 1)
        BY <1>1, <1>2 DEF FramesTimed
    <2>2. m - 1 \in Int /\ n - 1 \in Int /\ m - 1 < n - 1
        BY <1>5
    <2> QED
        BY <2>1, <2>2, TimeGrows
<1>6. l # 0 => observations[l].time = Now
    BY <1>1, <1>2, <1>3 DEF FramesTimed
<1> QED
    BY <1>1, <1>2, <1>3, <1>4, <1>5, <1>6

\* The invariant of the loop holds in every state.
LEMMA LoopInductive == Spec => []LoopInv
<1>1. Init => LoopInv
    <2> SUFFICES ASSUME Init
                 PROVE  LoopInv
        OBVIOUS
    <2>1. tracks = <<>> /\ observations = <<>> /\ finalized = FALSE
        BY DEF Init, TrackerInit
    <2>2. DOMAIN tracks = {} /\ DOMAIN observations = {}
        BY <2>1
    <2>3. TracksKept
        BY <2>1, <2>2 DEF TracksKept
    <2>4. FramesTimed
        BY <2>1, <2>2 DEF FramesTimed
    <2> QED
        BY <2>2, <2>3, <2>4 DEF LoopInv, PointsTimed, MissesCounted
<1>2. LoopInv /\ [Next]_vars => LoopInv'
    <2> SUFFICES ASSUME LoopInv, [Next]_vars
                 PROVE  LoopInv'
        OBVIOUS
    <2>1. ASSUME NEW detections \in Scenes, Analyse(detections)
          PROVE  LoopInv'
        <3>1. /\ detections \in Seq(Detection) /\ Time(Len(observations)) \in Int
              /\ FramesTimed'
            BY <2>1, FrameFacts DEF LoopInv
        <3>2. Update(detections, Time(Len(observations)))
            BY <2>1 DEF Analyse
        <3>3. TracksKept'
            BY <3>1, <3>2, TracksStep DEF LoopInv
        <3>4. PointsTimed' /\ MissesCounted'
            BY <2>1, PointsStep
        <3> QED
            BY <3>1, <3>3, <3>4 DEF LoopInv
    <2>2. CASE EndOfVideo
        <3>1. TracksKept
            BY DEF LoopInv
        <3>2. /\ DOMAIN tracks' = DOMAIN tracks
              /\ \A i \in DOMAIN tracks :
                    /\ tracks'[i].points = tracks[i].points
                    /\ tracks'[i].active = FALSE
              /\ tracks' \in Seq(TrackState)
            BY <2>2, <3>1, EndOfTracks
        <3>3. observations' = observations /\ finalized' = TRUE
            BY <2>2 DEF EndOfVideo
        <3>4. TracksKept'
            BY <3>1, <3>2 DEF TracksKept
        <3>5. FramesTimed'
            BY <3>3 DEF LoopInv, FramesTimed, Time
        <3>6. PointsTimed'
            BY <3>2, <3>3 DEF LoopInv, PointsTimed
        <3>7. MissesCounted'
            BY <3>3 DEF MissesCounted
        <3> QED
            BY <3>4, <3>5, <3>6, <3>7 DEF LoopInv
    <2>3. CASE UNCHANGED vars
        BY <2>3 DEF vars, tracker, LoopInv, TracksKept, FramesTimed, PointsTimed,
                    MissesCounted, Time, Now, Latest
    <2> QED
        BY <2>1, <2>2, <2>3 DEF Next
<1> QED
    BY <1>1, <1>2, PTL DEF Spec

\* A track survives an occlusion of up to max_missed frames and ends after a
\* longer one (update of vision/tracker.py).
THEOREM OcclusionTheorem == Spec => []TracksSurviveOcclusion
<1>1. LoopInv => TracksSurviveOcclusion
    <2> SUFFICES ASSUME LoopInv, ~finalized, NEW i \in DOMAIN tracks
                 PROVE  tracks[i].active
                            <=> Now - Latest(tracks[i]).time <= MaxMissed * FrameTime
        BY DEF TracksSurviveOcclusion
    <2>1. /\ tracks[i].points \in Seq(TrackPoint) /\ tracks[i].points # <<>>
          /\ tracks[i].active => tracks[i].missed <= MaxMissed
          /\ tracks[i].missed \in Int
        BY TrackTypes DEF LoopInv
    <2>2. MaxMissed \in Nat /\ FrameTime \in Nat \ {0}
        BY TrackerAssumption, TimeGrows
    <2>3. IF tracks[i].active
          THEN Now - Latest(tracks[i]).time = tracks[i].missed * FrameTime
          ELSE Now - Latest(tracks[i]).time > MaxMissed * FrameTime
        BY DEF LoopInv, MissesCounted
    <2>4. CASE tracks[i].active
        <3>1. tracks[i].missed * FrameTime <= MaxMissed * FrameTime
            BY <2>1, <2>2, <2>4
        <3> QED
            BY <2>3, <2>4, <3>1
    <2>5. CASE ~tracks[i].active
        <3>1. Now - Latest(tracks[i]).time \in Int
            <4>1. Len(tracks[i].points) \in DOMAIN tracks[i].points
                BY <2>1
            <4>2. Latest(tracks[i]) \in TrackPoint
                BY <2>1, <4>1 DEF Latest
            <4>3. Latest(tracks[i]).time \in Int
                BY <4>2 DEF TrackPoint
            <4>4. Now \in Int
                BY FrameOrder DEF LoopInv
            <4> QED
                BY <4>3, <4>4
        <3> QED
            BY <2>2, <2>3, <2>5, <3>1
    <2> QED
        BY <2>4, <2>5
<1> QED
    BY <1>1, LoopInductive, PTL

-----------------------------------------------------------------------------
(* Tracks are a partition of the detections. *)

\* The detections of a kind in a frame, and the tracks with such a point in it.
Kind(found, x) == {k \in DOMAIN found : <<found[k].class, found[k].at>> = x}

PointsOf(s) == {s[p] : p \in DOMAIN s}

HasPoint(track, t, x) == track.class = x[1] /\ Point(t, x[2]) \in PointsOf(track.points)

PartitionInv == LoopInv /\ TracksPartitionDetections

\* A point that is appended at the time of the frame is the only one of that time.
LEMMA PointsAtNow ==
    ASSUME LoopInv, NEW i \in DOMAIN tracks, NEW t \in Int, NEW y,
           \A n \in DOMAIN observations : observations[n].time < t,
           NEW u \in Int
    PROVE  /\ \A z : Point(t, z) \notin PointsOf(tracks[i].points)
           /\ \A z : Point(u, z) \in PointsOf(Append(tracks[i].points, Point(t, y)))
                        <=> \/ Point(u, z) \in PointsOf(tracks[i].points)
                            \/ u = t /\ z = y
<1>1. PICK s : s = tracks[i].points
    OBVIOUS
<1>2. s \in Seq(TrackPoint) /\ Len(s) \in Nat
    BY <1>1, TrackTypes DEF LoopInv
<1>3. \A p \in DOMAIN s : s[p].time # t
    <2> SUFFICES ASSUME NEW p \in DOMAIN s
                 PROVE  s[p].time # t
        OBVIOUS
    <2>1. PICK n \in DOMAIN observations : s[p].time = observations[n].time
        BY <1>1 DEF LoopInv, PointsTimed
    <2>2. s[p].time < t /\ s[p].time \in Int
        BY <2>1, FrameOrder DEF LoopInv
    <2> QED
        BY <2>2
<1>4. \A v, z : Point(v, z).time = v /\ Point(v, z).at = z
    BY DEF Point
<1>5. PICK w : w = Append(s, Point(t, y))
    OBVIOUS
<1>6. /\ DOMAIN w = 1..(Len(s) + 1) /\ w[Len(s) + 1] = Point(t, y)
      /\ \A p \in 1..Len(s) : w[p] = s[p]
      /\ DOMAIN s = 1..Len(s)
    BY <1>2, <1>5
<1>7. ASSUME NEW z
      PROVE  Point(t, z) \notin PointsOf(s)
    BY <1>3, <1>4 DEF PointsOf
<1>8. ASSUME NEW z
      PROVE  Point(u, z) \in PointsOf(w)
                <=> \/ Point(u, z) \in PointsOf(s)
                    \/ u = t /\ z = y
    <2>1. ASSUME NEW p \in DOMAIN w, Point(u, z) = w[p]
          PROVE  \/ Point(u, z) \in PointsOf(s)
                 \/ u = t /\ z = y
        <3>1. CASE p = Len(s) + 1
            BY <3>1, <2>1, <1>4, <1>6
        <3>2. CASE p \in 1..Len(s)
            BY <3>2, <2>1, <1>6 DEF PointsOf
        <3> QED
            BY <3>1, <3>2, <1>2, <1>6
    <2>2. ASSUME NEW p \in DOMAIN s, Point(u, z) = s[p]
          PROVE  Point(u, z) \in PointsOf(w)
        <3>1. p \in DOMAIN w /\ w[p] = s[p]
            BY <1>2, <1>6
        <3> QED
            BY <3>1, <2>2 DEF PointsOf
    <2>3. ASSUME u = t, z = y
          PROVE  Point(u, z) \in PointsOf(w)
        <3>1. Len(s) + 1 \in DOMAIN w
            BY <1>2, <1>6
        <3> QED
            BY <3>1, <2>3, <1>6 DEF PointsOf
    <2> QED
        BY <2>1, <2>2, <2>3 DEF PointsOf
<1> QED
    BY <1>1, <1>5, <1>7, <1>8

\* The new points of a frame are its detections, one for one.
LEMMA PartitionStep ==
    ASSUME PartitionInv, NEW detections \in Scenes, Analyse(detections)
    PROVE  TracksPartitionDetections'
<1> DEFINE l == Len(observations)
           now == Time(l)
<1>1. /\ detections \in Seq(Detection)
      /\ l \in Nat
      /\ DOMAIN observations = 1..l
      /\ now \in Int
      /\ DOMAIN observations' = 1..(l + 1)
      /\ \A n \in DOMAIN observations :
                /\ observations'[n] = observations[n]
                /\ observations[n].time \in Int
                /\ observations[n].time < now
      /\ observations'[l + 1] = [time |-> now, found |-> detections]
    BY FrameFacts DEF PartitionInv, LoopInv
<1>2. Update(detections, now)
    BY DEF Analyse
<1> HIDE DEF l, now
<1>3. /\ DOMAIN tracks \subseteq DOMAIN tracks'
      /\ \E home \in [DOMAIN detections -> DOMAIN tracks'] :
            /\ \A k, m \in DOMAIN detections : home[k] = home[m] => k = m
            /\ \A k \in DOMAIN detections :
                    \/ Starts(home[k], detections[k], now)
                    \/ Continues(home[k], detections[k], now)
            /\ \A i \in DOMAIN tracks' :
                    \/ \E k \in DOMAIN detections : home[k] = i
                    \/ Misses(i)
                    \/ Stays(i)
    BY <1>1, <1>2, TrackHomes DEF PartitionInv, LoopInv
<1>4. PICK home \in [DOMAIN detections -> DOMAIN tracks'] :
            /\ \A k, m \in DOMAIN detections : home[k] = home[m] => k = m
            /\ \A k \in DOMAIN detections :
                    \/ Starts(home[k], detections[k], now)
                    \/ Continues(home[k], detections[k], now)
            /\ \A i \in DOMAIN tracks' :
                    \/ \E k \in DOMAIN detections : home[k] = i
                    \/ Misses(i)
                    \/ Stays(i)
    BY <1>3
<1>5. ASSUME NEW i \in DOMAIN tracks, NEW y, NEW u \in Int
      PROVE  /\ \A z : Point(now, z) \notin PointsOf(tracks[i].points)
             /\ \A z : Point(u, z) \in PointsOf(Append(tracks[i].points, Point(now, y)))
                            <=> \/ Point(u, z) \in PointsOf(tracks[i].points)
                                \/ u = now /\ z = y
    BY <1>1, PointsAtNow DEF PartitionInv
\* A point of an earlier frame is one of the same tracks as before.
<1>6. ASSUME NEW u \in Int, u < now, NEW x, NEW i \in DOMAIN tracks'
      PROVE  HasPoint(tracks'[i], u, x)
                <=> i \in DOMAIN tracks /\ HasPoint(tracks[i], u, x)
    <2>1. \A w : HasPoint(w, u, x)
                    <=> w.class = x[1] /\ Point(u, x[2]) \in PointsOf(w.points)
        BY DEF HasPoint
    <2>2. ASSUME NEW k \in DOMAIN detections, home[k] = i, Starts(i, detections[k], now)
          PROVE  ~HasPoint(tracks'[i], u, x) /\ i \notin DOMAIN tracks
        <3>1. /\ tracks'[i].points = <<Point(now, detections[k].at)>>
              /\ i \notin DOMAIN tracks
            BY <2>2 DEF Starts
        <3>2. PointsOf(tracks'[i].points) = {Point(now, detections[k].at)}
            <4>1. PICK z : z = Point(now, detections[k].at)
                OBVIOUS
            <4>2. PICK s : s = <<z>>
                OBVIOUS
            <4>3. DOMAIN s = {1} /\ s[1] = z
                BY <4>2
            <4>4. PointsOf(s) = {z}
                BY <4>3 DEF PointsOf
            <4> QED
                BY <4>1, <4>2, <4>4, <3>1
        <3>3. Point(u, x[2]).time = u /\ Point(now, detections[k].at).time = now
            BY DEF Point
        <3>4. u # now
            BY <1>1, <1>6
        <3>5. Point(u, x[2]) # Point(now, detections[k].at)
            BY <3>3, <3>4
        <3> QED
            BY <3>1, <3>2, <3>5, <2>1
    <2>3. ASSUME NEW k \in DOMAIN detections, Continues(i, detections[k], now)
          PROVE  HasPoint(tracks'[i], u, x)
                    <=> i \in DOMAIN tracks /\ HasPoint(tracks[i], u, x)
        <3>1. /\ i \in DOMAIN tracks
              /\ tracks'[i].class = tracks[i].class
              /\ tracks'[i].points = Append(tracks[i].points, Point(now, detections[k].at))
            BY <2>3 DEF Continues
        <3>2. u # now
            BY <1>1, <1>6
        <3>3. PICK y : y = detections[k].at
            OBVIOUS
        <3>4. PICK z : z = x[2]
            OBVIOUS
        <3>5. Point(u, z) \in PointsOf(Append(tracks[i].points, Point(now, y)))
                <=> Point(u, z) \in PointsOf(tracks[i].points)
            BY <3>1, <3>2, <1>5
        <3>6. Point(u, z) \in PointsOf(tracks'[i].points)
                <=> Point(u, z) \in PointsOf(tracks[i].points)
            BY Zenon, <3>1, <3>3, <3>5
        <3> QED
            BY Zenon, <3>1, <3>4, <3>6, <2>1
    <2>4. ASSUME Misses(i) \/ Stays(i)
          PROVE  HasPoint(tracks'[i], u, x)
                    <=> i \in DOMAIN tracks /\ HasPoint(tracks[i], u, x)
        <3>1. /\ i \in DOMAIN tracks /\ tracks'[i].class = tracks[i].class
              /\ tracks'[i].points = tracks[i].points
            BY <2>4 DEF Misses, Stays
        <3> QED
            BY Zenon, <3>1 DEF HasPoint
    <2> QED
        BY <1>4, <2>2, <2>3, <2>4
\* A point of the frame is the one of a detection.
<1>7. ASSUME NEW x \in Classes \X Places, NEW i \in DOMAIN tracks'
      PROVE  HasPoint(tracks'[i], now, x)
                <=> \E k \in Kind(detections, x) : home[k] = i
    <2>1. \A w : HasPoint(w, now, x)
                    <=> w.class = x[1] /\ Point(now, x[2]) \in PointsOf(w.points)
        BY DEF HasPoint
    <2>2. ASSUME NEW k \in DOMAIN detections, home[k] = i
          PROVE  HasPoint(tracks'[i], now, x) <=> k \in Kind(detections, x)
        <3>1. PICK y : y = detections[k].at
            OBVIOUS
        <3>2. PICK c : c = detections[k].class
            OBVIOUS
        <3>3. k \in Kind(detections, x) <=> <<c, y>> = x
            BY <3>1, <3>2 DEF Kind
        <3>4. CASE Starts(i, detections[k], now)
            <4>1. /\ tracks'[i].points = <<Point(now, y)>> /\ tracks'[i].class = c
                BY <3>1, <3>2, <3>4 DEF Starts
            <4>2. PICK s : s = <<Point(now, y)>>
                OBVIOUS
            <4>3. DOMAIN s = {1} /\ s[1] = Point(now, y)
                BY <4>2
            <4>4. PointsOf(s) = {Point(now, y)}
                BY <4>3 DEF PointsOf
            <4>5. Point(now, x[2]) = Point(now, y) <=> x[2] = y
                BY DEF Point
            <4>6. HasPoint(tracks'[i], now, x) <=> c = x[1] /\ x[2] = y
                BY Zenon, <4>1, <4>2, <4>4, <4>5, <2>1
            <4> QED
                BY <4>6, <3>3
        <3>5. CASE Continues(i, detections[k], now)
            <4>1. /\ i \in DOMAIN tracks /\ tracks'[i].class = c
                  /\ tracks'[i].points = Append(tracks[i].points, Point(now, y))
                BY <3>1, <3>2, <3>5 DEF Continues
            <4>2. PICK z : z = x[2]
                OBVIOUS
            <4>3. Point(now, z) \in PointsOf(Append(tracks[i].points, Point(now, y)))
                    <=> z = y
                BY <4>1, <1>1, <1>5
            <4>4. HasPoint(tracks'[i], now, x) <=> c = x[1] /\ x[2] = y
                BY Zenon, <4>1, <4>2, <4>3, <2>1
            <4> QED
                BY <4>4, <3>3
        <3> QED
            BY <3>4, <3>5, <2>2, <1>4
    <2>3. ASSUME Misses(i) \/ Stays(i)
          PROVE  ~HasPoint(tracks'[i], now, x)
        <3>1. i \in DOMAIN tracks /\ tracks'[i].points = tracks[i].points
            BY <2>3 DEF Misses, Stays
        <3>2. Point(now, x[2]) \notin PointsOf(tracks[i].points)
            BY <3>1, <1>1, <1>5
        <3> QED
            BY Zenon, <3>1, <3>2, <2>1
    <2>4. ASSUME NEW k \in Kind(detections, x)
          PROVE  k \in DOMAIN detections
        BY DEF Kind
    <2> QED
        BY <2>2, <2>3, <2>4, <1>4
<1>8. ASSUME NEW n \in DOMAIN observations', NEW x \in Classes \X Places
      PROVE  Cardinality(Kind(observations'[n].found, x))
             = Cardinality({i \in DOMAIN tracks' :
                                HasPoint(tracks'[i], observations'[n].time, x)})
    <2>1. CASE n \in DOMAIN observations
        <3>1. PICK u \in Int : u = observations[n].time /\ u < now
            BY <2>1, <1>1
        <3>2. {i \in DOMAIN tracks' : HasPoint(tracks'[i], u, x)}
                = {i \in DOMAIN tracks : HasPoint(tracks[i], u, x)}
            BY <3>1, <1>3, <1>6
        <3>3. Cardinality(Kind(observations[n].found, x))
                = Cardinality({i \in DOMAIN tracks : HasPoint(tracks[i], u, x)})
            BY <2>1, <3>1
            DEF PartitionInv, TracksPartitionDetections, Kind, HasPoint, PointsOf, Point
        <3>4. observations'[n] = observations[n]
            BY <2>1, <1>1
        <3> QED
            BY <3>1, <3>2, <3>3, <3>4
    <2>2. CASE n = l + 1
        <3> DEFINE K == Kind(detections, x)
                   I == {i \in DOMAIN tracks' : HasPoint(tracks'[i], now, x)}
                   f == [k \in K |-> home[k]]
        <3>1. K \subseteq DOMAIN detections
            BY DEF Kind
        <3>2. ASSUME NEW i \in DOMAIN tracks'
              PROVE  i \in I <=> \E k \in K : home[k] = i
            BY <1>7
        <3> HIDE DEF K, I
        <3>3. I \subseteq DOMAIN tracks'
            BY DEF I
        <3>4. f \in [K -> I] /\ \A k \in K : f[k] = home[k]
            BY <3>1, <3>2
        <3>5. f \in Injection(K, I)
            BY <3>1, <3>4, <1>4 DEF Injection, IsInjective
        <3>6. f \in Surjection(K, I)
            BY <3>2, <3>3, <3>4 DEF Surjection
        <3>7. ExistsBijection(K, I)
            BY <3>5, <3>6 DEF ExistsBijection, Bijection
        <3>8. IsFiniteSet(K)
            <4>1. PICK m \in Nat : DOMAIN detections = 1..m
                BY <1>1
            <4>2. IsFiniteSet(1..m)
                BY FS_Interval
            <4>3. K \in SUBSET (1..m)
                BY <4>1, <3>1
            <4> QED
                BY <4>2, <4>3, FS_Subset
        <3>9. Cardinality(I) = Cardinality(K)
            BY <3>7, <3>8, FS_Bijection
        <3>10. observations'[n].found = detections /\ observations'[n].time = now
            BY <2>2, <1>1
        <3> QED
            BY <3>9, <3>10 DEF K, I
    <2> QED
        BY <2>1, <2>2, <1>1
<1> QED
    BY <1>8 DEF TracksPartitionDetections, Kind, HasPoint, PointsOf, Point

\* Every detection of every frame is a point of exactly one track of its class,
\* and tracks have no other points (update of vision/tracker.py).
THEOREM PartitionTheorem == Spec => []TracksPartitionDetections
<1>1. Init => TracksPartitionDetections
    <2> SUFFICES ASSUME Init
                 PROVE  TracksPartitionDetections
        OBVIOUS
    <2>1. DOMAIN observations = {}
        BY DEF Init
    <2> QED
        BY <2>1 DEF TracksPartitionDetections
<1>2. TracksPartitionDetections /\ LoopInv /\ [Next]_vars => TracksPartitionDetections'
    <2> SUFFICES ASSUME TracksPartitionDetections, LoopInv, [Next]_vars
                 PROVE  TracksPartitionDetections'
        OBVIOUS
    <2>1. CASE \E detections \in Scenes : Analyse(detections)
        BY <2>1, PartitionStep DEF PartitionInv
    <2>2. CASE EndOfVideo
        <3>1. /\ DOMAIN tracks' = DOMAIN tracks
              /\ \A i \in DOMAIN tracks :
                    /\ tracks'[i].points = tracks[i].points
                    /\ tracks'[i].class = tracks[i].class
            BY <2>2, EndOfTracks DEF LoopInv
        <3>2. observations' = observations
            BY <2>2 DEF EndOfVideo
        <3>3. ASSUME NEW n \in DOMAIN observations, NEW x \in Classes \X Places
              PROVE  Cardinality(Kind(observations[n].found, x))
                     = Cardinality({i \in DOMAIN tracks' :
                                        HasPoint(tracks'[i], observations[n].time, x)})
            <4>1. {i \in DOMAIN tracks' : HasPoint(tracks'[i], observations[n].time, x)}
                    = {i \in DOMAIN tracks : HasPoint(tracks[i], observations[n].time, x)}
                BY <3>1 DEF HasPoint
            <4> QED
                BY <4>1 DEF TracksPartitionDetections, Kind, HasPoint, PointsOf, Point
        <3> QED
            BY <3>2, <3>3 DEF TracksPartitionDetections, Kind, HasPoint, PointsOf, Point
    <2>3. CASE UNCHANGED vars
        BY <2>3 DEF vars, tracker, TracksPartitionDetections
    <2> QED
        BY <2>1, <2>2, <2>3 DEF Next
<1> QED
    BY <1>1, <1>2, LoopInductive, PTL DEF Spec

-----------------------------------------------------------------------------
(* Milestones. *)

KeyOf(m) == <<m.type, m.track>>

\* A milestone per pair in `emitted`, which has the pairs of the fulfilled rules.
MilestonesKept ==
    /\ emitted \subseteq Types \X DOMAIN tracks
    /\ \A m \in milestones : KeyOf(m) \in emitted
    /\ \A key \in emitted : \E m \in milestones : KeyOf(m) = key
    /\ \A m, n \in milestones : KeyOf(m) = KeyOf(n) => m = n
    /\ \A key \in Types \X DOMAIN tracks :
            key \in emitted <=> Fulfilled(tracks, key) # {}

\* Rules stay fulfilled while a track goes on, and a track that has no new point
\* fulfils the rules it has fulfilled before.
LEMMA FulfilledStays ==
    ASSUME LoopInv, NEW t, NEW i \in DOMAIN tracks,
           NEW ts, i \in DOMAIN ts,
           ts[i].class = tracks[i].class,
           NEW at,
           \/ ts[i].points = tracks[i].points
           \/ ts[i].points = Append(tracks[i].points, at)
    PROVE  /\ Fulfilled(tracks, <<t, i>>) \subseteq Fulfilled(ts, <<t, i>>)
           /\ ts[i].points = tracks[i].points
                => Fulfilled(ts, <<t, i>>) = Fulfilled(tracks, <<t, i>>)
<1>1. PICK old \in TrackState : old = tracks[i] /\ old.points \in Seq(TrackPoint)
    BY TrackTypes DEF LoopInv
<1>2. PICK new : new = ts[i]
    OBVIOUS
<1>3. \A p \in DOMAIN old.points : p \in DOMAIN new.points /\ new.points[p] = old.points[p]
    BY <1>1, <1>2
<1>4. new.class = old.class
    BY <1>1, <1>2
<1>5. ASSUME NEW rule, Visits(rule, old)
      PROVE  Visits(rule, new)
    BY <1>3, <1>4, <1>5 DEF Visits, PointsInside
<1>6. ASSUME NEW rule, new.points = old.points
      PROVE  Visits(rule, new) <=> Visits(rule, old)
    BY <1>4, <1>6 DEF Visits, PointsInside
<1>7. <<t, i>>[1] = t /\ <<t, i>>[2] = i
    OBVIOUS
<1>8. Fulfilled(tracks, <<t, i>>) =
        {n \in DOMAIN MilestoneRules :
            MilestoneRules[n].type = t /\ Visits(MilestoneRules[n], old)}
    BY <1>1 DEF Fulfilled
<1>9. Fulfilled(ts, <<t, i>>) =
        {n \in DOMAIN MilestoneRules :
            MilestoneRules[n].type = t /\ Visits(MilestoneRules[n], new)}
    BY <1>2 DEF Fulfilled
<1> QED
    BY <1>1, <1>2, <1>5, <1>6, <1>8, <1>9

\* A frame emits the milestones that its points newly fulfil, once.
LEMMA MilestonesStep ==
    ASSUME LoopInv, MilestonesKept, NEW detections \in Scenes, Analyse(detections)
    PROVE  MilestonesKept'
<1> DEFINE now == Time(Len(observations))
           due == Due(tracks')
<1>1. detections \in Seq(Detection) /\ now \in Int
    BY FrameFacts DEF LoopInv
<1>2. /\ Update(detections, now)
      /\ emitted' = emitted \cup due
      /\ milestones' = milestones \cup {MilestoneCandidate(tracks', key) : key \in due}
    BY DEF Analyse, EvaluateMilestones
<1> HIDE DEF now
<1>3. /\ DOMAIN tracks \subseteq DOMAIN tracks'
      /\ \A i \in DOMAIN tracks' :
            \/ \E k \in DOMAIN detections : \/ Starts(i, detections[k], now)
                                            \/ Continues(i, detections[k], now)
            \/ Misses(i)
            \/ Stays(i)
    BY <1>1, <1>2, TrackChanges DEF LoopInv
<1>4. due = {key \in Types \X Active(tracks') :
                key \notin emitted /\ Fulfilled(tracks', key) # {}}
    BY DEF Due
<1>5. Active(tracks') = {i \in DOMAIN tracks' : tracks'[i].active}
    BY DEF Active
<1> HIDE DEF due
<1>6. due \subseteq Types \X DOMAIN tracks' /\ \A key \in due : key \notin emitted
    BY <1>4, <1>5
<1>7. ASSUME NEW key
      PROVE  /\ MilestoneCandidate(tracks', key).type = key[1]
             /\ MilestoneCandidate(tracks', key).track = key[2]
    BY DEF MilestoneCandidate
<1>8. ASSUME NEW key \in due
      PROVE  KeyOf(MilestoneCandidate(tracks', key)) = key
    <2>1. PICK t \in Types, i \in DOMAIN tracks' : key = <<t, i>>
        BY <1>6
    <2> QED
        BY <2>1, <1>7 DEF KeyOf
<1>9. ASSUME NEW i \in DOMAIN tracks, NEW t
      PROVE  /\ i \in DOMAIN tracks'
             /\ Fulfilled(tracks, <<t, i>>) \subseteq Fulfilled(tracks', <<t, i>>)
             /\ ~tracks'[i].active
                    => Fulfilled(tracks', <<t, i>>) = Fulfilled(tracks, <<t, i>>)
    <2>1. i \in DOMAIN tracks'
        BY <1>3
    <2>2. ASSUME NEW k \in DOMAIN detections, Starts(i, detections[k], now)
          PROVE  FALSE
        BY <2>2 DEF Starts
    <2>3. ASSUME NEW k \in DOMAIN detections, Continues(i, detections[k], now)
          PROVE  /\ tracks'[i].class = tracks[i].class
                 /\ tracks'[i].points = Append(tracks[i].points,
                                               Point(now, detections[k].at))
                 /\ tracks'[i].active = TRUE
        BY <2>3 DEF Continues
    <2>4. ASSUME Misses(i) \/ Stays(i)
          PROVE  /\ tracks'[i].class = tracks[i].class
                 /\ tracks'[i].points = tracks[i].points
        BY <2>4 DEF Misses, Stays
    <2>5. PICK ts : ts = tracks'
        OBVIOUS
    <2>6. ASSUME NEW k \in DOMAIN detections, Continues(i, detections[k], now)
          PROVE  Fulfilled(tracks, <<t, i>>) \subseteq Fulfilled(ts, <<t, i>>)
        BY <2>1, <2>3, <2>5, <2>6, FulfilledStays
    <2>7. ASSUME Misses(i) \/ Stays(i)
          PROVE  Fulfilled(ts, <<t, i>>) = Fulfilled(tracks, <<t, i>>)
        BY <2>1, <2>4, <2>5, <2>7, FulfilledStays
    <2> QED
        BY <2>1, <2>2, <2>3, <2>5, <2>6, <2>7, <1>3
<1>10. ASSUME NEW i \in DOMAIN tracks', i \notin DOMAIN tracks
       PROVE  tracks'[i].active
    BY <1>3, <1>10 DEF Starts, Continues, Misses, Stays
<1>11. ASSUME NEW key \in Types \X DOMAIN tracks'
       PROVE  key \in emitted' <=> Fulfilled(tracks', key) # {}
    <2>1. PICK t \in Types, i \in DOMAIN tracks' : key = <<t, i>>
        OBVIOUS
    <2>2. CASE tracks'[i].active
        <3>1. key \in due <=> key \notin emitted /\ Fulfilled(tracks', key) # {}
            BY <2>1, <2>2, <1>4, <1>5
        <3>2. key \in emitted => Fulfilled(tracks', key) # {}
            <4> SUFFICES ASSUME key \in emitted
                         PROVE  Fulfilled(tracks', key) # {}
                OBVIOUS
            <4>1. i \in DOMAIN tracks /\ Fulfilled(tracks, key) # {}
                BY <2>1 DEF MilestonesKept
            <4> QED
                BY <2>1, <4>1, <1>9
        <3> QED
            BY <3>1, <3>2, <1>2
    <2>3. CASE ~tracks'[i].active
        <3>1. i \in DOMAIN tracks
            BY <2>3, <1>10
        <3>2. Fulfilled(tracks', key) = Fulfilled(tracks, key)
            BY <2>1, <2>3, <3>1, <1>9
        <3>3. key \in emitted <=> Fulfilled(tracks, key) # {}
            BY <2>1, <3>1 DEF MilestonesKept
        <3>4. key \notin due
            BY <2>1, <2>3, <1>4, <1>5
        <3> QED
            BY <3>2, <3>3, <3>4, <1>2
    <2> QED
        BY <2>2, <2>3
<1>12. emitted' \subseteq Types \X DOMAIN tracks'
    BY <1>2, <1>3, <1>6 DEF MilestonesKept
<1>13. \A m \in milestones' : KeyOf(m) \in emitted'
    BY <1>2, <1>8 DEF MilestonesKept
<1>14. \A key \in emitted' : \E m \in milestones' : KeyOf(m) = key
    BY <1>2, <1>8 DEF MilestonesKept
<1>15. ASSUME NEW m \in milestones', NEW n \in milestones', KeyOf(m) = KeyOf(n)
       PROVE  m = n
    <2>1. ASSUME NEW a \in milestones, NEW key \in due
          PROVE  KeyOf(a) # KeyOf(MilestoneCandidate(tracks', key))
        BY <1>6, <1>8 DEF MilestonesKept
    <2>2. ASSUME NEW key \in due, NEW other \in due,
                 KeyOf(MilestoneCandidate(tracks', key))
                    = KeyOf(MilestoneCandidate(tracks', other))
          PROVE  key = other
        BY <2>2, <1>8
    <2>3. CASE m \in milestones /\ n \in milestones
        BY <2>3, <1>15 DEF MilestonesKept
    <2> QED
        BY <2>1, <2>2, <2>3, <1>2, <1>15
<1> QED
    BY <1>11, <1>12, <1>13, <1>14, <1>15 DEF MilestonesKept, KeyOf

\* A track has one milestone of a type exactly if its points fulfil a rule of that
\* type (evaluate of vision/milestones.py).
THEOREM MilestonesTheorem == Spec => []MilestonesMatchTracks
<1>1. Init => MilestonesKept
    <2> SUFFICES ASSUME Init
                 PROVE  MilestonesKept
        OBVIOUS
    <2>1. DOMAIN tracks = {} /\ emitted = {} /\ milestones = {}
        BY DEF Init, TrackerInit, MilestonesInit
    <2> QED
        BY <2>1 DEF MilestonesKept
<1>2. LoopInv /\ MilestonesKept /\ [Next]_vars => MilestonesKept'
    <2> SUFFICES ASSUME LoopInv, MilestonesKept, [Next]_vars
                 PROVE  MilestonesKept'
        OBVIOUS
    <2>1. CASE \E detections \in Scenes : Analyse(detections)
        BY <2>1, MilestonesStep
    <2>2. CASE EndOfVideo
        <3>1. /\ DOMAIN tracks' = DOMAIN tracks
              /\ \A i \in DOMAIN tracks :
                    /\ tracks'[i].points = tracks[i].points
                    /\ tracks'[i].class = tracks[i].class
            BY <2>2, EndOfTracks DEF LoopInv
        <3>2. emitted' = emitted /\ milestones' = milestones
            BY <2>2 DEF EndOfVideo, milestoneEngine
        <3>3. ASSUME NEW key \in Types \X DOMAIN tracks
              PROVE  Fulfilled(tracks', key) = Fulfilled(tracks, key)
            BY <3>1 DEF Fulfilled, Visits, PointsInside
        <3> QED
            BY <3>1, <3>2, <3>3 DEF MilestonesKept, KeyOf
    <2>3. CASE UNCHANGED vars
        BY <2>3 DEF vars, tracker, milestoneEngine, MilestonesKept, KeyOf, Fulfilled,
                    Visits, PointsInside
    <2> QED
        BY <2>1, <2>2, <2>3 DEF Next
<1>3. MilestonesKept => MilestonesMatchTracks
    <2> SUFFICES ASSUME MilestonesKept, NEW key \in Types \X DOMAIN tracks
                 PROVE  Cardinality({m \in milestones : KeyOf(m) = key})
                        = IF Fulfilled(tracks, key) # {} THEN 1 ELSE 0
        BY DEF MilestonesMatchTracks, KeyOf
    <2> DEFINE M == {m \in milestones : KeyOf(m) = key}
    <2>1. CASE Fulfilled(tracks, key) # {}
        <3>1. PICK m \in milestones : KeyOf(m) = key
            BY <2>1 DEF MilestonesKept
        <3>2. M = {m}
            BY <3>1 DEF MilestonesKept
        <3> QED
            BY <2>1, <3>2, FS_Singleton
    <2>2. CASE Fulfilled(tracks, key) = {}
        <3>1. key \notin emitted
            BY <2>2 DEF MilestonesKept
        <3>2. M = {}
            BY <3>1 DEF MilestonesKept
        <3> QED
            BY <2>2, <3>2, FS_EmptySet
    <2> QED
        BY <2>1, <2>2
<1> QED
    BY <1>1, <1>2, <1>3, LoopInductive, PTL DEF Spec

-----------------------------------------------------------------------------
(* Where a track is at a time. *)

\* A set of indices that is not empty has a last one.
LEMMA IndexMax ==
    ASSUME NEW n \in Nat, NEW T \in SUBSET (1..n), T # {}
    PROVE  \E x \in T : \A y \in T : y <= x
<1> DEFINE U == {n - x : x \in T}
<1>1. U \in SUBSET Nat /\ U # {}
    <2>1. \A x \in T : n - x \in Nat
        OBVIOUS
    <2> QED
        BY <2>1
<1>2. PICK u \in U : \A v \in U : u <= v
    BY <1>1, NatMin
<1>3. PICK x \in T : u = n - x
    BY <1>2
<1>4. ASSUME NEW y \in T
      PROVE  y <= x
    <2>1. n - x <= n - y
        BY <1>2, <1>3
    <2> QED
        BY <2>1
<1> QED
    BY <1>4

\* Where a track with the points `s` was last seen at time `t`.
PlaceOf(s, t) ==
    LET past == {n \in DOMAIN s : s[n].time <= t}
    IN s[CHOOSE n \in past : \A m \in past : m <= n].at

\* In all of the frames `F` from `t` to `u` it was in the zone.
Present(s, zone, t, u, F) ==
    /\ s[1].time <= t
    /\ \A f \in F \cap t..u : PlaceOf(s, f) \in zone

\* InZone, over the points of the track.
LEMMA InZonePresent ==
    ASSUME NEW rule, NEW i, NEW t, NEW u
    PROVE  InZone(rule, i, t, u)
                <=> Present(tracks[i].points, rule.zone, t, u, Frames)
BY DEF InZone, Present, PlaceAt, PlaceOf, Frames

\* A later point does not change where the track has been.
LEMMA PlaceStable ==
    ASSUME NEW s \in Seq(TrackPoint), s # <<>>,
           NEW z \in TrackPoint,
           NEW t \in Int, s[1].time <= t, t < z.time
    PROVE  PlaceOf(Append(s, z), t) = PlaceOf(s, t)
<1> DEFINE past == {n \in DOMAIN s : s[n].time <= t}
<1>1. PICK w : w = Append(s, z)
    OBVIOUS
<1>2. /\ Len(s) \in Nat /\ DOMAIN s = 1..Len(s) /\ DOMAIN w = 1..(Len(s) + 1)
      /\ w[Len(s) + 1] = z /\ \A n \in 1..Len(s) : w[n] = s[n]
      /\ 1 \in DOMAIN s
    BY <1>1
<1>3. z.time \in Int
    BY DEF TrackPoint
<1>4. ~(z.time <= t)
    BY <1>3
<1>5. {n \in DOMAIN w : w[n].time <= t} = past
    <2>1. ASSUME NEW n \in DOMAIN w, w[n].time <= t
          PROVE  n \in past
        <3>1. n # Len(s) + 1
            BY <2>1, <1>2, <1>4
        <3> QED
            BY <2>1, <3>1, <1>2
    <2>2. ASSUME NEW n \in past
          PROVE  n \in DOMAIN w /\ w[n].time <= t
        BY <1>2
    <2> QED
        BY <2>1, <2>2
<1>6. past \in SUBSET (1..Len(s)) /\ past # {}
    BY <1>2
<1>7. PICK c : c = CHOOSE n \in past : \A m \in past : m <= n
    OBVIOUS
<1>8. c \in past
    <2>1. \E n \in past : \A m \in past : m <= n
        BY <1>2, <1>6, IndexMax
    <2> QED
        BY <2>1, <1>7
<1>9. PlaceOf(w, t) = w[c].at /\ PlaceOf(s, t) = s[c].at
    BY <1>5, <1>7 DEF PlaceOf
<1> QED
    BY <1>1, <1>2, <1>8, <1>9

\* After its last point a track is where it was seen last.
LEMMA PlaceLast ==
    ASSUME NEW s \in Seq(TrackPoint), s # <<>>, NEW t \in Int,
           \A n \in DOMAIN s : s[n].time <= t
    PROVE  PlaceOf(s, t) = s[Len(s)].at
<1>1. Len(s) \in Nat /\ DOMAIN s = 1..Len(s) /\ Len(s) \in DOMAIN s
    OBVIOUS
<1>2. {n \in DOMAIN s : s[n].time <= t} = DOMAIN s
    OBVIOUS
<1>3. \A n \in DOMAIN s : n <= Len(s)
    BY <1>1
<1>4. PICK c : c = CHOOSE n \in DOMAIN s : \A m \in DOMAIN s : m <= n
    OBVIOUS
<1>5. c \in DOMAIN s /\ \A m \in DOMAIN s : m <= c
    BY <1>1, <1>3, <1>4
<1>6. c = Len(s)
    BY <1>1, <1>5
<1>7. PlaceOf(s, t) = s[c].at
    BY <1>2, <1>4 DEF PlaceOf
<1> QED
    BY <1>6, <1>7

\* A frame does not change what has been before it.
LEMMA PresentStable ==
    ASSUME NEW s \in Seq(TrackPoint), s # <<>>,
           NEW z \in TrackPoint, NEW w,
           w = s \/ w = Append(s, z),
           NEW now \in Int, z.time = now,
           NEW F \in SUBSET Int, NEW zone, NEW t \in Int, NEW u \in Int, u < now
    PROVE  Present(w, zone, t, u, F \cup {now}) <=> Present(s, zone, t, u, F)
<1>1. w[1] = s[1] /\ s[1].time \in Int
    <2>1. 1 \in DOMAIN s /\ s[1] \in TrackPoint
        OBVIOUS
    <2>2. Append(s, z)[1] = s[1]
        BY <2>1
    <2> QED
        BY <2>1, <2>2 DEF TrackPoint
<1>2. (F \cup {now}) \cap t..u = F \cap t..u
    OBVIOUS
<1>3. ASSUME NEW f \in F \cap t..u, s[1].time <= t
      PROVE  PlaceOf(w, f) = PlaceOf(s, f)
    <2>1. f \in Int /\ s[1].time <= f /\ f < z.time
        BY <1>1, <1>3
    <2>2. PlaceOf(Append(s, z), f) = PlaceOf(s, f)
        BY <2>1, PlaceStable
    <2> QED
        BY <2>2
<1> QED
    BY <1>1, <1>2, <1>3 DEF Present

\* Presence to the frame at hand: up to the one before, and in the last point.
LEMMA PresentNow ==
    ASSUME NEW s \in Seq(TrackPoint), s # <<>>,
           NEW now \in Int, \A n \in DOMAIN s : s[n].time <= now,
           NEW F \in SUBSET Int, NEW last \in Int, last < now, \A f \in F : f <= last,
           NEW zone, NEW t \in Int, t <= now
    PROVE  /\ Present(s, zone, t, now, F \cup {now})
                <=> /\ Present(s, zone, t, last, F \cup {now})
                    /\ s[Len(s)].at \in zone
<1>1. PlaceOf(s, now) = s[Len(s)].at
    BY PlaceLast
<1>2. now \in (F \cup {now}) \cap t..now
    OBVIOUS
<1>3. (F \cup {now}) \cap t..now = ((F \cup {now}) \cap t..last) \cup {now}
    OBVIOUS
<1> QED
    BY <1>1, <1>2, <1>3 DEF Present

-----------------------------------------------------------------------------
(* A frame and the ones before it. *)

\* How a frame goes on from the ones before.
LEMMA FrameContext ==
    ASSUME LoopInv, NEW detections \in Scenes, Analyse(detections)
    PROVE  LET now == Time(Len(observations)) IN
           /\ now \in Int /\ Now \in Int /\ Now < now /\ Now' = now
           /\ Frames \in SUBSET Int /\ \A f \in Frames : f <= Now
           /\ Frames' = Frames \cup {now}
           /\ \A i \in DOMAIN tracks :
                /\ i \in DOMAIN tracks'
                /\ tracks'[i].class = tracks[i].class
                /\ tracks'[i].active => tracks[i].active
                /\ \E z \in TrackPoint :
                        /\ z.time = now
                        /\ \/ tracks'[i].points = tracks[i].points
                           \/ tracks'[i].points = Append(tracks[i].points, z)
           /\ \A i \in DOMAIN tracks' :
                /\ tracks'[i].points \in Seq(TrackPoint)
                /\ tracks'[i].points # <<>>
                /\ \A p \in DOMAIN tracks'[i].points : tracks'[i].points[p].time <= now
                /\ i \notin DOMAIN tracks =>
                        /\ Len(tracks'[i].points) = 1
                        /\ tracks'[i].points[1].time = now
           /\ LoopInv'
<1> DEFINE l == Len(observations)
           now == Time(l)
<1>1. /\ detections \in Seq(Detection)
      /\ l \in Nat
      /\ DOMAIN observations = 1..l
      /\ now \in Int
      /\ DOMAIN observations' = 1..(l + 1)
      /\ \A n \in DOMAIN observations :
                /\ observations'[n] = observations[n]
                /\ observations[n].time \in Int
                /\ observations[n].time < now
      /\ observations'[l + 1] = [time |-> now, found |-> detections]
      /\ Now \in Int /\ Now' = now
      /\ Now' = Now + FrameTime
      /\ ~finalized /\ ~finalized'
      /\ FramesTimed'
    BY FrameFacts DEF LoopInv
<1>2. Update(detections, now)
    BY DEF Analyse
<1> HIDE DEF l, now
<1>3. /\ DOMAIN tracks \subseteq DOMAIN tracks'
      /\ \A i \in DOMAIN tracks' :
                \/ \E k \in DOMAIN detections : \/ Starts(i, detections[k], now)
                                                \/ Continues(i, detections[k], now)
                \/ Misses(i)
                \/ Stays(i)
    BY <1>1, <1>2, TrackChanges DEF LoopInv
<1>4. TracksKept'
    BY <1>1, <1>2, TracksStep DEF LoopInv
<1>5. PointsTimed' /\ MissesCounted'
    BY PointsStep
<1>6. LoopInv'
    BY <1>1, <1>4, <1>5 DEF LoopInv
<1>7. Now < now
    BY <1>1, TimeGrows
<1>8. Frames \in SUBSET Int /\ \A f \in Frames : f <= Now
    BY FrameOrder DEF LoopInv, Frames
<1>9. Frames' = Frames \cup {now}
    <2>1. ASSUME NEW f \in Frames'
          PROVE  f \in Frames \cup {now}
        <3>1. PICK n \in DOMAIN observations' : f = observations'[n].time
            BY DEF Frames
        <3>2. CASE n = l + 1
            BY <3>1, <3>2, <1>1
        <3>3. CASE n \in DOMAIN observations
            BY <3>1, <3>3, <1>1 DEF Frames
        <3> QED
            BY <3>2, <3>3, <1>1
    <2>2. ASSUME NEW f \in Frames
          PROVE  f \in Frames'
        <3>1. PICK n \in DOMAIN observations : f = observations[n].time
            BY DEF Frames
        <3>2. n \in DOMAIN observations' /\ observations'[n].time = f
            BY <3>1, <1>1
        <3> QED
            BY <3>2 DEF Frames
    <2>3. now \in Frames'
        <3>1. l + 1 \in DOMAIN observations' /\ observations'[l + 1].time = now
            BY <1>1
        <3> QED
            BY <3>1 DEF Frames
    <2> QED
        BY <2>1, <2>2, <2>3
<1>10. ASSUME NEW i \in DOMAIN tracks
       PROVE  /\ i \in DOMAIN tracks'
              /\ tracks'[i].class = tracks[i].class
              /\ tracks'[i].active => tracks[i].active
              /\ \E z \in TrackPoint :
                    /\ z.time = now
                    /\ \/ tracks'[i].points = tracks[i].points
                       \/ tracks'[i].points = Append(tracks[i].points, z)
    <2>1. i \in DOMAIN tracks'
        BY <1>3
    <2>2. ASSUME NEW k \in DOMAIN detections, Continues(i, detections[k], now)
          PROVE  /\ tracks'[i].class = tracks[i].class
                 /\ tracks[i].active
                 /\ Point(now, detections[k].at) \in TrackPoint
                 /\ Point(now, detections[k].at).time = now
                 /\ tracks'[i].points = Append(tracks[i].points,
                                               Point(now, detections[k].at))
        <3>1. detections[k] \in Detection
            BY <1>1
        <3>2. detections[k].at \in Places
            BY <3>1 DEF Detection
        <3> QED
            BY <3>2, <2>2, <1>1 DEF Continues, Point, TrackPoint
    <2>3. ASSUME Misses(i) \/ Stays(i)
          PROVE  /\ tracks'[i].class = tracks[i].class
                 /\ tracks'[i].active => tracks[i].active
                 /\ tracks'[i].points = tracks[i].points
        BY <2>3 DEF Misses, Stays
    <2>4. \E z \in TrackPoint : z.time = now
        <3>1. tracks[i].points[1] \in TrackPoint
            BY TrackTypes DEF LoopInv
        <3>2. PICK y \in Places : y = tracks[i].points[1].at
            BY <3>1 DEF TrackPoint
        <3>3. Point(now, y) \in TrackPoint /\ Point(now, y).time = now
            BY <1>1 DEF Point, TrackPoint
        <3> QED
            BY <3>3
    <2>5. ASSUME NEW k \in DOMAIN detections
          PROVE  ~Starts(i, detections[k], now)
        BY DEF Starts
    <2> QED
        BY <2>1, <2>2, <2>3, <2>4, <2>5, <1>3
<1>11. ASSUME NEW i \in DOMAIN tracks'
       PROVE  /\ tracks'[i].points \in Seq(TrackPoint)
              /\ tracks'[i].points # <<>>
              /\ \A p \in DOMAIN tracks'[i].points : tracks'[i].points[p].time <= now
              /\ i \notin DOMAIN tracks =>
                        /\ Len(tracks'[i].points) = 1
                        /\ tracks'[i].points[1].time = now
    <2>1. tracks'[i] \in TrackState /\ tracks'[i].points # <<>>
        BY <1>4 DEF TracksKept
    <2>2. PICK t \in TrackState : t = tracks'[i]
        BY <2>1
    <2>3. t.points \in Seq(TrackPoint)
        BY DEF TrackState
    <2>4. ASSUME NEW p \in DOMAIN tracks'[i].points
          PROVE  tracks'[i].points[p].time <= now
        <3>1. PICK n \in DOMAIN observations' :
                    tracks'[i].points[p].time = observations'[n].time
            BY <1>5 DEF PointsTimed
        <3>2. observations'[n].time \in Frames'
            BY DEF Frames
        <3> QED
            BY <3>1, <3>2, <1>1, <1>7, <1>8, <1>9
    <2>5. ASSUME i \notin DOMAIN tracks
          PROVE  Len(tracks'[i].points) = 1 /\ tracks'[i].points[1].time = now
        <3>1. PICK k \in DOMAIN detections : Starts(i, detections[k], now)
            BY <2>5, <1>3 DEF Continues, Misses, Stays
        <3>2. tracks'[i].points = <<Point(now, detections[k].at)>>
            BY <3>1 DEF Starts
        <3> QED
            BY <3>2 DEF Point
    <2> QED
        BY <2>1, <2>2, <2>3, <2>4, <2>5
<1> QED
    BY <1>1, <1>6, <1>7, <1>8, <1>9, <1>10, <1>11 DEF now, l

-----------------------------------------------------------------------------
(* first_seen: how long a track has been inside of a zone. *)

\* A track is in a zone, in every frame since the time in first_seen.
ZoneSightings ==
    \A k \in DOMAIN firstSeen :
        /\ k \in Rules \X DOMAIN tracks
        /\ k[1].type \in ZoneTypes /\ k[1].zone # {}
        /\ Eligible(k[1], tracks[k[2]])
        /\ firstSeen[k] \in Frames
        /\ tracks[k[2]].active =>
                Present(tracks[k[2]].points, k[1].zone, firstSeen[k], Now, Frames)

\* And first_seen has the first of these frames.
SightingsComplete ==
    \A rule \in Rules, i \in Active(tracks), t \in Frames :
        (/\ rule.type \in ZoneTypes /\ Eligible(rule, tracks[i])
         /\ Present(tracks[i].points, rule.zone, t, Now, Frames))
        => <<rule, i>> \in DOMAIN firstSeen /\ firstSeen[<<rule, i>>] <= t

\* The families of rules are apart, and their parameters natural numbers.
LEMMA RuleTypesDiffer ==
    ASSUME NEW rule \in Rules
    PROVE  /\ rule.type = "equipment_left_behind" => rule.type \notin ZoneTypes
           /\ rule.debounce \in Nat /\ rule.cooldown \in Nat /\ rule.dwell \in Nat
BY RulesAssumption DEF RuleConfig, ZoneTypes

\* Which tracks are inside of which zones at the frame.
LEMMA InsideKeys ==
    ASSUME NEW ts, NEW k
    PROVE  /\ k \in ZoneKeys(ts) <=>
                /\ k \in Rules \X DOMAIN ts /\ ts[k[2]].active
                /\ k[1].type \in ZoneTypes /\ Eligible(k[1], ts[k[2]])
                /\ k[1].zone # {}
           /\ k \in Inside(ts) <=>
                k \in ZoneKeys(ts) /\ Latest(ts[k[2]]).at \in k[1].zone
BY DEF ZoneKeys, Inside, Keys, Active

\* A frame keeps first_seen true to the points of the active tracks.
LEMMA SightingsStep ==
    ASSUME LoopInv, ZoneSightings, SightingsComplete,
           NEW detections \in Scenes, Analyse(detections)
    PROVE  /\ ZoneSightings' /\ SightingsComplete'
           /\ \A k \in DOMAIN firstSeen' :
                tracks'[k[2]].active => k \in Inside(tracks')
<1> DEFINE now == Time(Len(observations))
<1>1. /\ now \in Int /\ Now \in Int /\ Now < now /\ Now' = now
      /\ Frames \in SUBSET Int /\ \A f \in Frames : f <= Now
      /\ Frames' = Frames \cup {now}
      /\ \A i \in DOMAIN tracks :
            /\ i \in DOMAIN tracks'
            /\ tracks'[i].class = tracks[i].class
            /\ tracks'[i].active => tracks[i].active
            /\ \E z \in TrackPoint :
                    /\ z.time = now
                    /\ \/ tracks'[i].points = tracks[i].points
                       \/ tracks'[i].points = Append(tracks[i].points, z)
      /\ \A i \in DOMAIN tracks' :
            /\ tracks'[i].points \in Seq(TrackPoint)
            /\ tracks'[i].points # <<>>
            /\ \A p \in DOMAIN tracks'[i].points : tracks'[i].points[p].time <= now
            /\ i \notin DOMAIN tracks =>
                    /\ Len(tracks'[i].points) = 1
                    /\ tracks'[i].points[1].time = now
    BY FrameContext
<1>2. firstSeen' = FirstSeen(tracks', now)
    BY DEF Analyse, Evaluate
<1> HIDE DEF now
<1>3. firstSeen' = [k \in (DOMAIN firstSeen \ ZoneKeys(tracks')) \cup Inside(tracks') |->
                        IF k \in DOMAIN firstSeen THEN firstSeen[k] ELSE now]
    BY <1>2 DEF FirstSeen, KeepOrSet
<1>4. /\ DOMAIN firstSeen' = (DOMAIN firstSeen \ ZoneKeys(tracks')) \cup Inside(tracks')
      /\ \A k \in DOMAIN firstSeen' :
            firstSeen'[k] = IF k \in DOMAIN firstSeen THEN firstSeen[k] ELSE now
    BY <1>3
<1>5. ASSUME NEW i \in DOMAIN tracks, NEW zone, NEW t \in Int
      PROVE  /\ Present(tracks'[i].points, zone, t, Now, Frames')
                    <=> Present(tracks[i].points, zone, t, Now, Frames)
             /\ \A rule : Eligible(rule, tracks'[i]) <=> Eligible(rule, tracks[i])
    <2>1. PICK s : s = tracks[i].points
        OBVIOUS
    <2>2. s \in Seq(TrackPoint) /\ s # <<>>
        BY <2>1, TrackTypes DEF LoopInv
    <2>3. PICK w : w = tracks'[i].points
        OBVIOUS
    <2>4. PICK z \in TrackPoint : z.time = now /\ (w = s \/ w = Append(s, z))
        BY <2>1, <2>3, <1>1
    <2>5. Present(w, zone, t, Now, Frames \cup {now}) <=> Present(s, zone, t, Now, Frames)
        BY <2>2, <2>4, <1>1, PresentStable
    <2> QED
        BY <2>1, <2>3, <2>5, <1>1 DEF Eligible
<1>6. ASSUME NEW i \in DOMAIN tracks', NEW zone, NEW t \in Int, t <= now
      PROVE  Present(tracks'[i].points, zone, t, now, Frames')
                <=> /\ Present(tracks'[i].points, zone, t, Now, Frames')
                    /\ Latest(tracks'[i]).at \in zone
    <2>1. PICK s : s = tracks'[i].points
        OBVIOUS
    <2>2. s \in Seq(TrackPoint) /\ s # <<>> /\ \A p \in DOMAIN s : s[p].time <= now
        BY <2>1, <1>1
    <2>3. Present(s, zone, t, now, Frames \cup {now})
                <=> /\ Present(s, zone, t, Now, Frames \cup {now})
                    /\ s[Len(s)].at \in zone
        BY <2>2, <1>1, <1>6, PresentNow
    <2> QED
        BY <2>1, <2>3, <1>1 DEF Latest
<1>7. ASSUME NEW k \in DOMAIN firstSeen
      PROVE  /\ k \in Rules \X DOMAIN tracks
             /\ k[1].type \in ZoneTypes /\ k[1].zone # {}
             /\ Eligible(k[1], tracks[k[2]])
             /\ firstSeen[k] \in Frames /\ firstSeen[k] \in Int
             /\ tracks[k[2]].active =>
                    Present(tracks[k[2]].points, k[1].zone, firstSeen[k], Now, Frames)
    BY <1>1 DEF ZoneSightings
\* What is kept for a track that is active is set, or kept, by this frame.
<1>8. ASSUME NEW k \in DOMAIN firstSeen', tracks'[k[2]].active
      PROVE  k \in Inside(tracks')
    <2> SUFFICES ASSUME k \in DOMAIN firstSeen, k \notin ZoneKeys(tracks')
                 PROVE  FALSE
        BY <1>4
    <2>1. PICK i \in DOMAIN tracks : i = k[2]
        BY <1>7
    <2>2. Eligible(k[1], tracks'[i]) /\ i \in DOMAIN tracks'
        BY <2>1, <1>1, <1>5, <1>7
    <2>3. k \in Rules \X DOMAIN tracks'
        BY <1>1, <1>7
    <2> QED
        BY <2>1, <2>2, <2>3, <1>7, <1>8, InsideKeys
<1>9. ASSUME NEW k \in DOMAIN firstSeen'
      PROVE  /\ k \in Rules \X DOMAIN tracks'
             /\ k[1].type \in ZoneTypes /\ k[1].zone # {}
             /\ Eligible(k[1], tracks'[k[2]])
             /\ firstSeen'[k] \in Frames'
             /\ tracks'[k[2]].active =>
                    Present(tracks'[k[2]].points, k[1].zone, firstSeen'[k], Now', Frames')
    <2>1. CASE k \in DOMAIN firstSeen
        <3>1. PICK i \in DOMAIN tracks : i = k[2]
            BY <2>1, <1>7
        <3>2. Eligible(k[1], tracks'[i]) /\ i \in DOMAIN tracks'
            BY <2>1, <3>1, <1>1, <1>5, <1>7
        <3>3. k \in Rules \X DOMAIN tracks' /\ firstSeen'[k] = firstSeen[k]
            BY <2>1, <1>1, <1>4, <1>7
        <3>4. ASSUME tracks'[i].active
              PROVE  Present(tracks'[i].points, k[1].zone, firstSeen[k], Now', Frames')
            <4>1. k \in Inside(tracks')
                BY <3>1, <3>4, <1>8
            <4>2. Latest(tracks'[i]).at \in k[1].zone
                BY <3>1, <4>1, InsideKeys
            <4>3. Present(tracks[i].points, k[1].zone, firstSeen[k], Now, Frames)
                BY <2>1, <3>1, <3>4, <1>1, <1>7
            <4>4. Present(tracks'[i].points, k[1].zone, firstSeen[k], Now, Frames')
                BY <2>1, <4>3, <1>5, <1>7
            <4>5. firstSeen[k] <= now
                BY <2>1, <1>1, <1>7
            <4> QED
                BY <2>1, <3>2, <4>2, <4>4, <4>5, <1>1, <1>6, <1>7
        <3> QED
            BY <2>1, <3>1, <3>2, <3>3, <3>4, <1>1, <1>7
    <2>2. CASE k \notin DOMAIN firstSeen
        <3>1. k \in Inside(tracks') /\ firstSeen'[k] = now
            BY <2>2, <1>4
        <3>2. /\ k \in Rules \X DOMAIN tracks' /\ k[1].type \in ZoneTypes
              /\ Eligible(k[1], tracks'[k[2]]) /\ k[1].zone # {}
              /\ Latest(tracks'[k[2]]).at \in k[1].zone
            BY <3>1, InsideKeys
        <3>3. PICK i \in DOMAIN tracks' : i = k[2]
            BY <3>2
        <3>4. Present(tracks'[i].points, k[1].zone, now, Now, Frames')
            <4>1. PICK s : s = tracks'[i].points
                OBVIOUS
            <4>2. s[1].time <= now
                BY <4>1, <1>1
            <4>3. Frames' \cap now..Now = {}
                BY <1>1
            <4> QED
                BY <4>1, <4>2, <4>3 DEF Present
        <3>5. now <= now
            BY <1>1
        <3>6. Present(tracks'[i].points, k[1].zone, now, now, Frames')
            BY <3>2, <3>3, <3>4, <3>5, <1>1, <1>6
        <3> QED
            BY <3>1, <3>2, <3>3, <3>6, <1>1
    <2> QED
        BY <2>1, <2>2
<1>10. ASSUME NEW rule \in Rules, NEW i \in Active(tracks'), NEW t \in Frames',
              rule.type \in ZoneTypes, Eligible(rule, tracks'[i]),
              Present(tracks'[i].points, rule.zone, t, Now', Frames')
       PROVE  <<rule, i>> \in DOMAIN firstSeen' /\ firstSeen'[<<rule, i>>] <= t
    <2>1. i \in DOMAIN tracks' /\ tracks'[i].active
        BY DEF Active
    <2>2. t \in Int /\ t <= now
        BY <1>1
    <2>3. /\ Present(tracks'[i].points, rule.zone, t, Now, Frames')
          /\ Latest(tracks'[i]).at \in rule.zone
        BY <2>1, <2>2, <1>1, <1>6, <1>10
    <2>4. PICK k : k = <<rule, i>>
        OBVIOUS
    <2>5. k \in Inside(tracks')
        BY <2>1, <2>3, <2>4, <1>10, InsideKeys
    <2>6. /\ k \in DOMAIN firstSeen'
          /\ firstSeen'[k] = IF k \in DOMAIN firstSeen THEN firstSeen[k] ELSE now
        BY <2>5, <1>4
    <2>7. CASE t = now
        BY <2>4, <2>6, <2>7, <1>1, <1>7
    <2>8. CASE t # now
        <3>1. t \in Frames /\ t <= Now
            BY <2>8, <1>1
        <3>2. i \in DOMAIN tracks
            <4>1. tracks'[i].points[1].time <= t
                BY <2>3 DEF Present
            <4> QED
                BY <2>1, <2>2, <2>8, <4>1, <1>1
        <3>3. tracks[i].active /\ i \in Active(tracks)
            BY <2>1, <3>2, <1>1 DEF Active
        <3>4. Eligible(rule, tracks[i])
            BY <3>2, <2>2, <1>5, <1>10
        <3>5. Present(tracks[i].points, rule.zone, t, Now, Frames)
            BY <2>2, <2>3, <3>2, <1>5
        <3>6. k \in DOMAIN firstSeen /\ firstSeen[k] <= t
            BY <2>4, <3>1, <3>3, <3>4, <3>5, <1>10 DEF SightingsComplete
        <3> QED
            BY <2>4, <2>6, <3>6
    <2> QED
        BY <2>7, <2>8
<1>11. ZoneSightings'
    BY <1>9 DEF ZoneSightings, Eligible
<1>12. SightingsComplete'
    BY <1>10 DEF SightingsComplete, Eligible, Active
<1> QED
    BY <1>8, <1>11, <1>12

-----------------------------------------------------------------------------
(* stationary_since: how long a track has been still. *)

\* The points `s` of a track have not moved, in the zone, from `t` to `u`.
StillFrom(s, rule, t, u) ==
    \A n \in 2..Len(s) :
        s[n].time \in t..u =>
            /\ Dist(s[n].at, s[n - 1].at) <= rule.limit
            /\ rule.zone = {} \/ s[n].at \in rule.zone

\* A track has been still in all points since the time in stationary_since.
StillSightings ==
    \A k \in DOMAIN stationarySince :
        /\ k \in Rules \X DOMAIN tracks
        /\ k[1].type = "equipment_left_behind"
        /\ Eligible(k[1], tracks[k[2]]) /\ Moved(tracks[k[2]])
        /\ stationarySince[k] \in Int
        /\ tracks[k[2]].active =>
                StillFrom(tracks[k[2]].points, k[1], stationarySince[k], Now)

\* A later point does not change how long a track was still before it.
LEMMA StillStable ==
    ASSUME NEW s \in Seq(TrackPoint), NEW z \in TrackPoint, NEW w,
           w = s \/ w = Append(s, z),
           NEW now \in Int, z.time = now,
           NEW rule, NEW t \in Int, NEW u \in Int, u < now
    PROVE  StillFrom(w, rule, t, u) <=> StillFrom(s, rule, t, u)
<1>1. CASE w = s
    BY <1>1
<1>2. CASE w = Append(s, z)
    <2>1. /\ Len(s) \in Nat /\ Len(w) = Len(s) + 1 /\ w[Len(s) + 1] = z
          /\ \A n \in 1..Len(s) : w[n] = s[n]
        BY <1>2
    <2>2. ASSUME NEW n \in 2..Len(w), w[n].time \in t..u
          PROVE  n \in 2..Len(s)
        <3>1. n # Len(s) + 1
            BY <2>1, <2>2
        <3> QED
            BY <3>1, <2>1
    <2>3. ASSUME NEW n \in 2..Len(s)
          PROVE  n \in 2..Len(w) /\ w[n] = s[n] /\ w[n - 1] = s[n - 1]
        BY <2>1
    <2> QED
        BY <2>2, <2>3 DEF StillFrom
<1> QED
    BY <1>1, <1>2

\* A track that is still in its last point is still up to the frame.
LEMMA StillNow ==
    ASSUME NEW s \in Seq(TrackPoint), NEW rule, NEW t \in Int,
           NEW now \in Int, NEW last \in Int, last < now,
           \A n \in DOMAIN s : s[n].time = now \/ s[n].time <= last,
           \A m, n \in DOMAIN s : m < n => s[m].time < s[n].time,
           StillFrom(s, rule, t, last),
           \/ \A n \in DOMAIN s : s[n].time <= last
           \/ /\ Dist(s[Len(s)].at, s[Len(s) - 1].at) <= rule.limit
              /\ rule.zone = {} \/ s[Len(s)].at \in rule.zone
    PROVE  StillFrom(s, rule, t, now)
<1> SUFFICES ASSUME NEW n \in 2..Len(s), s[n].time \in t..now
             PROVE  /\ Dist(s[n].at, s[n - 1].at) <= rule.limit
                    /\ rule.zone = {} \/ s[n].at \in rule.zone
    BY DEF StillFrom
<1>1. Len(s) \in Nat /\ DOMAIN s = 1..Len(s) /\ n \in DOMAIN s /\ Len(s) \in DOMAIN s
    OBVIOUS
<1>2. \A m \in DOMAIN s : s[m] \in TrackPoint
    OBVIOUS
<1>3. \A m \in DOMAIN s : s[m].time \in Int
    BY <1>2 DEF TrackPoint
<1>4. CASE s[n].time <= last
    BY <1>1, <1>3, <1>4 DEF StillFrom
<1>5. CASE ~(s[n].time <= last)
    <2>1. s[n].time = now
        BY <1>1, <1>5
    <2>2. ~(n < Len(s))
        <3>1. s[Len(s)].time <= now /\ s[Len(s)].time \in Int
            BY <1>1, <1>3
        <3> QED
            BY <2>1, <3>1, <1>1
    <2>3. n = Len(s)
        BY <2>2, <1>1
    <2> QED
        BY <2>3, <1>1, <1>5
<1> QED
    BY <1>4, <1>5

\* Which tracks are looked at and still at the frame.
LEMMA StillKeys ==
    ASSUME NEW ts, NEW k
    PROVE  /\ k \in StationaryKeys(ts) <=>
                /\ k \in Rules \X DOMAIN ts /\ ts[k[2]].active
                /\ k[1].type = "equipment_left_behind" /\ Eligible(k[1], ts[k[2]])
                /\ Moved(ts[k[2]])
           /\ k \in Still(ts) <=>
                /\ k \in StationaryKeys(ts)
                /\ Dist(Step(ts[k[2]]), 0) <= k[1].limit
                /\ k[1].zone = {} \/ Latest(ts[k[2]]).at \in k[1].zone
BY DEF StationaryKeys, Still, Keys, Active

\* The distance of _stationary is the one of the last two points.
LEMMA StepDistance ==
    ASSUME NEW t, t.points \in Seq(TrackPoint), Moved(t)
    PROVE  /\ Dist(Step(t), 0)
                = Dist(t.points[Len(t.points)].at, t.points[Len(t.points) - 1].at)
           /\ Latest(t).at = t.points[Len(t.points)].at
<1>1. PICK s \in Seq(TrackPoint) : s = t.points
    OBVIOUS
<1>2. Len(s) \in DOMAIN s /\ Len(s) - 1 \in DOMAIN s
    BY <1>1 DEF Moved
<1>3. s[Len(s)] \in TrackPoint /\ s[Len(s) - 1] \in TrackPoint
    BY <1>2
<1>4. s[Len(s)].at \in Int /\ s[Len(s) - 1].at \in Int
    BY <1>3, TrackerAssumption DEF TrackPoint
<1> QED
    BY <1>1, <1>4 DEF Dist, Step, Latest, From

\* A frame keeps stationary_since true to the points of the active tracks.
LEMMA StillStep ==
    ASSUME LoopInv, StillSightings, NEW detections \in Scenes, Analyse(detections)
    PROVE  /\ StillSightings'
           /\ \A k \in DOMAIN stationarySince' :
                tracks'[k[2]].active => k \in StationaryKeys(tracks')
<1> DEFINE now == Time(Len(observations))
<1>1. /\ now \in Int /\ Now \in Int /\ Now < now /\ Now' = now
      /\ Frames \in SUBSET Int /\ \A f \in Frames : f <= Now
      /\ Frames' = Frames \cup {now}
      /\ \A i \in DOMAIN tracks :
            /\ i \in DOMAIN tracks'
            /\ tracks'[i].class = tracks[i].class
            /\ tracks'[i].active => tracks[i].active
            /\ \E z \in TrackPoint :
                    /\ z.time = now
                    /\ \/ tracks'[i].points = tracks[i].points
                       \/ tracks'[i].points = Append(tracks[i].points, z)
      /\ \A i \in DOMAIN tracks' :
            /\ tracks'[i].points \in Seq(TrackPoint)
            /\ tracks'[i].points # <<>>
            /\ \A p \in DOMAIN tracks'[i].points : tracks'[i].points[p].time <= now
            /\ i \notin DOMAIN tracks =>
                    /\ Len(tracks'[i].points) = 1
                    /\ tracks'[i].points[1].time = now
      /\ LoopInv'
    BY FrameContext
<1>2. stationarySince' = StationarySince(tracks', now)
    BY DEF Analyse, Evaluate
<1> HIDE DEF now
<1>3. stationarySince' =
        [k \in (DOMAIN stationarySince \ StationaryKeys(tracks')) \cup Still(tracks') |->
            IF k \in DOMAIN stationarySince THEN stationarySince[k] ELSE now]
    BY <1>2 DEF StationarySince, KeepOrSet
<1>4. /\ DOMAIN stationarySince'
            = (DOMAIN stationarySince \ StationaryKeys(tracks')) \cup Still(tracks')
      /\ \A k \in DOMAIN stationarySince' :
            stationarySince'[k] = IF k \in DOMAIN stationarySince
                                  THEN stationarySince[k] ELSE now
    BY <1>3
<1>5. ASSUME NEW i \in DOMAIN tracks
      PROVE  /\ \A rule : Eligible(rule, tracks'[i]) <=> Eligible(rule, tracks[i])
             /\ Moved(tracks[i]) => Moved(tracks'[i])
             /\ \A rule : \A t \in Int :
                    StillFrom(tracks'[i].points, rule, t, Now)
                        <=> StillFrom(tracks[i].points, rule, t, Now)
    <2>1. PICK s : s = tracks[i].points
        OBVIOUS
    <2>2. s \in Seq(TrackPoint) /\ Len(s) \in Nat
        BY <2>1, TrackTypes DEF LoopInv
    <2>3. PICK w : w = tracks'[i].points
        OBVIOUS
    <2>4. PICK z \in TrackPoint : z.time = now /\ (w = s \/ w = Append(s, z))
        BY <2>1, <2>3, <1>1
    <2>5. ASSUME NEW rule, NEW t \in Int
          PROVE  StillFrom(w, rule, t, Now) <=> StillFrom(s, rule, t, Now)
        BY <2>2, <2>4, <1>1, StillStable
    <2>6. Len(w) >= Len(s) /\ Len(w) \in Nat
        BY <2>2, <2>4
    <2>7. Moved(tracks[i]) => Moved(tracks'[i])
        BY <2>1, <2>2, <2>3, <2>6 DEF Moved
    <2>8. \A rule : Eligible(rule, tracks'[i]) <=> Eligible(rule, tracks[i])
        BY <1>1 DEF Eligible
    <2> QED
        BY <2>1, <2>3, <2>5, <2>7, <2>8
\* A track that is still in its last point, if that is of the frame, has been
\* still up to the frame.
<1>6. ASSUME NEW k \in Still(tracks'), NEW t \in Int,
             StillFrom(tracks'[k[2]].points, k[1], t, Now)
      PROVE  StillFrom(tracks'[k[2]].points, k[1], t, now)
    <2>1. /\ k \in Rules \X DOMAIN tracks' /\ Moved(tracks'[k[2]])
          /\ Dist(Step(tracks'[k[2]]), 0) <= k[1].limit
          /\ k[1].zone = {} \/ Latest(tracks'[k[2]]).at \in k[1].zone
        BY StillKeys
    <2>2. PICK i \in DOMAIN tracks' : i = k[2]
        BY <2>1
    <2>3. PICK s \in Seq(TrackPoint) : s = tracks'[i].points
        BY <1>1
    <2>4. \A n \in DOMAIN s : s[n].time = now \/ s[n].time <= Now
        <3>1. SUFFICES ASSUME NEW n \in DOMAIN s
                       PROVE  s[n].time = now \/ s[n].time <= Now
            OBVIOUS
        <3>2. PICK m \in DOMAIN observations' : s[n].time = observations'[m].time
            BY <2>3, <1>1 DEF LoopInv, PointsTimed
        <3>3. s[n].time \in Frames'
            BY <3>2 DEF Frames
        <3> QED
            BY <3>3, <1>1
    <2>5. \A m, n \in DOMAIN s : m < n => s[m].time < s[n].time
        BY <2>3, <1>1 DEF LoopInv, PointsTimed
    <2>6. /\ Dist(s[Len(s)].at, s[Len(s) - 1].at) <= k[1].limit
          /\ k[1].zone = {} \/ s[Len(s)].at \in k[1].zone
        <3>1. PICK w : w = tracks'[i]
            OBVIOUS
        <3>2. /\ Dist(Step(w), 0) = Dist(s[Len(s)].at, s[Len(s) - 1].at)
              /\ Latest(w).at = s[Len(s)].at
            BY <2>1, <2>2, <2>3, <3>1, StepDistance
        <3> QED
            BY <2>1, <2>2, <3>1, <3>2
    <2>7. StillFrom(s, k[1], t, Now)
        BY <2>2, <2>3, <1>6
    <2>8. StillFrom(s, k[1], t, now)
        BY <2>4, <2>5, <2>6, <2>7, <1>1, StillNow
    <2> QED
        BY <2>2, <2>3, <2>8
<1>7. ASSUME NEW k \in DOMAIN stationarySince
      PROVE  /\ k \in Rules \X DOMAIN tracks
             /\ k[1].type = "equipment_left_behind"
             /\ Eligible(k[1], tracks[k[2]]) /\ Moved(tracks[k[2]])
             /\ stationarySince[k] \in Int
             /\ tracks[k[2]].active =>
                    StillFrom(tracks[k[2]].points, k[1], stationarySince[k], Now)
    BY DEF StillSightings
<1>8. ASSUME NEW k \in DOMAIN stationarySince', tracks'[k[2]].active
      PROVE  k \in Still(tracks')
    <2> SUFFICES ASSUME k \in DOMAIN stationarySince, k \notin StationaryKeys(tracks')
                 PROVE  FALSE
        BY <1>4
    <2>1. PICK i \in DOMAIN tracks : i = k[2]
        BY <1>7
    <2>2. Eligible(k[1], tracks'[i]) /\ i \in DOMAIN tracks' /\ Moved(tracks'[i])
        BY <2>1, <1>1, <1>5, <1>7
    <2>3. k \in Rules \X DOMAIN tracks'
        BY <1>1, <1>7
    <2> QED
        BY <2>1, <2>2, <2>3, <1>7, <1>8, StillKeys
<1>9. ASSUME NEW k \in DOMAIN stationarySince'
      PROVE  /\ k \in Rules \X DOMAIN tracks'
             /\ k[1].type = "equipment_left_behind"
             /\ Eligible(k[1], tracks'[k[2]]) /\ Moved(tracks'[k[2]])
             /\ stationarySince'[k] \in Int
             /\ tracks'[k[2]].active =>
                    StillFrom(tracks'[k[2]].points, k[1], stationarySince'[k], Now')
    <2>1. CASE k \in DOMAIN stationarySince
        <3>1. PICK i \in DOMAIN tracks : i = k[2]
            BY <2>1, <1>7
        <3>2. /\ Eligible(k[1], tracks'[i]) /\ i \in DOMAIN tracks' /\ Moved(tracks'[i])
              /\ k \in Rules \X DOMAIN tracks'
            BY <2>1, <3>1, <1>1, <1>5, <1>7
        <3>3. stationarySince'[k] = stationarySince[k]
            BY <2>1, <1>4
        <3>4. ASSUME tracks'[i].active
              PROVE  StillFrom(tracks'[i].points, k[1], stationarySince[k], Now')
            <4>1. k \in Still(tracks')
                BY <3>1, <3>4, <1>8
            <4>2. StillFrom(tracks[i].points, k[1], stationarySince[k], Now)
                BY <2>1, <3>1, <3>4, <1>1, <1>7
            <4>3. StillFrom(tracks'[i].points, k[1], stationarySince[k], Now)
                BY <2>1, <4>2, <1>5, <1>7
            <4> QED
                BY <2>1, <3>1, <4>1, <4>3, <1>1, <1>6, <1>7
        <3> QED
            BY <2>1, <3>1, <3>2, <3>3, <3>4, <1>7
    <2>2. CASE k \notin DOMAIN stationarySince
        <3>1. k \in Still(tracks') /\ stationarySince'[k] = now
            BY <2>2, <1>4
        <3>2. /\ k \in Rules \X DOMAIN tracks' /\ k[1].type = "equipment_left_behind"
              /\ Eligible(k[1], tracks'[k[2]]) /\ Moved(tracks'[k[2]])
            BY <3>1, StillKeys
        <3>3. StillFrom(tracks'[k[2]].points, k[1], now, Now)
            <4>1. now..Now = {}
                BY <1>1
            <4> QED
                BY <4>1 DEF StillFrom
        <3>4. StillFrom(tracks'[k[2]].points, k[1], now, now)
            BY <3>1, <3>3, <1>1, <1>6
        <3> QED
            BY <3>1, <3>2, <3>4, <1>1
    <2> QED
        BY <2>1, <2>2
<1>10. StillSightings'
    BY <1>9 DEF StillSightings, Eligible, Moved
<1>11. ASSUME NEW k \in DOMAIN stationarySince', tracks'[k[2]].active
       PROVE  k \in StationaryKeys(tracks')
    BY <1>8, <1>11, StillKeys
<1> QED
    BY <1>10, <1>11

-----------------------------------------------------------------------------
(* Candidates. *)

CandidateOf(k, now, other) ==
    [rule |-> k[1], track |-> k[2], time |-> now, other |-> other]

\* The fields of a candidate.
LEMMA CandidateOfKey ==
    ASSUME NEW ts, NEW k \in Rules \X Active(ts), NEW now, NEW other
    PROVE  LET c == CandidateOf(k, now, other) IN
           /\ c.rule = k[1] /\ c.track = k[2] /\ c.time = now /\ c.other = other
           /\ Key(c) = k
BY DEF CandidateOf, Key

\* What makes a candidate: the key that its rule looks at, long enough in its state
\* (_zone_presence, _stationary, _track_rule and _near_miss of vision/rules.py).
LEMMA CandidateKinds ==
    ASSUME NEW ts, NEW first, NEW since, NEW now,
           NEW c \in Candidate(ts, first, since, now)
    PROVE  /\ Key(c) \in Rules \X Active(ts)
           /\ c.rule \in Rules /\ c.track \in Active(ts) /\ c.time = now
           /\ c.other = 0 \/ c.other \in Active(ts)
           /\ c.rule.type \in ZoneTypes =>
                /\ Key(c) \in Inside(ts) /\ now - first[Key(c)] >= c.rule.debounce
                /\ c = CandidateOf(Key(c), now, 0)
           /\ c.rule.type = "equipment_left_behind" =>
                Key(c) \in Still(ts) /\ now - since[Key(c)] >= c.rule.dwell
<1> DEFINE Keyed == Rules \X Active(ts)
           Zoned == {k \in Inside(ts) : now - first[k] >= k[1].debounce}
           Stopped == {k \in Still(ts) : now - since[k] >= k[1].dwell}
           Fast == {k \in Keys({"excess_speed"}, ts) : TooFast(k[1], ts[k[2]])}
           Wrong == {k \in Keys({"wrong_way"}, ts) : WrongWay(k[1], ts[k[2]])}
           Near(j) == {k \in Keys({"candidate_near_miss"}, ts) :
                        /\ k[2] < j /\ Eligible(k[1], ts[j])
                        /\ NearMiss(k[1], ts[k[2]], ts[j])}
<1>1. \/ \E k \in Zoned : c = CandidateOf(k, now, 0)
      \/ \E k \in Stopped : c = CandidateOf(k, now, 0)
      \/ \E k \in Fast : c = CandidateOf(k, now, 0)
      \/ \E k \in Wrong : c = CandidateOf(k, now, 0)
      \/ \E j \in Active(ts) : \E k \in Near(j) : c = CandidateOf(k, now, j)
    BY Zenon DEF Candidate, CandidateOf
<1>2. ASSUME NEW types, NEW k \in Keys(types, ts)
      PROVE  k \in Keyed /\ k[1].type \in types
    BY DEF Keys
<1>3. /\ \A k \in Zoned : k \in Keyed /\ k \in Inside(ts) /\ k[1].type \in ZoneTypes
      /\ \A k \in Stopped : /\ k \in Keyed /\ k \in Still(ts)
                            /\ k[1].type = "equipment_left_behind"
    BY <1>2 DEF Inside, ZoneKeys, Still, StationaryKeys
<1>4. /\ \A k \in Fast : k \in Keyed /\ k[1].type = "excess_speed"
      /\ \A k \in Wrong : k \in Keyed /\ k[1].type = "wrong_way"
      /\ \A j : \A k \in Near(j) : k \in Keyed /\ k[1].type = "candidate_near_miss"
    BY <1>2
<1>5. \A other : \A k \in Keyed :
        LET d == CandidateOf(k, now, other) IN
        /\ d.rule = k[1] /\ d.track = k[2] /\ d.time = now /\ d.other = other
        /\ Key(d) = k
    BY CandidateOfKey
<1>6. CASE \E k \in Zoned : c = CandidateOf(k, now, 0)
    <2>1. PICK k \in Zoned : c = CandidateOf(k, now, 0)
        BY <1>6
    <2>2. k \in Keyed /\ k[1].type \in ZoneTypes
        BY <1>3
    <2>3. /\ c.rule = k[1] /\ c.track = k[2] /\ c.time = now /\ c.other = 0
          /\ Key(c) = k
        BY <2>1, <2>2, <1>5
    <2>4. k[1].type # "equipment_left_behind"
        BY <2>2 DEF ZoneTypes
    <2> QED
        BY <2>1, <2>2, <2>3, <2>4
<1>7. CASE \E k \in Stopped : c = CandidateOf(k, now, 0)
    <2>1. PICK k \in Stopped : c = CandidateOf(k, now, 0)
        BY <1>7
    <2>2. k \in Keyed /\ k[1].type = "equipment_left_behind"
        BY <1>3
    <2>3. /\ c.rule = k[1] /\ c.track = k[2] /\ c.time = now /\ c.other = 0
          /\ Key(c) = k
        BY <2>1, <2>2, <1>5
    <2>4. k[1].type \notin ZoneTypes
        BY <2>2 DEF ZoneTypes
    <2> QED
        BY <2>1, <2>2, <2>3, <2>4
<1>8. ASSUME NEW k \in Keyed, NEW j, c = CandidateOf(k, now, j),
             j = 0 \/ j \in Active(ts),
             k[1].type \in {"excess_speed", "wrong_way", "candidate_near_miss"}
      PROVE  /\ Key(c) \in Keyed
             /\ c.rule \in Rules /\ c.track \in Active(ts) /\ c.time = now
             /\ c.other = 0 \/ c.other \in Active(ts)
             /\ c.rule.type \notin ZoneTypes /\ c.rule.type # "equipment_left_behind"
    <2>1. /\ c.rule = k[1] /\ c.track = k[2] /\ c.time = now /\ c.other = j
          /\ Key(c) = k
        BY <1>8, <1>5
    <2>2. k[1].type \notin ZoneTypes /\ k[1].type # "equipment_left_behind"
        BY <1>8 DEF ZoneTypes
    <2> QED
        BY <2>1, <2>2, <1>8
<1>9. CASE \/ \E k \in Fast : c = CandidateOf(k, now, 0)
           \/ \E k \in Wrong : c = CandidateOf(k, now, 0)
           \/ \E j \in Active(ts) : \E k \in Near(j) : c = CandidateOf(k, now, j)
    <2>1. PICK k \in Keyed, j \in {0} \cup Active(ts) :
            /\ c = CandidateOf(k, now, j)
            /\ k[1].type \in {"excess_speed", "wrong_way", "candidate_near_miss"}
        <3> HIDE DEF Fast, Wrong, Near
        <3> QED
            BY <1>4, <1>9
    <2> QED
        BY <2>1, <1>8
<1> QED
    BY <1>1, <1>6, <1>7, <1>9

\* A track that is long enough inside of the zone of a rule is a candidate.
LEMMA CandidateInside ==
    ASSUME NEW ts, NEW first, NEW since, NEW now,
           NEW k \in Inside(ts), now - first[k] >= k[1].debounce
    PROVE  CandidateOf(k, now, 0) \in Candidate(ts, first, since, now)
BY Zenon DEF Candidate, CandidateOf

\* What holds of a presence holds of its later part.
LEMMA PresentLater ==
    ASSUME NEW s, NEW zone, NEW t \in Int, NEW u \in Int, NEW v \in Int,
           NEW F \in SUBSET Int, s[1].time \in Int,
           Present(s, zone, t, v, F), t <= u
    PROVE  Present(s, zone, u, v, F)
<1>1. s[1].time <= u
    BY DEF Present
<1>2. F \cap u..v \subseteq F \cap t..v
    OBVIOUS
<1> QED
    BY <1>1, <1>2 DEF Present

-----------------------------------------------------------------------------
(* What the alerts report. *)

\* What an alert reports has lasted, in the frames and points of its track.
AlertsHeld ==
    \A a \in alerts :
        /\ a.rule \in Rules /\ a.track \in DOMAIN tracks
        /\ a.time \in Frames /\ a.other \in Nat
        /\ a.rule.type \in ZoneTypes =>
            Present(tracks[a.track].points, a.rule.zone,
                    a.time - a.rule.debounce, a.time, Frames)
        /\ a.rule.type = "equipment_left_behind" =>
            StillFrom(tracks[a.track].points, a.rule,
                      a.time - a.rule.dwell, a.time)

SightingsInv ==
    ZoneSightings /\ SightingsComplete /\ StillSightings /\ AlertsHeld

\* The dicts after a frame have the keys of what it has seen.
LEMMA SeenKeys ==
    ASSUME NEW detections \in Scenes, Analyse(detections)
    PROVE  LET now == Time(Len(observations)) IN
           /\ Inside(tracks') \subseteq DOMAIN firstSeen'
           /\ Still(tracks') \subseteq DOMAIN stationarySince'
           /\ alerts' = alerts \cup
                Emitted(Candidate(tracks', firstSeen', stationarySince', now))
<1> DEFINE now == Time(Len(observations))
<1>1. /\ firstSeen' = FirstSeen(tracks', now)
      /\ stationarySince' = StationarySince(tracks', now)
      /\ alerts' = alerts \cup
            Emitted(Candidate(tracks', FirstSeen(tracks', now),
                              StationarySince(tracks', now), now))
    BY DEF Analyse, Evaluate
<1>2. /\ Inside(tracks') \subseteq DOMAIN FirstSeen(tracks', now)
      /\ Still(tracks') \subseteq DOMAIN StationarySince(tracks', now)
    BY DEF FirstSeen, StationarySince, KeepOrSet
<1> QED
    BY <1>1, <1>2

\* A new alert reports what has lasted up to its frame.
LEMMA NewAlertsHeld ==
    ASSUME LoopInv', ZoneSightings', StillSightings',
           NEW now \in Int, Now' = now, now \in Frames', Frames' \in SUBSET Int,
           Inside(tracks') \subseteq DOMAIN firstSeen',
           Still(tracks') \subseteq DOMAIN stationarySince',
           NEW a \in Emitted(Candidate(tracks', firstSeen', stationarySince', now))
    PROVE  /\ a.rule \in Rules /\ a.track \in DOMAIN tracks'
           /\ a.time \in Frames' /\ a.other \in Nat
           /\ a.rule.type \in ZoneTypes =>
                Present(tracks'[a.track].points, a.rule.zone,
                        a.time - a.rule.debounce, a.time, Frames')
           /\ a.rule.type = "equipment_left_behind" =>
                StillFrom(tracks'[a.track].points, a.rule,
                          a.time - a.rule.dwell, a.time)
<1>1. a \in Candidate(tracks', firstSeen', stationarySince', now)
    BY DEF Emitted
<1>2. /\ Key(a) \in Rules \X Active(tracks')
      /\ a.rule \in Rules /\ a.track \in Active(tracks') /\ a.time = now
      /\ a.other = 0 \/ a.other \in Active(tracks')
      /\ a.rule.type \in ZoneTypes =>
            Key(a) \in Inside(tracks') /\ now - firstSeen'[Key(a)] >= a.rule.debounce
      /\ a.rule.type = "equipment_left_behind" =>
            Key(a) \in Still(tracks') /\ now - stationarySince'[Key(a)] >= a.rule.dwell
    BY <1>1, CandidateKinds
<1>3. \A i \in Active(tracks') : i \in DOMAIN tracks' /\ tracks'[i].active
    BY DEF Active
<1>4. PICK i \in DOMAIN tracks' : i = a.track /\ tracks'[i].active
    BY <1>2, <1>3
<1>5. \A j \in DOMAIN tracks' : j \in Nat
    BY DEF LoopInv, TracksKept
<1>6. /\ a.rule.debounce \in Nat /\ a.rule.dwell \in Nat
    BY <1>2, RuleTypesDiffer
<1>7. PICK s \in Seq(TrackPoint) : s = tracks'[i].points /\ s # <<>>
    <2>1. tracks'[i] \in TrackState /\ tracks'[i].points # <<>>
        BY DEF LoopInv, TracksKept
    <2>2. PICK t \in TrackState : t = tracks'[i]
        BY <2>1
    <2>3. t.points \in Seq(TrackPoint)
        BY DEF TrackState
    <2> QED
        BY <2>1, <2>2, <2>3
<1>8. Key(a)[1] = a.rule /\ Key(a)[2] = i
    BY <1>4 DEF Key
<1>9. ASSUME a.rule.type \in ZoneTypes
      PROVE  Present(s, a.rule.zone, now - a.rule.debounce, now, Frames')
    <2>1. PICK k : k = Key(a)
        OBVIOUS
    <2>2. k \in DOMAIN firstSeen' /\ now - firstSeen'[k] >= a.rule.debounce
        BY <2>1, <1>2, <1>9
    <2>3. firstSeen'[k] \in Int /\ Present(s, k[1].zone, firstSeen'[k], now, Frames')
        BY <2>1, <2>2, <1>4, <1>7, <1>8 DEF ZoneSightings
    <2>4. s[1].time \in Int
        <3>1. s[1] \in TrackPoint
            BY <1>7
        <3> QED
            BY <3>1 DEF TrackPoint
    <2>5. PICK f \in Int : f = firstSeen'[k]
        BY <2>3
    <2>6. f <= now - a.rule.debounce /\ now - a.rule.debounce \in Int
        BY <2>2, <2>5, <1>6
    <2>7. Present(s, a.rule.zone, f, now, Frames')
        BY <2>1, <2>3, <2>5, <1>8
    <2> QED
        BY <2>4, <2>6, <2>7, PresentLater
<1>10. ASSUME a.rule.type = "equipment_left_behind"
       PROVE  StillFrom(s, a.rule, now - a.rule.dwell, now)
    <2>1. PICK k : k = Key(a)
        OBVIOUS
    <2>2. k \in DOMAIN stationarySince' /\ now - stationarySince'[k] >= a.rule.dwell
        BY <2>1, <1>2, <1>10
    <2>3. PICK f \in Int : f = stationarySince'[k]
        BY <2>2 DEF StillSightings
    <2>4. StillFrom(s, a.rule, f, now)
        BY <2>1, <2>2, <2>3, <1>4, <1>7, <1>8 DEF StillSightings
    <2>5. \A x \in Int : x \in (now - a.rule.dwell)..now => x \in f..now
        BY <2>2, <2>3, <1>6
    <2>6. \A n \in 2..Len(s) : s[n].time \in Int
        <3>1. \A n \in 2..Len(s) : s[n] \in TrackPoint
            BY <1>7
        <3> QED
            BY <3>1 DEF TrackPoint
    <2> QED
        BY <2>4, <2>5, <2>6 DEF StillFrom
<1>11. a.other \in Nat
    BY <1>2, <1>3, <1>5
<1> QED
    BY <1>2, <1>4, <1>7, <1>9, <1>10, <1>11

\* A frame changes nothing in what the alerts before it reported.
LEMMA AlertsStep ==
    ASSUME LoopInv, SightingsInv, NEW detections \in Scenes, Analyse(detections)
    PROVE  SightingsInv'
<1> DEFINE now == Time(Len(observations))
<1>1. /\ now \in Int /\ Now \in Int /\ Now < now /\ Now' = now
      /\ Frames \in SUBSET Int /\ \A f \in Frames : f <= Now
      /\ Frames' = Frames \cup {now}
      /\ \A i \in DOMAIN tracks :
            /\ i \in DOMAIN tracks'
            /\ \E z \in TrackPoint :
                    /\ z.time = now
                    /\ \/ tracks'[i].points = tracks[i].points
                       \/ tracks'[i].points = Append(tracks[i].points, z)
      /\ LoopInv'
    BY FrameContext
<1>2. /\ ZoneSightings' /\ SightingsComplete' /\ StillSightings'
    BY SightingsStep, StillStep DEF SightingsInv
<1>3. /\ Inside(tracks') \subseteq DOMAIN firstSeen'
      /\ Still(tracks') \subseteq DOMAIN stationarySince'
      /\ alerts' = alerts \cup
            Emitted(Candidate(tracks', firstSeen', stationarySince', now))
    BY SeenKeys
<1> HIDE DEF now
<1>4. ASSUME NEW a \in Emitted(Candidate(tracks', firstSeen', stationarySince', now))
      PROVE  /\ a.rule \in Rules /\ a.track \in DOMAIN tracks'
             /\ a.time \in Frames' /\ a.other \in Nat
             /\ a.rule.type \in ZoneTypes =>
                    Present(tracks'[a.track].points, a.rule.zone,
                            a.time - a.rule.debounce, a.time, Frames')
             /\ a.rule.type = "equipment_left_behind" =>
                    StillFrom(tracks'[a.track].points, a.rule,
                              a.time - a.rule.dwell, a.time)
    <2>1. now \in Frames' /\ Frames' \in SUBSET Int
        BY <1>1
    <2> QED
        BY <2>1, <1>1, <1>2, <1>3, NewAlertsHeld
<1>5. ASSUME NEW a \in alerts
      PROVE  /\ a.rule \in Rules /\ a.track \in DOMAIN tracks'
             /\ a.time \in Frames' /\ a.other \in Nat
             /\ a.rule.type \in ZoneTypes =>
                    Present(tracks'[a.track].points, a.rule.zone,
                            a.time - a.rule.debounce, a.time, Frames')
             /\ a.rule.type = "equipment_left_behind" =>
                    StillFrom(tracks'[a.track].points, a.rule,
                              a.time - a.rule.dwell, a.time)
    <2>1. /\ a.rule \in Rules /\ a.track \in DOMAIN tracks
          /\ a.time \in Frames /\ a.other \in Nat
          /\ a.rule.type \in ZoneTypes =>
                Present(tracks[a.track].points, a.rule.zone,
                        a.time - a.rule.debounce, a.time, Frames)
          /\ a.rule.type = "equipment_left_behind" =>
                StillFrom(tracks[a.track].points, a.rule,
                          a.time - a.rule.dwell, a.time)
        BY DEF SightingsInv, AlertsHeld
    <2>2. PICK i \in DOMAIN tracks : i = a.track
        BY <2>1
    <2>3. PICK s : s = tracks[i].points
        OBVIOUS
    <2>4. s \in Seq(TrackPoint) /\ s # <<>>
        BY <2>3, TrackTypes DEF LoopInv
    <2>5. PICK w : w = tracks'[i].points
        OBVIOUS
    <2>6. PICK z \in TrackPoint : z.time = now /\ (w = s \/ w = Append(s, z))
        BY <2>3, <2>5, <1>1
    <2>7. /\ a.time \in Int /\ a.time < now
          /\ a.time - a.rule.debounce \in Int /\ a.time - a.rule.dwell \in Int
        <3>1. a.rule.debounce \in Nat /\ a.rule.dwell \in Nat
            BY <2>1, RuleTypesDiffer
        <3>2. a.time \in Int /\ a.time <= Now
            BY <2>1, <1>1
        <3> QED
            BY <3>1, <3>2, <1>1
    <2>8. \A zone : \A t \in Int :
            Present(w, zone, t, a.time, Frames \cup {now})
                <=> Present(s, zone, t, a.time, Frames)
        <3>1. ASSUME NEW zone, NEW t \in Int
              PROVE  Present(w, zone, t, a.time, Frames \cup {now})
                        <=> Present(s, zone, t, a.time, Frames)
            BY <2>4, <2>6, <2>7, <1>1, PresentStable
        <3> QED
            BY <3>1
    <2>9. \A t \in Int : StillFrom(w, a.rule, t, a.time) <=> StillFrom(s, a.rule, t, a.time)
        <3>1. ASSUME NEW t \in Int
              PROVE  StillFrom(w, a.rule, t, a.time) <=> StillFrom(s, a.rule, t, a.time)
            BY <2>4, <2>6, <2>7, <1>1, StillStable
        <3> QED
            BY <3>1
    <2> QED
        BY <2>1, <2>2, <2>3, <2>5, <2>7, <2>8, <2>9, <1>1
<1>6. AlertsHeld'
    BY <1>3, <1>4, <1>5 DEF AlertsHeld
<1> QED
    BY <1>2, <1>6 DEF SightingsInv

-----------------------------------------------------------------------------
(* Alerts are debounced. *)

\* The dicts of the rule engine are true to the tracks in every state.
LEMMA SightingsInductive == Spec => [](LoopInv /\ SightingsInv)
<1>1. Init => SightingsInv
    <2> SUFFICES ASSUME Init
                 PROVE  SightingsInv
        OBVIOUS
    <2>1. /\ DOMAIN firstSeen = {} /\ DOMAIN stationarySince = {} /\ alerts = {}
          /\ DOMAIN tracks = {}
        BY DEF Init, TrackerInit, RulesInit
    <2>2. Active(tracks) = {}
        BY <2>1 DEF Active
    <2> QED
        BY <2>1, <2>2 DEF SightingsInv, ZoneSightings, SightingsComplete,
                          StillSightings, AlertsHeld
<1>2. LoopInv /\ SightingsInv /\ [Next]_vars => SightingsInv'
    <2> SUFFICES ASSUME LoopInv, SightingsInv, [Next]_vars
                 PROVE  SightingsInv'
        OBVIOUS
    <2>1. CASE \E detections \in Scenes : Analyse(detections)
        BY <2>1, AlertsStep
    <2>2. CASE EndOfVideo
        <3>1. /\ DOMAIN tracks' = DOMAIN tracks
              /\ \A i \in DOMAIN tracks :
                    /\ tracks'[i].points = tracks[i].points
                    /\ tracks'[i].class = tracks[i].class
                    /\ tracks'[i].active = FALSE
            BY <2>2, EndOfTracks DEF LoopInv
        <3>2. /\ firstSeen' = firstSeen /\ stationarySince' = stationarySince
              /\ alerts' = alerts /\ observations' = observations
            BY <2>2 DEF EndOfVideo, engine
        <3>3. Frames' = Frames
            BY <3>2 DEF Frames
        <3>4. Active(tracks') = {}
            BY <3>1 DEF Active
        <3>5. \A i \in DOMAIN tracks :
                /\ \A rule : Eligible(rule, tracks'[i]) <=> Eligible(rule, tracks[i])
                /\ Moved(tracks'[i]) <=> Moved(tracks[i])
            BY <3>1 DEF Eligible, Moved
        <3>6. ZoneSightings'
            <4>1. ASSUME NEW k \in DOMAIN firstSeen
                  PROVE  /\ k \in Rules \X DOMAIN tracks'
                         /\ k[1].type \in ZoneTypes /\ k[1].zone # {}
                         /\ Eligible(k[1], tracks'[k[2]])
                         /\ firstSeen'[k] \in Frames'
                         /\ ~tracks'[k[2]].active
                <5>1. /\ k \in Rules \X DOMAIN tracks
                      /\ k[1].type \in ZoneTypes /\ k[1].zone # {}
                      /\ Eligible(k[1], tracks[k[2]])
                      /\ firstSeen[k] \in Frames
                    BY DEF SightingsInv, ZoneSightings
                <5>2. PICK i \in DOMAIN tracks : i = k[2]
                    BY <5>1
                <5> QED
                    BY <5>1, <5>2, <3>1, <3>2, <3>3, <3>5
            <4> QED
                BY <4>1, <3>2 DEF ZoneSightings, Eligible
        <3>7. SightingsComplete'
            BY <3>4 DEF SightingsComplete, Active
        <3>8. StillSightings'
            <4>1. ASSUME NEW k \in DOMAIN stationarySince
                  PROVE  /\ k \in Rules \X DOMAIN tracks'
                         /\ k[1].type = "equipment_left_behind"
                         /\ Eligible(k[1], tracks'[k[2]]) /\ Moved(tracks'[k[2]])
                         /\ stationarySince'[k] \in Int
                         /\ ~tracks'[k[2]].active
                <5>1. /\ k \in Rules \X DOMAIN tracks
                      /\ k[1].type = "equipment_left_behind"
                      /\ Eligible(k[1], tracks[k[2]]) /\ Moved(tracks[k[2]])
                      /\ stationarySince[k] \in Int
                    BY DEF SightingsInv, StillSightings
                <5>2. PICK i \in DOMAIN tracks : i = k[2]
                    BY <5>1
                <5> QED
                    BY <5>1, <5>2, <3>1, <3>2, <3>5
            <4> QED
                BY <4>1, <3>2 DEF StillSightings, Eligible, Moved
        <3>9. AlertsHeld'
            <4>1. ASSUME NEW a \in alerts
                  PROVE  /\ a.rule \in Rules /\ a.track \in DOMAIN tracks'
                         /\ a.time \in Frames' /\ a.other \in Nat
                         /\ a.rule.type \in ZoneTypes =>
                                Present(tracks'[a.track].points, a.rule.zone,
                                        a.time - a.rule.debounce, a.time, Frames')
                         /\ a.rule.type = "equipment_left_behind" =>
                                StillFrom(tracks'[a.track].points, a.rule,
                                          a.time - a.rule.dwell, a.time)
                BY <3>1, <3>3 DEF SightingsInv, AlertsHeld
            <4> QED
                BY <4>1, <3>2 DEF AlertsHeld
        <3> QED
            BY <3>6, <3>7, <3>8, <3>9 DEF SightingsInv
    <2>3. CASE UNCHANGED vars
        <3>1. /\ tracks' = tracks /\ firstSeen' = firstSeen /\ alerts' = alerts
              /\ stationarySince' = stationarySince /\ observations' = observations
            BY <2>3 DEF vars, tracker, engine
        <3>2. Frames' = Frames /\ Now' = Now
            BY <3>1 DEF Frames, Now, Time
        <3> QED
            BY <3>1, <3>2 DEF SightingsInv, ZoneSightings, SightingsComplete,
                StillSightings, AlertsHeld, Active, Eligible, Moved
    <2> QED
        BY <2>1, <2>2, <2>3 DEF Next
<1> QED
    BY <1>1, <1>2, LoopInductive, PTL DEF Spec

\* No alert on a zone or on equipment is raised before its condition has lasted for
\* the debounce or the dwell of its rule, in every frame or point of its track
\* (_zone_presence and _stationary of vision/rules.py).
THEOREM DebounceTheorem == Spec => []AlertsAreDebounced
<1>1. AlertsHeld => AlertsAreDebounced
    <2> SUFFICES ASSUME AlertsHeld
                 PROVE  AlertsAreDebounced
        OBVIOUS
    <2>1. ASSUME NEW a \in alerts, a.rule.type \in ZoneTypes
          PROVE  InZone(a.rule, a.track, a.time - a.rule.debounce, a.time)
        BY <2>1, InZonePresent DEF AlertsHeld
    <2>2. ASSUME NEW a \in alerts, a.rule.type = "equipment_left_behind"
          PROVE  StillFrom(tracks[a.track].points, a.rule,
                           a.time - a.rule.dwell, a.time)
        BY <2>2 DEF AlertsHeld
    <2>3. ZoneAlertsAreDebounced
        BY <2>1 DEF ZoneAlertsAreDebounced
    <2>4. StationaryAlertsAreDebounced
        BY <2>2 DEF StationaryAlertsAreDebounced, StillFrom
    <2> QED
        BY <2>3, <2>4 DEF AlertsAreDebounced
<1> QED
    BY <1>1, SightingsInductive, PTL DEF SightingsInv

-----------------------------------------------------------------------------
(* Cooldown, and what it may hold back. *)

\* last_alert has the time of the last alert of a rule and track.
LastAlertKnown ==
    /\ \A a \in alerts :
        /\ a.rule \in Rules
        /\ a.time \in Int
        /\ Key(a) \in DOMAIN lastAlert
        /\ lastAlert[Key(a)] \in Int
        /\ a.time <= lastAlert[Key(a)]
    /\ \A k \in DOMAIN lastAlert :
        \E a \in alerts : Key(a) = k /\ a.time = lastAlert[k]

\* A presence that has lasted for the debounce has an alert that is new, or one
\* whose cooldown still runs.
PresenceReported ==
    ~finalized =>
        \A k \in DOMAIN firstSeen :
            tracks[k[2]].active /\ Now - firstSeen[k] >= k[1].debounce =>
                \E a \in alerts :
                    /\ Key(a) = k
                    /\ a.time = Now \/ Now - a.time < k[1].cooldown

CooldownInv == LastAlertKnown /\ AlertsKeepCooldown /\ PresenceReported

\* The candidates of a frame that are emitted.
LEMMA EmittedFacts ==
    ASSUME NEW detections \in Scenes, Analyse(detections)
    PROVE  LET now == Time(Len(observations))
               all == Candidate(tracks', firstSeen', stationarySince', now)
               new == Emitted(all)
               keys == {Key(c) : c \in new}
           IN
           /\ lastAlert' = [k \in DOMAIN lastAlert \cup keys |->
                                IF k \in keys THEN now ELSE lastAlert[k]]
           /\ alerts' = alerts \cup new
           /\ \A c \in new : /\ c \in all /\ c.rule \in Rules /\ c.time = now
                             /\ Cooled(c)
                             /\ c.rule.cooldown = 0 \/ c = FirstPartner(all, Key(c))
<1> DEFINE now == Time(Len(observations))
           all == Candidate(tracks', firstSeen', stationarySince', now)
           new == Emitted(all)
           keys == {Key(c) : c \in new}
<1>1. /\ firstSeen' = FirstSeen(tracks', now)
      /\ stationarySince' = StationarySince(tracks', now)
      /\ LET n == Emitted(Candidate(tracks', FirstSeen(tracks', now),
                                    StationarySince(tracks', now), now))
             ks == {Key(c) : c \in n}
         IN  /\ lastAlert' = [k \in DOMAIN lastAlert \cup ks |->
                                IF k \in ks THEN now ELSE lastAlert[k]]
             /\ alerts' = alerts \cup n
    BY DEF Analyse, Evaluate
<1>2. /\ lastAlert' = [k \in DOMAIN lastAlert \cup keys |->
                                IF k \in keys THEN now ELSE lastAlert[k]]
      /\ alerts' = alerts \cup new
    BY <1>1
<1>3. \A c \in new : /\ c \in all /\ c.rule \in Rules /\ c.time = now
                     /\ Cooled(c)
                     /\ c.rule.cooldown = 0 \/ c = FirstPartner(all, Key(c))
    BY CandidateKinds DEF Emitted
<1> QED
    BY <1>2, <1>3

\* A frame keeps last_alert at the time of the last alert of its key.
LEMMA LastAlertStep ==
    ASSUME LoopInv, LastAlertKnown, NEW detections \in Scenes, Analyse(detections)
    PROVE  LastAlertKnown'
<1> DEFINE now == Time(Len(observations))
           all == Candidate(tracks', firstSeen', stationarySince', now)
           new == Emitted(all)
           keys == {Key(c) : c \in new}
<1>1. now \in Int
    BY FrameFacts DEF LoopInv
<1>2. /\ lastAlert' = [k \in DOMAIN lastAlert \cup keys |->
                                IF k \in keys THEN now ELSE lastAlert[k]]
      /\ alerts' = alerts \cup new
      /\ \A c \in new : c.rule \in Rules /\ c.time = now /\ Cooled(c)
    BY EmittedFacts
<1> HIDE DEF now, all, new
<1>3. ASSUME NEW a \in alerts'
      PROVE  /\ a.rule \in Rules
             /\ a.time \in Int
             /\ Key(a) \in DOMAIN lastAlert'
             /\ lastAlert'[Key(a)] \in Int
             /\ a.time <= lastAlert'[Key(a)]
    <2>1. CASE a \in new
        BY <2>1, <1>1, <1>2
    <2>2. CASE a \in alerts /\ Key(a) \notin keys
        BY <2>2, <1>2 DEF LastAlertKnown
    <2>3. CASE a \in alerts /\ Key(a) \in keys
        <3>1. PICK c \in new : Key(c) = Key(a)
            BY <2>3
        <3>2. now - lastAlert[Key(a)] >= c.rule.cooldown /\ c.rule.cooldown \in Nat
            BY <3>1, <2>3, <1>2, RuleTypesDiffer DEF Cooled, LastAlertKnown
        <3> QED
            BY <3>2, <2>3, <1>1, <1>2 DEF LastAlertKnown
    <2> QED
        BY <2>1, <2>2, <2>3, <1>2
<1>4. ASSUME NEW k \in DOMAIN lastAlert'
      PROVE  \E a \in alerts' : Key(a) = k /\ a.time = lastAlert'[k]
    <2>1. CASE k \in keys
        <3>1. PICK c \in new : Key(c) = k
            BY <2>1
        <3> QED
            BY <3>1, <2>1, <1>2
    <2>2. CASE k \notin keys
        <3>1. PICK a \in alerts : Key(a) = k /\ a.time = lastAlert[k]
            BY <2>2, <1>2 DEF LastAlertKnown
        <3> QED
            BY <3>1, <2>2, <1>2
    <2> QED
        BY <2>1, <2>2
<1> QED
    BY <1>3, <1>4 DEF LastAlertKnown, Key

\* An alert of a key that is known is at least a cooldown later than the last one,
\* and of two new ones there is one.
LEMMA CooldownStep ==
    ASSUME LoopInv, LastAlertKnown, AlertsKeepCooldown,
           NEW detections \in Scenes, Analyse(detections)
    PROVE  AlertsKeepCooldown'
<1> DEFINE now == Time(Len(observations))
           all == Candidate(tracks', firstSeen', stationarySince', now)
           new == Emitted(all)
<1>1. now \in Int
    BY FrameFacts DEF LoopInv
<1>2. /\ alerts' = alerts \cup new
      /\ \A c \in new : /\ c.rule \in Rules /\ c.time = now /\ Cooled(c)
                        /\ c.rule.cooldown = 0 \/ c = FirstPartner(all, Key(c))
    BY EmittedFacts
<1> HIDE DEF now, all, new
<1>3. ASSUME NEW a \in new, NEW b \in new, Key(a) = Key(b), a # b
      PROVE  Dist(a.time, b.time) >= a.rule.cooldown
    <2>1. a.rule = b.rule
        BY <1>3 DEF Key
    <2>2. a.rule.cooldown = 0
        BY <2>1, <1>2, <1>3
    <2> QED
        BY <2>2, <1>1, <1>2 DEF Dist
<1>4. ASSUME NEW a \in new, NEW b \in alerts, Key(a) = Key(b)
      PROVE  /\ Dist(a.time, b.time) >= a.rule.cooldown
             /\ Dist(b.time, a.time) >= b.rule.cooldown
    <2>1. Key(a) \in DOMAIN lastAlert /\ a.rule = b.rule
        BY <1>4 DEF LastAlertKnown, Key
    <2>2. a.time - lastAlert[Key(a)] >= a.rule.cooldown
        BY <2>1, <1>2 DEF Cooled
    <2>3. /\ lastAlert[Key(a)] \in Int /\ b.time \in Int
          /\ b.time <= lastAlert[Key(a)]
        BY <1>4 DEF LastAlertKnown
    <2>4. a.rule.cooldown \in Nat
        BY <1>2, RuleTypesDiffer
    <2> QED
        BY <2>1, <2>2, <2>3, <2>4, <1>1, <1>2 DEF Dist
<1> SUFFICES ASSUME NEW a \in alerts', NEW b \in alerts', Key(a) = Key(b), a # b
             PROVE  Dist(a.time, b.time) >= a.rule.cooldown
    BY DEF AlertsKeepCooldown, Key, Dist
<1>5. CASE a \in alerts /\ b \in alerts
    BY <1>5 DEF AlertsKeepCooldown
<1> QED
    BY <1>2, <1>3, <1>4, <1>5

\* The track of a key that is in first_seen is inside at the frame, and a candidate
\* once it was for the debounce: emitted, or held by the cooldown of an alert.
LEMMA PresenceStep ==
    ASSUME LoopInv, SightingsInv, LastAlertKnown,
           NEW detections \in Scenes, Analyse(detections)
    PROVE  PresenceReported'
<1> DEFINE now == Time(Len(observations))
           all == Candidate(tracks', firstSeen', stationarySince', now)
           new == Emitted(all)
<1>1. Now' = now /\ now \in Int
    BY FrameFacts DEF LoopInv
<1>2. alerts' = alerts \cup new
    BY EmittedFacts
<1>3. \A k \in DOMAIN firstSeen' : tracks'[k[2]].active => k \in Inside(tracks')
    BY SightingsStep DEF SightingsInv
<1> SUFFICES ASSUME NEW k \in DOMAIN firstSeen', tracks'[k[2]].active,
                    now - firstSeen'[k] >= k[1].debounce
             PROVE  \E a \in alerts' :
                        /\ Key(a) = k
                        /\ a.time = now \/ now - a.time < k[1].cooldown
    BY <1>1 DEF PresenceReported, Key
<1> DEFINE c == CandidateOf(k, now, 0)
<1>4. k \in Inside(tracks')
    BY <1>3
<1>5. /\ k \in Rules \X Active(tracks') /\ k[1].type \in ZoneTypes
    BY <1>4 DEF Inside, ZoneKeys, Keys
<1>6. c.rule = k[1] /\ c.track = k[2] /\ c.time = now /\ c.other = 0 /\ Key(c) = k
    BY <1>5, CandidateOfKey
<1>7. c \in all
    BY <1>4, CandidateInside
<1>8. ASSUME NEW d \in all, Key(d) = k
      PROVE  d = c
    <2>1. d.rule = k[1]
        BY <1>8 DEF Key
    <2> QED
        BY <2>1, <1>5, <1>8, CandidateKinds
<1> HIDE DEF c, now, all
<1>9. c = FirstPartner(all, Key(c))
    <2>1. Key(c) = k /\ \A d \in all : Key(d) = k => c.other <= d.other
        BY <1>6, <1>8
    <2>2. \A d \in all :
            (/\ Key(d) = k /\ \A e \in all : Key(e) = k => d.other <= e.other) => d = c
        BY <1>8
    <2> QED
        BY <2>1, <2>2, <1>6, <1>7 DEF FirstPartner
<1>10. CASE Cooled(c)
    <2>1. c \in new
        BY <1>7, <1>9, <1>10 DEF Emitted
    <2> QED
        BY <2>1, <1>2, <1>6
<1>11. CASE ~Cooled(c)
    <2>1. k \in DOMAIN lastAlert /\ ~(now - lastAlert[k] >= k[1].cooldown)
        BY <1>6, <1>11 DEF Cooled
    <2>2. PICK a \in alerts : Key(a) = k /\ a.time = lastAlert[k] /\ a.time \in Int
        BY <2>1 DEF LastAlertKnown
    <2>3. k[1].cooldown \in Nat
        BY <1>5, RuleTypesDiffer
    <2> QED
        BY <2>1, <2>2, <2>3, <1>1, <1>2
<1> QED
    BY <1>10, <1>11

\* The invariant of the cooldown holds in every state.
LEMMA CooldownInductive == Spec => []CooldownInv
<1>1. Init => CooldownInv
    BY DEF Init, RulesInit, CooldownInv, LastAlertKnown, AlertsKeepCooldown,
           PresenceReported
<1>2. LoopInv /\ SightingsInv /\ CooldownInv /\ [Next]_vars => CooldownInv'
    <2> SUFFICES ASSUME LoopInv, SightingsInv, CooldownInv, [Next]_vars
                 PROVE  CooldownInv'
        OBVIOUS
    <2>1. CASE \E detections \in Scenes : Analyse(detections)
        BY <2>1, LastAlertStep, CooldownStep, PresenceStep DEF CooldownInv
    <2>2. CASE EndOfVideo
        <3>1. finalized' /\ alerts' = alerts /\ lastAlert' = lastAlert
            BY <2>2 DEF EndOfVideo, engine
        <3> QED
            BY <3>1 DEF CooldownInv, LastAlertKnown, AlertsKeepCooldown,
                        PresenceReported, Key
    <2>3. CASE UNCHANGED vars
        <3>1. Now' = Now
            BY <2>3 DEF vars, Now, Time
        <3> QED
            BY <2>3, <3>1 DEF vars, tracker, engine, CooldownInv, LastAlertKnown,
                              AlertsKeepCooldown, PresenceReported, Key
    <2> QED
        BY <2>1, <2>2, <2>3 DEF Next
<1> QED
    BY <1>1, <1>2, SightingsInductive, PTL DEF Spec

\* Two alerts of one rule and track are at least the rule's cooldown apart
\* (_emit of vision/rules.py).
THEOREM CooldownTheorem == Spec => []AlertsKeepCooldown
<1>1. CooldownInv => AlertsKeepCooldown
    BY DEF CooldownInv
<1> QED
    BY <1>1, CooldownInductive, PTL

\* A presence that lasts for the debounce is reported, or its last alert is younger
\* than the cooldown (_zone_presence and _emit of vision/rules.py).
THEOREM PresenceTheorem == Spec => []LastingPresenceIsReported
<1>1. LoopInv /\ SightingsInv /\ CooldownInv => LastingPresenceIsReported
    <2> SUFFICES ASSUME LoopInv, SightingsInv, CooldownInv,
                        NEW rule \in Rules, NEW i \in Active(tracks), NEW t \in Frames,
                        ~finalized, rule.type \in ZoneTypes,
                        Eligible(rule, tracks[i]), Now - t >= rule.debounce,
                        InZone(rule, i, t, Now)
                 PROVE  \E a \in alerts :
                            /\ a.rule = rule /\ a.track = i
                            /\ a.time = Now \/ Now - a.time < rule.cooldown
        BY DEF LastingPresenceIsReported
    <2>1. PICK k : k = <<rule, i>>
        OBVIOUS
    <2>2. k[1] = rule /\ k[2] = i
        BY <2>1
    <2>3. Present(tracks[i].points, rule.zone, t, Now, Frames)
        BY InZonePresent
    <2>4. k \in DOMAIN firstSeen /\ firstSeen[k] <= t
        BY <2>1, <2>3 DEF SightingsInv, SightingsComplete
    <2>5. Frames \in SUBSET Int /\ Now \in Int
        BY FrameOrder DEF LoopInv, Frames
    <2>6. firstSeen[k] \in Int
        BY <2>4, <2>5 DEF SightingsInv, ZoneSightings
    <2>7. rule.debounce \in Nat
        BY RuleTypesDiffer
    <2>8. Now - firstSeen[k] >= rule.debounce
        BY <2>4, <2>5, <2>6, <2>7
    <2>9. tracks[i].active
        BY DEF Active
    <2>10. PICK a \in alerts : /\ Key(a) = k
                               /\ a.time = Now \/ Now - a.time < k[1].cooldown
        BY <2>2, <2>4, <2>8, <2>9 DEF CooldownInv, PresenceReported
    <2>11. a.rule = rule /\ a.track = i
        BY <2>1, <2>10 DEF Key
    <2> QED
        BY <2>2, <2>10, <2>11
<1> QED
    BY <1>1, LoopInductive, SightingsInductive, CooldownInductive, PTL

-----------------------------------------------------------------------------
(* Deduplication and evidence. *)

\* Times of one bucket are less than its width apart.
LEMMA SameBucket ==
    ASSUME NEW x \in Nat, NEW y \in Nat, NEW w \in Nat \ {0},
           x \div w = y \div w
    PROVE  x - y < w
<1>1. x \in Int /\ y \in Int /\ w \in Int /\ w > 0
    OBVIOUS
<1> QED
    BY <1>1

\* Alerts have the time of a frame, and those of one key a cooldown between them.
LEMMA AlertTimes ==
    ASSUME LoopInv, SightingsInv, AlertsKeepCooldown
    PROVE  /\ \A a \in alerts : /\ a.time \in Nat /\ a.time \in AnnotatedFrames
                                /\ a.other \in Nat /\ a.rule.cooldown \in Nat
           /\ \A a, b \in alerts : Key(a) = Key(b) /\ a # b =>
                \/ a.time - b.time >= a.rule.cooldown
                \/ b.time - a.time >= a.rule.cooldown
<1>1. \A n \in DOMAIN observations : observations[n].time \in Nat
    <2> SUFFICES ASSUME NEW n \in DOMAIN observations
                 PROVE  observations[n].time \in Nat
        OBVIOUS
    <2>1. Len(observations) \in Nat /\ n \in 1..Len(observations)
        BY FrameOrder DEF LoopInv
    <2>2. PICK m \in Nat : m = n - 1
        BY <2>1
    <2>3. observations[n].time = Time(m)
        BY <2>2 DEF LoopInv, FramesTimed
    <2>4. FrameTime \in Nat
        BY AnalysisAssumption
    <2>5. Time(0) = 0
        BY <2>4 DEF Time
    <2>6. CASE m = 0
        BY <2>3, <2>5, <2>6
    <2>7. CASE m # 0
        <3>1. 0 < m
            BY <2>7
        <3>2. Time(m) \in Int /\ Time(0) < Time(m)
            BY <3>1, TimeGrows
        <3> QED
            BY <2>3, <2>5, <3>2
    <2> QED
        BY <2>6, <2>7
<1>2. \A a \in alerts : /\ a.time \in Nat /\ a.time \in AnnotatedFrames
                        /\ a.other \in Nat /\ a.rule.cooldown \in Nat
    BY <1>1, RuleTypesDiffer DEF SightingsInv, AlertsHeld, Frames, AnnotatedFrames
<1>3. ASSUME NEW a \in alerts, NEW b \in alerts, Key(a) = Key(b), a # b
      PROVE  \/ a.time - b.time >= a.rule.cooldown
             \/ b.time - a.time >= a.rule.cooldown
    BY <1>2, <1>3 DEF AlertsKeepCooldown, Dist
<1> QED
    BY <1>2, <1>3

\* What the deduplication drops repeats a stored alert of the same rule and track
\* (run_processing_job of services/processing.py).
THEOREM DeduplicationTheorem == Spec => []DroppedAlertIsExplained
<1>1. LoopInv /\ SightingsInv /\ AlertsKeepCooldown => DroppedAlertIsExplained
    <2> SUFFICES ASSUME LoopInv, SightingsInv, AlertsKeepCooldown,
                        NEW a \in alerts, ~Stored(a)
                 PROVE  \E b \in alerts :
                            /\ Stored(b) /\ Key(b) = Key(a)
                            /\ a.time - b.time \in 0..(BucketWidth - 1)
                            /\ a.rule.cooldown < BucketWidth
        BY DEF DroppedAlertIsExplained
    <2> DEFINE Same == {b \in alerts : DeduplicationKey(b) = DeduplicationKey(a)}
               Times == {b.time : b \in Same}
    <2>1. \A b \in alerts : /\ b.time \in Nat /\ b.other \in Nat
                            /\ b.rule.cooldown \in Nat
        BY AlertTimes
    <2>2. a \in Same
        OBVIOUS
    <2>3. PICK t \in Times : \A u \in Times : t <= u
        <3>1. Times \in SUBSET Nat /\ Times # {}
            BY <2>1, <2>2
        <3> QED
            BY <3>1, NatMin
    <2> DEFINE Others == {b.other : b \in {c \in Same : c.time = t}}
    <2>4. PICK o \in Others : \A p \in Others : o <= p
        <3>1. Others \in SUBSET Nat /\ Others # {}
            BY <2>1, <2>3
        <3> QED
            BY <3>1, NatMin
    <2>5. PICK b \in Same : b.time = t /\ b.other = o
        BY <2>4
    <2>6. ASSUME NEW c \in Same
          PROVE  ~StoredBefore(c, b)
        <3>1. c.time \in Nat /\ b.time \in Nat /\ c.other \in Nat /\ b.other \in Nat
            BY <2>1
        <3>2. b.time <= c.time
            BY <2>3, <2>5
        <3>3. c.time = b.time => b.other <= c.other
            BY <2>4, <2>5
        <3> QED
            BY <3>1, <3>2, <3>3 DEF StoredBefore
    <2>7. Stored(b)
        BY <2>6 DEF Stored
    <2>8. b # a
        BY <2>7
    <2>9. Key(b) = Key(a) /\ Bucket(a) = Bucket(b)
        BY DEF DeduplicationKey, Key
    <2>10. b.time <= a.time /\ a.time \in Nat /\ b.time \in Nat
        BY <2>1, <2>2, <2>3, <2>5
    <2>11. a.time - b.time < BucketWidth /\ BucketWidth \in Nat
        BY <2>9, <2>10, SameBucket, EvidenceAssumption DEF Bucket
    <2>12. a.rule.cooldown <= a.time - b.time
        <3>1. \/ a.time - b.time >= a.rule.cooldown
              \/ b.time - a.time >= a.rule.cooldown
            BY <2>8, <2>9, AlertTimes
        <3>2. a.rule.cooldown \in Nat
            BY <2>1
        <3> QED
            BY <3>1, <3>2, <2>10
    <2>13. a.rule.cooldown \in Nat
        BY <2>1
    <2> QED
        BY <2>7, <2>9, <2>10, <2>11, <2>12, <2>13
<1> QED
    BY <1>1, SightingsInductive, CooldownTheorem, PTL

\* The first of a set of alerts is an alert, and none is before it.
LEMMA FirstTime ==
    ASSUME LoopInv, SightingsInv, AlertsKeepCooldown,
           NEW A \in SUBSET alerts, A # {}
    PROVE  LET times == {b.time : b \in A}
               first == CHOOSE t \in times : \A u \in times : t <= u
           IN  \E b \in A : b.time = first /\ \A c \in A : first <= c.time
<1> DEFINE times == {b.time : b \in A}
<1>1. times \in SUBSET Nat /\ times # {}
    BY AlertTimes
<1>2. PICK first : first = CHOOSE t \in times : \A u \in times : t <= u
    OBVIOUS
<1>3. first \in times /\ \A u \in times : first <= u
    BY <1>1, <1>2, NatMin
<1> QED
    BY <1>2, <1>3

\* The snapshot and the clip of a stored alert are its own, or those of an earlier
\* alert that is a cooldown older, or too far from it (snapshot_match, clip_match
\* and _extract_clip).
THEOREM EvidenceTheorem == Spec => []EvidenceIsExplained
<1>1. LoopInv /\ SightingsInv /\ AlertsKeepCooldown => EvidenceIsExplained
    <2> SUFFICES ASSUME LoopInv, SightingsInv, AlertsKeepCooldown, NEW a \in alerts
                 PROVE  /\ \/ SnapshotTime(a) = a.time
                           \/ a.time - SnapshotTime(a) >= a.rule.cooldown
                        /\ \A failed \in SUBSET FilesFound(a) :
                            a.time \in EvidenceClip(a, failed)
                            \/ \E b \in FilesFound(a) \ failed :
                                    \/ a.time - b.time > EvidenceAfter
                                    \/ b.time - a.time > EvidenceBefore
        BY DEF EvidenceIsExplained
    <2>1. \A b \in alerts : /\ b.time \in Nat /\ b.time \in AnnotatedFrames
                            /\ b.rule.cooldown \in Nat
        BY AlertTimes
    <2>2. a \in FilesFound(a) /\ FilesFound(a) \in SUBSET alerts
        BY DEF FilesFound
    <2>3. \/ SnapshotTime(a) = a.time
          \/ a.time - SnapshotTime(a) >= a.rule.cooldown
        <3> DEFINE times == {b.time : b \in FilesFound(a)}
        <3>1. SnapshotTime(a) = CHOOSE t \in times : \A u \in times : t <= u
            <4>1. \A t : (\A b \in FilesFound(a) : t <= b.time)
                            <=> (\A u \in times : t <= u)
                OBVIOUS
            <4>2. SnapshotTime(a)
                    = CHOOSE t \in times : \A b \in FilesFound(a) : t <= b.time
                BY DEF SnapshotTime
            <4> QED
                BY <4>1, <4>2
        <3>2. PICK b \in FilesFound(a) :
                /\ b.time = SnapshotTime(a)
                /\ \A c \in FilesFound(a) : SnapshotTime(a) <= c.time
            BY <2>2, <3>1, FirstTime
        <3>3. Key(b) = Key(a) /\ b \in alerts
            BY DEF FilesFound
        <3>4. b.time <= a.time /\ b.time \in Nat /\ a.time \in Nat
              /\ a.rule.cooldown \in Nat
            BY <2>1, <2>2, <3>2, <3>3
        <3>5. CASE b # a
            <4>1. \/ a.time - b.time >= a.rule.cooldown
                  \/ b.time - a.time >= a.rule.cooldown
                BY <3>3, <3>5, AlertTimes
            <4> QED
                BY <4>1, <3>2, <3>4
        <3> QED
            BY <3>2, <3>5
    <2>4. ASSUME NEW failed \in SUBSET FilesFound(a),
                 \A b \in FilesFound(a) \ failed :
                    /\ ~(a.time - b.time > EvidenceAfter)
                    /\ ~(b.time - a.time > EvidenceBefore)
          PROVE  a.time \in EvidenceClip(a, failed)
        <3> DEFINE left == FilesFound(a) \ failed
                   times == {b.time : b \in left}
        <3>1. CASE left = {}
            <4>1. EvidenceClip(a, failed) = AnnotatedFrames
                BY <3>1 DEF EvidenceClip
            <4> QED
                BY <4>1, <2>1
        <3>2. CASE left # {}
            <4>1. PICK first : first = CHOOSE t \in times : \A u \in times : t <= u
                OBVIOUS
            <4>2. EvidenceClip(a, failed) = ClipFrames(first)
                BY <3>2, <4>1 DEF EvidenceClip
            <4>3. left \in SUBSET alerts
                BY <2>2
            <4>4. PICK b \in left : b.time = first
                BY <3>2, <4>1, <4>3, FirstTime
            <4>5. b.time \in Nat /\ a.time \in Nat
                BY <2>1, <4>3
            <4>6. EvidenceBefore \in Nat /\ EvidenceAfter \in Nat
                BY EvidenceAssumption
            <4>7. a.time \in (first - EvidenceBefore)..(first + EvidenceAfter)
                <5>1. /\ ~(a.time - b.time > EvidenceAfter)
                      /\ ~(b.time - a.time > EvidenceBefore)
                    BY <2>4, <4>4
                <5> QED
                    BY <5>1, <4>4, <4>5, <4>6
            <4> QED
                BY <2>1, <4>2, <4>7 DEF ClipFrames
        <3> QED
            BY <3>1, <3>2
    <2> QED
        BY <2>3, <2>4
<1> QED
    BY <1>1, SightingsInductive, CooldownTheorem, PTL

-----------------------------------------------------------------------------
(* Evaluation: the recursive functions of a loop and of a fold exist. *)

\* What holds of 0 and of each number after one for which it holds, up to N.
LEMMA CountUp ==
    ASSUME NEW N \in Nat, NEW T, 0 \in T, \A n \in 1..N : n - 1 \in T => n \in T
    PROVE  \A n \in 0..N : n \in T
<1> DEFINE Bad == {n \in 0..N : n \notin T}
<1>1. ASSUME Bad # {}
      PROVE  FALSE
    <2>1. Bad \in SUBSET Nat
        OBVIOUS
    <2>2. PICK n \in Bad : \A m \in Bad : n <= m
        BY <1>1, <2>1, NatMin
    <2>3. n \in 1..N /\ n - 1 \in 0..N /\ ~(n <= n - 1)
        BY <2>2
    <2> QED
        BY <2>2, <2>3
<1> QED
    BY <1>1

\* A loop of N passes over states in B: what it starts with and what each pass does.
Loop(N, B, base, step) == N \in Nat /\ base \in B /\ step \in [1..N -> [B -> B]]

\* Its states after each number of passes.
Passes(N, B, base, step) ==
    {f \in [0..N -> B] : f[0] = base /\ \A n \in 1..N : f[n] = step[n][f[n - 1]]}

\* A loop has a state after each of its passes.
LEMMA LoopExists ==
    ASSUME NEW N, NEW B, NEW base, NEW step, Loop(N, B, base, step)
    PROVE  Passes(N, B, base, step) # {}
<1> USE DEF Loop
<1> DEFINE Run(k) == \E f \in [0..k -> B] :
                        f[0] = base /\ \A n \in 1..k : f[n] = step[n][f[n - 1]]
           T == {k \in 0..N : Run(k)}
<1>1. Run(0)
    <2> DEFINE f == [n \in 0..0 |-> base]
    <2>1. f \in [0..0 -> B] /\ f[0] = base
        OBVIOUS
    <2>2. 1..0 = {}
        OBVIOUS
    <2> QED
        BY <2>1, <2>2
<1>2. ASSUME NEW k \in 1..N, Run(k - 1)
      PROVE  Run(k)
    <2>1. PICK f \in [0..(k - 1) -> B] :
                f[0] = base /\ \A n \in 1..(k - 1) : f[n] = step[n][f[n - 1]]
        BY <1>2
    <2> DEFINE last == step[k][f[k - 1]]
               g == [n \in 0..k |-> IF n = k THEN last ELSE f[n]]
    <2>2. last \in B
        BY <2>1
    <2>3. g \in [0..k -> B] /\ g[0] = base /\ g[k] = last
        BY <2>1, <2>2
    <2>4. \A n \in 0..(k - 1) : g[n] = f[n]
        OBVIOUS
    <2> HIDE DEF g
    <2>5. ASSUME NEW n \in 1..k
          PROVE  g[n] = step[n][g[n - 1]]
        <3>1. g[n - 1] = f[n - 1]
            BY <2>4
        <3>2. CASE n = k
            BY <3>1, <3>2, <2>3
        <3>3. CASE n # k
            <4>1. n \in 1..(k - 1)
                BY <3>3
            <4> QED
                BY <4>1, <3>1, <2>1, <2>4
        <3> QED
            BY <3>2, <3>3
    <2> QED
        BY <2>3, <2>5
<1> HIDE DEF Run
<1>3. N \in T
    <2>1. 0 \in T /\ \A k \in 1..N : k - 1 \in T => k \in T
        BY <1>1, <1>2
    <2>2. N \in Nat /\ N \in 0..N
        OBVIOUS
    <2> HIDE DEF T
    <2> QED
        BY <2>1, <2>2, CountUp
<1> QED
    BY <1>3 DEF Run, Passes

\* A fold over a finite set, which picks its elements one after the other.
Fold(S, B, base, op, pick) ==
    /\ IsFiniteSet(S) /\ base \in B /\ op \in [S -> [B -> B]]
    /\ \A s \in SUBSET S : s # {} => pick[s] \in s

\* The functions that satisfy the recursive definition of such a fold.
FoldValues(S, B, base, op, pick) ==
    {f \in [SUBSET S -> B] : \A s \in SUBSET S :
        f[s] = IF s = {} THEN base ELSE op[pick[s]][f[s \ {pick[s]}]]}

\* A fold has a value for each subset of its set.
LEMMA FoldExists ==
    ASSUME NEW S, NEW B, NEW base, NEW op, NEW pick, Fold(S, B, base, op, pick)
    PROVE  FoldValues(S, B, base, op, pick) # {}
<1> USE DEF Fold
<1> DEFINE Small(k) == {s \in SUBSET S : Cardinality(s) <= k}
           Value(f, s) == IF s = {} THEN base ELSE op[pick[s]][f[s \ {pick[s]}]]
           N == Cardinality(S)
           Run(k) == \E f \in [Small(k) -> B] : \A s \in Small(k) : f[s] = Value(f, s)
           T == {k \in 0..N : Run(k)}
<1>1. /\ N \in Nat
      /\ \A s \in SUBSET S : Cardinality(s) \in Nat /\ Cardinality(s) <= N
    BY FS_Subset, FS_CardinalityType
<1>2. ASSUME NEW s \in SUBSET S, s # {}
      PROVE  /\ pick[s] \in S /\ s \ {pick[s]} \in SUBSET S
             /\ Cardinality(s \ {pick[s]}) = Cardinality(s) - 1
    <2>1. pick[s] \in s
        BY <1>2
    <2>2. IsFiniteSet(s)
        BY FS_Subset
    <2>3. Cardinality(s \ {pick[s]}) = Cardinality(s) - 1
        BY <2>1, <2>2, FS_RemoveElement
    <2> QED
        BY <2>1, <2>3
<1>3. Run(0)
    <2> DEFINE f == [s \in Small(0) |-> base]
    <2>1. f \in [Small(0) -> B]
        OBVIOUS
    <2>2. ASSUME NEW s \in Small(0)
          PROVE  s = {}
        <3>1. IsFiniteSet(s) /\ Cardinality(s) = 0
            BY <1>1, FS_Subset
        <3> QED
            BY <3>1, FS_EmptySet
    <2> QED
        BY <2>1, <2>2
<1>4. ASSUME NEW k \in 1..N, Run(k - 1)
      PROVE  Run(k)
    <2>1. PICK f \in [Small(k - 1) -> B] : \A s \in Small(k - 1) : f[s] = Value(f, s)
        BY <1>4
    <2> DEFINE g == [s \in Small(k) |->
                        IF s \in Small(k - 1) THEN f[s] ELSE Value(f, s)]
    <2>2. \A s \in Small(k) : s # {} => s \ {pick[s]} \in Small(k - 1)
        BY <1>1, <1>2
    <2>3. \A s \in Small(k) : Value(f, s) \in B
        BY <1>2, <2>1, <2>2
    <2>4. Small(k - 1) \subseteq Small(k)
        BY <1>1
    <2>5. g \in [Small(k) -> B]
        BY <2>1, <2>3
    <2>6. \A s \in Small(k) : g[s] = Value(f, s)
        BY <2>1
    <2>7. \A s \in Small(k - 1) : g[s] = f[s]
        BY <2>4
    <2> HIDE DEF g, Small
    <2>8. \A s \in Small(k) : g[s] = Value(g, s)
        BY <2>2, <2>6, <2>7
    <2> QED
        BY <2>5, <2>8
<1> HIDE DEF Run
<1>5. Run(N)
    <2>1. 0 \in T /\ \A k \in 1..N : k - 1 \in T => k \in T
        BY <1>1, <1>3, <1>4
    <2>2. N \in 0..N
        BY <1>1
    <2>3. N \in T
        <3> HIDE DEF T
        <3> QED
            BY <1>1, <2>1, <2>2, CountUp
    <2> QED
        BY <2>3
<1>6. Small(N) = SUBSET S
    BY <1>1
<1> HIDE DEF Small
<1> QED
    BY <1>5, <1>6 DEF Run, FoldValues

\* How many members of U there are of each type.
Sizes(types, U, typeOf) == [x \in types |-> Cardinality({u \in U : typeOf[u] = x})]

\* What is sorted into finitely many types and counted per type adds up.
LEMMA TypesAddUp ==
    ASSUME NEW types, IsFiniteSet(types),
           NEW U, IsFiniteSet(U), NEW typeOf \in [U -> types]
    PROVE  SumFunction(Sizes(types, U, typeOf)) = Cardinality(U)
<1> DEFINE count == Sizes(types, U, typeOf)
           Within(s) == {u \in U : typeOf[u] \in s}
           One(s) == CHOOSE x \in s : TRUE
           Sum(f) == [s \in SUBSET types |->
                        IF s = {} THEN 0 ELSE count[One(s)] + f[s \ {One(s)}]]
           iter == CHOOSE f : f = Sum(f)
           Small(k) == \A s \in SUBSET types :
                            Cardinality(s) <= k => iter[s] = Cardinality(Within(s))
           N == Cardinality(types)
           T == {k \in 0..N : Small(k)}
<1>1. /\ N \in Nat
      /\ \A s \in SUBSET types :
            IsFiniteSet(s) /\ Cardinality(s) \in Nat /\ Cardinality(s) <= N
    BY FS_Subset, FS_CardinalityType
<1>2. \A s : /\ IsFiniteSet(Within(s)) /\ Cardinality(Within(s)) \in Nat
    BY FS_Subset, FS_CardinalityType
<1>3. \A x \in types : count[x] \in Nat /\ count[x] = Cardinality(Within({x}))
    <2> SUFFICES ASSUME NEW x \in types
                 PROVE  count[x] \in Nat /\ count[x] = Cardinality(Within({x}))
        OBVIOUS
    <2>1. Within({x}) = {u \in U : typeOf[u] = x}
        OBVIOUS
    <2> QED
        BY <1>2, <2>1 DEF Sizes
<1>4. SumFunction(count) = iter[types]
    <2>1. DOMAIN count = types
        BY DEF Sizes
    <2> QED
        BY <2>1 DEF SumFunction, SumFunctionOnSet, FoldFunctionOnSet, MapThenFoldSet
<1> HIDE DEF count
<1>5. iter = Sum(iter)
    <2> DEFINE op == [x \in types |-> [n \in Nat |-> count[x] + n]]
    <2>1. op \in [types -> [Nat -> Nat]]
        <3>1. \A x \in types : count[x] \in Nat
            BY <1>3
        <3> QED
            BY <3>1
    <2>2. PICK f \in [SUBSET types -> Nat] : \A s \in SUBSET types :
                f[s] = IF s = {} THEN 0 ELSE op[One(s)][f[s \ {One(s)}]]
        <3> DEFINE pick == [s \in SUBSET types |-> One(s)]
        <3>1. \A s \in SUBSET types : s # {} => pick[s] \in s
            OBVIOUS
        <3>2. \A s \in SUBSET types : pick[s] = One(s)
            OBVIOUS
        <3> HIDE DEF op, One, pick
        <3>3. Fold(types, Nat, 0, op, pick)
            BY <2>1, <3>1 DEF Fold
        <3>4. PICK f : f \in FoldValues(types, Nat, 0, op, pick)
            BY <3>3, FoldExists
        <3>5. f \in [SUBSET types -> Nat] /\ \A s \in SUBSET types :
                    f[s] = IF s = {} THEN 0 ELSE op[pick[s]][f[s \ {pick[s]}]]
            BY <3>4 DEF FoldValues
        <3>6. \A s \in SUBSET types :
                    f[s] = IF s = {} THEN 0 ELSE op[One(s)][f[s \ {One(s)}]]
            BY <3>2, <3>5
        <3> QED
            BY <3>5, <3>6
    <2>3. ASSUME NEW s \in SUBSET types, s # {}
          PROVE  op[One(s)][f[s \ {One(s)}]] = count[One(s)] + f[s \ {One(s)}]
        <3>1. One(s) \in types /\ s \ {One(s)} \in SUBSET types
            BY <2>3
        <3> HIDE DEF One
        <3>2. f[s \ {One(s)}] \in Nat
            BY <2>2, <3>1
        <3> QED
            BY <3>1, <3>2
    <2>4. f = Sum(f)
        <3> HIDE DEF op, One
        <3>1. \A s \in SUBSET types :
                f[s] = IF s = {} THEN 0 ELSE count[One(s)] + f[s \ {One(s)}]
            BY <2>2, <2>3
        <3> QED
            BY <2>2, <3>1
    <2> HIDE DEF Sum
    <2> QED
        BY <2>4
<1> HIDE DEF iter
<1>6. /\ iter[{}] = 0
      /\ \A s \in SUBSET types :
            s # {} => iter[s] = count[One(s)] + iter[s \ {One(s)}]
    <2> HIDE DEF One
    <2> DEFINE f == iter
    <2> HIDE DEF f
    <2>1. f = Sum(f)
        BY <1>5 DEF f
    <2>2. /\ f[{}] = 0
          /\ \A s \in SUBSET types :
                s # {} => f[s] = count[One(s)] + f[s \ {One(s)}]
        BY <2>1
    <2> QED
        BY <2>2 DEF f
<1>7. Small(0)
    <2> SUFFICES ASSUME NEW s \in SUBSET types, Cardinality(s) <= 0
                 PROVE  iter[s] = Cardinality(Within(s))
        OBVIOUS
    <2>1. s = {}
        <3>1. IsFiniteSet(s) /\ Cardinality(s) = 0
            BY <1>1
        <3> QED
            BY <3>1, FS_EmptySet
    <2>2. Within({}) = {}
        OBVIOUS
    <2> QED
        BY <2>1, <2>2, <1>6, FS_EmptySet
<1>8. ASSUME NEW k \in 1..N, Small(k - 1)
      PROVE  Small(k)
    <2> SUFFICES ASSUME NEW s \in SUBSET types, Cardinality(s) <= k, s # {}
                 PROVE  iter[s] = Cardinality(Within(s))
        <3>1. iter[{}] = Cardinality(Within({}))
            BY <1>7, <1>1, FS_EmptySet
        <3> QED
            BY <3>1
    <2> DEFINE x == One(s)
               r == s \ {x}
    <2>1. x \in s /\ x \in types
        OBVIOUS
    <2> HIDE DEF x
    <2>2. Cardinality(r) <= k - 1
        BY <2>1, <1>1, FS_RemoveElement
    <2>3. iter[r] = Cardinality(Within(r))
        BY <1>8, <2>2
    <2>4. Within(s) = Within({x}) \cup Within(r) /\ Within({x}) \cap Within(r) = {}
        BY <2>1
    <2>5. Cardinality(Within(s)) = Cardinality(Within({x})) + Cardinality(Within(r))
        <3>1. Cardinality(Within({x}) \cap Within(r)) = 0
            BY <2>4, FS_EmptySet
        <3> DEFINE a == Within({x})
                   b == Within(r)
        <3>2. IsFiniteSet(a) /\ IsFiniteSet(b)
            BY <1>2
        <3>3. Cardinality(a) \in Nat /\ Cardinality(b) \in Nat
            BY <1>2
        <3>4. Within(s) = a \cup b /\ Cardinality(a \cap b) = 0
            BY <2>4, <3>1
        <3> HIDE DEF a, b, Within
        <3>5. Cardinality(a \cup b) = Cardinality(a) + Cardinality(b) - Cardinality(a \cap b)
            BY <3>2, FS_Union
        <3>6. Cardinality(Within(s)) = Cardinality(a) + Cardinality(b)
            BY <3>3, <3>4, <3>5
        <3> QED
            BY <3>6 DEF a, b
    <2>6. iter[s] = count[x] + iter[r]
        BY <1>6 DEF x
    <2> QED
        BY <2>1, <2>3, <2>5, <2>6, <1>3
<1> HIDE DEF Small
<1>9. Small(N)
    <2>1. 0 \in T /\ \A k \in 1..N : k - 1 \in T => k \in T
        BY <1>1, <1>7, <1>8
    <2>2. N \in 0..N
        BY <1>1
    <2>3. N \in T
        <3> HIDE DEF T
        <3> QED
            BY <1>1, <2>1, <2>2, CountUp
    <2> QED
        BY <2>3
<1>10. Within(types) = U
    OBVIOUS
<1> QED
    BY <1>1, <1>4, <1>9, <1>10 DEF Small, count

-----------------------------------------------------------------------------
(* Evaluation: the ranking of the predictions, and the loop of the matcher. *)

\* Of two predictions exactly one precedes the other.
LEMMA PrecedesIsTotal ==
    ASSUME NEW predictions \in Seq(Prediction)
    PROVE  \A p, q, r \in 1..Len(predictions) :
                /\ ~Precedes(predictions, p, p)
                /\ p # q => Precedes(predictions, p, q) \/ Precedes(predictions, q, p)
                /\ Precedes(predictions, p, q) /\ Precedes(predictions, q, r)
                        => Precedes(predictions, p, r)
<1>1. \A p \in 1..Len(predictions) :
            predictions[p].confidence \in Int /\ predictions[p].time \in Int
    <2> SUFFICES ASSUME NEW p \in 1..Len(predictions)
                 PROVE  predictions[p].confidence \in Int /\ predictions[p].time \in Int
        OBVIOUS
    <2>1. predictions[p] \in Prediction
        OBVIOUS
    <2> QED
        BY <2>1 DEF Prediction
<1> QED
    BY <1>1 DEF Precedes

\* Ordered lists each prediction once, and those that precede it before it.
LEMMA OrderedRanks ==
    ASSUME NEW predictions \in Seq(Prediction)
    PROVE  /\ Ordered(predictions) \in [1..Len(predictions) -> 1..Len(predictions)]
           /\ \A p \in 1..Len(predictions) :
                \E n \in 1..Len(predictions) : Ordered(predictions)[n] = p
           /\ \A m, n \in 1..Len(predictions) : m < n =>
                Precedes(predictions, Ordered(predictions)[m], Ordered(predictions)[n])
<1> DEFINE N == Len(predictions)
           Ahead(p) == {q \in 1..N : Precedes(predictions, q, p)}
           rank == [p \in 1..N |-> Cardinality(Ahead(p)) + 1]
           order == Ordered(predictions)
<1>1. N \in Nat /\ DOMAIN predictions = 1..N
    OBVIOUS
<1>2. IsFiniteSet(1..N) /\ Cardinality(1..N) = N
    BY <1>1, FS_Interval
<1> HIDE DEF N
<1>3. /\ \A p \in 1..N : ~Precedes(predictions, p, p)
      /\ \A p, q \in 1..N : p # q =>
            Precedes(predictions, p, q) \/ Precedes(predictions, q, p)
      /\ \A p, q, r \in 1..N :
            Precedes(predictions, p, q) /\ Precedes(predictions, q, r)
                => Precedes(predictions, p, r)
    BY PrecedesIsTotal DEF N
<1>4. \A p \in 1..N : IsFiniteSet(Ahead(p)) /\ Cardinality(Ahead(p)) \in Nat
    <2> SUFFICES ASSUME NEW p \in 1..N
                 PROVE  IsFiniteSet(Ahead(p)) /\ Cardinality(Ahead(p)) \in Nat
        OBVIOUS
    <2>1. Ahead(p) \in SUBSET (1..N)
        OBVIOUS
    <2> QED
        BY <2>1, <1>2, FS_Subset, FS_CardinalityType
<1>5. ASSUME NEW p \in 1..N, NEW q \in 1..N, Precedes(predictions, p, q)
      PROVE  Cardinality(Ahead(p)) < Cardinality(Ahead(q))
    <2>1. p \notin Ahead(p) /\ Ahead(p) \cup {p} \subseteq Ahead(q)
        BY <1>3, <1>5
    <2>2. /\ Cardinality(Ahead(p) \cup {p}) = Cardinality(Ahead(p)) + 1
        BY <2>1, <1>4, FS_AddElement
    <2>3. Cardinality(Ahead(p) \cup {p}) <= Cardinality(Ahead(q))
        BY <2>1, <1>4, FS_Subset
    <2> HIDE DEF Ahead
    <2> QED
        BY <2>2, <2>3, <1>4
<1>6. rank \in [1..N -> 1..N]
    <2> SUFFICES ASSUME NEW p \in 1..N
                 PROVE  Cardinality(Ahead(p)) + 1 \in 1..N
        OBVIOUS
    <2>1. p \notin Ahead(p) /\ Ahead(p) \cup {p} \in SUBSET (1..N)
        BY <1>3
    <2>2. Cardinality(Ahead(p) \cup {p}) = Cardinality(Ahead(p)) + 1
        BY <2>1, <1>4, FS_AddElement
    <2>3. Cardinality(Ahead(p) \cup {p}) <= N
        BY <2>1, <1>2, FS_Subset
    <2> HIDE DEF Ahead
    <2> QED
        BY <2>2, <2>3, <1>1, <1>4
<1>7. \A p, q \in 1..N : rank[p] = rank[q] => p = q
    <2> SUFFICES ASSUME NEW p \in 1..N, NEW q \in 1..N, p # q
                 PROVE  rank[p] # rank[q]
        OBVIOUS
    <2>1. rank[p] = Cardinality(Ahead(p)) + 1 /\ rank[q] = Cardinality(Ahead(q)) + 1
        OBVIOUS
    <2> HIDE DEF Ahead, rank
    <2> QED
        BY <2>1, <1>3, <1>4, <1>5
<1>8. \A n \in 1..N : \E p \in 1..N : rank[p] = n
    <2>1. rank \in Injection(1..N, 1..N)
        BY <1>6, <1>7 DEF Injection, IsInjective
    <2>2. rank \in Surjection(1..N, 1..N)
        BY <2>1, <1>2, FS_Injection
    <2> QED
        BY <2>2 DEF Surjection
<1>9. ASSUME NEW n \in 1..N
      PROVE  order[n] \in 1..N /\ rank[order[n]] = n
    <2>1. order[n] = CHOOSE p \in 1..N : Cardinality(Ahead(p)) = n - 1
        BY <1>1 DEF Ordered
    <2>2. PICK p \in 1..N : rank[p] = n
        BY <1>8
    <2>3. Cardinality(Ahead(p)) = n - 1
        <3> HIDE DEF Ahead
        <3> QED
            BY <2>2, <1>4
    <2>4. order[n] \in 1..N /\ Cardinality(Ahead(order[n])) = n - 1
        <3> HIDE DEF Ahead
        <3> QED
            BY <2>1, <2>3
    <2> HIDE DEF Ahead
    <2> QED
        BY <2>4
<1>10. order \in [1..N -> 1..N]
    <2>1. order \in [1..N -> {order[n] : n \in 1..N}]
        BY <1>1 DEF Ordered
    <2> QED
        BY <2>1, <1>9
<1>11. \A p \in 1..N : \E n \in 1..N : order[n] = p
    BY <1>6, <1>7, <1>9
<1>12. ASSUME NEW m \in 1..N, NEW n \in 1..N, m < n
       PROVE  Precedes(predictions, order[m], order[n])
    <2>1. order[m] \in 1..N /\ order[n] \in 1..N /\ rank[order[m]] < rank[order[n]]
        BY <1>9, <1>12
    <2> DEFINE p == order[m]
               q == order[n]
    <2>2. p \in 1..N /\ q \in 1..N
        BY <2>1
    <2> HIDE DEF p, q
    <2>3. rank[p] = Cardinality(Ahead(p)) + 1 /\ rank[q] = Cardinality(Ahead(q)) + 1
        BY <2>2
    <2>4. rank[p] < rank[q]
        BY <2>1 DEF p, q
    <2> HIDE DEF Ahead, rank
    <2>5. p # q /\ ~(Cardinality(Ahead(q)) < Cardinality(Ahead(p)))
        BY <2>2, <2>3, <2>4, <1>4
    <2>6. Precedes(predictions, p, q)
        BY <2>2, <2>5, <1>3, <1>5
    <2> QED
        BY <2>6 DEF p, q
<1> HIDE DEF order
<1> QED
    BY <1>10, <1>11, <1>12 DEF N, order

\* Of candidates there is one that Nearest chooses.
LEMMA NearestExists ==
    ASSUME NEW truths \in Seq(Event), NEW prediction \in Prediction,
           NEW candidates \in SUBSET (DOMAIN truths), candidates # {}
    PROVE  /\ Nearest(prediction, truths, candidates) \in candidates
           /\ \A u \in candidates :
                TimingError(prediction, truths[Nearest(prediction, truths, candidates)])
                    <= TimingError(prediction, truths[u])
<1> DEFINE E(t) == TimingError(prediction, truths[t])
           Closer(t, u) == \/ E(t) < E(u)
                           \/ E(t) = E(u) /\ truths[t].time < truths[u].time
                           \/ /\ E(t) = E(u)
                              /\ truths[t].time = truths[u].time
                              /\ t <= u
<1>1. prediction.time \in Int
    BY DEF Prediction
<1>2. \A t \in candidates : t \in Nat /\ truths[t].time \in Int
    <2> SUFFICES ASSUME NEW t \in candidates
                 PROVE  t \in Nat /\ truths[t].time \in Int
        OBVIOUS
    <2>1. t \in 1..Len(truths) /\ truths[t] \in Event
        OBVIOUS
    <2> QED
        BY <2>1 DEF Event
<1>3. \A t \in candidates : E(t) \in Nat
    BY <1>1, <1>2 DEF TimingError
<1>4. \A t \in candidates :
            \/ truths[t].time = prediction.time + E(t)
            \/ truths[t].time = prediction.time - E(t)
    BY <1>1, <1>2 DEF TimingError
<1> HIDE DEF E
<1>5. PICK s \in candidates : \A u \in candidates : E(s) <= E(u)
    <2> DEFINE T == {E(t) : t \in candidates}
    <2>1. T \in SUBSET Nat /\ T # {}
        BY <1>3
    <2>2. PICK x \in T : \A y \in T : x <= y
        <3> HIDE DEF T
        <3> QED
            BY <2>1, NatMin
    <2> QED
        BY <2>2
<1> DEFINE Best == {t \in candidates : E(t) = E(s)}
           Early == IF \E t \in Best : truths[t].time < prediction.time
                    THEN {t \in Best : truths[t].time < prediction.time}
                    ELSE Best
<1>6. Early \in SUBSET Nat /\ Early # {} /\ Early \subseteq candidates
    BY <1>2
<1>7. PICK t \in Early : \A u \in Early : t <= u
    <2> HIDE DEF Early
    <2> QED
        BY <1>6, NatMin
<1>8. t \in candidates /\ \A u \in candidates : Closer(t, u)
    <2>1. t \in candidates /\ t \in Best
        BY <1>6
    <2>2. ASSUME NEW u \in candidates
          PROVE  Closer(t, u)
        <3>1. /\ E(t) \in Nat /\ E(u) \in Nat /\ E(t) <= E(u)
              /\ truths[t].time \in Int /\ truths[u].time \in Int
            BY <1>2, <1>3, <1>5, <2>1
        <3>2. CASE E(t) < E(u)
            BY <3>2
        <3>3. CASE E(t) = E(u)
            <4>1. u \in Best
                BY <2>1, <3>3
            <4>2. CASE truths[t].time < truths[u].time
                BY <3>3, <4>2
            <4>3. CASE ~(truths[t].time < truths[u].time)
                <5>1. truths[t].time = truths[u].time
                    <6>1. CASE \E v \in Best : truths[v].time < prediction.time
                        <7>1. truths[t].time < prediction.time
                            BY <6>1
                        <7> QED
                            BY <7>1, <1>1, <1>4, <2>1, <3>1, <3>3, <4>3
                    <6>2. CASE ~\E v \in Best : truths[v].time < prediction.time
                        <7>1. /\ ~(truths[t].time < prediction.time)
                              /\ ~(truths[u].time < prediction.time)
                            BY <6>2, <2>1, <4>1
                        <7> QED
                            BY <7>1, <1>1, <1>4, <2>1, <3>1, <3>3
                    <6> QED
                        BY <6>1, <6>2
                <5>2. u \in Early
                    BY <4>1, <5>1, <1>7
                <5> QED
                    BY <3>3, <5>1, <5>2, <1>7
            <4> QED
                BY <4>2, <4>3
        <3> QED
            BY <3>1, <3>2, <3>3
    <2> QED
        BY <2>1, <2>2
<1>9. Nearest(prediction, truths, candidates)
        = CHOOSE n \in candidates : \A u \in candidates : Closer(n, u)
    BY DEF Nearest, E
<1> DEFINE c == CHOOSE n \in candidates : \A u \in candidates : Closer(n, u)
<1>10. c \in candidates /\ \A u \in candidates : Closer(c, u)
    <2> HIDE DEF Closer
    <2> QED
        BY <1>8
<1> HIDE DEF c
<1>11. \A u \in candidates : E(c) <= E(u)
    BY <1>3, <1>10
<1> QED
    BY <1>9, <1>10, <1>11 DEF c, E

\* A better event for prediction `p` has been taken by one of higher rank.
StableAt(predictions, truths, tolerance, matches, p, t) ==
    (/\ Compatible(predictions[p], truths[t], tolerance)
     /\ \A m \in matches : m[1] = p => TimingError(predictions[p], truths[t])
                                        < TimingError(predictions[p], truths[m[2]]))
    => \E m \in matches : m[2] = t /\ Precedes(predictions, m[1], p)

\* What holds of `matches` when the loop has seen the first `n` predictions.
MatchedUpTo(predictions, truths, tolerance, n, matches) ==
    /\ matches \subseteq (DOMAIN predictions) \X (DOMAIN truths)
    /\ \A m \in matches : \E k \in 1..n : m[1] = Ordered(predictions)[k]
    /\ IsMatching(predictions, truths, tolerance, matches)
    /\ \A k \in 1..n, t \in DOMAIN truths :
            StableAt(predictions, truths, tolerance, matches, Ordered(predictions)[k], t)

\* A pass of the matcher keeps its matches one to one and stable.
LEMMA MatchStep ==
    ASSUME NEW predictions \in Seq(Prediction), NEW truths \in Seq(Event), NEW tolerance,
           NEW n \in 1..Len(predictions), NEW matches,
           MatchedUpTo(predictions, truths, tolerance, n - 1, matches)
    PROVE  MatchedUpTo(predictions, truths, tolerance, n,
                MatchNext(predictions, truths, tolerance, Ordered(predictions)[n], matches))
<1> DEFINE N == Len(predictions)
           order == Ordered(predictions)
           p == order[n]
           rest == Remaining(truths, matches)
           found == EventCandidates(predictions[p], truths, rest, tolerance)
           u == Nearest(predictions[p], truths, found)
           Error(q, t) == TimingError(predictions[q], truths[t])
           Fit(q, t) == Compatible(predictions[q], truths[t], tolerance)
           Above(q, r) == Precedes(predictions, q, r)
           next == MatchNext(predictions, truths, tolerance, p, matches)
<1>1. N \in Nat /\ DOMAIN predictions = 1..N /\ n \in 1..N
    OBVIOUS
<1>2. /\ order \in [1..N -> 1..N]
      /\ \A j, k \in 1..N : j < k => Above(order[j], order[k])
      /\ \A q \in 1..N : ~Above(q, q)
    BY OrderedRanks, PrecedesIsTotal
<1>3. p \in DOMAIN predictions /\ predictions[p] \in Prediction
    BY <1>1, <1>2
<1>4. /\ matches \subseteq (DOMAIN predictions) \X (DOMAIN truths)
      /\ \A m \in matches : \E k \in 1..(n - 1) : m[1] = order[k]
      /\ \A m \in matches : Fit(m[1], m[2])
      /\ \A l, m \in matches : (l[1] = m[1] \/ l[2] = m[2]) => l = m
      /\ \A k \in 1..(n - 1), t \in DOMAIN truths :
            StableAt(predictions, truths, tolerance, matches, order[k], t)
    <2> HIDE DEF order, N
    <2>1. /\ matches \subseteq (DOMAIN predictions) \X (DOMAIN truths)
          /\ \A m \in matches : \E k \in 1..(n - 1) : m[1] = order[k]
          /\ IsMatching(predictions, truths, tolerance, matches)
        BY DEF MatchedUpTo, order
    <2>2. \A k \in 1..(n - 1), t \in DOMAIN truths :
            StableAt(predictions, truths, tolerance, matches, order[k], t)
        BY DEF MatchedUpTo, order
    <2>3. /\ \A m \in matches : Fit(m[1], m[2])
          /\ \A l, m \in matches : (l[1] = m[1] \/ l[2] = m[2]) => l = m
        BY <2>1 DEF IsMatching
    <2> QED
        BY <2>1, <2>2, <2>3
<1>5. \A m \in matches : Above(m[1], p) /\ m[1] # p
    BY <1>1, <1>2, <1>4
<1>6. \A t \in DOMAIN truths : t \notin rest => \E m \in matches : m[2] = t /\ Above(m[1], p)
    BY <1>5 DEF Remaining
<1>7. /\ found = {t \in rest : Fit(p, t)} /\ rest \subseteq DOMAIN truths
      /\ \A m \in matches : m[2] \notin rest
    BY DEF EventCandidates, Remaining
<1>8. next = IF found = {} THEN matches ELSE matches \cup {<<p, u>>}
    BY DEF MatchNext
<1>9. found # {} => u \in found /\ \A t \in found : Error(p, u) <= Error(p, t)
    <2>1. found \in SUBSET DOMAIN truths
        BY <1>7
    <2> HIDE DEF found
    <2> QED
        BY <2>1, <1>3, NearestExists
<1>10. \A t \in DOMAIN truths : Error(p, t) \in Int
    <2> SUFFICES ASSUME NEW t \in DOMAIN truths
                 PROVE  Error(p, t) \in Int
        OBVIOUS
    <2>1. truths[t] \in Event
        OBVIOUS
    <2> QED
        BY <2>1, <1>3 DEF Event, Prediction, TimingError
<1> HIDE DEF N, order, p, rest, found, u, Error, Fit, Above, next
<1>11. CASE found = {}
    <2>1. next = matches
        BY <1>8, <1>11
    <2>2. ASSUME NEW t \in DOMAIN truths, Fit(p, t)
          PROVE  \E m \in matches : m[2] = t /\ Above(m[1], p)
        BY <2>2, <1>6, <1>7, <1>11
    <2>3. \A t \in DOMAIN truths :
                StableAt(predictions, truths, tolerance, matches, p, t)
        BY <2>2 DEF StableAt, Fit, Above
    <2>4. \A k \in 1..n, t \in DOMAIN truths :
                StableAt(predictions, truths, tolerance, matches, order[k], t)
        <3> SUFFICES ASSUME NEW k \in 1..n, NEW t \in DOMAIN truths
                     PROVE  StableAt(predictions, truths, tolerance, matches, order[k], t)
            OBVIOUS
        <3>1. CASE k = n
            BY <3>1, <2>3 DEF p
        <3>2. CASE k # n
            <4>1. k \in 1..(n - 1)
                BY <3>2, <1>1
            <4> QED
                BY <4>1, <1>4
        <3> QED
            BY <3>1, <3>2
    <2>5. \A m \in matches : \E k \in 1..n : m[1] = order[k]
        BY <1>1, <1>4
    <2>6. MatchedUpTo(predictions, truths, tolerance, n, matches)
        BY <1>1, <1>4, <2>4, <2>5 DEF MatchedUpTo, IsMatching, Fit, order
    <2> QED
        BY <2>1, <2>6 DEF next, p, order
<1>12. CASE found # {}
    <2>1. next = matches \cup {<<p, u>>} /\ u \in rest /\ Fit(p, u) /\ u \in DOMAIN truths
        BY <1>7, <1>8, <1>9, <1>12
    <2>2. \A m \in next : m \in matches \/ (m = <<p, u>> /\ m[1] = p /\ m[2] = u)
        BY <2>1
    <2>3. matches \subseteq next /\ <<p, u>> \in next
        BY <2>1
    <2>4. next \subseteq (DOMAIN predictions) \X (DOMAIN truths)
        <3>1. <<p, u>> \in (DOMAIN predictions) \X (DOMAIN truths)
            BY <1>3, <2>1
        <3> QED
            BY <3>1, <1>4, <2>1
    <2>5. \A m \in next : \E k \in 1..n : m[1] = order[k]
        BY <1>1, <1>4, <2>2 DEF p
    <2>6. \A m \in next : Fit(m[1], m[2])
        BY <1>4, <2>1, <2>2
    <2>7. \A l, m \in next : (l[1] = m[1] \/ l[2] = m[2]) => l = m
        BY <1>4, <1>5, <1>7, <2>1, <2>2
    <2>8. ASSUME NEW t \in DOMAIN truths, Fit(p, t), Error(p, t) < Error(p, u)
          PROVE  \E m \in next : m[2] = t /\ Above(m[1], p)
        <3>1. t \notin found
            BY <2>1, <2>8, <1>9, <1>10, <1>12
        <3>2. t \notin rest
            BY <3>1, <2>8, <1>7
        <3> QED
            BY <3>2, <1>6, <2>3
    <2>9. \A t \in DOMAIN truths : StableAt(predictions, truths, tolerance, next, p, t)
        <3> SUFFICES ASSUME NEW t \in DOMAIN truths, Fit(p, t),
                            \A m \in next : m[1] = p => Error(p, t) < Error(p, m[2])
                     PROVE  \E m \in next : m[2] = t /\ Above(m[1], p)
            BY DEF StableAt, Fit, Error, Above
        <3>1. Error(p, t) < Error(p, u)
            BY <2>3
        <3> QED
            BY <3>1, <2>8
    <2>10. ASSUME NEW k \in 1..(n - 1), NEW t \in DOMAIN truths
           PROVE  StableAt(predictions, truths, tolerance, next, order[k], t)
        <3>1. StableAt(predictions, truths, tolerance, matches, order[k], t)
            BY <1>4
        <3> QED
            BY <3>1, <2>3 DEF StableAt
    <2>11. \A k \in 1..n, t \in DOMAIN truths :
                StableAt(predictions, truths, tolerance, next, order[k], t)
        <3> SUFFICES ASSUME NEW k \in 1..n, NEW t \in DOMAIN truths
                     PROVE  StableAt(predictions, truths, tolerance, next, order[k], t)
            OBVIOUS
        <3>1. CASE k = n
            BY <3>1, <2>9 DEF p
        <3>2. CASE k # n
            <4>1. k \in 1..(n - 1)
                BY <3>2, <1>1
            <4> QED
                BY <4>1, <2>10
        <3> QED
            BY <3>1, <3>2
    <2>12. MatchedUpTo(predictions, truths, tolerance, n, next)
        BY <2>4, <2>5, <2>6, <2>7, <2>11 DEF MatchedUpTo, IsMatching, Fit, order
    <2> QED
        BY <2>12 DEF next, p, order
<1> QED
    BY <1>11, <1>12

\* The matches of the whole loop are one to one and stable.
LEMMA MatchesFacts ==
    ASSUME NEW predictions \in Seq(Prediction), NEW truths \in Seq(Event), NEW tolerance
    PROVE  MatchedUpTo(predictions, truths, tolerance, Len(predictions),
                       Matches(predictions, truths, tolerance))
<1> DEFINE N == Len(predictions)
           B == SUBSET ((DOMAIN predictions) \X (DOMAIN truths))
           Pass(n, matches) ==
                MatchNext(predictions, truths, tolerance, Ordered(predictions)[n], matches)
           Run(f) == [n \in 0..N |-> IF n = 0 THEN {} ELSE Pass(n, f[n - 1])]
           after == MatchesAfter(predictions, truths, tolerance)
           UpTo(n) == MatchedUpTo(predictions, truths, tolerance, n, after[n])
           T == {n \in 0..N : UpTo(n)}
<1>1. N \in Nat /\ 0 \in 0..N /\ N \in 0..N
    OBVIOUS
<1>2. ASSUME NEW n \in 1..N, NEW matches \in B
      PROVE  Pass(n, matches) \in B
    <2> DEFINE p == Ordered(predictions)[n]
               found == EventCandidates(predictions[p], truths,
                                        Remaining(truths, matches), tolerance)
    <2>1. p \in DOMAIN predictions /\ predictions[p] \in Prediction
        <3>1. Ordered(predictions) \in [1..N -> 1..N]
            BY OrderedRanks
        <3>2. p \in 1..N
            BY <3>1
        <3> HIDE DEF p
        <3> QED
            BY <3>2
    <2>2. found \in SUBSET DOMAIN truths
        BY DEF EventCandidates, Remaining
    <2>3. Pass(n, matches) = IF found = {} THEN matches
                ELSE matches \cup {<<p, Nearest(predictions[p], truths, found)>>}
        BY DEF MatchNext
    <2> HIDE DEF p, found
    <2>4. found # {} => Nearest(predictions[p], truths, found) \in DOMAIN truths
        BY <2>1, <2>2, NearestExists
    <2> HIDE DEF Pass
    <2>5. CASE found = {}
        BY <2>3, <2>5
    <2>6. CASE found # {}
        <3> DEFINE pair == <<p, Nearest(predictions[p], truths, found)>>
        <3>1. pair \in (DOMAIN predictions) \X (DOMAIN truths)
            BY <2>1, <2>4, <2>6
        <3>2. Pass(n, matches) = matches \cup {pair}
            BY <2>3, <2>6
        <3> HIDE DEF pair
        <3> QED
            BY <3>1, <3>2
    <2> QED
        BY <2>5, <2>6
<1>3. \E f : f = Run(f)
    <2> DEFINE step == [n \in 1..N |-> [matches \in B |-> Pass(n, matches)]]
    <2> HIDE DEF Pass
    <2>1. step \in [1..N -> [B -> B]] /\ {} \in B
        <3> HIDE DEF B
        <3>1. step \in [1..N -> [B -> B]]
            BY <1>2
        <3> QED
            BY <3>1 DEF B
    <2>2. \A n \in 1..N, matches \in B : step[n][matches] = Pass(n, matches)
        <3> HIDE DEF B
        <3> QED
            OBVIOUS
    <2> HIDE DEF step, B, N
    <2>3. Loop(N, B, {}, step)
        BY <2>1, <1>1 DEF Loop
    <2>4. PICK f : f \in Passes(N, B, {}, step)
        BY <2>3, LoopExists
    <2>5. /\ f \in [0..N -> B] /\ f[0] = {}
          /\ \A n \in 1..N : f[n] = step[n][f[n - 1]]
        BY <2>4 DEF Passes
    <2>6. \A n \in 1..N : f[n] = Pass(n, f[n - 1])
        BY <2>2, <2>5, <1>1
    <2>7. f = Run(f)
        <3>1. \A n \in 0..N : f[n] = IF n = 0 THEN {} ELSE Pass(n, f[n - 1])
            BY <2>5, <2>6, <1>1
        <3> QED
            BY <2>5, <3>1
    <2> QED
        BY <2>7
<1>4. after = CHOOSE f : f = Run(f)
    BY DEF MatchesAfter
<1>5. after = Run(after)
    <2> HIDE DEF Run, after
    <2> QED
        BY <1>3, <1>4
<1> HIDE DEF after
<1>6. after[0] = {} /\ \A n \in 1..N : after[n] = Pass(n, after[n - 1])
    <2> HIDE DEF Pass, N
    <2>1. PICK f : f = after /\ after = Run(f)
        BY <1>5
    <2>2. \A n \in 0..N : after[n] = IF n = 0 THEN {} ELSE Pass(n, f[n - 1])
        BY <2>1
    <2>3. \A n \in 1..N : n \in 0..N /\ n # 0
        BY <1>1
    <2>4. after[0] = {}
        BY <1>1, <2>2
    <2> QED
        BY <2>1, <2>2, <2>3, <2>4
<1>7. UpTo(0)
    BY <1>6 DEF MatchedUpTo, IsMatching
<1>8. ASSUME NEW n \in 1..N, UpTo(n - 1)
      PROVE  UpTo(n)
    BY <1>6, <1>8, MatchStep
<1> HIDE DEF UpTo, N
<1>9. UpTo(N)
    <2>1. 0 \in T /\ \A n \in 1..N : n - 1 \in T => n \in T
        BY <1>1, <1>7, <1>8
    <2>2. N \in T
        <3> HIDE DEF T
        <3> QED
            BY <1>1, <2>1, CountUp
    <2> QED
        BY <2>2
<1> QED
    BY <1>9 DEF UpTo, N, after, Matches

-----------------------------------------------------------------------------
(* Evaluation: the counts. *)

\* What an injection leaves out of a finite set.
LEMMA ImageLeaves ==
    ASSUME NEW X, IsFiniteSet(X), NEW H, NEW g \in Injection(H, X)
    PROVE  /\ IsFiniteSet(H) /\ Cardinality(H) \in Nat
           /\ Cardinality(X) \in Nat
           /\ Cardinality(X) - Cardinality(H) = Cardinality(X \ {g[h] : h \in H})
<1> DEFINE Y == {g[h] : h \in H}
<1>1. Y \in SUBSET X /\ X \cap Y = Y
    BY DEF Injection
<1>2. IsFiniteSet(Y)
    BY <1>1, FS_Subset
<1>3. g \in Bijection(H, Y)
    BY DEF Bijection, Injection, Surjection, IsInjective
<1>4. IsFiniteSet(H)
    BY <1>2, <1>3, FS_Injection DEF Bijection
<1>5. Cardinality(Y) = Cardinality(H)
    BY <1>3, <1>4, FS_Bijection DEF ExistsBijection
<1>6. Cardinality(X \ Y) = Cardinality(X) - Cardinality(Y)
    BY <1>1, FS_Difference
<1> QED
    BY <1>4, <1>5, <1>6, FS_CardinalityType

\* The events of a list have finitely many types.
LEMMA TypesAreFinite ==
    ASSUME NEW events, NEW n \in Nat, DOMAIN events = 1..n
    PROVE  IsFiniteSet({events[k].type : k \in DOMAIN events})
<1> DEFINE D == DOMAIN events
           T == {events[k].type : k \in D}
           f == [k \in D |-> events[k].type]
<1>1. IsFiniteSet(D)
    BY FS_Interval
<1>2. f \in Surjection(D, T)
    BY DEF Surjection
<1> QED
    BY <1>1, <1>2, FS_Surjection

\* Of each type, what is no hit are the false alarms and the misses.
LEMMA TypeCountsFacts ==
    ASSUME NEW predictions \in Seq(Prediction), NEW truths \in Seq(Event), NEW tolerance,
           NEW matches \in SUBSET ((DOMAIN predictions) \X (DOMAIN truths)),
           IsMatching(predictions, truths, tolerance, matches), NEW type
    PROVE  /\ TypeCounts(predictions, truths, matches, type).falsePositive
                = ErrorSummary(predictions, truths, matches, type).unmatchedPrediction
           /\ TypeCounts(predictions, truths, matches, type).falseNegative
                = ErrorSummary(predictions, truths, matches, type).missedGroundTruth
<1> DEFINE hits == {m \in matches : predictions[m[1]].type = type}
           P == OfType(predictions, type)
           U == OfType(truths, type)
           first == [m \in hits |-> m[1]]
           second == [m \in hits |-> m[2]]
<1>1. IsFiniteSet(DOMAIN predictions) /\ IsFiniteSet(DOMAIN truths)
    <2>1. /\ DOMAIN predictions = 1..Len(predictions) /\ Len(predictions) \in Nat
          /\ DOMAIN truths = 1..Len(truths) /\ Len(truths) \in Nat
        OBVIOUS
    <2> QED
        BY <2>1, FS_Interval
<1>2. /\ \A m \in matches : m[1] \in DOMAIN predictions /\ m[2] \in DOMAIN truths
      /\ \A m \in matches : predictions[m[1]].type = truths[m[2]].type
      /\ \A l, m \in matches : (l[1] = m[1] \/ l[2] = m[2]) => l = m
    BY DEF IsMatching, Compatible
<1>3. IsFiniteSet(P) /\ IsFiniteSet(U)
    <2>1. P \in SUBSET DOMAIN predictions /\ U \in SUBSET DOMAIN truths
        BY DEF OfType
    <2> QED
        BY <1>1, <2>1, FS_Subset
<1>4. first \in Injection(hits, P)
    <2>1. first \in [hits -> P] /\ \A h, i \in hits : first[h] = first[i] => h = i
        BY <1>2 DEF OfType
    <2> HIDE DEF hits, P, first
    <2> QED
        BY <2>1 DEF Injection, IsInjective
<1>5. second \in Injection(hits, U)
    <2>1. second \in [hits -> U] /\ \A h, i \in hits : second[h] = second[i] => h = i
        BY <1>2 DEF OfType
    <2> HIDE DEF hits, U, second
    <2> QED
        BY <2>1 DEF Injection, IsInjective
<1>6. P \ {first[h] : h \in hits} = P \cap FalseAlarms(predictions, matches)
    BY <1>2 DEF OfType, FalseAlarms
<1>7. U \ {second[h] : h \in hits} = U \cap Remaining(truths, matches)
    BY <1>2 DEF OfType, Remaining
<1> HIDE DEF hits, P, U, first, second
<1>8. Cardinality(P) - Cardinality(hits) = Cardinality(P \cap FalseAlarms(predictions, matches))
    <2>1. Cardinality(P) - Cardinality(hits) = Cardinality(P \ {first[h] : h \in hits})
        BY <1>3, <1>4, ImageLeaves
    <2> QED
        BY <2>1, <1>6
<1>9. Cardinality(U) - Cardinality(hits) = Cardinality(U \cap Remaining(truths, matches))
    <2>1. Cardinality(U) - Cardinality(hits) = Cardinality(U \ {second[h] : h \in hits})
        BY <1>3, <1>5, ImageLeaves
    <2> QED
        BY <2>1, <1>7
<1> QED
    BY <1>8, <1>9 DEF TypeCounts, ErrorSummary, hits, P, U

\* A matching that is one to one counts each prediction and each event once.
LEMMA CountsFacts ==
    ASSUME NEW predictions \in Seq(Prediction), NEW truths \in Seq(Event), NEW tolerance,
           NEW matches \in SUBSET ((DOMAIN predictions) \X (DOMAIN truths)),
           IsMatching(predictions, truths, tolerance, matches)
    PROVE  CountsAddUp(predictions, truths, matches)
<1> DEFINE types == EventTypes(predictions, truths)
           of(type) == TypeCounts(predictions, truths, matches, type)
           whole == Counts(predictions, truths, matches)
           alarms == FalseAlarms(predictions, matches)
           misses == Remaining(truths, matches)
           count(field) == [type \in types |-> of(type)[field]]
<1>1. /\ DOMAIN predictions = 1..Len(predictions) /\ Len(predictions) \in Nat
      /\ DOMAIN truths = 1..Len(truths) /\ Len(truths) \in Nat
    OBVIOUS
<1>2. IsFiniteSet(DOMAIN predictions) /\ IsFiniteSet(DOMAIN truths)
    BY <1>1, FS_Interval
<1>3. IsFiniteSet(types)
    BY <1>1, TypesAreFinite, FS_Union DEF EventTypes
<1>4. /\ \A p \in DOMAIN predictions : predictions[p].type \in types
      /\ \A t \in DOMAIN truths : truths[t].type \in types
    BY DEF EventTypes
<1>5. \A m \in matches : m[1] \in DOMAIN predictions
    OBVIOUS
<1>6. IsFiniteSet(matches) /\ IsFiniteSet(alarms) /\ IsFiniteSet(misses)
    <2>1. IsFiniteSet((DOMAIN predictions) \X (DOMAIN truths))
        BY <1>2, FS_Product
    <2>2. IsFiniteSet(matches)
        BY <2>1, FS_Subset
    <2>3. alarms \in SUBSET DOMAIN predictions /\ misses \in SUBSET DOMAIN truths
        BY DEF FalseAlarms, Remaining
    <2> QED
        BY <1>2, <2>2, <2>3, FS_Subset
<1>7. \A type : /\ of(type).falsePositive
                        = ErrorSummary(predictions, truths, matches, type).unmatchedPrediction
                /\ of(type).falseNegative
                        = ErrorSummary(predictions, truths, matches, type).missedGroundTruth
    BY TypeCountsFacts
<1> HIDE DEF types
<1>8. SumFunction(count("truePositive")) = Cardinality(matches)
    <2> DEFINE typeOf == [m \in matches |-> predictions[m[1]].type]
               c == Sizes(types, matches, typeOf)
    <2>1. typeOf \in [matches -> types]
        BY <1>4, <1>5
    <2>2. ASSUME NEW x \in types
          PROVE  of(x)["truePositive"] = Cardinality({m \in matches : typeOf[m] = x})
        <3>1. {m \in matches : typeOf[m] = x} = {m \in matches : predictions[m[1]].type = x}
            OBVIOUS
        <3>2. of(x).truePositive = Cardinality({m \in matches : predictions[m[1]].type = x})
            BY DEF TypeCounts
        <3> QED
            BY <3>1, <3>2
    <2>3. count("truePositive") = c
        <3> HIDE DEF of, typeOf
        <3> QED
            BY <2>2 DEF Sizes
    <2>4. SumFunction(c) = Cardinality(matches)
        <3> HIDE DEF typeOf
        <3> QED
            BY <1>3, <1>6, <2>1, TypesAddUp
    <2> HIDE DEF count, c
    <2> QED
        BY <2>3, <2>4
<1>9. SumFunction(count("falsePositive")) = Cardinality(alarms)
    <2> DEFINE typeOf == [p \in alarms |-> predictions[p].type]
               c == Sizes(types, alarms, typeOf)
    <2>1. typeOf \in [alarms -> types]
        BY <1>4 DEF FalseAlarms
    <2>2. ASSUME NEW x \in types
          PROVE  of(x)["falsePositive"] = Cardinality({p \in alarms : typeOf[p] = x})
        <3>1. {p \in alarms : typeOf[p] = x} = OfType(predictions, x) \cap alarms
            BY DEF OfType, FalseAlarms
        <3>2. of(x).falsePositive = Cardinality(OfType(predictions, x) \cap alarms)
            BY <1>7 DEF ErrorSummary
        <3> QED
            BY <3>1, <3>2
    <2>3. count("falsePositive") = c
        <3> HIDE DEF of, typeOf
        <3> QED
            BY <2>2 DEF Sizes
    <2>4. SumFunction(c) = Cardinality(alarms)
        <3> HIDE DEF typeOf, alarms
        <3> QED
            BY <1>3, <1>6, <2>1, TypesAddUp
    <2> HIDE DEF count, c
    <2> QED
        BY <2>3, <2>4
<1>10. SumFunction(count("falseNegative")) = Cardinality(misses)
    <2> DEFINE typeOf == [t \in misses |-> truths[t].type]
               c == Sizes(types, misses, typeOf)
    <2>1. typeOf \in [misses -> types]
        BY <1>4 DEF Remaining
    <2>2. ASSUME NEW x \in types
          PROVE  of(x)["falseNegative"] = Cardinality({t \in misses : typeOf[t] = x})
        <3>1. {t \in misses : typeOf[t] = x} = OfType(truths, x) \cap misses
            BY DEF OfType, Remaining
        <3>2. of(x).falseNegative = Cardinality(OfType(truths, x) \cap misses)
            BY <1>7 DEF ErrorSummary
        <3> QED
            BY <3>1, <3>2
    <2>3. count("falseNegative") = c
        <3> HIDE DEF of, typeOf
        <3> QED
            BY <2>2 DEF Sizes
    <2>4. SumFunction(c) = Cardinality(misses)
        <3> HIDE DEF typeOf, misses
        <3> QED
            BY <1>3, <1>6, <2>1, TypesAddUp
    <2> HIDE DEF count, c
    <2> QED
        BY <2>3, <2>4
<1>11. ASSUME NEW field \in DOMAIN whole
       PROVE  whole[field] = SumFunction(count(field))
    <2>1. field \in {"truePositive", "falsePositive", "falseNegative"}
        BY DEF Counts
    <2>2. /\ whole["truePositive"] = Cardinality(matches)
          /\ whole["falsePositive"] = Cardinality(alarms)
          /\ whole["falseNegative"] = Cardinality(misses)
        BY DEF Counts
    <2> HIDE DEF whole, count, alarms, misses
    <2> QED
        BY <2>1, <2>2, <1>8, <1>9, <1>10
<1> QED
    BY <1>7, <1>11 DEF CountsAddUp, types

\* The matcher of evaluate_timed_events, for all lists of predictions and events and
\* every tolerance: its matches are one to one, of one type and within the tolerance,
\* no prediction could do better with an event that none of higher rank has, and the
\* counts of the types add up to those of the whole and agree with the error summary.
THEOREM MatcherTheorem ==
    ASSUME NEW predictions \in Seq(Prediction), NEW truths \in Seq(Event), NEW tolerance
    PROVE  LET matches == Matches(predictions, truths, tolerance) IN
           /\ IsMatching(predictions, truths, tolerance, matches)
           /\ IsStable(predictions, truths, tolerance, matches)
           /\ CountsAddUp(predictions, truths, matches)
<1> DEFINE matches == Matches(predictions, truths, tolerance)
           N == Len(predictions)
<1>1. MatchedUpTo(predictions, truths, tolerance, N, matches)
    BY MatchesFacts
<1> HIDE DEF matches
<1>2. /\ matches \in SUBSET ((DOMAIN predictions) \X (DOMAIN truths))
      /\ IsMatching(predictions, truths, tolerance, matches)
    BY <1>1 DEF MatchedUpTo
<1>3. ASSUME NEW p \in DOMAIN predictions, NEW t \in DOMAIN truths
      PROVE  StableAt(predictions, truths, tolerance, matches, p, t)
    <2>1. p \in 1..N
        OBVIOUS
    <2>2. PICK k \in 1..N : Ordered(predictions)[k] = p
        BY <2>1, OrderedRanks
    <2> QED
        BY <1>1, <2>2 DEF MatchedUpTo
<1>4. IsStable(predictions, truths, tolerance, matches)
    BY <1>3 DEF IsStable, StableAt
<1>5. CountsAddUp(predictions, truths, matches)
    BY <1>2, CountsFacts
<1> QED
    BY <1>2, <1>4, <1>5 DEF matches

-----------------------------------------------------------------------------
(* Evaluation of the alerts of a video. *)

\* Candidates are made of a rule, an active track and another one or none.
LEMMA CandidateForm ==
    ASSUME NEW ts, NEW first, NEW since, NEW now,
           NEW c \in Candidate(ts, first, since, now)
    PROVE  \E k \in Rules \X Active(ts), j \in {0} \cup Active(ts) :
                c = CandidateOf(k, now, j)
<1> DEFINE Keyed == Rules \X Active(ts)
           Zoned == {k \in Inside(ts) : now - first[k] >= k[1].debounce}
           Stopped == {k \in Still(ts) : now - since[k] >= k[1].dwell}
           Fast == {k \in Keys({"excess_speed"}, ts) : TooFast(k[1], ts[k[2]])}
           Wrong == {k \in Keys({"wrong_way"}, ts) : WrongWay(k[1], ts[k[2]])}
           Near(j) == {k \in Keys({"candidate_near_miss"}, ts) :
                        /\ k[2] < j /\ Eligible(k[1], ts[j])
                        /\ NearMiss(k[1], ts[k[2]], ts[j])}
<1>1. \/ \E k \in Zoned : c = CandidateOf(k, now, 0)
      \/ \E k \in Stopped : c = CandidateOf(k, now, 0)
      \/ \E k \in Fast : c = CandidateOf(k, now, 0)
      \/ \E k \in Wrong : c = CandidateOf(k, now, 0)
      \/ \E j \in Active(ts) : \E k \in Near(j) : c = CandidateOf(k, now, j)
    BY Zenon DEF Candidate, CandidateOf
<1>2. /\ Zoned \subseteq Keyed /\ Stopped \subseteq Keyed
      /\ Fast \subseteq Keyed /\ Wrong \subseteq Keyed
      /\ \A j : Near(j) \subseteq Keyed
    BY DEF Inside, ZoneKeys, Still, StationaryKeys, Keys
<1> HIDE DEF Zoned, Stopped, Fast, Wrong, Near, Keyed
<1>3. \E k \in Keyed, j \in {0} \cup Active(ts) : c = CandidateOf(k, now, j)
    BY <1>1, <1>2
<1> QED
    BY <1>3 DEF Keyed

\* A frame has finitely many candidates.
LEMMA CandidatesAreFinite ==
    ASSUME NEW ts, IsFiniteSet(Active(ts)), NEW first, NEW since, NEW now
    PROVE  IsFiniteSet(Candidate(ts, first, since, now))
<1> DEFINE Keyed == Rules \X Active(ts)
           Others == {0} \cup Active(ts)
           f == [q \in Keyed \X Others |-> CandidateOf(q[1], now, q[2])]
           Y == {f[q] : q \in Keyed \X Others}
<1>1. IsFiniteSet(Keyed)
    BY RulesAssumption, FS_Product
<1>2. IsFiniteSet(Others)
    BY FS_Singleton, FS_Union
<1>3. IsFiniteSet(Keyed \X Others)
    <2> HIDE DEF Keyed, Others
    <2> QED
        BY <1>1, <1>2, FS_Product
<1>4. f \in Surjection(Keyed \X Others, Y)
    <2> HIDE DEF Keyed, Others
    <2> QED
        BY DEF Surjection
<1>5. IsFiniteSet(Y)
    <2> HIDE DEF f, Y, Keyed, Others
    <2> QED
        BY <1>3, <1>4, FS_Surjection
<1>6. ASSUME NEW c \in Candidate(ts, first, since, now)
      PROVE  c \in Y
    <2>1. PICK k \in Keyed, j \in Others : c = CandidateOf(k, now, j)
        BY CandidateForm
    <2> HIDE DEF Keyed, Others
    <2>2. <<k, j>> \in Keyed \X Others /\ f[<<k, j>>] = CandidateOf(k, now, j)
        OBVIOUS
    <2> QED
        BY <2>1, <2>2
<1>7. Candidate(ts, first, since, now) \in SUBSET Y
    BY <1>6
<1> HIDE DEF Y
<1> QED
    BY <1>5, <1>7, FS_Subset

\* The alerts of a video can be listed: a frame adds finitely many.
AlertsAreFinite == IsFiniteSet(alerts)

\* A frame adds finitely many alerts.
LEMMA FiniteStep ==
    ASSUME LoopInv', AlertsAreFinite, NEW detections \in Scenes, Analyse(detections)
    PROVE  AlertsAreFinite'
<1>1. PICK first, since, now :
        alerts' = alerts \cup Emitted(Candidate(tracks', first, since, now))
    BY DEF Analyse, Evaluate
<1> DEFINE C == Candidate(tracks', first, since, now)
<1>2. Emitted(C) \in SUBSET C
    BY DEF Emitted
<1>3. IsFiniteSet(Active(tracks'))
    <2>1. DOMAIN tracks' = 1..Len(tracks') /\ Len(tracks') \in Nat
        BY DEF LoopInv, TracksKept
    <2>2. IsFiniteSet(DOMAIN tracks')
        BY <2>1, FS_Interval
    <2>3. Active(tracks') \in SUBSET DOMAIN tracks'
        BY DEF Active
    <2> QED
        BY <2>2, <2>3, FS_Subset
<1>4. IsFiniteSet(C)
    BY <1>3, CandidatesAreFinite
<1> HIDE DEF C
<1>5. IsFiniteSet(Emitted(C))
    BY <1>2, <1>4, FS_Subset
<1> QED
    BY <1>1, <1>5, FS_Union DEF AlertsAreFinite, C

\* At any time a video has finitely many alerts.
LEMMA FiniteInductive == Spec => []AlertsAreFinite
<1>1. Init => AlertsAreFinite
    BY FS_EmptySet DEF Init, RulesInit, AlertsAreFinite
<1>2. LoopInv' /\ AlertsAreFinite /\ [Next]_vars => AlertsAreFinite'
    <2> SUFFICES ASSUME LoopInv', AlertsAreFinite, [Next]_vars
                 PROVE  AlertsAreFinite'
        OBVIOUS
    <2>1. CASE \E detections \in Scenes : Analyse(detections)
        BY <2>1, FiniteStep
    <2>2. CASE EndOfVideo
        BY <2>2 DEF EndOfVideo, engine, AlertsAreFinite
    <2>3. CASE UNCHANGED vars
        BY <2>3 DEF vars, engine, AlertsAreFinite
    <2> QED
        BY <2>1, <2>2, <2>3 DEF Next
<1> QED
    BY <1>1, <1>2, LoopInductive, PTL DEF Spec

\* The list of finitely many alerts is a sequence of alerts.
LEMMA AlertListType ==
    ASSUME AlertsAreFinite
    PROVE  AlertList \in Seq(alerts)
<1> DEFINE L == Seq(alerts)
           One(s) == CHOOSE x \in s : TRUE
           Folded(f) == [s \in SUBSET alerts |->
                IF s = {} THEN <<>> ELSE Append(f[s \ {One(s)}], One(s))]
           iter == CHOOSE f : f = Folded(f)
           N == Cardinality(alerts)
           Small(k) == \A s \in SUBSET alerts : Cardinality(s) <= k => iter[s] \in L
           T == {k \in 0..N : Small(k)}
<1>1. /\ N \in Nat
      /\ \A s \in SUBSET alerts :
            IsFiniteSet(s) /\ Cardinality(s) \in Nat /\ Cardinality(s) <= N
    BY FS_Subset, FS_CardinalityType DEF AlertsAreFinite
<1>2. AlertList = iter[alerts]
    BY DEF AlertList, FoldSet, MapThenFoldSet
<1>3. <<>> \in L /\ \A l \in L, a \in alerts : Append(l, a) \in L
    OBVIOUS
<1> HIDE DEF L
<1>4. iter = Folded(iter)
    <2> DEFINE op == [a \in alerts |-> [l \in L |-> Append(l, a)]]
               pick == [s \in SUBSET alerts |-> One(s)]
    <2>1. op \in [alerts -> [L -> L]]
        BY <1>3
    <2>2. \A s \in SUBSET alerts : s # {} => pick[s] \in s
        OBVIOUS
    <2>3. \A s \in SUBSET alerts : pick[s] = One(s)
        OBVIOUS
    <2>4. \A a \in alerts, l \in L : op[a][l] = Append(l, a)
        OBVIOUS
    <2> HIDE DEF op, pick, One
    <2>5. Fold(alerts, L, <<>>, op, pick)
        BY <1>3, <2>1, <2>2 DEF Fold, AlertsAreFinite
    <2>6. PICK f : f \in FoldValues(alerts, L, <<>>, op, pick)
        BY <2>5, FoldExists
    <2>7. f \in [SUBSET alerts -> L] /\ \A s \in SUBSET alerts :
                f[s] = IF s = {} THEN <<>> ELSE op[pick[s]][f[s \ {pick[s]}]]
        BY <2>6 DEF FoldValues
    <2>8. ASSUME NEW s \in SUBSET alerts, s # {}
          PROVE  op[pick[s]][f[s \ {pick[s]}]] = Append(f[s \ {One(s)}], One(s))
        <3>1. pick[s] \in alerts /\ s \ {pick[s]} \in SUBSET alerts
            BY <2>2, <2>8
        <3>2. f[s \ {pick[s]}] \in L
            BY <2>7, <3>1
        <3> QED
            BY <2>3, <2>4, <3>1, <3>2
    <2>9. f = Folded(f)
        <3>1. \A s \in SUBSET alerts :
                f[s] = IF s = {} THEN <<>> ELSE Append(f[s \ {One(s)}], One(s))
            BY <2>7, <2>8
        <3> QED
            BY <2>7, <3>1
    <2> HIDE DEF Folded
    <2> QED
        BY <2>9
<1> HIDE DEF iter
<1>5. /\ iter[{}] = <<>>
      /\ \A s \in SUBSET alerts :
            s # {} => iter[s] = Append(iter[s \ {One(s)}], One(s))
    <2> HIDE DEF One
    <2>1. PICK f : f = iter /\ iter = Folded(f)
        BY <1>4
    <2>2. \A s \in SUBSET alerts :
            iter[s] = IF s = {} THEN <<>> ELSE Append(f[s \ {One(s)}], One(s))
        BY <2>1
    <2> QED
        BY <2>1, <2>2
<1>6. \A s \in SUBSET alerts : Cardinality(s) <= 0 => s = {}
    BY <1>1, FS_EmptySet
<1>7. Small(0)
    BY <1>3, <1>5, <1>6
<1>8. ASSUME NEW k \in 1..N, Small(k - 1)
      PROVE  Small(k)
    <2> SUFFICES ASSUME NEW s \in SUBSET alerts, Cardinality(s) <= k
                 PROVE  iter[s] \in L
        OBVIOUS
    <2>1. CASE s = {}
        BY <2>1, <1>3, <1>5
    <2>2. CASE s # {}
        <3> DEFINE x == One(s)
        <3>1. x \in s /\ x \in alerts
            BY <2>2
        <3> HIDE DEF x
        <3>2. Cardinality(s \ {x}) <= k - 1
            BY <3>1, <1>1, FS_RemoveElement
        <3>3. iter[s \ {x}] \in L
            BY <1>8, <3>2
        <3>4. iter[s] = Append(iter[s \ {x}], x)
            BY <2>2, <1>5 DEF x
        <3> QED
            BY <3>1, <3>3, <3>4, <1>3
    <2> QED
        BY <2>1, <2>2
<1> HIDE DEF Small
<1>9. Small(N)
    <2>1. 0 \in T /\ \A k \in 1..N : k - 1 \in T => k \in T
        BY <1>1, <1>7, <1>8
    <2>2. N \in 0..N
        BY <1>1
    <2>3. N \in T
        <3> HIDE DEF T
        <3> QED
            BY <1>1, <2>1, <2>2, CountUp
    <2> QED
        BY <2>3
<1> QED
    BY <1>1, <1>2, <1>9 DEF Small, L

\* The alerts of every finished video, evaluated against every ground truth, are
\* matched soundly and counted once (evaluate_timed_events of evaluation.py, with the
\* lists that scripts/evaluate_events.py loads).
THEOREM EvaluationTheorem == Spec => []EvaluationIsSound
<1>1. LoopInv /\ SightingsInv /\ AlertsAreFinite => EvaluationIsSound
    <2> SUFFICES ASSUME LoopInv, SightingsInv, AlertsAreFinite,
                        NEW g \in GroundTruths
                 PROVE  LET predictions == Predictions(g.certain)
                            matches == Matches(predictions, g.truths, Tolerance)
                        IN  /\ IsMatching(predictions, g.truths, Tolerance, matches)
                            /\ IsStable(predictions, g.truths, Tolerance, matches)
                            /\ CountsAddUp(predictions, g.truths, matches)
        BY DEF EvaluationIsSound
    <2> DEFINE predictions == Predictions(g.certain)
               list == AlertList
               entry(n) == [type |-> list[n].rule.type, time |-> list[n].time,
                            confidence |-> IF g.certain THEN 1 ELSE list[n].track]
    <2>1. g.truths \in Seq(Event)
        BY EvaluationAssumption
    <2>2. list \in Seq(alerts)
        BY AlertListType
    <2>3. \A a \in alerts : a.rule.type \in EventNames /\ a.time \in Int /\ a.track \in Int
        <3> SUFFICES ASSUME NEW a \in alerts
                     PROVE  a.rule.type \in EventNames /\ a.time \in Int /\ a.track \in Int
            OBVIOUS
        <3>1. a.rule \in Rules /\ a.track \in DOMAIN tracks /\ a.time \in Frames
            BY DEF SightingsInv, AlertsHeld
        <3>2. a.rule.type \in EventNames
            <4>1. a.rule \in RuleConfig
                BY <3>1, RulesAssumption
            <4>2. a.rule.type \in RuleTypes
                BY <4>1 DEF RuleConfig
            <4> QED
                BY <4>2, EvaluationAssumption
        <3>3. a.track \in Int
            <4>1. DOMAIN tracks = 1..Len(tracks)
                BY DEF LoopInv, TracksKept
            <4> QED
                BY <3>1, <4>1
        <3>4. a.time \in Int
            <4>1. PICK n \in DOMAIN observations : a.time = observations[n].time
                BY <3>1 DEF Frames
            <4>2. observations \in Seq([time : Int, found : Scenes])
                BY DEF LoopInv, FramesTimed
            <4>3. observations[n] \in [time : Int, found : Scenes]
                <5>1. PICK R : R = [time : Int, found : Scenes]
                    OBVIOUS
                <5>2. observations \in Seq(R)
                    BY <4>2, <5>1
                <5>3. observations[n] \in R
                    BY <5>2
                <5> QED
                    BY <5>1, <5>3
            <4> QED
                BY <4>1, <4>3
        <3> QED
            BY <3>2, <3>3, <3>4
    <2> HIDE DEF list
    <2>4. predictions = [n \in 1..Len(list) |-> entry(n)]
        <3>1. DOMAIN list = 1..Len(list)
            BY <2>2
        <3> QED
            BY <3>1 DEF Predictions, list
    <2>5. ASSUME NEW n \in 1..Len(list)
          PROVE  entry(n) \in Prediction
        <3>1. list[n] \in alerts
            BY <2>2
        <3>2. PICK a \in alerts : a = list[n]
            BY <3>1
        <3>3. a.rule.type \in EventNames /\ a.time \in Int /\ a.track \in Int
            BY <2>3
        <3>4. entry(n) = [type |-> a.rule.type, time |-> a.time,
                          confidence |-> IF g.certain THEN 1 ELSE a.track]
            BY <3>2
        <3>5. (IF g.certain THEN 1 ELSE a.track) \in Int
            BY <3>3
        <3> QED
            BY <3>3, <3>4, <3>5 DEF Prediction
    <2>6. predictions \in Seq(Prediction)
        <3>1. Len(list) \in Nat
            BY <2>2
        <3>2. predictions \in [1..Len(list) -> Prediction]
            <4> HIDE DEF predictions, entry
            <4> QED
                BY <2>4, <2>5
        <3> HIDE DEF predictions
        <3> QED
            BY <3>1, <3>2
    <2> HIDE DEF predictions
    <2> QED
        BY <2>1, <2>6, MatcherTheorem DEF predictions
<1> QED
    BY <1>1, SightingsInductive, FiniteInductive, PTL

=============================================================================
