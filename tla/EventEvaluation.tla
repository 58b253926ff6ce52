--------------------------- MODULE EventEvaluation ---------------------------
(***************************************************************************)
(* evaluate_timed_events of evaluation.py: predicted events are matched    *)
(* with the events of a ground truth one to one, and counted.  Rates and   *)
(* mean errors are quotients of what is counted here and left out.         *)
(***************************************************************************)
EXTENDS Integers, Sequences, FiniteSets, Functions

CONSTANT EventNames   \* the types of events

\* An event has a type and a time; a prediction has a confidence as well.
Event == [type : EventNames, time : Int]
Prediction == [type : EventNames, time : Int, confidence : Int]

\* ordered_predictions: by confidence, then by time, then by index.
Precedes(predictions, p, q) ==
    LET a == predictions[p]
        b == predictions[q]
    IN  \/ a.confidence > b.confidence
        \/ /\ a.confidence = b.confidence
           /\ a.time < b.time \/ (a.time = b.time /\ p < q)

Ordered(predictions) ==
    [n \in DOMAIN predictions |-> CHOOSE p \in DOMAIN predictions :
        Cardinality({q \in DOMAIN predictions : Precedes(predictions, q, p)}) = n - 1]

TimingError(prediction, truth) ==
    IF prediction.time > truth.time THEN prediction.time - truth.time
                                    ELSE truth.time - prediction.time

Compatible(prediction, truth, tolerance) ==
    prediction.type = truth.type /\ TimingError(prediction, truth) <= tolerance

\* (mutant) A ground-truth event can be matched again.
CandidatesOfAll(prediction, truths, remaining, tolerance) ==
    {t \in DOMAIN truths : Compatible(prediction, truths[t], tolerance)}

EventCandidates(prediction, truths, remaining, tolerance) ==
    {t \in remaining : Compatible(prediction, truths[t], tolerance)}

\* The candidate that is nearest in time, then the earliest, then the first.
Nearest(prediction, truths, candidates) ==
    CHOOSE t \in candidates : \A u \in candidates :
        LET et == TimingError(prediction, truths[t])
            eu == TimingError(prediction, truths[u])
        IN  \/ et < eu
            \/ et = eu /\ truths[t].time < truths[u].time
            \/ et = eu /\ truths[t].time = truths[u].time /\ t <= u

\* `remaining` when the loop has found `matches`, which are pairs of the index of
\* a prediction and the index of an event; and the predictions without a match.
Remaining(truths, matches) == DOMAIN truths \ {m[2] : m \in matches}
FalseAlarms(predictions, matches) == DOMAIN predictions \ {m[1] : m \in matches}

\* One pass through the loop, for prediction `p`.
MatchNext(predictions, truths, tolerance, p, matches) ==
    LET found == EventCandidates(predictions[p], truths,
                                 Remaining(truths, matches), tolerance)
    IN  IF found = {} THEN matches
        ELSE matches \cup {<<p, Nearest(predictions[p], truths, found)>>}

\* The matches after each number of passes, and those after the loop.
MatchesAfter(predictions, truths, tolerance) ==
    LET order == Ordered(predictions)
        after[n \in 0..Len(predictions)] ==
            IF n = 0 THEN {}
            ELSE MatchNext(predictions, truths, tolerance, order[n], after[n - 1])
    IN  after

Matches(predictions, truths, tolerance) ==
    MatchesAfter(predictions, truths, tolerance)[Len(predictions)]

EventTypes(predictions, truths) ==
    {predictions[p].type : p \in DOMAIN predictions}
        \cup {truths[t].type : t \in DOMAIN truths}

OfType(events, type) == {n \in DOMAIN events : events[n].type = type}

\* The counts of the whole, of the lists that the loop has made.
Counts(predictions, truths, matches) ==
    [truePositive |-> Cardinality(matches),
     falsePositive |-> Cardinality(FalseAlarms(predictions, matches)),
     falseNegative |-> Cardinality(Remaining(truths, matches))]

\* per_type, where what is not a hit is a difference.
TypeCounts(predictions, truths, matches, type) ==
    LET hits == Cardinality({m \in matches : predictions[m[1]].type = type})
    IN  [truePositive |-> hits,
         falsePositive |-> Cardinality(OfType(predictions, type)) - hits,
         falseNegative |-> Cardinality(OfType(truths, type)) - hits]

\* error_summary, counted from the lists of the loop and not from per_type.
ErrorSummary(predictions, truths, matches, type) ==
    [unmatchedPrediction |-> Cardinality(
        OfType(predictions, type) \cap FalseAlarms(predictions, matches)),
     missedGroundTruth |-> Cardinality(
        OfType(truths, type) \cap Remaining(truths, matches))]

-----------------------------------------------------------------------------

\* One to one, of one type and within the tolerance.
IsMatching(predictions, truths, tolerance, matches) ==
    /\ \A m \in matches : Compatible(predictions[m[1]], truths[m[2]], tolerance)
    /\ \A m, n \in matches : (m[1] = n[1] \/ m[2] = n[2]) => m = n

\* A prediction could only do better with an event that one before it has.
IsStable(predictions, truths, tolerance, matches) ==
    \A p \in DOMAIN predictions, t \in DOMAIN truths :
        LET mine == {m \in matches : m[1] = p}
            better == \A m \in mine : TimingError(predictions[p], truths[t])
                                        < TimingError(predictions[p], truths[m[2]])
        IN  (Compatible(predictions[p], truths[t], tolerance) /\ better)
            => \E m \in matches : m[2] = t /\ Precedes(predictions, m[1], p)

\* The counts per type add up to those of the whole and are those of the error
\* summary: so no type has more hits than it has predictions or events.
CountsAddUp(predictions, truths, matches) ==
    LET types == EventTypes(predictions, truths)
        of(type) == TypeCounts(predictions, truths, matches, type)
        whole == Counts(predictions, truths, matches)
        errors(type) == ErrorSummary(predictions, truths, matches, type)
    IN  /\ \A field \in DOMAIN whole :
                whole[field] = SumFunction([type \in types |-> of(type)[field]])
        /\ \A type \in types :
                /\ of(type).falsePositive = errors(type).unmatchedPrediction
                /\ of(type).falseNegative = errors(type).missedGroundTruth

=============================================================================
