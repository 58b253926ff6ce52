--------------------------- MODULE VideoEvaluation ---------------------------
(***************************************************************************)
(* The alerts of a finished video evaluated against ground truths, as      *)
(* scripts/evaluate_events.py does with the lists of two files.            *)
(***************************************************************************)
EXTENDS AlertEvidence, EventEvaluation, FiniteSetsExt

CONSTANTS
    GroundTruths,  \* lists of events, and whether predictions count as certain
    Tolerance      \* tolerance_seconds

ASSUME EvaluationAssumption ==
    /\ RuleTypes \subseteq EventNames
    /\ \A g \in GroundTruths : g.certain \in BOOLEAN /\ g.truths \in Seq(Event)
    /\ Tolerance \in Nat

-----------------------------------------------------------------------------

\* The alerts in a list, as load_events returns them.
AlertList == FoldSet(LAMBDA a, list : Append(list, a), <<>>, alerts)

\* An alert without a confidence counts as certain; with one, it is here that of
\* its track.
Predictions(certain) ==
    LET list == AlertList IN
    [n \in DOMAIN list |-> [type |-> list[n].rule.type, time |-> list[n].time,
        confidence |-> IF certain THEN 1 ELSE list[n].track]]

-----------------------------------------------------------------------------
(* Property. *)

\* The matcher of evaluate_timed_events is greedy.  Whatever alerts a video has,
\* its matches are one to one, a prediction goes without a match or with a worse
\* one only if one of higher rank has taken the better, and no event is counted twice.
EvaluationIsSound ==
    finalized => \A g \in GroundTruths :
        LET predictions == Predictions(g.certain)
            matches == Matches(predictions, g.truths, Tolerance)
        IN  /\ IsMatching(predictions, g.truths, Tolerance, matches)
            /\ IsStable(predictions, g.truths, Tolerance, matches)
            /\ CountsAddUp(predictions, g.truths, matches)

=============================================================================
