--------------------------- MODULE StoreAndForward ---------------------------
(***************************************************************************)
(* What the edge promises, as docs/edge-deployment.md describes it: events *)
(* are kept until the central API has accepted their batch, and a batch is *)
(* accepted once.  There is no network here, no agent and no attempt:      *)
(* nothing that can be lost.                                               *)
(***************************************************************************)

CONSTANT Events

VARIABLES taken,    \* events the site has produced
          kept,     \* events the queue holds
          accepted  \* accepted[b]: how often batch b has been accepted

deliveryVars == <<taken, kept, accepted>>

Init ==
    /\ taken = {} /\ kept = {}
    /\ accepted = [b \in SUBSET Events |-> 0]

Take(e) ==
    /\ e \notin taken
    /\ taken' = taken \cup {e}
    /\ kept' = kept \cup {e}
    /\ UNCHANGED accepted

\* Of the events of a site, once, whether or not it still keeps them: a batch
\* that arrives late may have been sent again with more events.
AcceptBatch(b) ==
    /\ b \subseteq taken
    /\ accepted[b] = 0
    /\ accepted' = [accepted EXCEPT ![b] = 1]
    /\ UNCHANGED <<taken, kept>>

Release(b) ==
    /\ accepted[b] = 1
    /\ kept' = kept \ b
    /\ UNCHANGED <<taken, accepted>>

Next ==
    \/ \E e \in Events : Take(e)
    \/ \E b \in SUBSET Events : AcceptBatch(b) \/ Release(b)

Spec == Init /\ [][Next]_deliveryVars

=============================================================================
