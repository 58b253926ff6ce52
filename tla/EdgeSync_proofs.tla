--------------------------- MODULE EdgeSync_proofs ---------------------------
(***************************************************************************)
(* Proofs about EdgeSync, for any events, number of agent processes on one *)
(* queue, requests under way, batch size and faults.                       *)
(***************************************************************************)
EXTENDS EdgeSync, TLAPS

-----------------------------------------------------------------------------
(* The inductive invariant. *)

\* A request that has a sender is the one the sender waits for.
SenderWaits ==
    \A s \in Slots : \A a \in Agents :
        slot[s].from = a =>
            /\ agent[a].at = "waiting"
            /\ agent[a].batch = slot[s].batch
            /\ \A other \in Slots : slot[other].from = a => other = s

\* A good answer, on its way or received, is about a batch that is stored.
OkIsStored ==
    /\ \A s \in Slots : slot[s].at = "ok" => accepted[slot[s].batch] > 0
    /\ \A a \in Agents : agent[a].at = "ok" => accepted[agent[a].batch] > 0

\* A batch has one row, also where two handlers have met.
BatchStoredOnce == \A b \in Batch : accepted[b] <= 1

\* Types, answers that are true, and what follows from these.
EdgeInv ==
    /\ TypeOK
    /\ SenderWaits
    /\ OkIsStored
    /\ NothingLost
    /\ BatchStoredOnce

-----------------------------------------------------------------------------

LEMMA EdgeInit == Init => EdgeInv
<1> SUFFICES ASSUME Init PROVE EdgeInv
  OBVIOUS
<1>1. IdleAgent \in AgentState /\ FreeSlot \in Request
  BY DEF IdleAgent, AgentState, FreeSlot, Request, Batch
<1>2. TypeOK
  <2>1. [e \in Events |-> 0] \in [Events -> 0..MaxAttempts] /\ 0 \in 0..MaxFaults
    BY EdgeAssumption
  <2>2. [b \in Batch |-> 0] \in [Batch -> Nat]
    OBVIOUS
  <2> QED
    BY <1>1, <2>1, <2>2 DEF Init, TypeOK
<1>3. SenderWaits
  BY EdgeAssumption DEF Init, SenderWaits, FreeSlot
<1>4. OkIsStored
  BY DEF Init, OkIsStored, FreeSlot, IdleAgent
<1>5. NothingLost /\ BatchStoredOnce
  BY DEF Init, NothingLost, BatchStoredOnce
<1> QED
  BY <1>2, <1>3, <1>4, <1>5 DEF EdgeInv

\* Records of the state by their components.
LEMMA EdgeTypes ==
    ASSUME TypeOK
    PROVE  /\ \A a \in Agents :
                /\ agent[a].at \in {"idle", "waiting", "ok", "failed"}
                /\ agent[a].batch \in Batch
                /\ \A p \in {"idle", "waiting", "ok", "failed"} :
                     /\ [agent[a] EXCEPT !.at = p] \in AgentState
                     /\ [agent[a] EXCEPT !.at = p].at = p
                     /\ [agent[a] EXCEPT !.at = p].batch = agent[a].batch
           /\ \A s \in Slots :
                /\ slot[s].at \in {"free", "sent", "checked", "ok", "error"}
                /\ slot[s].from \in Agents \cup {NoAgent}
                /\ slot[s].batch \in Batch
                /\ \A p \in {"free", "sent", "checked", "ok", "error"} :
                     /\ [slot[s] EXCEPT !.at = p] \in Request
                     /\ [slot[s] EXCEPT !.at = p].at = p
                     /\ [slot[s] EXCEPT !.at = p].batch = slot[s].batch
                     /\ [slot[s] EXCEPT !.at = p].from = slot[s].from
                /\ [slot[s] EXCEPT !.from = NoAgent] \in Request
                /\ [slot[s] EXCEPT !.from = NoAgent].at = slot[s].at
                /\ [slot[s] EXCEPT !.from = NoAgent].batch = slot[s].batch
                /\ [slot[s] EXCEPT !.from = NoAgent].from = NoAgent
           /\ IdleAgent \in AgentState
           /\ IdleAgent.at = "idle"
           /\ FreeSlot \in Request
           /\ FreeSlot.at = "free"
           /\ FreeSlot.from = NoAgent
BY DEF TypeOK, AgentState, Request, IdleAgent, FreeSlot, Batch

\* What is stored stays stored.
LEMMA StoredGrows ==
    ASSUME TypeOK, [Next]_vars
    PROVE  \A b \in Batch : accepted[b] > 0 => accepted'[b] > 0
<1>1. CASE UNCHANGED accepted
  BY <1>1
<1>2. ASSUME NEW s \in Slots, accepted' =
                [accepted EXCEPT ![slot[s].batch] = @ + 1]
      PROVE  \A b \in Batch : accepted[b] > 0 => accepted'[b] > 0
  BY <1>2 DEF TypeOK
<1> QED
  BY <1>1, <1>2 DEF Next, vars, central, Add, AgentStep, Post, TimeOut,
     Acknowledge, MarkFailure, AcknowledgeFails, AgentDies, RequestStep,
     Check, Accept, Answer, Refuse, Lose

LEMMA EdgeFault ==
    ASSUME TypeOK, Fault
    PROVE  faults' \in 0..MaxFaults
BY EdgeAssumption DEF TypeOK, Fault

-----------------------------------------------------------------------------
(* The steps of the agent. *)

LEMMA AddStep ==
    ASSUME EdgeInv, NEW e \in Events, Add(e)
    PROVE  EdgeInv'
<1>1. TypeOK'
  BY DEF EdgeInv, TypeOK, Add, central
<1>2. SenderWaits' /\ OkIsStored' /\ BatchStoredOnce'
  BY DEF EdgeInv, Add, SenderWaits, OkIsStored, BatchStoredOnce, central
<1>3. NothingLost'
  BY DEF EdgeInv, Add, NothingLost, Stored, central
<1> QED
  BY <1>1, <1>2, <1>3 DEF EdgeInv

LEMMA PostStep ==
    ASSUME EdgeInv, NEW a \in Agents, NEW s \in Slots, Post(a, s)
    PROVE  EdgeInv'
<1>1. PICK b \in Oldest(queue) :
        /\ agent' = [agent EXCEPT ![a] = [at |-> "waiting", batch |-> b]]
        /\ slot' = [slot EXCEPT ![s] = [at |-> "sent", from |-> a, batch |-> b]]
  BY DEF Post
<1>2. b \in Batch
  BY DEF Oldest, Batch, EdgeInv, TypeOK
<1>3. TypeOK'
  BY <1>1, <1>2 DEF EdgeInv, TypeOK, Post, local, central, AgentState, Request
<1>4. SenderWaits'
  <2>1. \A t \in Slots : slot[t].from # a
    BY DEF EdgeInv, SenderWaits, Post
  <2> QED
    BY <1>1, <2>1 DEF EdgeInv, SenderWaits, TypeOK
<1>5. OkIsStored'
  BY <1>1 DEF EdgeInv, OkIsStored, TypeOK, Post, central
<1>6. NothingLost' /\ BatchStoredOnce'
  BY DEF EdgeInv, NothingLost, BatchStoredOnce, Stored, Post, local, central
<1> QED
  BY <1>3, <1>4, <1>5, <1>6 DEF EdgeInv

\* The agent gives up, or dies, and leaves its request without a sender.
LEMMA AbandonStep ==
    ASSUME EdgeInv, NEW a \in Agents, NEW now \in AgentState,
           now.at \in {"idle", "failed"},
           agent' = [agent EXCEPT ![a] = now],
           slot' = [s \in Slots |->
                      IF slot[s].from = a THEN [slot[s] EXCEPT !.from = NoAgent]
                                          ELSE slot[s]],
           faults' \in 0..MaxFaults,
           UNCHANGED <<local, central>>
    PROVE  EdgeInv'
<1>1. TypeOK
  BY DEF EdgeInv
<1>2. TypeOK'
  BY <1>1, EdgeTypes DEF TypeOK, local, central
<1>3. /\ \A t \in Slots :
            /\ slot'[t].at = slot[t].at
            /\ slot'[t].batch = slot[t].batch
            /\ slot'[t].from = IF slot[t].from = a THEN NoAgent ELSE slot[t].from
      /\ \A c \in Agents : agent'[c] = IF c = a THEN now ELSE agent[c]
  BY <1>1, EdgeTypes DEF TypeOK
<1>4. SenderWaits' /\ OkIsStored'
  BY <1>3, EdgeAssumption DEF EdgeInv, SenderWaits, OkIsStored, central
<1>5. NothingLost' /\ BatchStoredOnce'
  BY DEF EdgeInv, NothingLost, BatchStoredOnce, Stored, local, central
<1> QED
  BY <1>2, <1>4, <1>5 DEF EdgeInv

LEMMA TimeOutStep ==
    ASSUME EdgeInv, NEW a \in Agents, TimeOut(a)
    PROVE  EdgeInv'
<1> DEFINE now == [agent[a] EXCEPT !.at = "failed"]
<1>1. TypeOK /\ now \in AgentState /\ now.at = "failed"
  BY EdgeTypes DEF EdgeInv
<1>2. agent' = [agent EXCEPT ![a] = now] /\ UNCHANGED <<local, central>>
  BY DEF TimeOut
<1>3. faults' \in 0..MaxFaults
  BY <1>1, EdgeFault DEF TimeOut, TypeOK
<1>4. slot' = [s \in Slots |->
                 IF slot[s].from = a THEN [slot[s] EXCEPT !.from = NoAgent]
                                     ELSE slot[s]]
  BY <1>1 DEF TimeOut, Underway, TypeOK
<1> HIDE DEF now
<1> QED
  BY <1>1, <1>2, <1>3, <1>4, AbandonStep

LEMMA AgentDiesStep ==
    ASSUME EdgeInv, NEW a \in Agents, AgentDies(a)
    PROVE  EdgeInv'
<1>1. TypeOK /\ IdleAgent \in AgentState /\ IdleAgent.at = "idle"
  BY EdgeTypes DEF EdgeInv
<1>2. faults' \in 0..MaxFaults
  BY <1>1, EdgeFault DEF AgentDies
<1> QED
  BY <1>1, <1>2, AbandonStep DEF AgentDies

\* Rows leave the queue only with a batch that is stored.
LEMMA AcknowledgeStep ==
    ASSUME EdgeInv, NEW a \in Agents, Acknowledge(a)
    PROVE  EdgeInv'
<1>1. TypeOK
  BY DEF EdgeInv
<1>2. TypeOK'
  BY <1>1, EdgeTypes DEF TypeOK, Acknowledge, central
<1>3. SenderWaits' /\ OkIsStored' /\ BatchStoredOnce'
  <2>1. /\ \A c \in Agents : agent'[c] = IF c = a THEN IdleAgent ELSE agent[c]
        /\ IdleAgent.at = "idle" /\ slot' = slot /\ accepted' = accepted
        /\ agent[a].at = "ok"
    BY <1>1, EdgeTypes DEF TypeOK, Acknowledge, central
  <2> QED
    BY <2>1 DEF EdgeInv, SenderWaits, OkIsStored, BatchStoredOnce
<1>4. NothingLost'
  <2>1. agent[a].batch \in Batch /\ accepted[agent[a].batch] > 0
    BY <1>1, EdgeTypes DEF EdgeInv, OkIsStored, Acknowledge
  <2>2. \A e \in agent[a].batch \ Foreign : Stored(e)
    BY <2>1 DEF Stored
  <2> QED
    BY <2>2 DEF EdgeInv, NothingLost, Acknowledge, Stored, central
<1> QED
  BY <1>2, <1>3, <1>4 DEF EdgeInv

LEMMA FailureStep ==
    ASSUME EdgeInv, NEW a \in Agents, AcknowledgeFails(a) \/ MarkFailure(a)
    PROVE  EdgeInv'
<1>1. TypeOK
  BY DEF EdgeInv
<1>2. PICK now \in AgentState :
        now.at \in {"idle", "failed"} /\ agent' = [agent EXCEPT ![a] = now]
  BY <1>1, EdgeTypes DEF AcknowledgeFails, MarkFailure
<1>3. /\ slot[a] = slot[a] /\ UNCHANGED <<added, queue, slot, central>>
      /\ agent[a].at # "waiting"
  BY DEF AcknowledgeFails, MarkFailure, local
<1>4. attempts' \in [Events -> 0..MaxAttempts]
  BY <1>1, EdgeAssumption DEF TypeOK, AcknowledgeFails, MarkFailure, local
<1>5. faults' \in 0..MaxFaults
  BY <1>1, EdgeFault DEF TypeOK, AcknowledgeFails, MarkFailure
<1>6. TypeOK'
  BY <1>1, <1>2, <1>3, <1>4, <1>5 DEF TypeOK, central
<1>7. SenderWaits' /\ OkIsStored'
  BY <1>1, <1>2, <1>3 DEF EdgeInv, SenderWaits, OkIsStored, TypeOK, central
<1>8. NothingLost' /\ BatchStoredOnce'
  BY <1>3 DEF EdgeInv, NothingLost, BatchStoredOnce, Stored, central
<1> QED
  BY <1>6, <1>7, <1>8 DEF EdgeInv

-----------------------------------------------------------------------------
(* The steps of a request. *)

\* A request moves on in its handler and nothing else changes, but the store.
LEMMA HandlerStep ==
    ASSUME EdgeInv, NEW s \in Slots,
           NEW p \in {"ok", "checked", "error"},
           slot' = [slot EXCEPT ![s].at = p],
           accepted' \in [Batch -> Nat], online' \in BOOLEAN,
           faults' \in 0..MaxFaults,
           \A b \in Batch : accepted[b] > 0 => accepted'[b] > 0,
           p = "ok" => accepted'[slot[s].batch] > 0,
           BatchStoredOnce',
           UNCHANGED <<local, agent>>
    PROVE  EdgeInv'
<1> DEFINE now == [slot[s] EXCEPT !.at = p]
<1>1. TypeOK /\ slot \in [Slots -> Request] /\ slot[s] \in Request
  BY DEF EdgeInv, TypeOK
<1>2. /\ now \in Request
      /\ now.at = p /\ now.batch = slot[s].batch /\ now.from = slot[s].from
  BY <1>1 DEF Request
<1>moved. /\ slot' \in [Slots -> Request]
      /\ \A t \in Slots : slot'[t] = IF t = s THEN now ELSE slot[t]
  BY <1>1, <1>2
<1> HIDE DEF now
<1>3. TypeOK'
  BY <1>1, <1>moved DEF TypeOK, local
<1>4. SenderWaits'
  BY <1>2, <1>moved DEF EdgeInv, SenderWaits
<1>5. OkIsStored'
  <2>1. \A t \in Slots : slot[t].batch \in Batch
    BY <1>1, EdgeTypes
  <2>2. \A c \in Agents : agent[c].batch \in Batch
    BY <1>1, EdgeTypes
  <2> QED
    BY <1>2, <1>moved, <2>1, <2>2 DEF EdgeInv, OkIsStored
<1>6. NothingLost'
  BY DEF EdgeInv, NothingLost, Stored, local
<1> QED
  BY <1>3, <1>4, <1>5, <1>6 DEF EdgeInv

LEMMA CheckStep ==
    ASSUME EdgeInv, NEW s \in Slots, Check(s) \/ Refuse(s)
    PROVE  EdgeInv'
<1>1. TypeOK /\ slot[s].batch \in Batch
  BY EdgeTypes DEF EdgeInv
<1>2. /\ accepted' = accepted /\ online' = online /\ UNCHANGED <<local, agent>>
      /\ accepted' \in [Batch -> Nat] /\ online' \in BOOLEAN
  BY <1>1 DEF Check, Refuse, central, TypeOK
<1>3. BatchStoredOnce'
  BY <1>2 DEF EdgeInv, BatchStoredOnce
<1>4. faults' \in 0..MaxFaults
  BY <1>1, EdgeFault DEF TypeOK, Check, Refuse
<1>5. CASE Check(s)
  <2>1. CASE accepted[slot[s].batch] > 0
    BY <1>2, <1>3, <1>4, <1>5, <2>1, HandlerStep DEF Check
  <2>2. CASE ~(accepted[slot[s].batch] > 0)
    BY <1>2, <1>3, <1>4, <1>5, <2>2, HandlerStep DEF Check
  <2> QED
    BY <2>1, <2>2
<1>6. CASE Refuse(s)
  BY <1>2, <1>3, <1>4, <1>6, HandlerStep DEF Refuse
<1> QED
  BY <1>5, <1>6

LEMMA AcceptStep ==
    ASSUME EdgeInv, NEW s \in Slots, Accept(s)
    PROVE  EdgeInv'
<1> DEFINE b == slot[s].batch
<1>1. TypeOK /\ b \in Batch /\ accepted \in [Batch -> Nat]
      /\ online \in BOOLEAN
  BY EdgeTypes DEF EdgeInv, TypeOK
<1>2. UNCHANGED <<local, agent>> /\ faults' \in 0..MaxFaults
  BY <1>1 DEF Accept, TypeOK
<1>3. CASE slot' = [slot EXCEPT ![s].at = "error"] /\ UNCHANGED central
  <2>1. accepted' = accepted /\ online' = online
    BY <1>3 DEF central
  <2>2. BatchStoredOnce'
    BY <2>1 DEF EdgeInv, BatchStoredOnce
  <2> QED
    BY <1>1, <1>2, <1>3, <2>1, <2>2, HandlerStep
<1>4. CASE /\ ~(accepted[b] > 0)
           /\ slot' = [slot EXCEPT ![s].at = "ok"]
           /\ accepted' = [accepted EXCEPT ![b] = @ + 1]
           /\ online' = TRUE
  <2>1. /\ accepted' \in [Batch -> Nat] /\ accepted'[b] = 1
        /\ \A c \in Batch : c # b => accepted'[c] = accepted[c]
    BY <1>1, <1>4
  <2>2. BatchStoredOnce'
    BY <2>1 DEF EdgeInv, BatchStoredOnce
  <2>3. \A c \in Batch : accepted[c] > 0 => accepted'[c] > 0
    BY <2>1
  <2>4. online' \in BOOLEAN /\ accepted'[b] > 0
    BY <1>4, <2>1
  <2> QED
    BY <1>2, <1>4, <2>1, <2>2, <2>3, <2>4, HandlerStep
<1> QED
  BY <1>3, <1>4 DEF Accept

\* A slot is freed, and its answer is delivered to the sender if there is one.
LEMMA AnswerStep ==
    ASSUME EdgeInv, NEW s \in Slots, Answer(s) \/ Lose(s)
    PROVE  EdgeInv'
<1>1. TypeOK
  BY DEF EdgeInv
<1>2. /\ slot' = [slot EXCEPT ![s] = FreeSlot]
      /\ UNCHANGED <<local, central>>
  BY DEF Answer, Lose
<1>3. faults' \in 0..MaxFaults
  BY <1>1, EdgeFault DEF TypeOK, Answer, Lose
<1>4. NothingLost' /\ BatchStoredOnce'
  BY <1>2 DEF EdgeInv, NothingLost, BatchStoredOnce, Stored, local, central
<1>7. /\ \A t \in Slots : slot'[t] = IF t = s THEN FreeSlot ELSE slot[t]
      /\ FreeSlot.at = "free" /\ FreeSlot.from = NoAgent
      /\ accepted' = accepted
  BY <1>1, <1>2, EdgeTypes DEF TypeOK, central
<1>5. CASE agent' = agent
  <2>1. TypeOK'
    BY <1>1, <1>2, <1>3, <1>5, EdgeTypes DEF TypeOK, local, central
  <2>2. SenderWaits' /\ OkIsStored'
    BY <1>5, <1>7, EdgeAssumption DEF EdgeInv, SenderWaits, OkIsStored
  <2> QED
    BY <1>4, <2>1, <2>2 DEF EdgeInv
<1>6. ASSUME Answer(s), slot[s].from # NoAgent
      PROVE  EdgeInv'
  <2> DEFINE a == slot[s].from
             p == IF slot[s].at = "ok" THEN "ok" ELSE "failed"
             now == [agent[a] EXCEPT !.at = p]
  <2>1. a \in Agents /\ p \in {"ok", "failed"}
    BY <1>1, <1>6, EdgeTypes
  <2>2. /\ now \in AgentState /\ now.at = p /\ now.batch = agent[a].batch
        /\ agent' = [agent EXCEPT ![a] = now]
    <3>1. agent \in [Agents -> AgentState]
      BY <1>1 DEF TypeOK
    <3>2. agent' = [agent EXCEPT ![a].at = p]
      BY <1>6 DEF Answer
    <3> QED
      BY <2>1, <3>1, <3>2 DEF AgentState
  <2>3. agent[a].batch = slot[s].batch
        /\ \A t \in Slots : slot[t].from = a => t = s
    BY <2>1 DEF EdgeInv, SenderWaits
  <2>4. p = "ok" => accepted[slot[s].batch] > 0
    BY DEF EdgeInv, OkIsStored
  <2> HIDE DEF a, p, now
  <2>5. TypeOK'
    BY <1>1, <1>2, <1>3, <2>1, <2>2, EdgeTypes DEF TypeOK, local, central
  <2>6. \A c \in Agents : agent'[c] = IF c = a THEN now ELSE agent[c]
    BY <1>1, <2>2 DEF TypeOK
  <2>7. SenderWaits' /\ OkIsStored'
    BY <1>7, <2>1, <2>2, <2>3, <2>4, <2>6, EdgeAssumption
       DEF EdgeInv, SenderWaits, OkIsStored
  <2> QED
    BY <1>4, <2>5, <2>7 DEF EdgeInv
<1> QED
  BY <1>5, <1>6 DEF Answer, Lose

-----------------------------------------------------------------------------

LEMMA EdgeStep == EdgeInv /\ [Next]_vars => EdgeInv'
<1> SUFFICES ASSUME EdgeInv, [Next]_vars PROVE EdgeInv'
  OBVIOUS
<1>1. CASE UNCHANGED vars
  BY <1>1 DEF vars, local, central, EdgeInv, TypeOK, SenderWaits, OkIsStored,
     NothingLost, BatchStoredOnce, Stored
<1>2. CASE \E e \in Events : Add(e)
  BY <1>2, AddStep
<1>3. CASE \E a \in Agents : AgentStep(a) \/ AcknowledgeFails(a) \/ AgentDies(a)
  BY <1>3, PostStep, TimeOutStep, AcknowledgeStep, FailureStep, AgentDiesStep
     DEF AgentStep
<1>4. CASE \E s \in Slots : RequestStep(s) \/ Refuse(s) \/ Lose(s)
  BY <1>4, CheckStep, AcceptStep, AnswerStep DEF RequestStep
<1> QED
  BY <1>1, <1>2, <1>3, <1>4 DEF Next

LEMMA EdgeHolds == Spec => []EdgeInv
BY EdgeInit, EdgeStep, PTL DEF Spec

\* Requests, agents, queue and counters stay well typed.
THEOREM TypeTheorem == Spec => []TypeOK
<1>1. EdgeInv => TypeOK
  BY DEF EdgeInv
<1> QED
  BY <1>1, EdgeHolds, PTL

\* No event of the node's cameras is lost between the edge and the store.
THEOREM NothingLostTheorem == Spec => []NothingLost
<1>1. EdgeInv => NothingLost
  BY DEF EdgeInv
<1> QED
  BY <1>1, EdgeHolds, PTL

-----------------------------------------------------------------------------
(* The edge implements StoreAndForward.                                    *)

\* A request is about events of the site, also when they have left the queue.
RequestsKnown == \A s \in Slots : slot[s].batch \subseteq added

\* Only Post gives a request a batch, which it takes from the queue.
LEMMA RequestsKnownStep ==
    ASSUME EdgeInv, RequestsKnown, [Next]_vars
    PROVE  RequestsKnown'
<1>1. slot \in [Slots -> Request] /\ queue \subseteq added
  BY DEF EdgeInv, TypeOK
<1>2. added \subseteq added'
  BY DEF Next, vars, local, Add, AgentStep, Post, TimeOut, Acknowledge, MarkFailure,
     AcknowledgeFails, AgentDies, RequestStep, Check, Accept, Answer, Refuse, Lose
<1>3. \A s \in Slots : slot'[s].batch \in {slot[s].batch, {}} \cup SUBSET queue
  <2>1. CASE UNCHANGED slot
    BY <2>1
  <2>2. ASSUME NEW a \in Agents,
               slot' = [s \in Slots |->
                  IF slot[s].from = a THEN [slot[s] EXCEPT !.from = NoAgent]
                                      ELSE slot[s]]
        PROVE  \A s \in Slots : slot'[s].batch = slot[s].batch
    BY <1>1, <2>2 DEF Request
  <2>3. ASSUME NEW s \in Slots, NEW p, slot' = [slot EXCEPT ![s].at = p]
        PROVE  \A t \in Slots : slot'[t].batch = slot[t].batch
    BY <1>1, <2>3 DEF Request
  <2>4. ASSUME NEW s \in Slots, slot' = [slot EXCEPT ![s] = FreeSlot]
        PROVE  \A t \in Slots : slot'[t].batch \in {slot[t].batch, {}}
    BY <1>1, <2>4 DEF FreeSlot
  <2>5. ASSUME NEW a \in Agents, NEW s \in Slots, Post(a, s)
        PROVE  \A t \in Slots : slot'[t].batch \in {slot[t].batch} \cup SUBSET queue
    BY <1>1, <2>5 DEF Post, Oldest
  <2>6. CASE \E e \in Events : Add(e)
    BY <2>1, <2>6 DEF Add
  <2>7. CASE \E a \in Agents : AgentStep(a) \/ AcknowledgeFails(a) \/ AgentDies(a)
    BY <2>1, <2>2, <2>5, <2>7 DEF AgentStep, TimeOut, Acknowledge, MarkFailure,
       AcknowledgeFails, AgentDies
  <2>8. CASE \E s \in Slots : RequestStep(s) \/ Refuse(s) \/ Lose(s)
    BY <2>1, <2>3, <2>4, <2>8 DEF RequestStep, Check, Accept, Answer, Refuse, Lose
  <2>9. CASE UNCHANGED vars
    BY <2>1, <2>9 DEF vars
  <2> QED
    BY <2>6, <2>7, <2>8, <2>9 DEF Next
<1> QED
  BY <1>1, <1>2, <1>3 DEF RequestsKnown

\* At first nothing is queued, requested or stored.
LEMMA DeliveryInit == Init => Delivery!Init
BY DEF Init, Delivery!Init, Batch

\* The commit of a batch accepts it; the deletion of its rows releases it; all
\* other steps but the one that adds an event leave queue and store alone.
LEMMA DeliveryStep ==
    ASSUME EdgeInv, RequestsKnown, [Next]_vars
    PROVE  [Delivery!Next]_(Delivery!deliveryVars)
<1>1. TypeOK
  BY DEF EdgeInv
<1>2. ASSUME NEW e \in Events, Add(e)
      PROVE  Delivery!Take(e)
  BY <1>2 DEF Add, Delivery!Take, central
<1>3. ASSUME NEW a \in Agents, Acknowledge(a)
      PROVE  \E b \in SUBSET Events : Delivery!Release(b)
  <2>1. agent[a].batch \in Batch /\ accepted[agent[a].batch] > 0
    BY <1>1, <1>3, EdgeTypes DEF EdgeInv, OkIsStored, Acknowledge
  <2>2. accepted[agent[a].batch] = 1
    BY <1>1, <2>1 DEF EdgeInv, TypeOK, BatchStoredOnce
  <2> QED
    BY <1>3, <2>1, <2>2 DEF Acknowledge, Delivery!Release, central, Batch
<1>4. ASSUME NEW s \in Slots, Accept(s)
      PROVE  \/ \E b \in SUBSET Events : Delivery!AcceptBatch(b)
             \/ UNCHANGED Delivery!deliveryVars
  <2> DEFINE b == slot[s].batch
  <2>1. b \in Batch /\ b \subseteq added /\ accepted[b] \in Nat
    BY <1>1, EdgeTypes DEF RequestsKnown, TypeOK
  <2>2. CASE UNCHANGED central
    BY <1>4, <2>2 DEF Accept, Delivery!deliveryVars, local, central
  <2>3. CASE ~(accepted[b] > 0) /\ accepted' = [accepted EXCEPT ![b] = @ + 1]
    <3>1. accepted[b] = 0
      BY <2>1, <2>3
    <3>2. accepted' = [accepted EXCEPT ![b] = 1]
      BY <2>3, <3>1
    <3> QED
      BY <1>4, <2>1, <3>1, <3>2 DEF Accept, Delivery!AcceptBatch, local, Batch
  <2> QED
    BY <1>4, <2>2, <2>3 DEF Accept
<1>5. CASE UNCHANGED vars
  BY <1>5 DEF vars, local, central, Delivery!deliveryVars
<1>6. CASE \E a \in Agents : AgentStep(a) \/ AcknowledgeFails(a) \/ AgentDies(a)
  <2>1. \/ \E a \in Agents : Acknowledge(a)
        \/ UNCHANGED <<added, queue, accepted>>
    BY <1>6 DEF AgentStep, Post, TimeOut, MarkFailure, AcknowledgeFails, AgentDies,
       local, central
  <2> QED
    BY <1>3, <2>1 DEF Delivery!Next, Delivery!deliveryVars
<1>7. CASE \E s \in Slots : RequestStep(s) \/ Refuse(s) \/ Lose(s)
  <2>1. \/ \E s \in Slots : Accept(s)
        \/ UNCHANGED <<added, queue, accepted>>
    BY <1>7 DEF RequestStep, Check, Answer, Refuse, Lose, local, central
  <2> QED
    BY <1>4, <2>1 DEF Delivery!Next, Delivery!deliveryVars
<1> QED
  BY <1>2, <1>5, <1>6, <1>7 DEF Next, Delivery!Next

\* Whatever is lost, late, sent again or dies between the queue and the store, they
\* behave as the queue and the store of StoreAndForward (sync of agent.py and
\* edge_sync of api/router.py).
THEOREM StoreAndForwardTheorem == Spec => ImplementsStoreAndForward
<1>1. Init => RequestsKnown
  BY DEF Init, RequestsKnown, FreeSlot
<1>2. EdgeInv /\ RequestsKnown /\ [Next]_vars => RequestsKnown'
  BY RequestsKnownStep
<1>3. EdgeInv /\ RequestsKnown /\ [Next]_vars
        => [Delivery!Next]_(Delivery!deliveryVars)
  BY DeliveryStep
<1> QED
  BY <1>1, <1>2, <1>3, DeliveryInit, EdgeHolds, PTL
     DEF Spec, ImplementsStoreAndForward, Delivery!Spec

-----------------------------------------------------------------------------
(* Every event is stored once by a single agent that never fails.          *)

Undisturbed == faults = 0 /\ \E a \in Agents : Agents = {a}

\* The batch of a sync call is known to be stored.
Confirmed(a) ==
    \/ agent[a].at = "ok"
    \/ \E s \in Slots : slot[s].from = a /\ slot[s].at = "ok"

\* A request has its sender, and a sender its request.
Paired ==
    /\ \A s \in Slots : slot[s].at # "free" => slot[s].from \in Agents
    /\ \A a \in Agents : agent[a].at = "waiting" => Underway(a)

\* The batch of a sync call is still queued.
BatchQueued == \A a \in Agents : agent[a].at # "idle" => agent[a].batch \subseteq queue

\* An event that is both stored and queued is in the batch that the agent
\* knows, or is about to know, to be stored: no other batch will have it.
StoredOrQueued ==
    \A b \in Batch : accepted[b] > 0 =>
        /\ b \subseteq added
        /\ b \cap queue # {} =>
              \E a \in Agents : Confirmed(a) /\ b = agent[a].batch

OnceInv ==
    Undisturbed => Paired /\ BatchQueued /\ StoredOrQueued /\ EventStoredOnce

\* The stored events cannot be stored again while nothing new is accepted.
LEMMA SameStore ==
    ASSUME EdgeInv, OnceInv, accepted' = accepted,
           Undisturbed' => Undisturbed,
           Undisturbed /\ Undisturbed' => (Paired /\ BatchQueued /\ StoredOrQueued)'
    PROVE  OnceInv'
BY DEF OnceInv, EventStoredOnce, Undisturbed

LEMMA OnceInit == Init => OnceInv
BY EdgeAssumption
   DEF Init, OnceInv, Paired, BatchQueued, StoredOrQueued, EventStoredOnce,
       FreeSlot, IdleAgent

LEMMA AddOnce ==
    ASSUME EdgeInv, OnceInv, NEW e \in Events, Add(e)
    PROVE  OnceInv'
<1>1. /\ agent' = agent /\ slot' = slot /\ accepted' = accepted
      /\ faults' = faults /\ e \notin added
      /\ added' = added \cup {e} /\ queue' = queue \cup {e}
  BY DEF Add, central
<1>2. ASSUME Undisturbed PROVE (Paired /\ BatchQueued /\ StoredOrQueued)'
  <2>1. Paired /\ BatchQueued /\ StoredOrQueued
    BY <1>2 DEF OnceInv
  <2>2. Paired' /\ BatchQueued'
    BY <1>1, <2>1 DEF Paired, BatchQueued, Underway
  <2>3. StoredOrQueued'
    BY <1>1, <2>1 DEF StoredOrQueued, Confirmed
  <2> QED
    BY <2>2, <2>3
<1> QED
  BY <1>1, <1>2, SameStore DEF Undisturbed

LEMMA PostOnce ==
    ASSUME EdgeInv, OnceInv, NEW a \in Agents, NEW s \in Slots, Post(a, s)
    PROVE  OnceInv'
<1>1. PICK b \in Oldest(queue) :
        /\ agent' = [agent EXCEPT ![a] = [at |-> "waiting", batch |-> b]]
        /\ slot' = [slot EXCEPT ![s] = [at |-> "sent", from |-> a, batch |-> b]]
  BY DEF Post
<1>2. /\ b \subseteq queue /\ UNCHANGED <<local, central, faults>>
      /\ agent[a].at = "idle" /\ slot[s].at = "free"
  BY DEF Oldest, Post
<1>3. /\ \A c \in Agents : agent'[c] = IF c = a
            THEN [at |-> "waiting", batch |-> b] ELSE agent[c]
      /\ \A t \in Slots : slot'[t] = IF t = s
            THEN [at |-> "sent", from |-> a, batch |-> b] ELSE slot[t]
  BY <1>1 DEF EdgeInv, TypeOK
<1>4. ASSUME Undisturbed PROVE (Paired /\ BatchQueued /\ StoredOrQueued)'
  <2>1. Paired /\ BatchQueued /\ StoredOrQueued /\ Agents = {a}
    BY <1>4 DEF OnceInv, Undisturbed
  <2>2. Paired' /\ BatchQueued'
    BY <1>2, <1>3, <2>1 DEF Paired, BatchQueued, Underway, local
  <2>3. ~Confirmed(a)
    BY <1>2 DEF Confirmed, EdgeInv, SenderWaits
  <2>4. StoredOrQueued'
    BY <1>2, <2>1, <2>3 DEF StoredOrQueued, local, central
  <2> QED
    BY <2>2, <2>4
<1> QED
  BY <1>2, <1>4, SameStore DEF Undisturbed, central

\* Without a fault the sender of a request outlasts it.
LEMMA TimeOutOnce ==
    ASSUME EdgeInv, OnceInv, NEW a \in Agents, TimeOut(a)
    PROVE  ~Undisturbed'
<1> SUFFICES ASSUME Undisturbed' PROVE FALSE
  OBVIOUS
<1>1. faults \in Nat /\ (faults' = faults \/ faults' = faults + 1)
  BY EdgeAssumption DEF TimeOut, Fault, EdgeInv, TypeOK
<1>2. Undisturbed /\ faults' = faults
  BY <1>1 DEF Undisturbed
<1>3. Underway(a)
  BY <1>2 DEF OnceInv, Paired, TimeOut
<1> QED
  BY <1>1, <1>2, <1>3 DEF TimeOut, Fault

LEMMA FaultOnce ==
    ASSUME EdgeInv, OnceInv, Fault
    PROVE  OnceInv'
BY EdgeAssumption DEF EdgeInv, TypeOK, Fault, OnceInv, Undisturbed

LEMMA AcknowledgeOnce ==
    ASSUME EdgeInv, OnceInv, NEW a \in Agents, Acknowledge(a)
    PROVE  OnceInv'
<1>1. /\ \A c \in Agents : agent'[c] = IF c = a THEN IdleAgent ELSE agent[c]
      /\ IdleAgent.at = "idle" /\ slot' = slot /\ accepted' = accepted
      /\ agent[a].at = "ok" /\ faults' = faults /\ added' = added
      /\ queue' = queue \ agent[a].batch
  BY EdgeTypes DEF EdgeInv, TypeOK, Acknowledge, central
<1>2. ASSUME Undisturbed PROVE (Paired /\ BatchQueued /\ StoredOrQueued)'
  <2>1. Paired /\ BatchQueued /\ StoredOrQueued /\ Agents = {a}
    BY <1>2 DEF OnceInv, Undisturbed
  <2>2. Paired' /\ BatchQueued'
    BY <1>1, <2>1 DEF Paired, BatchQueued, Underway
  <2>3. ASSUME NEW b \in Batch, accepted[b] > 0
        PROVE  b \subseteq added /\ b \cap queue' = {}
    BY <1>1, <2>1, <2>3 DEF StoredOrQueued
  <2>4. StoredOrQueued'
    BY <1>1, <2>3 DEF StoredOrQueued
  <2> QED
    BY <2>2, <2>4
<1> QED
  BY <1>1, <1>2, SameStore DEF Undisturbed

LEMMA MarkFailureOnce ==
    ASSUME EdgeInv, OnceInv, NEW a \in Agents, MarkFailure(a)
    PROVE  OnceInv'
<1>1. /\ \A c \in Agents : agent'[c] = IF c = a THEN IdleAgent ELSE agent[c]
      /\ IdleAgent.at = "idle" /\ slot' = slot /\ accepted' = accepted
      /\ agent[a].at = "failed" /\ faults' = faults
      /\ added' = added /\ queue' = queue
  BY EdgeTypes DEF EdgeInv, TypeOK, MarkFailure, central
<1>2. ASSUME Undisturbed PROVE (Paired /\ BatchQueued /\ StoredOrQueued)'
  <2>1. Paired /\ BatchQueued /\ StoredOrQueued /\ Agents = {a}
    BY <1>2 DEF OnceInv, Undisturbed
  <2>2. Paired' /\ BatchQueued'
    BY <1>1, <2>1 DEF Paired, BatchQueued, Underway
  <2>3. ~Confirmed(a)
    BY <1>1 DEF Confirmed, EdgeInv, SenderWaits
  <2>4. StoredOrQueued'
    BY <1>1, <2>1, <2>3 DEF StoredOrQueued
  <2> QED
    BY <2>2, <2>4
<1> QED
  BY <1>1, <1>2, SameStore DEF Undisturbed

\* A request that moves on in its handler keeps its sender.
LEMMA HandlerOnce ==
    ASSUME EdgeInv, OnceInv, Undisturbed, NEW s \in Slots,
           slot[s].at \in {"sent", "checked"},
           NEW p \in {"ok", "checked", "error"},
           slot' = [slot EXCEPT ![s].at = p],
           UNCHANGED <<local, agent>>
    PROVE  /\ Paired' /\ BatchQueued'
           /\ \A a \in Agents : Confirmed(a) => Confirmed(a)'
           /\ \A a \in Agents : p = "ok" /\ slot[s].from = a => Confirmed(a)'
<1>1. /\ \A t \in Slots : slot'[t].from = slot[t].from
      /\ \A t \in Slots : slot'[t].at = IF t = s THEN p ELSE slot[t].at
      /\ agent' = agent /\ queue' = queue
  BY EdgeTypes DEF EdgeInv, TypeOK, local
<1>2. Paired /\ BatchQueued
  BY DEF OnceInv
<1>3. Paired' /\ BatchQueued'
  BY <1>1, <1>2 DEF Paired, BatchQueued, Underway
<1>4. \A a \in Agents : Confirmed(a) => Confirmed(a)'
  BY <1>1 DEF Confirmed
<1>5. \A a \in Agents : p = "ok" /\ slot[s].from = a => Confirmed(a)'
  BY <1>1 DEF Confirmed
<1> QED
  BY <1>3, <1>4, <1>5

LEMMA CheckOnce ==
    ASSUME EdgeInv, OnceInv, NEW s \in Slots, Check(s)
    PROVE  OnceInv'
<1>1. /\ UNCHANGED <<local, agent>> /\ accepted' = accepted /\ faults' = faults
      /\ agent' = agent /\ added' = added /\ queue' = queue
      /\ slot[s].at \in {"sent", "checked"}
  BY DEF Check, central, local
<1>2. PICK p \in {"ok", "checked", "error"} : slot' = [slot EXCEPT ![s].at = p]
  BY DEF Check
<1>3. ASSUME Undisturbed PROVE (Paired /\ BatchQueued /\ StoredOrQueued)'
  <2>1. /\ Paired' /\ BatchQueued'
        /\ \A a \in Agents : Confirmed(a) => Confirmed(a)'
    BY <1>1, <1>2, <1>3, HandlerOnce
  <2>2. StoredOrQueued'
    BY <1>1, <1>3, <2>1 DEF OnceInv, StoredOrQueued
  <2> QED
    BY <2>1, <2>2
<1> QED
  BY <1>1, <1>3, SameStore DEF Undisturbed

\* The batch that is accepted is still queued whole, and no queued event is
\* stored: the new batch has no event in common with the earlier ones.
LEMMA AcceptOnce ==
    ASSUME EdgeInv, OnceInv, NEW s \in Slots, Accept(s)
    PROVE  OnceInv'
<1> DEFINE b == slot[s].batch
<1>1. /\ UNCHANGED <<local, agent>> /\ faults' = faults
      /\ agent' = agent /\ added' = added /\ queue' = queue
      /\ slot[s].at = "checked"
      /\ slot[s].at \in {"sent", "checked"}
  BY DEF Accept, local
<1>2. CASE slot' = [slot EXCEPT ![s].at = "error"] /\ UNCHANGED central
  <2>1. ASSUME Undisturbed PROVE (Paired /\ BatchQueued /\ StoredOrQueued)'
    <3>1. /\ Paired' /\ BatchQueued'
          /\ \A a \in Agents : Confirmed(a) => Confirmed(a)'
      BY <1>1, <1>2, <2>1, HandlerOnce
    <3>2. StoredOrQueued'
      BY <1>1, <1>2, <2>1, <3>1 DEF OnceInv, StoredOrQueued, central
    <3> QED
      BY <3>1, <3>2
  <2> QED
    BY <1>1, <1>2, <2>1, SameStore DEF Undisturbed, central
<1>3. CASE /\ slot' = [slot EXCEPT ![s].at = "ok"]
           /\ accepted' = [accepted EXCEPT ![b] = @ + 1]
  <2> SUFFICES ASSUME Undisturbed
               PROVE  (Paired /\ BatchQueued /\ StoredOrQueued /\ EventStoredOnce)'
    BY <1>1 DEF OnceInv, Undisturbed
  <2>1. PICK a \in Agents : Agents = {a}
    BY DEF Undisturbed
  <2>2. /\ slot[s].from = a /\ agent[a].at = "waiting" /\ agent[a].batch = b
        /\ \A t \in Slots : slot[t].from = a => t = s
    BY <1>1, <2>1 DEF OnceInv, Paired, EdgeInv, SenderWaits
  <2>3. b \in Batch /\ b \subseteq queue /\ queue \subseteq added
    BY <2>2, EdgeTypes DEF OnceInv, BatchQueued, EdgeInv, TypeOK
  <2>4. /\ Paired' /\ BatchQueued' /\ Confirmed(a)'
    BY <1>1, <1>3, <2>2, HandlerOnce
  <2>5. \A c \in Batch : c # b => accepted'[c] = accepted[c]
    BY <1>3 DEF EdgeInv, TypeOK
  <2>6. ~Confirmed(a)
    BY <1>1, <2>2 DEF Confirmed
  <2>7. \A c \in Batch : accepted[c] > 0 => c \subseteq added /\ c \cap queue = {}
    BY <2>1, <2>6 DEF OnceInv, StoredOrQueued
  <2> HIDE DEF b
  <2>8. \A c \in Batch : accepted'[c] > 0 =>
           \/ c = b
           \/ accepted[c] > 0 /\ c \subseteq added /\ c \cap queue = {}
    BY <2>5, <2>7
  <2>9. StoredOrQueued'
    BY <1>1, <2>2, <2>3, <2>4, <2>8 DEF StoredOrQueued
  <2>10. EventStoredOnce
    BY DEF OnceInv
  <2>11. EventStoredOnce'
    BY <2>3, <2>8, <2>10 DEF EventStoredOnce, Undisturbed
  <2> QED
    BY <2>4, <2>9, <2>11
<1> QED
  BY <1>2, <1>3 DEF Accept

LEMMA AnswerOnce ==
    ASSUME EdgeInv, OnceInv, NEW s \in Slots, Answer(s)
    PROVE  OnceInv'
<1>1. /\ slot' = [slot EXCEPT ![s] = FreeSlot] /\ accepted' = accepted
      /\ faults' = faults /\ added' = added /\ queue' = queue
      /\ slot[s].at \in {"ok", "error"}
  BY DEF Answer, local, central
<1>2. /\ \A t \in Slots : slot'[t] = IF t = s THEN FreeSlot ELSE slot[t]
      /\ FreeSlot.at = "free" /\ FreeSlot.from = NoAgent
  BY <1>1, EdgeTypes DEF EdgeInv, TypeOK
<1>3. ASSUME Undisturbed PROVE (Paired /\ BatchQueued /\ StoredOrQueued)'
  <2>1. Paired /\ BatchQueued /\ StoredOrQueued
    BY <1>3 DEF OnceInv
  <2>2. PICK a \in Agents : Agents = {a}
    BY <1>3 DEF Undisturbed
  <2>3. /\ slot[s].from = a /\ agent[a].at = "waiting" /\ a # NoAgent
        /\ \A t \in Slots : slot[t].from = a => t = s
    BY <1>1, <2>1, <2>2, EdgeAssumption DEF Paired, EdgeInv, SenderWaits
  <2> DEFINE p == IF slot[s].at = "ok" THEN "ok" ELSE "failed"
  <2>4. /\ agent' = [agent EXCEPT ![a].at = p]
        /\ p \in {"ok", "failed"} /\ (slot[s].at = "ok" <=> p = "ok")
    BY <2>3 DEF Answer
  <2> HIDE DEF p
  <2>5. agent'[a].at = p /\ agent'[a].batch = agent[a].batch
    BY <2>4 DEF EdgeInv, TypeOK, AgentState
  <2>6. Paired' /\ BatchQueued'
    <3>1. Paired'
      BY <1>2, <2>1, <2>2, <2>3, <2>4, <2>5 DEF Paired, Underway
    <3>2. BatchQueued'
      BY <1>1, <2>1, <2>2, <2>3, <2>5 DEF BatchQueued
    <3> QED
      BY <3>1, <3>2
  <2>7. Confirmed(a) => Confirmed(a)'
    BY <2>3, <2>4, <2>5 DEF Confirmed
  <2>8. StoredOrQueued'
    BY <1>1, <2>1, <2>2, <2>5, <2>7 DEF StoredOrQueued
  <2> QED
    BY <2>6, <2>8
<1> QED
  BY <1>1, <1>3, SameStore DEF Undisturbed

LEMMA OnceStep == EdgeInv /\ OnceInv /\ [Next]_vars => OnceInv'
<1> SUFFICES ASSUME EdgeInv, OnceInv, [Next]_vars PROVE OnceInv'
  OBVIOUS
<1>1. CASE UNCHANGED vars
  BY <1>1 DEF vars, local, central, OnceInv, Undisturbed, Paired, BatchQueued,
     StoredOrQueued, EventStoredOnce, Confirmed, Underway
<1>2. CASE \E e \in Events : Add(e)
  BY <1>2, AddOnce
<1>3. CASE \E a \in Agents : AgentStep(a) \/ AcknowledgeFails(a) \/ AgentDies(a)
  <2>1. PICK a \in Agents : AgentStep(a) \/ AcknowledgeFails(a) \/ AgentDies(a)
    BY <1>3
  <2>2. CASE TimeOut(a)
    BY <2>2, TimeOutOnce DEF OnceInv
  <2>3. CASE AcknowledgeFails(a) \/ AgentDies(a)
    BY <2>3, FaultOnce DEF AcknowledgeFails, AgentDies
  <2> QED
    BY <2>1, <2>2, <2>3, PostOnce, AcknowledgeOnce, MarkFailureOnce DEF AgentStep
<1>4. CASE \E s \in Slots : RequestStep(s) \/ Refuse(s) \/ Lose(s)
  <2>1. PICK s \in Slots : RequestStep(s) \/ Refuse(s) \/ Lose(s)
    BY <1>4
  <2>2. CASE Refuse(s) \/ Lose(s)
    BY <2>2, FaultOnce DEF Refuse, Lose
  <2> QED
    BY <2>1, <2>2, CheckOnce, AcceptOnce, AnswerOnce DEF RequestStep
<1> QED
  BY <1>1, <1>2, <1>3, <1>4 DEF Next

\* A single agent whose calls never fail stores each event once.
THEOREM StoredOnceTheorem == Spec => []EventStoredOnce
<1>1. Spec => []OnceInv
  BY OnceInit, OnceStep, EdgeHolds, PTL DEF Spec
<1>2. OnceInv => EventStoredOnce
  BY DEF OnceInv, Undisturbed, EventStoredOnce
<1> QED
  BY <1>1, <1>2, PTL

=============================================================================
