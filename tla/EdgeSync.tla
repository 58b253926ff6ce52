------------------------------ MODULE EdgeSync ------------------------------
(***************************************************************************)
(* The offline queue of apps/edge_agent/agent.py and its synchronization   *)
(* with the edge_sync request of api/router.py, over a network that loses  *)
(* and delays requests and responses.                                      *)
(*                                                                         *)
(* An event is a number, in the order of created_at: the queue is a SQLite *)
(* table read ORDER BY created_at.  The deduplication key of a batch is    *)
(* the hash of its joined event ids; ids are unique and their order is the *)
(* order of the queue, so the set of events stands for the key.            *)
(***************************************************************************)
EXTENDS Integers, FiniteSets

CONSTANTS
    Events,       \* events the site produces, by created_at
    Foreign,      \* events that name no camera of the node's organization
    Malformed,    \* events edge_sync cannot store (not a number, no such job)
    Agents,       \* agent processes, started again and again on one queue
    Slots,        \* requests in the network and the API at once
    NoAgent,      \* sender of a free slot
    Limit,        \* the largest batch
    MaxAttempts,  \* attempts are counted up to here
    MaxFaults     \* bound on losses, time-outs, crashes and local errors

ASSUME EdgeAssumption ==
    /\ Events \subseteq Nat
    /\ IsFiniteSet(Events)
    /\ Foreign \subseteq Events
    /\ Malformed \subseteq Events
    /\ NoAgent \notin Agents
    /\ Limit \in Nat \ {0}
    /\ MaxAttempts \in Nat
    /\ MaxFaults \in Nat

VARIABLES
    added,     \* events the queue has ever been given
    queue,     \* rows of the events table
    attempts,  \* attempts[e]: column of the row of event e
    agent,     \* agent[a]: where a sync call is, and its batch
    slot,      \* slot[s]: a request on its way, in a handler, or answered
    accepted,  \* accepted[b]: committed edge_sync_batches rows for the key b
    online,    \* the node's status is "online"
    faults     \* counter of the bound MaxFaults

local   == <<added, queue, attempts>>
central == <<accepted, online>>
vars    == <<local, agent, slot, central, faults>>

-----------------------------------------------------------------------------
(* Types. *)

Batch == SUBSET Events

AgentState == [at : {"idle", "waiting", "ok", "failed"}, batch : Batch]
IdleAgent  == [at |-> "idle", batch |-> {}]

Request  == [at : {"free", "sent", "checked", "ok", "error"},
             from : Agents \cup {NoAgent}, batch : Batch]
FreeSlot == [at |-> "free", from |-> NoAgent, batch |-> {}]

\* The rows operational_events has for an event: one for every accepted batch
\* the event is in, unless the handler skips it.
Stored(e) == e \notin Foreign /\ \E b \in Batch : e \in b /\ accepted[b] > 0

Fault == faults < MaxFaults /\ faults' = faults + 1

-----------------------------------------------------------------------------
(* The queue of the agent. *)

\* EdgeQueue.add: created_at is the wall clock, which may be set back.
Add(e) ==
    /\ e \notin added
    /\ added' = added \cup {e}
    /\ queue' = queue \cup {e}
    /\ UNCHANGED <<attempts, agent, slot, central, faults>>

\* EdgeQueue.batch: the first rows of the queue, at most Limit.
Oldest(rows) ==
    {b \in SUBSET rows :
        /\ \A e \in b, f \in rows \ b : e < f
        /\ \/ Cardinality(b) = Limit
           \/ b = rows /\ Cardinality(rows) < Limit}

\* sync: the batch is read and posted, and the connection waits.
Post(a, s) ==
    /\ agent[a].at = "idle"
    /\ queue # {}
    /\ slot[s].at = "free"
    /\ \E b \in Oldest(queue) :
        /\ agent' = [agent EXCEPT ![a] = [at |-> "waiting", batch |-> b]]
        /\ slot' = [slot EXCEPT ![s] = [at |-> "sent", from |-> a, batch |-> b]]
    /\ UNCHANGED <<local, central, faults>>

\* Its request, if it has not been lost.
Underway(a) == \E s \in Slots : slot[s].from = a

\* The 20 seconds are over: with no request left to wait for, or before a
\* slow answer.  The request goes on without its sender.
TimeOut(a) ==
    /\ agent[a].at = "waiting"
    /\ agent' = [agent EXCEPT ![a].at = "failed"]
    /\ \/ ~Underway(a) /\ UNCHANGED <<slot, faults>>
       \/ /\ Underway(a)
          /\ Fault
          /\ slot' = [s \in Slots |->
                IF slot[s].from = a THEN [slot[s] EXCEPT !.from = NoAgent]
                                    ELSE slot[s]]
    /\ UNCHANGED <<local, central>>

\* (mutant) Only the first row of the batch is deleted.
AcknowledgeFirst(a) ==
    /\ agent[a].at = "ok"
    /\ queue' = {e \in queue : \E f \in agent[a].batch : f < e}
    /\ agent' = [agent EXCEPT ![a] = IdleAgent]
    /\ UNCHANGED <<added, attempts, slot, central, faults>>

\* (mutant) The DELETE is not committed.
AcknowledgeUncommitted(a) ==
    /\ agent[a].at = "ok"
    /\ agent' = [agent EXCEPT ![a] = IdleAgent]
    /\ UNCHANGED <<local, slot, central, faults>>

\* After a good answer the rows of the batch are deleted, whatever the answer
\* says has been accepted.
Acknowledge(a) ==
    /\ agent[a].at = "ok"
    /\ queue' = queue \ agent[a].batch
    /\ agent' = [agent EXCEPT ![a] = IdleAgent]
    /\ UNCHANGED <<added, attempts, slot, central, faults>>

\* The DELETE fails: the except branch takes over.
AcknowledgeFails(a) ==
    /\ agent[a].at = "ok"
    /\ Fault
    /\ agent' = [agent EXCEPT ![a].at = "failed"]
    /\ UNCHANGED <<local, slot, central>>

\* (mutant) A failed batch is deleted as well.
MarkFailureAndDelete(a) ==
    /\ agent[a].at = "failed"
    /\ queue' = queue \ agent[a].batch
    /\ agent' = [agent EXCEPT ![a] = IdleAgent]
    /\ UNCHANGED <<added, attempts, slot, central, faults>>

\* mark_failure counts the attempt on the rows that still exist.
MarkFailure(a) ==
    /\ agent[a].at = "failed"
    /\ attempts' = [e \in Events |->
          IF e \in agent[a].batch \cap queue /\ attempts[e] < MaxAttempts
          THEN attempts[e] + 1 ELSE attempts[e]]
    /\ agent' = [agent EXCEPT ![a] = IdleAgent]
    /\ UNCHANGED <<added, queue, slot, central, faults>>

\* The agent process dies; the queue is on disk.
AgentDies(a) ==
    /\ agent[a].at # "idle"
    /\ Fault
    /\ agent' = [agent EXCEPT ![a] = IdleAgent]
    /\ slot' = [s \in Slots |->
          IF slot[s].from = a THEN [slot[s] EXCEPT !.from = NoAgent]
                              ELSE slot[s]]
    /\ UNCHANGED <<local, central>>

-----------------------------------------------------------------------------
(* The handler edge_sync. *)

\* The look-up: a known key is answered as a duplicate.
Check(s) ==
    /\ slot[s].at = "sent"
    /\ slot' = [slot EXCEPT ![s].at =
          IF accepted[slot[s].batch] > 0 THEN "ok" ELSE "checked"]
    /\ UNCHANGED <<local, agent, central, faults>>

\* (mutant) The batch row is not unique.
AcceptAgain(s) ==
    /\ slot[s].at = "checked"
    /\ slot' = [slot EXCEPT ![s].at = "ok"]
    /\ accepted' = [accepted EXCEPT ![slot[s].batch] = @ + 1]
    /\ online' = TRUE
    /\ UNCHANGED <<local, agent, faults>>

\* Events, batch row and node in one commit; an event that cannot be stored,
\* or a batch row that another handler has committed since, fails it all.
Accept(s) ==
    LET b == slot[s].batch
        fails == b \cap (Malformed \ Foreign) # {} \/ accepted[b] > 0
    IN
    /\ slot[s].at = "checked"
    /\ \/ /\ fails
          /\ slot' = [slot EXCEPT ![s].at = "error"]
          /\ UNCHANGED central
       \/ /\ ~fails
          /\ slot' = [slot EXCEPT ![s].at = "ok"]
          /\ accepted' = [accepted EXCEPT ![b] = @ + 1]
          /\ online' = TRUE
    /\ UNCHANGED <<local, agent, faults>>

\* The node or its key is not accepted, or the handler fails at something else.
Refuse(s) ==
    /\ slot[s].at \in {"sent", "checked"}
    /\ Fault
    /\ slot' = [slot EXCEPT ![s].at = "error"]
    /\ UNCHANGED <<local, agent, central>>

\* The answer arrives, or finds nobody waiting.
Answer(s) ==
    LET a == slot[s].from IN
    /\ slot[s].at \in {"ok", "error"}
    /\ slot' = [slot EXCEPT ![s] = FreeSlot]
    /\ agent' = IF a = NoAgent THEN agent
                ELSE [agent EXCEPT ![a].at =
                        IF slot[s].at = "ok" THEN "ok" ELSE "failed"]
    /\ UNCHANGED <<local, central, faults>>

\* A request or an answer is lost, or the API dies in the handler.
Lose(s) ==
    /\ slot[s].at # "free"
    /\ Fault
    /\ slot' = [slot EXCEPT ![s] = FreeSlot]
    /\ UNCHANGED <<local, agent, central>>

-----------------------------------------------------------------------------

Init ==
    /\ added = {} /\ queue = {}
    /\ attempts = [e \in Events |-> 0]
    /\ agent = [a \in Agents |-> IdleAgent]
    /\ slot = [s \in Slots |-> FreeSlot]
    /\ accepted = [b \in Batch |-> 0]
    /\ online = FALSE
    /\ faults = 0

AgentStep(a) ==
    \/ \E s \in Slots : Post(a, s)
    \/ TimeOut(a) \/ Acknowledge(a) \/ MarkFailure(a)

RequestStep(s) == Check(s) \/ Accept(s) \/ Answer(s)

Next ==
    \/ \E e \in Events : Add(e)
    \/ \E a \in Agents : AgentStep(a) \/ AcknowledgeFails(a) \/ AgentDies(a)
    \/ \E s \in Slots : RequestStep(s) \/ Refuse(s) \/ Lose(s)

\* The agent is run again as long as there is a queue, and the network and the
\* API handle what reaches them; there is no fairness in adding events, nor in
\* faults.
Fairness ==
    /\ \A a \in Agents : WF_vars(AgentStep(a))
    /\ \A s \in Slots : WF_vars(RequestStep(s))

Spec     == Init /\ [][Next]_vars
FairSpec == Spec /\ Fairness

-----------------------------------------------------------------------------
(* Properties. *)

\* Queue, agents, requests and the store are well typed.
TypeOK ==
    /\ added \subseteq Events
    /\ queue \subseteq added
    /\ attempts \in [Events -> 0..MaxAttempts]
    /\ agent \in [Agents -> AgentState]
    /\ slot \in [Slots -> Request]
    /\ accepted \in [Batch -> Nat]
    /\ online \in BOOLEAN
    /\ faults \in 0..MaxFaults

\* An event of one of the node's cameras is on the edge or in the store,
\* whatever is lost, times out, fails or dies on the way.
NothingLost == \A e \in added \ Foreign : e \in queue \/ Stored(e)

\* A single agent that never fails stores every event once.  (After a lost
\* answer a batch may have grown: it has a new key, and the events it had
\* before are stored again.)
EventStoredOnce ==
    faults = 0 /\ (\E a \in Agents : Agents = {a}) =>
        \A b, c \in Batch :
            accepted[b] > 0 /\ accepted[c] > 0 /\ b # c => b \cap c = {}

Delivery == INSTANCE StoreAndForward WITH taken <- added, kept <- queue

\* However requests are lost, late or sent again and whoever dies, a row is deleted
\* only with a batch that has been accepted, and a batch is accepted once, of events
\* the site has produced: the look-up answers a retry, the unique constraint a race.
ImplementsStoreAndForward == Delivery!Spec

\* The queue drains once faults stop, unless it holds an event that the API
\* cannot store: that one fails its batch each time.
Drains ==
    \A e \in Events :
        (e \in added) ~> (e \notin queue \/ queue \cap Malformed # {})

=============================================================================
