---------------------------- MODULE IncidentReview ----------------------------
(***************************************************************************)
(* Alerts under review and their incidents (review_alert, create_incident, *)
(* update_incident and add_incident_note of api/router.py), handled by     *)
(* several API threads at once.                                            *)
(*                                                                         *)
(* A handler loads a row in one step and commits in a later one.  A commit *)
(* writes only the columns whose new value differs from the loaded one, so *)
(* a request can overwrite what another one has committed in between, or   *)
(* write nothing at all.  The audit row is always part of the commit.      *)
(***************************************************************************)
EXTENDS Integers, Sequences, FiniteSets

CONSTANTS
    Clients,          \* API threads that serve reviewers
    Alerts,           \* alerts that processing has stored
    ReviewStatuses,   \* statuses that reviewers give to alerts
    IncidentStatuses, \* statuses that reviewers give to incidents
    NoStatus,         \* an update of an incident without a status
    MaxRequests,      \* bound on committed and open requests
    MaxIncidents,     \* bound on incidents
    MaxNotes          \* bound on notes

\* review_alert accepts these statuses, IncidentUpdate those.
AllowedReviews == {"acknowledged", "under_review", "confirmed", "false_positive",
                   "resolved", "escalated", "dismissed"}
AllowedUpdates == {"open", "under_review", "confirmed", "false_positive",
                   "resolved", "escalated"}

ASSUME ReviewAssumption ==
    /\ ReviewStatuses \subseteq AllowedReviews
    /\ IncidentStatuses \subseteq AllowedUpdates
    /\ NoStatus \notin AllowedUpdates
    /\ MaxRequests \in Nat /\ MaxIncidents \in Nat /\ MaxNotes \in Nat

VARIABLES
    alertStatus, \* column of the safety_alerts rows
    incidents,   \* committed incidents rows
    notes,       \* committed incident_notes rows
    audit,       \* committed audit_logs rows (review_decisions repeat those of alerts)
    request,     \* request[c]: what a thread works on
    overlapped   \* two requests have ever been open at the same time

stored == <<alertStatus, incidents, notes, audit>>
vars   == <<stored, request, overlapped>>

-----------------------------------------------------------------------------
(* Types. *)

IncidentNumbers == Nat \ {0}

\* `seen` is the number of incidents that were committed when the handler
\* looked for an active one, remembered for the properties.
IncidentRow == [alert : Alerts, status : AllowedUpdates, seen : Nat]

AuditRow ==
    [action : {"alert"}, resource : Alerts,
        previous : AllowedReviews \cup {"new"}, new : AllowedReviews]
    \cup [action : {"incident.create"}, resource : IncidentNumbers,
        previous : {NoStatus}, new : {"open"}]
    \cup [action : {"incident.update"}, resource : IncidentNumbers,
        previous : AllowedUpdates, new : AllowedUpdates \cup {NoStatus}]
    \cup [action : {"incident.note.create"}, resource : IncidentNumbers,
        previous : {NoStatus}, new : {NoStatus}]

Request ==
    [at : {"idle"}]
    \cup [at : {"review"}, alert : Alerts, loaded : AllowedReviews \cup {"new"},
            new : ReviewStatuses]
    \cup [at : {"create"}, alert : Alerts, loaded : AllowedReviews \cup {"new"}]
    \cup [at : {"insert"}, alert : Alerts, loaded : AllowedReviews \cup {"new"},
            seen : Nat]
    \cup [at : {"update"}, incident : IncidentNumbers, loaded : AllowedUpdates,
            new : IncidentStatuses \cup {NoStatus}]

Idle == [at |-> "idle"]

-----------------------------------------------------------------------------
(* Sessions. *)

OpenRequests == {c \in Clients : request[c].at # "idle"}

\* A handler has loaded its row.
Open(c, loaded) ==
    /\ request[c] = Idle
    /\ Len(audit) + Cardinality(OpenRequests) < MaxRequests
    /\ request' = [request EXCEPT ![c] = loaded]
    /\ overlapped' = (overlapped \/ OpenRequests # {})
    /\ UNCHANGED stored

\* The audit row, and the end of the request.
Close(c, row) ==
    /\ audit' = Append(audit, row)
    /\ request' = [request EXCEPT ![c] = Idle]
    /\ UNCHANGED overlapped

\* The column after a commit.
Write(column, loaded, new) == IF new = loaded THEN column ELSE new

-----------------------------------------------------------------------------
(* review_alert. *)

OpenReview(c, k, new) ==
    Open(c, [at |-> "review", alert |-> k, loaded |-> alertStatus[k], new |-> new])

\* (mutant) The previous state is taken after the assignment.
PreviousAfter(loaded, new) == new

\* What the decision and the audit row call the previous state.
Previous(loaded, new) == loaded

CommitReview(c) ==
    LET r == request[c] IN
    /\ r.at = "review"
    /\ alertStatus' =
        [alertStatus EXCEPT ![r.alert] = Write(@, r.loaded, r.new)]
    /\ Close(c, [action |-> "alert", resource |-> r.alert,
                 previous |-> Previous(r.loaded, r.new), new |-> r.new])
    /\ UNCHANGED <<incidents, notes>>

-----------------------------------------------------------------------------
(* create_incident. *)

\* (mutant) Only incidents that are still open count.
OpenIncidentsOf(k) ==
    {i \in DOMAIN incidents : incidents[i].alert = k /\ incidents[i].status = "open"}

ActiveIncidentsOf(k) ==
    {i \in DOMAIN incidents :
        incidents[i].alert = k /\ incidents[i].status # "resolved"}

OpenCreate(c, k) ==
    Open(c, [at |-> "create", alert |-> k, loaded |-> alertStatus[k]])

\* The query for an existing incident finds none.
FindNone(c) ==
    LET r == request[c] IN
    /\ r.at = "create"
    /\ ActiveIncidentsOf(r.alert) = {}
    /\ request' = [request EXCEPT ![c] =
            [at |-> "insert", alert |-> r.alert, loaded |-> r.loaded,
             seen |-> Len(incidents)]]
    /\ UNCHANGED <<stored, overlapped>>

\* It finds one: 409.
FindExisting(c) ==
    /\ request[c].at = "create"
    /\ ActiveIncidentsOf(request[c].alert) # {}
    /\ request' = [request EXCEPT ![c] = Idle]
    /\ UNCHANGED <<stored, overlapped>>

CommitCreate(c) ==
    LET r == request[c] IN
    /\ r.at = "insert"
    /\ Len(incidents) < MaxIncidents
    /\ incidents' = Append(incidents,
            [alert |-> r.alert, status |-> "open", seen |-> r.seen])
    /\ alertStatus' =
        [alertStatus EXCEPT ![r.alert] = Write(@, r.loaded, "escalated")]
    /\ Close(c, [action |-> "incident.create", resource |-> Len(incidents) + 1,
                 previous |-> NoStatus, new |-> "open"])
    /\ UNCHANGED notes

-----------------------------------------------------------------------------
(* update_incident and add_incident_note. *)

OpenUpdate(c, i, new) ==
    Open(c, [at |-> "update", incident |-> i,
             loaded |-> incidents[i].status, new |-> new])

CommitUpdate(c) ==
    LET r == request[c] IN
    /\ r.at = "update"
    /\ incidents' = IF r.new = NoStatus THEN incidents
            ELSE [incidents EXCEPT ![r.incident].status = Write(@, r.loaded, r.new)]
    /\ Close(c, [action |-> "incident.update", resource |-> r.incident,
                 previous |-> Previous(r.loaded, r.new), new |-> r.new])
    /\ UNCHANGED <<alertStatus, notes>>

\* Nothing of the incident is changed: one insert.
AddNote(c, i) ==
    /\ request[c] = Idle
    /\ Len(notes) < MaxNotes
    /\ Len(audit) + Cardinality(OpenRequests) < MaxRequests
    /\ notes' = Append(notes, i)
    /\ Close(c, [action |-> "incident.note.create", resource |-> i,
                 previous |-> NoStatus, new |-> NoStatus])
    /\ UNCHANGED <<alertStatus, incidents>>

\* A request fails, and its session is rolled back.
Fail(c) ==
    /\ request[c].at # "idle"
    /\ request' = [request EXCEPT ![c] = Idle]
    /\ UNCHANGED <<stored, overlapped>>

-----------------------------------------------------------------------------

Init ==
    /\ alertStatus = [k \in Alerts |-> "new"]
    /\ incidents = <<>> /\ notes = <<>> /\ audit = <<>>
    /\ request = [c \in Clients |-> Idle]
    /\ overlapped = FALSE

Next == \E c \in Clients :
    \/ \E k \in Alerts, new \in ReviewStatuses : OpenReview(c, k, new)
    \/ CommitReview(c)
    \/ \E k \in Alerts : OpenCreate(c, k)
    \/ FindNone(c) \/ FindExisting(c) \/ CommitCreate(c)
    \/ \E i \in DOMAIN incidents :
        \/ \E new \in IncidentStatuses \cup {NoStatus} : OpenUpdate(c, i, new)
        \/ AddNote(c, i)
    \/ CommitUpdate(c)
    \/ Fail(c)

Spec == Init /\ [][Next]_vars

-----------------------------------------------------------------------------
(* Properties. *)

\* Rows, log and requests are well typed.
TypeOK ==
    /\ alertStatus \in [Alerts -> AllowedReviews \cup {"new"}]
    /\ incidents \in Seq(IncidentRow)
    /\ notes \in Seq(IncidentNumbers)
    /\ audit \in Seq(AuditRow)
    /\ request \in [Clients -> Request]
    /\ overlapped \in BOOLEAN

Update(p, i) == audit[p].action = "incident.update" /\ audit[p].resource = i

\* The audit log shows that incident i has been resolved.
WasResolved(i) == \E p \in DOMAIN audit : Update(p, i) /\ audit[p].new = "resolved"

\* The audit log shows another status after that.
WasReopened(i) ==
    \E p, q \in DOMAIN audit :
        /\ p < q /\ Update(p, i) /\ Update(q, i)
        /\ audit[p].new = "resolved"
        /\ audit[q].new \notin {"resolved", NoStatus}

\* create_incident promises one active incident per alert (409 otherwise) and
\* cannot keep it.  Two active ones have one of two reasons, whatever requests
\* overlap: the second was looked up before the first was committed, or the
\* first has been opened again, which its audit rows show.
SecondIncidentIsExplained ==
    \A i, j \in DOMAIN incidents :
        (/\ i < j /\ incidents[i].alert = incidents[j].alert
         /\ incidents[i].status # "resolved" /\ incidents[j].status # "resolved")
        => i > incidents[j].seen \/ WasReopened(i)

LastOr(rows, default) ==
    IF rows = {} THEN default
    ELSE audit[CHOOSE p \in rows : \A q \in rows : q <= p].new

\* What the first n audit rows say of an alert and of an incident.
AuditedAlert(k, n) ==
    LET ofAlert(p) == \/ audit[p].action = "alert" /\ audit[p].resource = k
                      \/ /\ audit[p].action = "incident.create"
                         /\ incidents[audit[p].resource].alert = k
        last == {p \in 1..n : ofAlert(p)}
        word == LastOr(last, "new")
    IN  IF word = "open" THEN "escalated" ELSE word

AuditedIncident(i, n) ==
    LastOr({p \in 1..n : /\ audit[p].action \in {"incident.create", "incident.update"}
                         /\ audit[p].resource = i /\ audit[p].new # NoStatus}, NoStatus)

\* Of requests one after the other the audit log tells the truth: the rows it
\* leads to are the rows that are stored, and each entry starts from the state
\* that the entries before it lead to.
SerialAuditReplays ==
    ~overlapped =>
        /\ \A k \in Alerts : alertStatus[k] = AuditedAlert(k, Len(audit))
        /\ \A i \in DOMAIN incidents :
            incidents[i].status = AuditedIncident(i, Len(audit))
        /\ \A p \in DOMAIN audit :
            /\ audit[p].action = "alert" =>
                audit[p].previous = AuditedAlert(audit[p].resource, p - 1)
            /\ audit[p].action = "incident.update" =>
                audit[p].previous = AuditedIncident(audit[p].resource, p - 1)

=============================================================================
