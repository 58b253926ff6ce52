------------------------ MODULE IncidentReview_proofs ------------------------
(***************************************************************************)
(* Proofs about IncidentReview, for any number of clients, alerts,         *)
(* incidents and requests.                                                 *)
(***************************************************************************)
EXTENDS IncidentReview, TLAPS

-----------------------------------------------------------------------------
(* The inductive invariant. *)

\* Rows refer to incidents that were there before them.
RowsFit ==
    /\ \A j \in DOMAIN incidents : incidents[j].seen < j
    /\ \A p \in DOMAIN audit :
        audit[p].action = "incident.update" => audit[p].resource \in DOMAIN incidents

\* An incident does not become resolved, nor leave it, without an audit row.
StatusIsAudited ==
    \A i \in DOMAIN incidents :
        /\ incidents[i].status = "resolved" => WasResolved(i)
        /\ incidents[i].status # "resolved" /\ WasResolved(i) => WasReopened(i)

\* The incidents that create_incident saw had been resolved.
SeenWasResolved ==
    \A j \in DOMAIN incidents : \A i \in 1..incidents[j].seen :
        incidents[i].alert = incidents[j].alert => WasResolved(i)

\* So had those that a request under way saw, or that it has loaded so.
Fits(q) ==
    /\ q.at = "insert" =>
        /\ q.seen <= Len(incidents)
        /\ \A i \in 1..q.seen : incidents[i].alert = q.alert => WasResolved(i)
    /\ q.at = "update" =>
        /\ q.incident \in DOMAIN incidents
        /\ q.loaded = "resolved" => WasResolved(q.incident)

IncidentInv ==
    /\ TypeOK
    /\ RowsFit
    /\ StatusIsAudited
    /\ SeenWasResolved
    /\ \A c \in Clients : Fits(request[c])

-----------------------------------------------------------------------------
(* Lemmas. *)

LEMMA Explained == IncidentInv => SecondIncidentIsExplained
<1> SUFFICES ASSUME IncidentInv, NEW i \in DOMAIN incidents, NEW j \in DOMAIN incidents,
                    incidents[i].alert = incidents[j].alert,
                    incidents[i].status # "resolved", ~(i > incidents[j].seen)
             PROVE  WasReopened(i)
    BY DEF SecondIncidentIsExplained
<1>1. i \in 1..incidents[j].seen
    <2>1. incidents \in Seq(IncidentRow)
        BY DEF IncidentInv, TypeOK
    <2>2. i \in Nat /\ i >= 1 /\ incidents[j] \in IncidentRow
        BY <2>1
    <2> QED
        BY <2>2 DEF IncidentRow
<1>2. WasResolved(i)
    BY <1>1 DEF IncidentInv, SeenWasResolved
<1> QED
    BY <1>2 DEF IncidentInv, StatusIsAudited

LEMMA RowsAreTyped ==
    ASSUME TypeOK
    PROVE  /\ Len(incidents) \in Nat /\ DOMAIN incidents = 1..Len(incidents)
           /\ Len(audit) \in Nat /\ DOMAIN audit = 1..Len(audit)
           /\ \A i \in 1..Len(incidents) :
                /\ incidents[i] \in IncidentRow
                /\ incidents[i].seen \in Nat
                /\ incidents[i].status \in AllowedUpdates
<1>1. incidents \in Seq(IncidentRow) /\ audit \in Seq(AuditRow)
    BY DEF TypeOK
<1>2. \A i \in 1..Len(incidents) : incidents[i] \in IncidentRow
    BY <1>1
<1> QED
    BY <1>1, <1>2 DEF IncidentRow

\* What one more audit row shows.
LEMMA AuditGrows ==
    ASSUME TypeOK, NEW row \in AuditRow, audit' = Append(audit, row), NEW i
    PROVE  /\ audit' \in Seq(AuditRow)
           /\ WasResolved(i) => WasResolved(i)'
           /\ WasReopened(i) => WasReopened(i)'
           /\ ~(row.action = "incident.update" /\ row.resource = i
                /\ row.new = "resolved")
              => (WasResolved(i)' => WasResolved(i))
           /\ (/\ row.action = "incident.update" /\ row.resource = i
               /\ row.new = "resolved") => WasResolved(i)'
           /\ (/\ row.action = "incident.update" /\ row.resource = i
               /\ row.new \notin {"resolved", NoStatus} /\ WasResolved(i))
              => WasReopened(i)'
<1>1. PICK n \in Nat : n = Len(audit)
    BY RowsAreTyped
<1>2. /\ DOMAIN audit = 1..n /\ DOMAIN audit' = 1..(n + 1)
      /\ audit'[n + 1] = row /\ \A p \in 1..n : audit'[p] = audit[p]
      /\ audit' \in Seq(AuditRow)
    BY <1>1 DEF TypeOK
<1>3. /\ \A p \in 1..n : Update(p, i)' <=> Update(p, i)
      /\ Update(n + 1, i)' <=> row.action = "incident.update" /\ row.resource = i
    BY <1>2 DEF Update
<1>4. WasResolved(i) => WasResolved(i)'
    BY <1>2, <1>3 DEF WasResolved
<1>5. WasReopened(i) => WasReopened(i)'
    BY <1>2, <1>3 DEF WasReopened
<1>6. ASSUME ~(row.action = "incident.update" /\ row.resource = i
               /\ row.new = "resolved"), WasResolved(i)'
      PROVE  WasResolved(i)
    BY <1>2, <1>3, <1>6 DEF WasResolved
<1>7. ASSUME row.action = "incident.update", row.resource = i, row.new = "resolved"
      PROVE  WasResolved(i)'
    BY <1>2, <1>3, <1>7 DEF WasResolved
<1>8. ASSUME row.action = "incident.update", row.resource = i,
             row.new \notin {"resolved", NoStatus}, WasResolved(i)
      PROVE  WasReopened(i)'
    <2>1. PICK p \in 1..n : Update(p, i) /\ audit[p].new = "resolved"
        BY <1>2, <1>8 DEF WasResolved
    <2>2. p < n + 1 /\ Update(p, i)' /\ Update(n + 1, i)'
        BY <2>1, <1>3, <1>8
    <2>3. /\ p \in DOMAIN audit' /\ n + 1 \in DOMAIN audit'
          /\ audit'[p].new = "resolved"
          /\ audit'[n + 1].new \notin {"resolved", NoStatus}
        BY <2>1, <1>2, <1>8
    <2> QED
        BY <2>2, <2>3 DEF WasReopened
<1> QED
    BY <1>2, <1>4, <1>5, <1>6, <1>7, <1>8

\* A row that is not an update of an incident shows nothing new.
LEMMA OtherRow ==
    ASSUME TypeOK, NEW row \in AuditRow, audit' = Append(audit, row), NEW i,
           row.action # "incident.update"
    PROVE  WasResolved(i)' <=> WasResolved(i)
BY AuditGrows

-----------------------------------------------------------------------------
(* The steps. *)

LEMMA InitHolds == Init => IncidentInv
<1> SUFFICES ASSUME Init PROVE IncidentInv
    OBVIOUS
<1>1. TypeOK
    <2>1. alertStatus \in [Alerts -> AllowedReviews \cup {"new"}]
        BY DEF Init
    <2>2. request \in [Clients -> Request]
        BY DEF Init, Idle, Request
    <2>3. incidents \in Seq(IncidentRow)
        BY DEF Init
    <2>4. notes \in Seq(IncidentNumbers)
        BY DEF Init
    <2>5. audit \in Seq(AuditRow)
        BY DEF Init
    <2>6. overlapped \in BOOLEAN
        BY DEF Init
    <2> QED
        BY <2>1, <2>2, <2>3, <2>4, <2>5, <2>6 DEF TypeOK
<1>2. RowsFit /\ StatusIsAudited /\ SeenWasResolved
    BY DEF Init, RowsFit, StatusIsAudited, SeenWasResolved
<1>3. \A c \in Clients : Fits(request[c])
    BY DEF Init, Idle, Fits
<1> QED
    BY <1>1, <1>2, <1>3 DEF IncidentInv

LEMMA IdleFits == Idle \in Request /\ Fits(Idle)
BY DEF Idle, Request, Fits

\* A request loads something, or ends, and the store stays as it is.
LEMMA RequestStep ==
    ASSUME IncidentInv, UNCHANGED stored, overlapped' \in BOOLEAN,
           NEW c \in Clients, NEW q \in Request, Fits(q),
           request' = [request EXCEPT ![c] = q]
    PROVE  IncidentInv'
<1>1. UNCHANGED <<alertStatus, incidents, notes, audit>>
    BY DEF stored
<1>2. TypeOK'
    BY <1>1 DEF IncidentInv, TypeOK
<1>3. RowsFit' /\ StatusIsAudited' /\ SeenWasResolved'
    BY <1>1 DEF IncidentInv, RowsFit, StatusIsAudited, SeenWasResolved, WasResolved,
                WasReopened, Update
<1>4. \A b \in Clients : Fits(request[b])'
    <2>1. \A b \in Clients : Fits(request'[b])
        BY DEF IncidentInv, TypeOK
    <2> QED
        BY <2>1, <1>1 DEF Fits, WasResolved, Update
<1> QED
    BY <1>2, <1>3, <1>4 DEF IncidentInv

\* The commit of a request that leaves the incidents alone.
LEMMA OtherCommit ==
    ASSUME IncidentInv, NEW c \in Clients, NEW row \in AuditRow, Close(c, row),
           row.action # "incident.update", UNCHANGED incidents,
           alertStatus' \in [Alerts -> AllowedReviews \cup {"new"}],
           notes' \in Seq(IncidentNumbers)
    PROVE  IncidentInv'
<1>1. /\ audit' = Append(audit, row) /\ request' = [request EXCEPT ![c] = Idle]
      /\ UNCHANGED overlapped
    BY DEF Close
<1>2. /\ audit' \in Seq(AuditRow)
      /\ \A i : WasResolved(i)' <=> WasResolved(i)
      /\ \A i : WasReopened(i) => WasReopened(i)'
    BY <1>1, AuditGrows, OtherRow DEF IncidentInv
<1>3. TypeOK'
    BY <1>1, <1>2, IdleFits DEF IncidentInv, TypeOK
<1>4. RowsFit'
    <2>1. \A p \in DOMAIN audit' :
            \/ p \in DOMAIN audit /\ audit'[p] = audit[p]
            \/ audit'[p] = row
        BY <1>1 DEF IncidentInv, TypeOK
    <2> QED
        BY <2>1 DEF IncidentInv, RowsFit
<1>5. StatusIsAudited' /\ SeenWasResolved'
    BY <1>2 DEF IncidentInv, StatusIsAudited, SeenWasResolved
<1>6. \A b \in Clients : Fits(request[b])'
    <2>1. \A b \in Clients : Fits(request'[b])
        BY <1>1, IdleFits DEF IncidentInv, TypeOK
    <2> QED
        BY <2>1, <1>2 DEF Fits
<1> QED
    BY <1>3, <1>4, <1>5, <1>6 DEF IncidentInv

LEMMA ReviewKeepsInv ==
    ASSUME IncidentInv, NEW c \in Clients, CommitReview(c)
    PROVE  IncidentInv'
<1> DEFINE r == request[c]
           row == [action |-> "alert", resource |-> r.alert,
                   previous |-> r.loaded, new |-> r.new]
<1>1. r \in Request /\ r.at = "review"
    BY DEF CommitReview, IncidentInv, TypeOK
<1>2. /\ r.alert \in Alerts /\ r.loaded \in AllowedReviews \cup {"new"}
      /\ r.new \in AllowedReviews
    BY <1>1, ReviewAssumption DEF Request
<1>3. row \in AuditRow
    BY <1>2 DEF AuditRow
<1>4. alertStatus' \in [Alerts -> AllowedReviews \cup {"new"}]
    BY <1>2 DEF CommitReview, Write, IncidentInv, TypeOK
<1>5. Close(c, row) /\ UNCHANGED <<incidents, notes>>
    BY DEF CommitReview, Previous
<1>6. row.action # "incident.update"
    OBVIOUS
<1>7. notes' \in Seq(IncidentNumbers)
    BY <1>5 DEF IncidentInv, TypeOK
<1> HIDE DEF row
<1> QED
    BY <1>3, <1>4, <1>5, <1>6, <1>7, OtherCommit

LEMMA NoteKeepsInv ==
    ASSUME IncidentInv, NEW c \in Clients, NEW i \in DOMAIN incidents, AddNote(c, i)
    PROVE  IncidentInv'
<1> DEFINE row == [action |-> "incident.note.create", resource |-> i,
                   previous |-> NoStatus, new |-> NoStatus]
<1>1. i \in IncidentNumbers
    BY RowsAreTyped DEF IncidentInv, IncidentNumbers
<1>2. row \in AuditRow /\ row.action # "incident.update"
    BY <1>1 DEF AuditRow
<1>3. notes' \in Seq(IncidentNumbers)
    BY <1>1 DEF AddNote, IncidentInv, TypeOK
<1>4. Close(c, row) /\ UNCHANGED <<alertStatus, incidents>>
    BY DEF AddNote
<1>5. alertStatus' \in [Alerts -> AllowedReviews \cup {"new"}]
    BY <1>4 DEF IncidentInv, TypeOK
<1> HIDE DEF row
<1> QED
    BY <1>2, <1>3, <1>4, <1>5, OtherCommit

\* What the requests that are under way have loaded stays true.
LEMMA FitsGrows ==
    ASSUME TypeOK, NEW q \in Request, Fits(q),
           incidents' \in Seq(IncidentRow), Len(incidents) <= Len(incidents'),
           \A i \in 1..Len(incidents) : incidents'[i].alert = incidents[i].alert,
           \A i : WasResolved(i) => WasResolved(i)'
    PROVE  Fits(q)'
<1>1. /\ Len(incidents) \in Nat /\ Len(incidents') \in Nat
      /\ DOMAIN incidents = 1..Len(incidents)
      /\ DOMAIN incidents' = 1..Len(incidents')
    BY RowsAreTyped
<1>2. ASSUME q.at = "insert"
      PROVE  /\ q.seen <= Len(incidents')
             /\ \A i \in 1..q.seen : incidents'[i].alert = q.alert => WasResolved(i)'
    <2>1. q.seen \in Nat /\ q.seen <= Len(incidents)
        BY <1>2 DEF Request, Fits
    <2>2. \A i \in 1..q.seen : i \in 1..Len(incidents)
        BY <2>1, <1>1
    <2> QED
        BY <2>1, <2>2, <1>1, <1>2 DEF Fits
<1>3. ASSUME q.at = "update"
      PROVE  /\ q.incident \in DOMAIN incidents'
             /\ q.loaded = "resolved" => WasResolved(q.incident)'
    <2>1. q.incident \in 1..Len(incidents)
        BY <1>1, <1>3 DEF Fits
    <2> QED
        BY <2>1, <1>1, <1>3 DEF Fits
<1> QED
    BY <1>2, <1>3 DEF Fits

\* The request that commits is idle, the others are as they were.
LEMMA CommitKeepsFits ==
    ASSUME IncidentInv, NEW c \in Clients, request' = [request EXCEPT ![c] = Idle],
           \A q \in Request : Fits(q) => Fits(q)'
    PROVE  \A b \in Clients : Fits(request[b])'
<1> SUFFICES ASSUME NEW b \in Clients PROVE Fits(request[b])'
    OBVIOUS
<1>1. CASE b = c
    BY <1>1 DEF IncidentInv, TypeOK, Idle, Fits
<1>2. CASE b # c
    <2>1. request[b] \in Request /\ Fits(request[b]) /\ request'[b] = request[b]
        BY <1>2 DEF IncidentInv, TypeOK
    <2> QED
        BY <2>1 DEF Fits
<1> QED
    BY <1>1, <1>2

\* A new incident is open and has no audit row of an update.
LEMMA CreateKeepsInv ==
    ASSUME IncidentInv, NEW c \in Clients, CommitCreate(c)
    PROVE  IncidentInv'
<1> DEFINE r == request[c]
           new == [alert |-> r.alert, status |-> "open", seen |-> r.seen]
           row == [action |-> "incident.create", resource |-> Len(incidents) + 1,
                   previous |-> NoStatus, new |-> "open"]
<1>1. r \in Request /\ r.at = "insert" /\ Fits(r)
    BY DEF CommitCreate, IncidentInv, TypeOK
<1>2. PICK n \in Nat : n = Len(incidents)
    BY RowsAreTyped DEF IncidentInv
<1>3. /\ r.alert \in Alerts /\ r.loaded \in AllowedReviews \cup {"new"}
      /\ r.seen \in Nat /\ r.seen <= n
      /\ \A i \in 1..r.seen : incidents[i].alert = r.alert => WasResolved(i)
    BY <1>1, <1>2 DEF Request, Fits
<1>4. new \in IncidentRow
    BY <1>3 DEF IncidentRow, AllowedUpdates
<1>5. row \in AuditRow /\ row.action # "incident.update"
    BY <1>2 DEF AuditRow, IncidentNumbers
<1>6. /\ incidents' = Append(incidents, new) /\ Close(c, row)
      /\ UNCHANGED notes
      /\ alertStatus' \in [Alerts -> AllowedReviews \cup {"new"}]
    BY <1>3 DEF CommitCreate, Write, IncidentInv, TypeOK, AllowedReviews
<1>7. /\ incidents' \in Seq(IncidentRow) /\ Len(incidents') = n + 1
      /\ DOMAIN incidents = 1..n /\ DOMAIN incidents' = 1..(n + 1)
      /\ incidents'[n + 1] = new
      /\ \A i \in 1..n : incidents'[i] = incidents[i]
    <2> HIDE DEF new
    <2> QED
        BY <1>2, <1>4, <1>6 DEF IncidentInv, TypeOK
<1>8. /\ audit' = Append(audit, row) /\ request' = [request EXCEPT ![c] = Idle]
      /\ UNCHANGED overlapped
    BY <1>6 DEF Close
<1>9. /\ audit' \in Seq(AuditRow)
      /\ \A i : WasResolved(i)' <=> WasResolved(i)
      /\ \A i : WasReopened(i) => WasReopened(i)'
    <2> HIDE DEF row
    <2> QED
        BY <1>5, <1>8, AuditGrows, OtherRow DEF IncidentInv
<1>10. TypeOK'
    BY <1>6, <1>7, <1>8, <1>9, IdleFits DEF IncidentInv, TypeOK
<1>11. RowsFit'
    <2>1. \A p \in DOMAIN audit' :
            \/ p \in DOMAIN audit /\ audit'[p] = audit[p]
            \/ audit'[p] = row
        <3> HIDE DEF row
        <3> QED
            BY <1>8 DEF IncidentInv, TypeOK
    <2>2. \A j \in 1..(n + 1) : incidents'[j].seen < j
        BY <1>2, <1>3, <1>7 DEF IncidentInv, RowsFit
    <2>3. DOMAIN incidents \subseteq DOMAIN incidents'
        BY <1>7, <1>2
    <2> QED
        BY <2>1, <2>2, <2>3, <1>5, <1>7 DEF IncidentInv, RowsFit
<1>12. StatusIsAudited'
    <2>1. ~WasResolved(n + 1)
        BY <1>2, <1>7 DEF WasResolved, Update, IncidentInv, RowsFit
    <2>2. \A i \in 1..(n + 1) :
            /\ incidents'[i].status = "resolved" => WasResolved(i)
            /\ incidents'[i].status # "resolved" /\ WasResolved(i) => WasReopened(i)
        BY <2>1, <1>2, <1>7 DEF IncidentInv, StatusIsAudited
    <2> QED
        BY <2>2, <1>7, <1>9 DEF StatusIsAudited
<1>13. SeenWasResolved'
    <2> SUFFICES ASSUME NEW j \in 1..(n + 1), NEW i \in 1..incidents'[j].seen,
                        incidents'[i].alert = incidents'[j].alert
                 PROVE  WasResolved(i)
        BY <1>7, <1>9 DEF SeenWasResolved
    <2>1. CASE j = n + 1
        <3>1. i \in 1..r.seen /\ i \in 1..n
            BY <2>1, <1>2, <1>3, <1>7
        <3> QED
            BY <2>1, <3>1, <1>3, <1>7
    <2>2. CASE j # n + 1
        <3>1. j \in 1..n /\ incidents[j].seen < j /\ incidents[j].seen \in Nat
            BY <2>2, <1>2, <1>7, RowsAreTyped DEF IncidentInv, RowsFit
        <3>2. i \in 1..n /\ i \in 1..incidents[j].seen
            BY <3>1, <1>2, <1>7
        <3> QED
            BY <3>1, <3>2, <1>7 DEF IncidentInv, SeenWasResolved
    <2> QED
        BY <2>1, <2>2
<1>14. \A q \in Request : Fits(q) => Fits(q)'
    <2>1. Len(incidents) <= Len(incidents')
        BY <1>2, <1>7
    <2>2. \A i \in 1..Len(incidents) : incidents'[i].alert = incidents[i].alert
        BY <1>2, <1>7
    <2> QED
        BY <2>1, <2>2, <1>7, <1>9, FitsGrows DEF IncidentInv
<1>15. \A b \in Clients : Fits(request[b])'
    BY <1>8, <1>14, CommitKeepsFits DEF IncidentInv
<1> QED
    BY <1>10, <1>11, <1>12, <1>13, <1>15 DEF IncidentInv

\* An update whose status is the loaded one writes nothing; it may then stay
\* other than what its audit row says, but not without an earlier row.
LEMMA UpdateKeepsInv ==
    ASSUME IncidentInv, NEW c \in Clients, CommitUpdate(c)
    PROVE  IncidentInv'
<1>1. request[c] \in Request /\ request[c].at = "update" /\ Fits(request[c])
    BY DEF CommitUpdate, IncidentInv, TypeOK
<1>q. PICK r \in Request : r = request[c] /\ r.at = "update" /\ Fits(r)
    BY <1>1
<1>i. PICK k : k = r.incident
    OBVIOUS
<1> DEFINE row == [action |-> "incident.update", resource |-> k,
                   previous |-> r.loaded, new |-> r.new]
<1>s. PICK status : status = IF r.new = NoStatus THEN incidents[k].status
                             ELSE Write(incidents[k].status, r.loaded, r.new)
    OBVIOUS
<1>2. PICK n \in Nat : n = Len(incidents)
    BY RowsAreTyped DEF IncidentInv
<1>3. /\ k \in 1..n /\ k \in IncidentNumbers
      /\ r.loaded \in AllowedUpdates /\ r.new \in AllowedUpdates \cup {NoStatus}
      /\ r.loaded = "resolved" => WasResolved(k)
      /\ NoStatus \notin AllowedUpdates /\ "resolved" \in AllowedUpdates
    <2>1. DOMAIN incidents = 1..n
        BY <1>2, RowsAreTyped DEF IncidentInv
    <2>2. r.new \in IncidentStatuses \cup {NoStatus} /\ r.loaded \in AllowedUpdates
        BY <1>q DEF Request
    <2>3. k \in 1..n /\ (r.loaded = "resolved" => WasResolved(k))
        BY <1>q, <1>i, <2>1 DEF Fits
    <2>4. k \in IncidentNumbers
        BY <2>3, <1>2 DEF IncidentNumbers
    <2>5. "resolved" \in AllowedUpdates
        BY DEF AllowedUpdates
    <2> QED
        BY <2>2, <2>3, <2>4, <2>5, ReviewAssumption
<1>4. row \in AuditRow
    BY <1>3 DEF AuditRow
<1>5. /\ audit' = Append(audit, row) /\ request' = [request EXCEPT ![c] = Idle]
      /\ UNCHANGED <<alertStatus, notes, overlapped>>
    BY <1>q, <1>i DEF CommitUpdate, Previous, Close
<1>6. /\ audit' \in Seq(AuditRow)
      /\ \A i : WasResolved(i) => WasResolved(i)'
      /\ \A i : WasReopened(i) => WasReopened(i)'
      /\ \A i : i # k => (WasResolved(i)' => WasResolved(i))
      /\ r.new # "resolved" => (WasResolved(k)' => WasResolved(k))
      /\ r.new = "resolved" => WasResolved(k)'
      /\ r.new \notin {"resolved", NoStatus} /\ WasResolved(k) => WasReopened(k)'
    <2>1. /\ row.action = "incident.update" /\ row.resource = k /\ row.new = r.new
        OBVIOUS
    <2> HIDE DEF row
    <2> QED
        BY <2>1, <1>4, <1>5, AuditGrows DEF IncidentInv
<1>7. /\ DOMAIN incidents = 1..n
      /\ \A i \in 1..n : /\ incidents[i] \in IncidentRow
                         /\ incidents[i].status \in AllowedUpdates
    BY <1>2, RowsAreTyped DEF IncidentInv
<1>8. status \in AllowedUpdates
    BY <1>s, <1>3, <1>7 DEF Write
<1>9. /\ incidents' \in Seq(IncidentRow) /\ Len(incidents') = n
      /\ DOMAIN incidents' = 1..n
      /\ \A i \in 1..n : /\ incidents'[i].alert = incidents[i].alert
                         /\ incidents'[i].seen = incidents[i].seen
                         /\ incidents'[i].status =
                                IF i = k THEN status ELSE incidents[i].status
    <2> DEFINE rows == [i \in 1..n |-> IF i = k
                          THEN [incidents[k] EXCEPT !.status = status]
                          ELSE incidents[i]]
    <2>1. incidents = [i \in 1..n |-> incidents[i]] /\ incidents \in Seq(IncidentRow)
        BY <1>2, <1>7 DEF IncidentInv, TypeOK
    <2>2. incidents[k] = [incidents[k] EXCEPT !.status = incidents[k].status]
        BY <1>3, <1>7 DEF IncidentRow
    <2>3. incidents' = rows
        <3>1. CASE r.new = NoStatus
            BY <3>1, <2>1, <2>2, <1>s, <1>3, <1>q DEF CommitUpdate
        <3>2. CASE r.new # NoStatus
            <4>1. incidents' = [incidents EXCEPT ![k].status =
                                    Write(@, r.loaded, r.new)]
                BY <3>2, <1>q, <1>i DEF CommitUpdate
            <4> QED
                BY <3>2, <4>1, <2>1, <1>s, <1>7
        <3> QED
            BY <3>1, <3>2
    <2>4. [incidents[k] EXCEPT !.status = status] \in IncidentRow
        BY <1>3, <1>7, <1>8 DEF IncidentRow
    <2>5. rows \in [1..n -> IncidentRow]
        BY <2>4, <1>7
    <2>6. incidents' \in Seq(IncidentRow) /\ Len(incidents') = n
        BY <2>3, <2>5, <1>2
    <2> QED
        BY <2>3, <2>6, <1>3, <1>7 DEF IncidentRow
<1>w. /\ r.new = NoStatus \/ r.new = r.loaded => status = incidents[k].status
      /\ r.new # NoStatus /\ r.new # r.loaded => status = r.new
    BY <1>s DEF Write
<1> HIDE DEF row
<1>10. TypeOK'
    BY <1>5, <1>6, <1>9, IdleFits DEF IncidentInv, TypeOK
<1>11. RowsFit'
    <2>1. \A p \in DOMAIN audit' :
            \/ p \in DOMAIN audit /\ audit'[p] = audit[p]
            \/ audit'[p] = row
        BY <1>5 DEF IncidentInv, TypeOK
    <2>2. row.resource = k
        BY DEF row
    <2> QED
        BY <2>1, <2>2, <1>3, <1>7, <1>9 DEF IncidentInv, RowsFit
<1>12. StatusIsAudited'
    <2> SUFFICES ASSUME NEW i \in 1..n
                 PROVE  /\ incidents'[i].status = "resolved" => WasResolved(i)'
                        /\ incidents'[i].status # "resolved" /\ WasResolved(i)'
                            => WasReopened(i)'
        BY <1>9 DEF StatusIsAudited
    <2>1. /\ incidents[i].status = "resolved" => WasResolved(i)
          /\ incidents[i].status # "resolved" /\ WasResolved(i) => WasReopened(i)
        BY <1>7 DEF IncidentInv, StatusIsAudited
    <2>2. CASE i # k
        BY <2>1, <2>2, <1>6, <1>9
    <2>3. CASE i = k
        <3>1. incidents'[k].status = status
            BY <1>3, <1>9
        <3>2. /\ incidents[k].status = "resolved" => WasResolved(k)
              /\ incidents[k].status # "resolved" /\ WasResolved(k)
                    => WasReopened(k)
            BY <2>1, <2>3
        <3>3. /\ WasResolved(k) => WasResolved(k)'
              /\ WasReopened(k) => WasReopened(k)'
              /\ r.new # "resolved" => (WasResolved(k)' => WasResolved(k))
              /\ r.new = "resolved" => WasResolved(k)'
              /\ r.new \notin {"resolved", NoStatus} /\ WasResolved(k)
                    => WasReopened(k)'
            BY <1>6
        <3>4. (r.loaded = "resolved" => WasResolved(k)) /\ NoStatus # "resolved"
            BY <1>3
        <3>5. /\ status = "resolved" => WasResolved(k)'
              /\ status # "resolved" /\ WasResolved(k)' => WasReopened(k)'
            <4>1. CASE r.new = NoStatus
                BY <4>1, <3>2, <3>3, <3>4, <1>w
            <4>2. CASE r.new = r.loaded
                BY <4>2, <3>2, <3>3, <3>4, <1>w
            <4>3. CASE r.new # NoStatus /\ r.new # r.loaded
                BY <4>3, <3>3, <1>w
            <4> QED
                BY <4>1, <4>2, <4>3
        <3> QED
            BY <2>3, <3>1, <3>5
    <2> QED
        BY <2>2, <2>3
<1>13. SeenWasResolved'
    <2> SUFFICES ASSUME NEW j \in 1..n, NEW i \in 1..incidents[j].seen,
                        incidents'[i].alert = incidents'[j].alert
                 PROVE  WasResolved(i)
        BY <1>6, <1>9 DEF SeenWasResolved
    <2>1. i \in 1..n
        BY <1>2, <1>7, RowsAreTyped DEF IncidentInv, RowsFit
    <2> QED
        BY <2>1, <1>7, <1>9 DEF IncidentInv, SeenWasResolved
<1>14. \A q \in Request : Fits(q) => Fits(q)'
    <2>1. Len(incidents) <= Len(incidents')
        BY <1>2, <1>9
    <2>2. \A i \in 1..Len(incidents) : incidents'[i].alert = incidents[i].alert
        BY <1>2, <1>9
    <2> QED
        BY <2>1, <2>2, <1>6, <1>9, FitsGrows DEF IncidentInv
<1>15. \A b \in Clients : Fits(request[b])'
    BY <1>5, <1>14, CommitKeepsFits DEF IncidentInv
<1> QED
    BY <1>10, <1>11, <1>12, <1>13, <1>15 DEF IncidentInv

LEMMA OpenKeepsInv ==
    ASSUME IncidentInv, NEW c \in Clients, NEW q \in Request, Fits(q), Open(c, q)
    PROVE  IncidentInv'
<1>1. UNCHANGED stored /\ overlapped' \in BOOLEAN
      /\ request' = [request EXCEPT ![c] = q]
    BY DEF Open, IncidentInv, TypeOK
<1> QED
    BY <1>1, RequestStep

\* A look-up that finds nothing has seen incidents that are resolved.
LEMMA FindNoneKeepsInv ==
    ASSUME IncidentInv, NEW c \in Clients, FindNone(c)
    PROVE  IncidentInv'
<1> DEFINE r == request[c]
           q == [at |-> "insert", alert |-> r.alert, loaded |-> r.loaded,
                 seen |-> Len(incidents)]
<1>1. r \in Request /\ r.at = "create"
    BY DEF FindNone, IncidentInv, TypeOK
<1>2. Len(incidents) \in Nat /\ DOMAIN incidents = 1..Len(incidents)
    BY RowsAreTyped DEF IncidentInv
<1>3. q \in Request
    <2>1. r.alert \in Alerts /\ r.loaded \in AllowedReviews \cup {"new"}
        BY <1>1 DEF Request
    <2> QED
        BY <2>1, <1>2 DEF Request
<1>4. \A i \in 1..Len(incidents) : incidents[i].alert = r.alert => WasResolved(i)
    BY <1>2 DEF FindNone, ActiveIncidentsOf, IncidentInv, StatusIsAudited
<1>5. Fits(q)
    BY <1>2, <1>4 DEF Fits
<1>6. /\ request' = [request EXCEPT ![c] = q] /\ UNCHANGED stored
      /\ overlapped' \in BOOLEAN
    BY DEF FindNone, IncidentInv, TypeOK
<1> HIDE DEF q
<1> QED
    BY <1>3, <1>5, <1>6, RequestStep

LEMMA NextKeepsInv == IncidentInv /\ [Next]_vars => IncidentInv'
<1> SUFFICES ASSUME IncidentInv, [Next]_vars PROVE IncidentInv'
    OBVIOUS
<1>1. CASE UNCHANGED vars
    <2>1. UNCHANGED <<alertStatus, incidents, notes, audit, request, overlapped>>
        BY <1>1 DEF vars, stored
    <2>2. TypeOK' /\ RowsFit' /\ StatusIsAudited' /\ SeenWasResolved'
        BY <2>1 DEF IncidentInv, TypeOK, RowsFit, StatusIsAudited, SeenWasResolved,
                    WasResolved, WasReopened, Update
    <2>3. \A c \in Clients : Fits(request[c])'
        BY <2>1 DEF IncidentInv, Fits, WasResolved, Update
    <2> QED
        BY <2>2, <2>3 DEF IncidentInv
<1>2. ASSUME NEW c \in Clients, NEW k \in Alerts, NEW new \in ReviewStatuses,
             OpenReview(c, k, new)
      PROVE  IncidentInv'
    <2> DEFINE q == [at |-> "review", alert |-> k, loaded |-> alertStatus[k],
                     new |-> new]
    <2>1. q \in Request /\ Fits(q)
        BY DEF Request, Fits, IncidentInv, TypeOK
    <2>2. Open(c, q)
        BY <1>2 DEF OpenReview
    <2> HIDE DEF q
    <2> QED
        BY <2>1, <2>2, OpenKeepsInv
<1>3. ASSUME NEW c \in Clients, NEW k \in Alerts, OpenCreate(c, k)
      PROVE  IncidentInv'
    <2> DEFINE q == [at |-> "create", alert |-> k, loaded |-> alertStatus[k]]
    <2>1. q \in Request /\ Fits(q)
        BY DEF Request, Fits, IncidentInv, TypeOK
    <2>2. Open(c, q)
        BY <1>3 DEF OpenCreate
    <2> HIDE DEF q
    <2> QED
        BY <2>1, <2>2, OpenKeepsInv
<1>4. ASSUME NEW c \in Clients, NEW i \in DOMAIN incidents,
             NEW new \in IncidentStatuses \cup {NoStatus}, OpenUpdate(c, i, new)
      PROVE  IncidentInv'
    <2> DEFINE q == [at |-> "update", incident |-> i,
                     loaded |-> incidents[i].status, new |-> new]
    <2>1. i \in IncidentNumbers /\ incidents[i].status \in AllowedUpdates
        BY RowsAreTyped DEF IncidentInv, IncidentNumbers
    <2>2. q \in Request /\ Fits(q)
        BY <2>1 DEF Request, Fits, IncidentInv, StatusIsAudited
    <2>3. Open(c, q)
        BY <1>4 DEF OpenUpdate
    <2> HIDE DEF q
    <2> QED
        BY <2>2, <2>3, OpenKeepsInv
<1>5. ASSUME NEW c \in Clients, FindExisting(c) \/ Fail(c) PROVE IncidentInv'
    <2>1. UNCHANGED stored /\ overlapped' \in BOOLEAN
          /\ request' = [request EXCEPT ![c] = Idle]
        BY <1>5 DEF FindExisting, Fail, IncidentInv, TypeOK
    <2> QED
        BY <2>1, IdleFits, RequestStep
<1>6. ASSUME NEW c \in Clients, CommitReview(c) PROVE IncidentInv'
    BY <1>6, ReviewKeepsInv
<1>7. ASSUME NEW c \in Clients, FindNone(c) PROVE IncidentInv'
    BY <1>7, FindNoneKeepsInv
<1>8. ASSUME NEW c \in Clients, CommitCreate(c) PROVE IncidentInv'
    BY <1>8, CreateKeepsInv
<1>9. ASSUME NEW c \in Clients, NEW i \in DOMAIN incidents, AddNote(c, i)
      PROVE  IncidentInv'
    BY <1>9, NoteKeepsInv
<1>10. ASSUME NEW c \in Clients, CommitUpdate(c) PROVE IncidentInv'
    BY <1>10, UpdateKeepsInv
<1> QED
    BY <1>1, <1>2, <1>3, <1>4, <1>5, <1>6, <1>7, <1>8, <1>9, <1>10 DEF Next

-----------------------------------------------------------------------------
(* The theorems. *)

LEMMA IncidentInvariant == Spec => []IncidentInv
<1>1. Init => IncidentInv
    BY InitHolds
<1>2. IncidentInv /\ [Next]_vars => IncidentInv'
    BY NextKeepsInv
<1> QED
    BY <1>1, <1>2, PTL DEF Spec

\* Rows, audit rows and requests stay well typed.
THEOREM TypeTheorem == Spec => []TypeOK
BY IncidentInvariant, PTL DEF IncidentInv

\* Of two active incidents of one alert the second was looked up before the first
\* was committed, or the audit log shows that the first has been opened again.
THEOREM SecondIncidentTheorem == Spec => []SecondIncidentIsExplained
<1>1. IncidentInv => SecondIncidentIsExplained
    BY Explained
<1> QED
    BY <1>1, IncidentInvariant, PTL

-----------------------------------------------------------------------------
(* Replaying the audit log.                                                *)

\* The audit rows that AuditedAlert and AuditedIncident look at.
OfAlert(p, k) ==
    \/ audit[p].action = "alert" /\ audit[p].resource = k
    \/ /\ audit[p].action = "incident.create"
       /\ incidents[audit[p].resource].alert = k

OfIncident(p, i) ==
    /\ audit[p].action \in {"incident.create", "incident.update"}
    /\ audit[p].resource = i /\ audit[p].new # NoStatus

AlertRows(k, n)    == {p \in 1..n : OfAlert(p, k)}
IncidentRows(i, n) == {p \in 1..n : OfIncident(p, i)}

LastOf(rows)  == CHOOSE p \in rows : \A q \in rows : q <= p
HasLast(rows) == rows = {} \/ \E p \in rows : \A q \in rows : q <= p

\* There is a last one, whichever they are.
LogHasLasts ==
    \A n \in 0..Len(audit) :
        /\ \A k \in Alerts : HasLast(AlertRows(k, n))
        /\ \A i \in IncidentNumbers : HasLast(IncidentRows(i, n))

\* The incidents that have been created are there.
CreatedFits ==
    \A p \in DOMAIN audit :
        audit[p].action = "incident.create" => audit[p].resource \in DOMAIN incidents

\* What a request has loaded is still the stored value.
Current(q) ==
    /\ q.at \in {"review", "create", "insert"} => q.loaded = alertStatus[q.alert]
    /\ q.at = "update" => q.loaded = incidents[q.incident].status

OneRequest ==
    \A b, c \in Clients :
        request[b].at # "idle" /\ request[c].at # "idle" => b = c

SerialInv ==
    /\ LogHasLasts
    /\ CreatedFits
    /\ ~overlapped => OneRequest /\ \A c \in Clients : Current(request[c])
    /\ SerialAuditReplays

LEMMA LastIsLast ==
    ASSUME NEW rows \in SUBSET Nat, NEW m \in rows, \A q \in rows : q <= m
    PROVE  LastOf(rows) = m
<1>1. LastOf(rows) \in rows /\ \A q \in rows : q <= LastOf(rows)
    BY DEF LastOf
<1>2. LastOf(rows) \in Nat /\ m \in Nat /\ LastOf(rows) <= m /\ m <= LastOf(rows)
    BY <1>1
<1> QED
    BY <1>2

\* One more row: the earlier rows say what they said, or the new row decides.
LEMMA LastGrows ==
    ASSUME NEW n \in Nat, NEW last \in Nat, last = n + 1,
           \A p \in 1..n : audit'[p] = audit[p],
           NEW rows \in SUBSET (1..n), HasLast(rows), NEW default
    PROVE  /\ LastOr(rows, default)' = LastOr(rows, default)
           /\ LastOr(rows \cup {last}, default)' = audit'[last].new
<1>1. /\ LastOr(rows, default) =
            IF rows = {} THEN default ELSE audit[LastOf(rows)].new
      /\ LastOr(rows, default)' =
            IF rows = {} THEN default ELSE audit'[LastOf(rows)].new
      /\ LastOr(rows \cup {last}, default)' =
            audit'[LastOf(rows \cup {last})].new
    BY DEF LastOr, LastOf
<1>2. ASSUME rows # {} PROVE LastOf(rows) \in 1..n
    <2>1. PICK m \in rows : \A q \in rows : q <= m
        BY <1>2 DEF HasLast
    <2>2. rows \in SUBSET Nat /\ m \in 1..n
        OBVIOUS
    <2> QED
        BY <2>1, <2>2, LastIsLast
<1>3. LastOf(rows \cup {last}) = last
    <2>1. /\ rows \cup {last} \in SUBSET Nat
          /\ \A q \in rows \cup {last} : q <= last
        OBVIOUS
    <2> QED
        BY <2>1, LastIsLast
<1> QED
    BY <1>1, <1>2, <1>3

\* The log is read through its last row, before and after a step.
LEMMA AlertByRows ==
    ASSUME NEW k, NEW n, NEW rows
    PROVE  /\ rows = AlertRows(k, n) => AuditedAlert(k, n) =
                IF LastOr(rows, "new") = "open" THEN "escalated" ELSE LastOr(rows, "new")
           /\ rows = AlertRows(k, n)' => AuditedAlert(k, n)' =
                IF LastOr(rows, "new")' = "open" THEN "escalated"
                ELSE LastOr(rows, "new")'
BY DEF AuditedAlert, AlertRows, OfAlert

LEMMA IncidentByRows ==
    ASSUME NEW i, NEW n, NEW rows
    PROVE  /\ rows = IncidentRows(i, n) =>
                AuditedIncident(i, n) = LastOr(rows, NoStatus)
           /\ rows = IncidentRows(i, n)' =>
                AuditedIncident(i, n)' = LastOr(rows, NoStatus)'
BY DEF AuditedIncident, IncidentRows, OfIncident

\* What the log says after one more row, of alerts and of incidents.
LEMMA LogGrows ==
    ASSUME IncidentInv, LogHasLasts, CreatedFits,
           NEW row \in AuditRow, audit' = Append(audit, row),
           DOMAIN incidents \subseteq DOMAIN incidents',
           \A i \in DOMAIN incidents : incidents'[i].alert = incidents[i].alert,
           row.action = "incident.create" => row.resource \in DOMAIN incidents',
           NEW n \in Nat, n = Len(audit), NEW last \in Nat, last = n + 1
    PROVE  /\ LogHasLasts' /\ CreatedFits'
           /\ \A m \in 0..n : \A k \in Alerts :
                AuditedAlert(k, m)' = AuditedAlert(k, m)
           /\ \A m \in 0..n : \A i \in IncidentNumbers :
                AuditedIncident(i, m)' = AuditedIncident(i, m)
           /\ \A k \in Alerts :
                /\ ~OfAlert(last, k)' =>
                    AuditedAlert(k, last)' = AuditedAlert(k, n)
                /\ OfAlert(last, k)' => AuditedAlert(k, last)' =
                        IF row.new = "open" THEN "escalated" ELSE row.new
           /\ \A i \in IncidentNumbers :
                /\ ~OfIncident(last, i)' =>
                    AuditedIncident(i, last)' = AuditedIncident(i, n)
                /\ OfIncident(last, i)' => AuditedIncident(i, last)' = row.new
<1>1. /\ Len(audit') = last /\ audit'[last] = row
      /\ DOMAIN audit = 1..n /\ DOMAIN audit' = 1..last
      /\ \A p \in 1..n : audit'[p] = audit[p]
    BY DEF IncidentInv, TypeOK
<1>2. /\ \A k, p : p \in 1..n => (OfAlert(p, k)' <=> OfAlert(p, k))
      /\ \A i, p : p \in 1..n => (OfIncident(p, i)' <=> OfIncident(p, i))
    BY <1>1 DEF OfAlert, OfIncident, CreatedFits
<1>3. ASSUME NEW m \in 0..n
      PROVE  /\ \A k : AlertRows(k, m)' = AlertRows(k, m)
             /\ \A i : IncidentRows(i, m)' = IncidentRows(i, m)
             /\ \A k : AlertRows(k, m) \in SUBSET (1..n)
             /\ \A i : IncidentRows(i, m) \in SUBSET (1..n)
    BY <1>2 DEF AlertRows, IncidentRows
<1>4. /\ \A k : AlertRows(k, last)' =
            IF OfAlert(last, k)' THEN AlertRows(k, n) \cup {last} ELSE AlertRows(k, n)
      /\ \A i : IncidentRows(i, last)' =
            IF OfIncident(last, i)' THEN IncidentRows(i, n) \cup {last}
            ELSE IncidentRows(i, n)
    <2>1. 1..last = (1..n) \cup {last}
        OBVIOUS
    <2> QED
        BY <1>2, <2>1 DEF AlertRows, IncidentRows
<1>5. n \in 0..n /\ \A m \in 0..last : m \in 0..n \/ m = last
    OBVIOUS
<1>6. /\ \A m \in 0..n : \A k \in Alerts : HasLast(AlertRows(k, m))
      /\ \A m \in 0..n : \A i \in IncidentNumbers : HasLast(IncidentRows(i, m))
    BY DEF LogHasLasts
<1>7. ASSUME NEW rows \in SUBSET (1..n) PROVE HasLast(rows \cup {last})
    BY DEF HasLast
<1>g. ASSUME NEW rows \in SUBSET (1..n), HasLast(rows), NEW default
      PROVE  /\ LastOr(rows, default)' = LastOr(rows, default)
             /\ LastOr(rows \cup {last}, default)' = row.new
    <2>1. LastOr(rows \cup {last}, default)' = audit'[last].new
        BY <1>1, <1>g, LastGrows
    <2> QED
        BY <1>1, <1>g, <2>1, LastGrows
<1>8. LogHasLasts'
    <2>1. ASSUME NEW k \in Alerts, NEW m \in 0..last
          PROVE  HasLast(AlertRows(k, m)')
        <3>1. PICK rows \in SUBSET (1..n) : rows = AlertRows(k, n)
            BY <1>3, <1>5
        <3>2. m \in 0..n => HasLast(AlertRows(k, m)')
            BY <1>3, <1>6
        <3>3. HasLast(rows) /\ HasLast(rows \cup {last})
            BY <1>5, <1>6, <1>7, <3>1
        <3>4. AlertRows(k, last)' = rows \/ AlertRows(k, last)' = rows \cup {last}
            BY <1>4, <3>1
        <3>5. HasLast(AlertRows(k, last)')
            BY <3>3, <3>4
        <3> QED
            BY <1>5, <3>2, <3>5
    <2>2. ASSUME NEW i \in IncidentNumbers, NEW m \in 0..last
          PROVE  HasLast(IncidentRows(i, m)')
        <3>1. PICK rows \in SUBSET (1..n) : rows = IncidentRows(i, n)
            BY <1>3, <1>5
        <3>2. m \in 0..n => HasLast(IncidentRows(i, m)')
            BY <1>3, <1>6
        <3>3. HasLast(rows) /\ HasLast(rows \cup {last})
            BY <1>5, <1>6, <1>7, <3>1
        <3>4. IncidentRows(i, last)' = rows \/ IncidentRows(i, last)' = rows \cup {last}
            BY <1>4, <3>1
        <3>5. HasLast(IncidentRows(i, last)')
            BY <3>3, <3>4
        <3> QED
            BY <1>5, <3>2, <3>5
    <2> QED
        BY <1>1, <2>1, <2>2 DEF LogHasLasts, HasLast
<1>9. CreatedFits'
    BY <1>1 DEF CreatedFits
<1>10. ASSUME NEW m \in 0..n, NEW k \in Alerts
       PROVE  AuditedAlert(k, m)' = AuditedAlert(k, m)
    <2>1. PICK rows \in SUBSET (1..n) : rows = AlertRows(k, m)
        BY <1>3
    <2>2. rows = AlertRows(k, m)' /\ HasLast(rows)
        BY <1>3, <1>6, <2>1
    <2>3. LastOr(rows, "new")' = LastOr(rows, "new")
        BY <1>g, <2>2
    <2> QED
        BY <2>1, <2>2, <2>3, AlertByRows
<1>11. ASSUME NEW m \in 0..n, NEW i \in IncidentNumbers
       PROVE  AuditedIncident(i, m)' = AuditedIncident(i, m)
    <2>1. PICK rows \in SUBSET (1..n) : rows = IncidentRows(i, m)
        BY <1>3
    <2>2. rows = IncidentRows(i, m)' /\ HasLast(rows)
        BY <1>3, <1>6, <2>1
    <2>3. LastOr(rows, NoStatus)' = LastOr(rows, NoStatus)
        BY <1>g, <2>2
    <2> QED
        BY <2>1, <2>2, <2>3, IncidentByRows
<1>12. ASSUME NEW k \in Alerts
       PROVE  /\ ~OfAlert(last, k)' =>
                    AuditedAlert(k, last)' = AuditedAlert(k, n)
              /\ OfAlert(last, k)' => AuditedAlert(k, last)' =
                        IF row.new = "open" THEN "escalated" ELSE row.new
    <2>1. PICK rows \in SUBSET (1..n) : rows = AlertRows(k, n)
        BY <1>3, <1>5
    <2>2. HasLast(rows)
        BY <1>5, <1>6, <2>1
    <2>3. /\ LastOr(rows, "new")' = LastOr(rows, "new")
          /\ LastOr(rows \cup {last}, "new")' = row.new
        BY <1>g, <2>2
    <2>4. AlertRows(k, last)' = IF OfAlert(last, k)' THEN rows \cup {last} ELSE rows
        BY <1>4, <2>1
    <2>5. ASSUME ~OfAlert(last, k)'
          PROVE  AuditedAlert(k, last)' = AuditedAlert(k, n)
        <3>1. rows = AlertRows(k, last)'
            BY <2>4, <2>5
        <3>2. AuditedAlert(k, last)' =
                IF LastOr(rows, "new")' = "open" THEN "escalated" ELSE LastOr(rows, "new")'
            BY <3>1, AlertByRows
        <3>3. AuditedAlert(k, n) =
                IF LastOr(rows, "new") = "open" THEN "escalated" ELSE LastOr(rows, "new")
            BY <2>1, AlertByRows
        <3> QED
            BY <2>3, <3>2, <3>3
    <2>6. ASSUME OfAlert(last, k)'
          PROVE  AuditedAlert(k, last)' =
                        IF row.new = "open" THEN "escalated" ELSE row.new
        <3>1. rows \cup {last} = AlertRows(k, last)'
            BY <2>4, <2>6
        <3>2. PICK all : all = rows \cup {last}
            OBVIOUS
        <3>3. all = AlertRows(k, last)'
            BY <3>1, <3>2
        <3>4. AuditedAlert(k, last)' =
                IF LastOr(all, "new")' = "open" THEN "escalated" ELSE LastOr(all, "new")'
            BY <3>3, AlertByRows
        <3> QED
            BY <2>3, <3>2, <3>4
    <2> QED
        BY <2>5, <2>6
<1>13. ASSUME NEW i \in IncidentNumbers
       PROVE  /\ ~OfIncident(last, i)' =>
                    AuditedIncident(i, last)' = AuditedIncident(i, n)
              /\ OfIncident(last, i)' => AuditedIncident(i, last)' = row.new
    <2>1. PICK rows \in SUBSET (1..n) : rows = IncidentRows(i, n)
        BY <1>3, <1>5
    <2>2. HasLast(rows)
        BY <1>5, <1>6, <2>1
    <2>3. /\ LastOr(rows, NoStatus)' = LastOr(rows, NoStatus)
          /\ LastOr(rows \cup {last}, NoStatus)' = row.new
        BY <1>g, <2>2
    <2>4. IncidentRows(i, last)' =
            IF OfIncident(last, i)' THEN rows \cup {last} ELSE rows
        BY <1>4, <2>1
    <2>5. ASSUME ~OfIncident(last, i)'
          PROVE  AuditedIncident(i, last)' = AuditedIncident(i, n)
        <3>1. rows = IncidentRows(i, last)'
            BY <2>4, <2>5
        <3>2. AuditedIncident(i, last)' = LastOr(rows, NoStatus)'
            BY <3>1, IncidentByRows
        <3>3. AuditedIncident(i, n) = LastOr(rows, NoStatus)
            BY <2>1, IncidentByRows
        <3> QED
            BY <2>3, <3>2, <3>3
    <2>6. ASSUME OfIncident(last, i)'
          PROVE  AuditedIncident(i, last)' = row.new
        <3>1. rows \cup {last} = IncidentRows(i, last)'
            BY <2>4, <2>6
        <3>2. PICK all : all = rows \cup {last}
            OBVIOUS
        <3>3. all = IncidentRows(i, last)'
            BY <3>1, <3>2
        <3>4. AuditedIncident(i, last)' = LastOr(all, NoStatus)'
            BY <3>3, IncidentByRows
        <3> QED
            BY <2>3, <3>2, <3>4
    <2> QED
        BY <2>5, <2>6
<1> QED
    BY <1>8, <1>9, <1>10, <1>11, <1>12, <1>13

LEMMA SerialInit == Init => SerialInv
<1> SUFFICES ASSUME Init PROVE SerialInv
    OBVIOUS
<1>1. /\ Len(audit) = 0 /\ DOMAIN audit = {} /\ DOMAIN incidents = {}
      /\ \A c \in Clients : request[c].at = "idle"
      /\ alertStatus = [k \in Alerts |-> "new"]
    BY DEF Init, Idle
<1>2. /\ \A k : AlertRows(k, 0) = {}
      /\ \A i : IncidentRows(i, 0) = {}
    BY DEF AlertRows, IncidentRows
<1>3. LogHasLasts
    BY <1>1, <1>2 DEF LogHasLasts, HasLast
<1>4. CreatedFits /\ OneRequest /\ \A c \in Clients : Current(request[c])
    BY <1>1 DEF CreatedFits, OneRequest, Current
<1>5. \A k \in Alerts : AuditedAlert(k, 0) = "new"
    BY <1>2 DEF AuditedAlert, LastOr, AlertRows, OfAlert
<1>6. SerialAuditReplays
    BY <1>1, <1>5 DEF SerialAuditReplays
<1> QED
    BY <1>3, <1>4, <1>6 DEF SerialInv

\* The log says the same as long as the stored rows stay.
LEMMA StoreSame ==
    ASSUME LogHasLasts, CreatedFits, SerialAuditReplays,
           alertStatus' = alertStatus, incidents' = incidents, audit' = audit,
           ~overlapped' => ~overlapped
    PROVE  LogHasLasts' /\ CreatedFits' /\ SerialAuditReplays'
<1>1. LogHasLasts' /\ CreatedFits'
    BY DEF LogHasLasts, CreatedFits, AlertRows, IncidentRows, OfAlert, OfIncident,
           HasLast
<1>2. /\ \A k, n : AuditedAlert(k, n)' = AuditedAlert(k, n)
      /\ \A i, n : AuditedIncident(i, n)' = AuditedIncident(i, n)
    BY DEF AuditedAlert, AuditedIncident, LastOr
<1>3. SerialAuditReplays'
    <2> SUFFICES ASSUME ~overlapped' PROVE SerialAuditReplays'
        BY DEF SerialAuditReplays
    <2>1. ~overlapped
        OBVIOUS
    <2> QED
        BY <1>2, <2>1 DEF SerialAuditReplays
<1> QED
    BY <1>1, <1>3

\* A request loads something, or ends, and the store stays as it is.
LEMMA RequestSerial ==
    ASSUME IncidentInv, SerialInv, UNCHANGED stored, NEW c \in Clients, NEW q,
           request' = [request EXCEPT ![c] = q],
           ~overlapped' => /\ ~overlapped /\ Current(q)
                           /\ q.at # "idle" =>
                                \A b \in Clients : b = c \/ request[b].at = "idle"
    PROVE  SerialInv'
<1>1. UNCHANGED <<alertStatus, incidents, audit>>
    BY DEF stored
<1>2. \A b \in Clients : request'[b] = IF b = c THEN q ELSE request[b]
    BY DEF IncidentInv, TypeOK
<1>3. LogHasLasts' /\ CreatedFits' /\ SerialAuditReplays'
    BY <1>1, StoreSame DEF SerialInv
<1>4. ASSUME ~overlapped'
      PROVE  OneRequest' /\ \A b \in Clients : Current(request[b])'
    <2>1. OneRequest /\ \A b \in Clients : Current(request[b])
        BY <1>4 DEF SerialInv
    <2>2. \A b \in Clients : Current(request'[b])
        BY <1>2, <1>4, <2>1
    <2> QED
        BY <1>1, <1>2, <1>4, <2>1, <2>2 DEF OneRequest, Current
<1> QED
    BY <1>3, <1>4 DEF SerialInv

LEMMA OpenSerial ==
    ASSUME IncidentInv, SerialInv, NEW c \in Clients, NEW q, Current(q), Open(c, q)
    PROVE  SerialInv'
<1>1. /\ UNCHANGED stored /\ request' = [request EXCEPT ![c] = q]
      /\ ~overlapped' => ~overlapped /\ OpenRequests = {}
    BY DEF Open, IncidentInv, TypeOK
<1>2. OpenRequests = {} => \A b \in Clients : request[b].at = "idle"
    BY DEF OpenRequests
<1> QED
    BY <1>1, <1>2, RequestSerial

\* A commit: the stored rows change as the new audit row says, which starts
\* from what is stored.
LEMMA CommitSerial ==
    ASSUME IncidentInv, SerialInv, NEW c \in Clients, NEW row \in AuditRow,
           Close(c, row),
           DOMAIN incidents \subseteq DOMAIN incidents',
           \A i \in DOMAIN incidents : incidents'[i].alert = incidents[i].alert,
           row.action = "incident.create" => row.resource \in DOMAIN incidents',
           DOMAIN incidents' \subseteq IncidentNumbers,
           NEW last \in Nat, last = Len(audit) + 1,
           ~overlapped => \A k \in Alerts :
                /\ ~OfAlert(last, k)' => alertStatus'[k] = alertStatus[k]
                /\ OfAlert(last, k)' => alertStatus'[k] =
                        IF row.new = "open" THEN "escalated" ELSE row.new,
           ~overlapped => \A i \in DOMAIN incidents' :
                /\ ~OfIncident(last, i)' => /\ i \in DOMAIN incidents
                                            /\ incidents'[i].status = incidents[i].status
                /\ OfIncident(last, i)' => incidents'[i].status = row.new,
           ~overlapped /\ row.action = "alert" =>
                row.previous = alertStatus[row.resource],
           ~overlapped /\ row.action = "incident.update" =>
                /\ row.resource \in DOMAIN incidents
                /\ row.previous = incidents[row.resource].status,
           ~overlapped => \A b \in Clients : b = c \/ Current(request[b])'
    PROVE  SerialInv'
<1>1. /\ audit' = Append(audit, row) /\ request' = [request EXCEPT ![c] = Idle]
      /\ overlapped' = overlapped
    BY DEF Close
<1>2. PICK n \in Nat : n = Len(audit)
    BY RowsAreTyped DEF IncidentInv
<1>3. /\ Len(audit') = last /\ audit'[last] = row /\ last = n + 1
      /\ DOMAIN audit = 1..n /\ DOMAIN audit' = 1..last
      /\ \A p \in 1..n : audit'[p] = audit[p]
      /\ \A p \in 1..n : audit[p] \in AuditRow
    BY <1>1, <1>2 DEF IncidentInv, TypeOK
<1>4. /\ LogHasLasts' /\ CreatedFits'
      /\ \A m \in 0..n : \A k \in Alerts : AuditedAlert(k, m)' = AuditedAlert(k, m)
      /\ \A m \in 0..n : \A i \in IncidentNumbers :
            AuditedIncident(i, m)' = AuditedIncident(i, m)
      /\ \A k \in Alerts :
            /\ ~OfAlert(last, k)' => AuditedAlert(k, last)' = AuditedAlert(k, n)
            /\ OfAlert(last, k)' => AuditedAlert(k, last)' =
                    IF row.new = "open" THEN "escalated" ELSE row.new
      /\ \A i \in IncidentNumbers :
            /\ ~OfIncident(last, i)' => AuditedIncident(i, last)' = AuditedIncident(i, n)
            /\ OfIncident(last, i)' => AuditedIncident(i, last)' = row.new
    BY <1>1, <1>2, <1>3, LogGrows DEF SerialInv
<1>5. ASSUME ~overlapped
      PROVE  OneRequest' /\ \A b \in Clients : Current(request[b])'
    <2>1. \A b \in Clients : request'[b] = IF b = c THEN Idle ELSE request[b]
        BY <1>1 DEF IncidentInv, TypeOK
    <2>2. OneRequest'
        BY <1>5, <2>1 DEF SerialInv, OneRequest, Idle
    <2>3. Current(request[c])'
        BY <2>1 DEF Current, Idle
    <2> QED
        BY <1>5, <2>2, <2>3
<1>6. ASSUME ~overlapped
      PROVE  /\ \A k \in Alerts : alertStatus[k] = AuditedAlert(k, n)
             /\ \A i \in DOMAIN incidents : incidents[i].status = AuditedIncident(i, n)
             /\ \A p \in 1..n :
                /\ audit[p].action = "alert" =>
                    audit[p].previous = AuditedAlert(audit[p].resource, p - 1)
                /\ audit[p].action = "incident.update" =>
                    audit[p].previous = AuditedIncident(audit[p].resource, p - 1)
    BY <1>2, <1>3, <1>6 DEF SerialInv, SerialAuditReplays
<1>7. ASSUME ~overlapped
      PROVE  /\ \A k \in Alerts : alertStatus'[k] = AuditedAlert(k, last)'
             /\ \A i \in DOMAIN incidents' :
                    incidents'[i].status = AuditedIncident(i, last)'
    BY <1>4, <1>6, <1>7
<1>8. \A row2 \in AuditRow :
        /\ row2.action = "alert" => row2.resource \in Alerts
        /\ row2.action = "incident.update" => row2.resource \in IncidentNumbers
    BY DEF AuditRow
<1>9. ASSUME ~overlapped, NEW p \in 1..last, NEW x \in AuditRow, x = audit'[p]
      PROVE  /\ x.action = "alert" => x.previous = AuditedAlert(x.resource, p - 1)'
             /\ x.action = "incident.update" =>
                    x.previous = AuditedIncident(x.resource, p - 1)'
    <2>1. PICK m \in 0..n : m = p - 1
        BY <1>3
    <2>2. ASSUME x.action = "alert"
          PROVE  x.previous = AuditedAlert(x.resource, m)'
        <3>1. x.previous = AuditedAlert(x.resource, m) /\ x.resource \in Alerts
            BY <1>3, <1>6, <1>8, <1>9, <2>1, <2>2
        <3> QED
            BY <1>4, <3>1
    <2>3. ASSUME x.action = "incident.update"
          PROVE  x.previous = AuditedIncident(x.resource, m)'
        <3>1. /\ x.previous = AuditedIncident(x.resource, m)
              /\ x.resource \in IncidentNumbers
            BY <1>3, <1>6, <1>8, <1>9, <2>1, <2>3
        <3> QED
            BY <1>4, <3>1
    <2> QED
        BY <2>1, <2>2, <2>3
<1>10. SerialAuditReplays'
    <2> SUFFICES ASSUME ~overlapped' PROVE SerialAuditReplays'
        BY DEF SerialAuditReplays
    <2>1. \A p \in 1..last : audit'[p] \in AuditRow
        BY <1>3
    <2>2. \A p \in 1..last :
            (/\ audit[p].action = "alert" =>
                    audit[p].previous = AuditedAlert(audit[p].resource, p - 1)
             /\ audit[p].action = "incident.update" =>
                    audit[p].previous = AuditedIncident(audit[p].resource, p - 1))'
        BY <1>1, <1>9, <2>1
    <2> QED
        BY <1>1, <1>3, <1>7, <2>2 DEF SerialAuditReplays
<1> QED
    BY <1>1, <1>4, <1>5, <1>10 DEF SerialInv

LEMMA ReviewSerial ==
    ASSUME IncidentInv, SerialInv, NEW c \in Clients, CommitReview(c)
    PROVE  SerialInv'
<1>1. PICK r \in Request : r = request[c] /\ r.at = "review"
    BY DEF CommitReview, IncidentInv, TypeOK
<1>2. /\ r.alert \in Alerts /\ r.loaded \in AllowedReviews \cup {"new"}
      /\ r.new \in AllowedReviews /\ r.new # "open"
    BY <1>1, ReviewAssumption DEF Request, AllowedReviews
<1>3. PICK row \in AuditRow :
        row = [action |-> "alert", resource |-> r.alert,
               previous |-> r.loaded, new |-> r.new]
    BY <1>2 DEF AuditRow
<1>4. /\ Close(c, row) /\ incidents' = incidents
      /\ alertStatus' = [alertStatus EXCEPT ![r.alert] = Write(@, r.loaded, r.new)]
    BY <1>1, <1>3 DEF CommitReview, Previous
<1>5. PICK last \in Nat : last = Len(audit) + 1
    BY RowsAreTyped DEF IncidentInv
<1>6. audit'[last] = row
    BY <1>4, <1>5 DEF Close, IncidentInv, TypeOK
<1>7. /\ \A k : OfAlert(last, k)' <=> k = r.alert
      /\ \A i : ~OfIncident(last, i)'
    BY <1>3, <1>6 DEF OfAlert, OfIncident
<1>8. DOMAIN incidents \subseteq IncidentNumbers
    BY RowsAreTyped DEF IncidentInv, IncidentNumbers
<1>9. ASSUME ~overlapped
      PROVE  /\ r.loaded = alertStatus[r.alert]
             /\ \A b \in Clients : b = c \/ request[b].at = "idle"
    <2>1. OneRequest /\ Current(r)
        BY <1>1, <1>9 DEF SerialInv
    <2> QED
        BY <1>1, <2>1 DEF OneRequest, Current
<1>10. ~overlapped => \A k \in Alerts :
            alertStatus'[k] = IF k = r.alert THEN r.new ELSE alertStatus[k]
    BY <1>2, <1>4, <1>9 DEF Write, IncidentInv, TypeOK
<1>11. ~overlapped => \A b \in Clients : b = c \/ Current(request[b])'
    <2> SUFFICES ASSUME ~overlapped, NEW b \in Clients, b # c
                 PROVE  Current(request[b])'
        OBVIOUS
    <2>1. request'[b].at = "idle"
        BY <1>4, <1>9 DEF Close, IncidentInv, TypeOK
    <2> QED
        BY <2>1 DEF Current
<1>12. /\ ~overlapped => \A k \in Alerts :
                /\ ~OfAlert(last, k)' => alertStatus'[k] = alertStatus[k]
                /\ OfAlert(last, k)' => alertStatus'[k] =
                        IF row.new = "open" THEN "escalated" ELSE row.new
       /\ ~overlapped => \A i \in DOMAIN incidents' :
                /\ ~OfIncident(last, i)' => /\ i \in DOMAIN incidents
                                            /\ incidents'[i].status = incidents[i].status
                /\ OfIncident(last, i)' => incidents'[i].status = row.new
       /\ ~overlapped /\ row.action = "alert" =>
                row.previous = alertStatus[row.resource]
       /\ row.action = "alert"
    BY <1>2, <1>3, <1>4, <1>7, <1>9, <1>10
<1> QED
    BY <1>4, <1>5, <1>8, <1>11, <1>12, CommitSerial

LEMMA NoteSerial ==
    ASSUME IncidentInv, SerialInv, NEW c \in Clients, NEW j \in DOMAIN incidents,
           AddNote(c, j)
    PROVE  SerialInv'
<1>1. DOMAIN incidents \subseteq IncidentNumbers
    BY RowsAreTyped DEF IncidentInv, IncidentNumbers
<1>2. PICK row \in AuditRow :
        row = [action |-> "incident.note.create", resource |-> j,
               previous |-> NoStatus, new |-> NoStatus]
    BY <1>1 DEF AuditRow
<1>3. Close(c, row) /\ incidents' = incidents /\ alertStatus' = alertStatus
    BY <1>2 DEF AddNote
<1>4. PICK last \in Nat : last = Len(audit) + 1
    BY RowsAreTyped DEF IncidentInv
<1>5. audit'[last] = row
    BY <1>3, <1>4 DEF Close, IncidentInv, TypeOK
<1>6. (\A k : ~OfAlert(last, k)') /\ (\A i : ~OfIncident(last, i)')
    BY <1>2, <1>5 DEF OfAlert, OfIncident
<1>7. ~overlapped => \A b \in Clients : b = c \/ Current(request[b])'
    <2> SUFFICES ASSUME ~overlapped, NEW b \in Clients, b # c
                 PROVE  Current(request[b])'
        OBVIOUS
    <2>1. request'[b] = request[b]
        BY <1>3 DEF Close, IncidentInv, TypeOK
    <2> QED
        BY <1>3, <2>1 DEF SerialInv, Current
<1>8. row.action = "incident.note.create"
    BY <1>2
<1> QED
    BY <1>1, <1>3, <1>4, <1>6, <1>7, <1>8, CommitSerial

LEMMA CreateSerial ==
    ASSUME IncidentInv, SerialInv, NEW c \in Clients, CommitCreate(c)
    PROVE  SerialInv'
<1>1. PICK r \in Request : r = request[c] /\ r.at = "insert"
    BY DEF CommitCreate, IncidentInv, TypeOK
<1>2. PICK n \in Nat : n = Len(incidents)
    BY RowsAreTyped DEF IncidentInv
<1>3. PICK new : new = [alert |-> r.alert, status |-> "open", seen |-> r.seen]
    OBVIOUS
<1>4. PICK row \in AuditRow :
        row = [action |-> "incident.create", resource |-> n + 1,
               previous |-> NoStatus, new |-> "open"]
    <2>1. [action |-> "incident.create", resource |-> n + 1,
           previous |-> NoStatus, new |-> "open"] \in AuditRow
        BY <1>2 DEF AuditRow, IncidentNumbers
    <2> QED
        BY <2>1
<1>5. /\ Close(c, row) /\ incidents' = Append(incidents, new)
      /\ alertStatus' =
            [alertStatus EXCEPT ![r.alert] = Write(@, r.loaded, "escalated")]
    BY <1>1, <1>2, <1>3, <1>4 DEF CommitCreate
<1>6. /\ DOMAIN incidents = 1..n /\ DOMAIN incidents' = 1..(n + 1)
      /\ incidents'[n + 1] = new /\ \A i \in 1..n : incidents'[i] = incidents[i]
      /\ DOMAIN incidents' \subseteq IncidentNumbers
    BY <1>2, <1>5 DEF IncidentInv, TypeOK, IncidentNumbers
<1>7. PICK last \in Nat : last = Len(audit) + 1
    BY RowsAreTyped DEF IncidentInv
<1>8. audit'[last] = row
    BY <1>5, <1>7 DEF Close, IncidentInv, TypeOK
<1>9. /\ \A k : OfAlert(last, k)' <=> k = r.alert
      /\ \A i : OfIncident(last, i)' <=> i = n + 1
    <2>1. NoStatus # "open"
        BY ReviewAssumption DEF AllowedUpdates
    <2>2. new.alert = r.alert
        BY <1>3
    <2> QED
        BY <1>4, <1>6, <1>8, <2>1, <2>2 DEF OfAlert, OfIncident
<1>10. ASSUME ~overlapped
       PROVE  /\ r.loaded = alertStatus[r.alert]
              /\ \A b \in Clients : b = c \/ request[b].at = "idle"
    <2>1. OneRequest /\ Current(r)
        BY <1>1, <1>10 DEF SerialInv
    <2> QED
        BY <1>1, <2>1 DEF OneRequest, Current
<1>11. ~overlapped => \A k \in Alerts :
            alertStatus'[k] = IF k = r.alert THEN "escalated" ELSE alertStatus[k]
    BY <1>5, <1>10 DEF Write, IncidentInv, TypeOK
<1>12. ~overlapped => \A b \in Clients : b = c \/ Current(request[b])'
    <2> SUFFICES ASSUME ~overlapped, NEW b \in Clients, b # c
                 PROVE  Current(request[b])'
        OBVIOUS
    <2>1. request'[b].at = "idle"
        BY <1>5, <1>10 DEF Close, IncidentInv, TypeOK
    <2> QED
        BY <2>1 DEF Current
<1>13. /\ row.action = "incident.create" /\ row.new = "open"
       /\ row.resource \in DOMAIN incidents' /\ incidents'[n + 1].status = "open"
       /\ DOMAIN incidents \subseteq DOMAIN incidents'
       /\ \A i \in DOMAIN incidents' : i = n + 1 \/ i \in DOMAIN incidents
    BY <1>3, <1>4, <1>6
<1>14. /\ ~overlapped => \A k \in Alerts :
                /\ ~OfAlert(last, k)' => alertStatus'[k] = alertStatus[k]
                /\ OfAlert(last, k)' => alertStatus'[k] =
                        IF row.new = "open" THEN "escalated" ELSE row.new
       /\ ~overlapped => \A i \in DOMAIN incidents' :
                /\ ~OfIncident(last, i)' => /\ i \in DOMAIN incidents
                                            /\ incidents'[i].status = incidents[i].status
                /\ OfIncident(last, i)' => incidents'[i].status = row.new
       /\ \A i \in DOMAIN incidents : incidents'[i].alert = incidents[i].alert
    BY <1>6, <1>9, <1>11, <1>13
<1> QED
    BY <1>5, <1>6, <1>7, <1>12, <1>13, <1>14, CommitSerial

LEMMA UpdateSerial ==
    ASSUME IncidentInv, SerialInv, NEW c \in Clients, CommitUpdate(c)
    PROVE  SerialInv'
<1>1. PICK r \in Request : r = request[c] /\ r.at = "update" /\ Fits(r)
    BY DEF CommitUpdate, IncidentInv, TypeOK
<1>2. PICK j : j = r.incident
    OBVIOUS
<1>3. PICK n \in Nat : n = Len(incidents) /\ DOMAIN incidents = 1..n
    BY RowsAreTyped DEF IncidentInv
<1>4. /\ j \in 1..n /\ r.loaded \in AllowedUpdates
      /\ r.new \in AllowedUpdates \cup {NoStatus}
    BY <1>1, <1>2, <1>3, ReviewAssumption DEF Fits, Request
<1>5. PICK row \in AuditRow :
        row = [action |-> "incident.update", resource |-> j,
               previous |-> r.loaded, new |-> r.new]
    <2>1. [action |-> "incident.update", resource |-> j,
           previous |-> r.loaded, new |-> r.new] \in AuditRow
        BY <1>3, <1>4 DEF AuditRow, IncidentNumbers
    <2> QED
        BY <2>1
<1>6. /\ Close(c, row) /\ alertStatus' = alertStatus
      /\ incidents' = IF r.new = NoStatus THEN incidents
            ELSE [incidents EXCEPT ![j].status = Write(@, r.loaded, r.new)]
    BY <1>1, <1>2, <1>5 DEF CommitUpdate, Previous
<1>7. PICK last \in Nat : last = Len(audit) + 1
    BY RowsAreTyped DEF IncidentInv
<1>8. audit'[last] = row
    BY <1>6, <1>7 DEF Close, IncidentInv, TypeOK
<1>9. /\ \A k : ~OfAlert(last, k)'
      /\ \A i : OfIncident(last, i)' <=> i = j /\ r.new # NoStatus
    BY <1>5, <1>8 DEF OfAlert, OfIncident
<1>10. ASSUME ~overlapped
       PROVE  /\ r.loaded = incidents[j].status
              /\ \A b \in Clients : b = c \/ request[b].at = "idle"
    <2>1. OneRequest /\ Current(r)
        BY <1>1, <1>10 DEF SerialInv
    <2> QED
        BY <1>1, <1>2, <2>1 DEF OneRequest, Current
<1>11. /\ DOMAIN incidents' = DOMAIN incidents
       /\ \A i \in 1..n : incidents'[i].alert = incidents[i].alert
       /\ \A i \in 1..n : i # j => incidents'[i] = incidents[i]
       /\ r.new = NoStatus => incidents' = incidents
       /\ r.new # NoStatus =>
            incidents'[j].status = Write(incidents[j].status, r.loaded, r.new)
    <2>1. \A i \in 1..n : incidents[i] \in IncidentRow
        BY <1>3, RowsAreTyped DEF IncidentInv
    <2> QED
        BY <1>3, <1>4, <1>6, <2>1 DEF IncidentRow
<1>12. ~overlapped => (r.new # NoStatus => incidents'[j].status = r.new)
    BY <1>10, <1>11 DEF Write
<1>13. ~overlapped => \A b \in Clients : b = c \/ Current(request[b])'
    <2> SUFFICES ASSUME ~overlapped, NEW b \in Clients, b # c
                 PROVE  Current(request[b])'
        OBVIOUS
    <2>1. request'[b].at = "idle"
        BY <1>6, <1>10 DEF Close, IncidentInv, TypeOK
    <2> QED
        BY <2>1 DEF Current
<1>14. /\ row.action = "incident.update" /\ row.new = r.new
       /\ row.resource = j /\ row.previous = r.loaded
       /\ DOMAIN incidents' \subseteq IncidentNumbers
    BY <1>3, <1>5, <1>11 DEF IncidentNumbers
<1>15. ~overlapped => \A i \in DOMAIN incidents' :
                /\ ~OfIncident(last, i)' => /\ i \in DOMAIN incidents
                                            /\ incidents'[i].status = incidents[i].status
                /\ OfIncident(last, i)' => incidents'[i].status = row.new
    BY <1>3, <1>9, <1>11, <1>12, <1>14
<1>16. /\ ~overlapped => \A k \in Alerts :
                /\ ~OfAlert(last, k)' => alertStatus'[k] = alertStatus[k]
                /\ OfAlert(last, k)' => alertStatus'[k] =
                        IF row.new = "open" THEN "escalated" ELSE row.new
       /\ ~overlapped /\ row.action = "incident.update" =>
                /\ row.resource \in DOMAIN incidents
                /\ row.previous = incidents[row.resource].status
       /\ \A i \in DOMAIN incidents : incidents'[i].alert = incidents[i].alert
       /\ DOMAIN incidents \subseteq DOMAIN incidents'
    BY <1>3, <1>4, <1>6, <1>9, <1>10, <1>11, <1>14
<1> QED
    BY <1>6, <1>7, <1>13, <1>14, <1>15, <1>16, CommitSerial

LEMMA FindNoneSerial ==
    ASSUME IncidentInv, SerialInv, NEW c \in Clients, FindNone(c)
    PROVE  SerialInv'
<1>1. PICK r \in Request : r = request[c] /\ r.at = "create"
    BY DEF FindNone, IncidentInv, TypeOK
<1>2. PICK q : q = [at |-> "insert", alert |-> r.alert, loaded |-> r.loaded,
                    seen |-> Len(incidents)]
    OBVIOUS
<1>3. /\ UNCHANGED stored /\ overlapped' = overlapped
      /\ request' = [request EXCEPT ![c] = q]
    BY <1>1, <1>2 DEF FindNone
<1>4. ASSUME ~overlapped
      PROVE  Current(q) /\ \A b \in Clients : b = c \/ request[b].at = "idle"
    <2>1. OneRequest /\ Current(r)
        BY <1>1, <1>4 DEF SerialInv
    <2> QED
        BY <1>1, <1>2, <2>1 DEF OneRequest, Current
<1> QED
    BY <1>3, <1>4, RequestSerial

LEMMA SerialStep == IncidentInv /\ SerialInv /\ [Next]_vars => SerialInv'
<1> SUFFICES ASSUME IncidentInv, SerialInv, [Next]_vars PROVE SerialInv'
    OBVIOUS
<1>1. CASE UNCHANGED vars
    <2>1. UNCHANGED <<stored, alertStatus, incidents, audit, request, overlapped>>
        BY <1>1 DEF vars, stored
    <2>2. LogHasLasts' /\ CreatedFits' /\ SerialAuditReplays'
        BY <2>1, StoreSame DEF SerialInv
    <2> QED
        BY <2>1, <2>2 DEF SerialInv, OneRequest, Current
<1>2. ASSUME NEW c \in Clients, NEW k \in Alerts, NEW new \in ReviewStatuses,
             OpenReview(c, k, new)
      PROVE  SerialInv'
    <2>1. PICK q : q = [at |-> "review", alert |-> k, loaded |-> alertStatus[k],
                        new |-> new]
        OBVIOUS
    <2> QED
        BY <1>2, <2>1, OpenSerial DEF OpenReview, Current
<1>3. ASSUME NEW c \in Clients, NEW k \in Alerts, OpenCreate(c, k)
      PROVE  SerialInv'
    <2>1. PICK q : q = [at |-> "create", alert |-> k, loaded |-> alertStatus[k]]
        OBVIOUS
    <2> QED
        BY <1>3, <2>1, OpenSerial DEF OpenCreate, Current
<1>4. ASSUME NEW c \in Clients, NEW i \in DOMAIN incidents,
             NEW new \in IncidentStatuses \cup {NoStatus}, OpenUpdate(c, i, new)
      PROVE  SerialInv'
    <2>1. PICK q : q = [at |-> "update", incident |-> i,
                        loaded |-> incidents[i].status, new |-> new]
        OBVIOUS
    <2> QED
        BY <1>4, <2>1, OpenSerial DEF OpenUpdate, Current
<1>5. ASSUME NEW c \in Clients, FindExisting(c) \/ Fail(c) PROVE SerialInv'
    <2>1. UNCHANGED stored /\ overlapped' = overlapped
          /\ request' = [request EXCEPT ![c] = Idle]
        BY <1>5 DEF FindExisting, Fail
    <2>2. Current(Idle) /\ Idle.at = "idle"
        BY DEF Current, Idle
    <2> QED
        BY <2>1, <2>2, RequestSerial
<1> QED
    BY <1>1, <1>2, <1>3, <1>4, <1>5, ReviewSerial, FindNoneSerial, CreateSerial,
       NoteSerial, UpdateSerial DEF Next


\* As long as no two requests have been open at once, the audit log tells the
\* truth: every entry starts from the state that the earlier ones lead to, and
\* together they lead to the stored rows.
THEOREM SerialAuditTheorem == Spec => []SerialAuditReplays
<1>1. Spec => []SerialInv
    BY SerialInit, SerialStep, IncidentInvariant, PTL DEF Spec
<1>2. SerialInv => SerialAuditReplays
    BY DEF SerialInv
<1> QED
    BY <1>1, <1>2, PTL

=============================================================================
