--------------------------- MODULE AttendanceStore ---------------------------
(***************************************************************************)
(* The tables of one tenant that the attendance handlers share, the        *)
(* queries they make, and syncDailySummary, the procedure they end with.   *)
(*                                                                         *)
(* The API is one Node process on MySQL: no handler modelled here opens a  *)
(* transaction, so handlers interleave at every await and each query sees  *)
(* the tables as they are at that moment.                                  *)
(***************************************************************************)
EXTENDS AttendanceRules

VARIABLES
    now,            \* the clock of the process
    records,        \* time_records: id -> row
    nextRecord,     \* its AUTO_INCREMENT
    requests,       \* employee_requests: id -> row
    nextRequest,    \* its AUTO_INCREMENT
    summaries,      \* attendance_summaries: user, date -> row
    closings,       \* monthly_closings: month -> row ("none": no row)
    evidence,       \* remote_photo_evidences: record_id of each row
    remote          \* records inserted by registerRemoteRecord (photo_url set)

tables == <<records, nextRecord, requests, nextRequest, summaries, closings,
            evidence, remote>>
storeVars == <<now, tables>>

StoreTypeOK ==
    /\ now \in Times
    /\ records \in [RecordIds -> Record \cup {Null}]
    /\ nextRecord \in 1..(MaxRecords + 1)
    /\ requests \in [RequestIds -> Request \cup {Null}]
    /\ nextRequest \in 1..(MaxRequests + 1)
    /\ summaries \in [Users -> [Days -> Summary \cup {Null}]]
    /\ closings \in [Months -> Closing]
    /\ evidence \subseteq RecordIds
    /\ remote \subseteq RecordIds

StoreInit ==
    /\ now = 0
    /\ records = [i \in RecordIds |-> Null]
    /\ nextRecord = 1
    /\ requests = [q \in RequestIds |-> Null]
    /\ nextRequest = 1
    /\ summaries = [u \in Users |-> [d \in Days |-> Null]]
    /\ closings = [m \in Months |->
                     [status |-> "none", recs |-> {}, absences |-> {}]]
    /\ evidence = {}
    /\ remote = {}

-----------------------------------------------------------------------------
(***************************************************************************)
(* Queries.                                                                *)
(***************************************************************************)

\* Rows of a user on a local day (getDayBounds, getDateBounds).
RowsOf(u, d) ==
    {i \in RecordIds : /\ records[i] # Null
                       /\ records[i].user = u
                       /\ LocalDay[records[i].time] = d}

\* Mutant of Live: a marking that waits for approval does not count.
LiveApproved(ids) ==
    {i \in ids : records[i].status \notin {"rejected", "pending_approval"}}

\* Rows that are not rejected: what the rules and the calculator look at.
Live(ids) == {i \in ids : records[i].status # "rejected"}

FactOf(i) == [id |-> i, user |-> records[i].user, type |-> records[i].type,
              time |-> records[i].time]

MonthRows(m) ==
    {i \in RecordIds : /\ records[i] # Null
                       /\ MonthOf[LocalDay[records[i].time]] = m}

IsApprovedAbsence(q) ==
    /\ requests[q] # Null
    /\ requests[q].kind = "absence"
    /\ requests[q].status = "approved"

\* The records and the approved absences that the summary of a day and the
\* snapshot of a month are computed from.
DayFacts(u, d) == {FactOf(i) : i \in Live(RowsOf(u, d))}
DayAbsences(u, d) ==
    {q \in RequestIds : /\ IsApprovedAbsence(q)
                        /\ requests[q].user = u
                        /\ requests[q].day = d}
MonthFacts(m) == {FactOf(i) : i \in Live(MonthRows(m))}
MonthAbsences(m) ==
    {q \in RequestIds : IsApprovedAbsence(q) /\ MonthOf[requests[q].day] = m}

\* assertPeriodOpen: it throws when the month of the day is closed.
PeriodOpen(d) == closings[MonthOf[d]].status # "closed"

-----------------------------------------------------------------------------
InsertRecord(row) ==
    /\ nextRecord <= MaxRecords
    /\ records' = [records EXCEPT ![nextRecord] = row]
    /\ nextRecord' = nextRecord + 1

InsertRequest(row) ==
    /\ nextRequest <= MaxRequests
    /\ requests' = [requests EXCEPT ![nextRequest] = row]
    /\ nextRequest' = nextRequest + 1

-----------------------------------------------------------------------------
(***************************************************************************)
(* syncDailySummary(userId, dateKey), run by a handler h in three steps:   *)
(* it reads the records of the day, then the approved absences, and then   *)
(* upserts the summary computed from both. A handler that syncs has the    *)
(* fields pc, user, key, seen and absences. The rows it reads in between   *)
(* (user, schedule, company profile, holiday) are constant in this model.  *)
(***************************************************************************)
SyncPCs == {"records", "absences", "upsert"}

\* A handler goes on to its next query.
Goto(h, pc) == [h EXCEPT !.pc = pc]

SeenRecords(h) ==
    [h EXCEPT !.pc = "absences", !.seen = DayFacts(h.user, h.key)]

SeenAbsences(h) ==
    [h EXCEPT !.pc = "upsert", !.absences = DayAbsences(h.user, h.key)]

UpsertSummary(h) ==
    summaries' = [summaries EXCEPT
                    ![h.user][h.key] = [recs |-> h.seen,
                                        absences |-> h.absences]]
=============================================================================
