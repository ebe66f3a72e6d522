-------------------------------- MODULE Ledger --------------------------------
(***************************************************************************)
(* What the attendance API promises, with every operation a single step: a *)
(* book of markings and requests that obeys the journey rule and the       *)
(* closing of months. A closed month is frozen and its snapshot exact.     *)
(***************************************************************************)
EXTENDS AttendanceRules

VARIABLES records, nextRecord, requests, nextRequest, closings

ledger == <<records, nextRecord, requests, nextRequest, closings>>

Init ==
    /\ records = [i \in RecordIds |-> Null]
    /\ nextRecord = 1
    /\ requests = [q \in RequestIds |-> Null]
    /\ nextRequest = 1
    /\ closings = [m \in Months |->
                     [status |-> "none", recs |-> {}, absences |-> {}]]

Open(d) == closings[MonthOf[d]].status # "closed"

Marked(u, d) ==
    {i \in RecordIds : /\ records[i] # Null
                       /\ records[i].user = u
                       /\ records[i].status # "rejected"
                       /\ LocalDay[records[i].time] = d}

Insert(row) ==
    /\ Open(LocalDay[row.time])
    /\ nextRecord \in RecordIds
    /\ records' = [records EXCEPT ![nextRecord] = row]
    /\ nextRecord' = nextRecord + 1
    /\ UNCHANGED <<requests, nextRequest, closings>>

\* A user marks the next type of the day, a minute or more after the last.
Mark(row) ==
    LET today == Marked(row.user, LocalDay[row.time]) IN
    /\ row.status \in {"valid", "pending_approval"}
    /\ \A i \in today : records[i].time < row.time
    /\ \E want \in Types \cup {"auto"} :
         Accepts(want, {records[i].type : i \in today}, row.type)
    /\ Insert(row)

\* An approved adjustment supplies a type the day does not have at all.
Supply(row) ==
    /\ row.status = "adjusted"
    /\ \A i \in RecordIds :
         ~ /\ records[i] # Null
           /\ records[i].user = row.user
           /\ records[i].type = row.type
           /\ LocalDay[records[i].time] = LocalDay[row.time]
    /\ Insert(row)

\* A review or an adjustment changes a marking, within its day.
Amend(i, row) ==
    /\ records[i] # Null
    /\ row.user = records[i].user
    /\ LocalDay[row.time] = LocalDay[records[i].time]
    /\ Open(LocalDay[row.time])
    /\ records' = [records EXCEPT ![i] = row]
    /\ UNCHANGED <<nextRecord, requests, nextRequest, closings>>

\* A remote marking whose photo could not be stored is withdrawn.
Withdraw(i) ==
    /\ records[i] # Null
    /\ Open(LocalDay[records[i].time])
    /\ records' = [records EXCEPT ![i] = Null]
    /\ UNCHANGED <<nextRecord, requests, nextRequest, closings>>

\* A request is filed, or an absence given on a day that has none.
Ask(row) ==
    /\ Open(row.day)
    /\ nextRequest \in RequestIds
    /\ \/ row.status = "pending"
       \/ /\ row.status = "approved"
          /\ row.kind = "absence"
          /\ \A q \in RequestIds :
               requests[q] # Null /\ requests[q].user = row.user
                 /\ requests[q].day = row.day /\ requests[q].kind = "absence"
                 => requests[q].status = "rejected"
    /\ requests' = [requests EXCEPT ![nextRequest] = row]
    /\ nextRequest' = nextRequest + 1
    /\ UNCHANGED <<records, nextRecord, closings>>

\* A request is decided (as often as its deciders like) or removed.
Decide(q, status, times) ==
    /\ requests[q] # Null
    /\ Open(requests[q].day)
    /\ requests' = [requests EXCEPT ![q].status = status, ![q].times = times]
    /\ UNCHANGED <<records, nextRecord, nextRequest, closings>>

Remove(q) ==
    /\ requests[q] # Null
    /\ Open(requests[q].day)
    /\ requests' = [requests EXCEPT ![q] = Null]
    /\ UNCHANGED <<records, nextRecord, nextRequest, closings>>

\* The snapshot of a month: its live markings and its approved absences.
Content(m) ==
    [status |-> "closed",
     recs |-> {[id |-> i, user |-> records[i].user, type |-> records[i].type,
                time |-> records[i].time] :
                 i \in {j \in RecordIds :
                          /\ records[j] # Null
                          /\ records[j].status # "rejected"
                          /\ MonthOf[LocalDay[records[j].time]] = m}},
     absences |-> {q \in RequestIds :
                     /\ requests[q] # Null
                     /\ requests[q].kind = "absence"
                     /\ requests[q].status = "approved"
                     /\ MonthOf[requests[q].day] = m}]

Close(m) ==
    /\ closings[m].status # "closed"
    /\ closings' = [closings EXCEPT ![m] = Content(m)]
    /\ UNCHANGED <<records, nextRecord, requests, nextRequest>>

Reopen(m) ==
    /\ closings[m].status = "closed"
    /\ closings' = [closings EXCEPT ![m].status = "open"]
    /\ UNCHANGED <<records, nextRecord, requests, nextRequest>>

Next ==
    \/ \E row \in Record : Mark(row) \/ Supply(row)
    \/ \E i \in RecordIds : Withdraw(i) \/ \E row \in Record : Amend(i, row)
    \/ \E row \in Request : Ask(row)
    \/ \E q \in RequestIds :
         \/ Remove(q)
         \/ \E status \in RequestStatuses, times \in Adjustment :
              Decide(q, status, times)
    \/ \E m \in Months : Close(m) \/ Reopen(m)

Spec == Init /\ [][Next]_ledger
=============================================================================
