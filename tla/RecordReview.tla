----------------------------- MODULE RecordReview -----------------------------
(***************************************************************************)
(* updateRecordStatus: a manager or administrator validates, rejects or    *)
(* adjusts one marking. The scope check of managers is left out: a review  *)
(* modelled here is one the requester may do.                              *)
(***************************************************************************)
EXTENDS AttendanceStore

CONSTANT ReviewSlots    \* bound: reviews in flight at once

VARIABLE review

\* copy: the row as it was loaded; next: the instance after its assignments.
Reviewing ==
    [pc : {"period", "save"}, user : Users, rid : RecordIds, copy : Record,
     next : Record]

ReviewSync ==
    [pc : SyncPCs, user : Users, key : Days, seen : SUBSET Fact,
     absences : SUBSET RequestIds]

ReviewTypeOK ==
    review \in [ReviewSlots -> Reviewing \cup ReviewSync \cup {Null}]
ReviewInit == review = [s \in ReviewSlots |-> Null]

ReviewAt(s, pc) == review[s] # Null /\ review[s].pc = pc
ReviewEnds(s) == review' = [review EXCEPT ![s] = Null]

\* The instance a request for status (with a new type and time when it
\* adjusts) leaves to be saved. parseAdjustedTime keeps the local day.
Reviewed(copy, status, type, time) ==
    IF status = "adjusted"
      THEN [copy EXCEPT !.status = status, !.type = type, !.time = time]
      ELSE [copy EXCEPT !.status = status]

\* Mutant of ReviewLoad: the new time may be on any day.
ReviewLoadAnyDay(s, i, status, type, time) ==
    /\ review[s] = Null
    /\ records[i] # Null
    /\ review' = [review EXCEPT ![s] =
                    [pc |-> "period", user |-> records[i].user, rid |-> i,
                     copy |-> records[i],
                     next |-> Reviewed(records[i], status, type, time)]]
    /\ UNCHANGED storeVars

ReviewLoad(s, i, status, type, time) ==
    /\ review[s] = Null
    /\ records[i] # Null
    /\ LocalDay[time] = LocalDay[records[i].time]
    /\ review' = [review EXCEPT ![s] =
                    [pc |-> "period", user |-> records[i].user, rid |-> i,
                     copy |-> records[i],
                     next |-> Reviewed(records[i], status, type, time)]]
    /\ UNCHANGED storeVars

\* Mutant of ReviewCheck: a closed month does not stop the review.
ReviewCheckSkipped(s) ==
    /\ ReviewAt(s, "period")
    /\ review' = [review EXCEPT ![s] = Goto(review[s], "save")]
    /\ UNCHANGED storeVars

\* assertPeriodOpen(record.record_time), before the new time is assigned.
ReviewCheck(s) ==
    /\ ReviewAt(s, "period")
    /\ IF PeriodOpen(LocalDay[review[s].copy.time])
         THEN review' = [review EXCEPT ![s] = Goto(review[s], "save")]
         ELSE ReviewEnds(s)
    /\ UNCHANGED storeVars

\* The UPDATE of the row, if it is still there. The summary to refresh is that of the UTC date of the instance's time.
ReviewSave(s) ==
    LET r == review[s] IN
    /\ ReviewAt(s, "save")
    /\ records' = [records EXCEPT ![r.rid] =
                     SavedRecord(records[r.rid], r.copy, r.next)]
    /\ review' = [review EXCEPT ![s] =
                    [pc |-> "records", user |-> r.user,
                     key |-> DateKey[r.next.time],
                     seen |-> {}, absences |-> {}]]
    /\ UNCHANGED <<now, nextRecord, requests, nextRequest, summaries,
                   closings, evidence, remote>>

ReviewSyncRecords(s) ==
    /\ ReviewAt(s, "records")
    /\ review' = [review EXCEPT ![s] = SeenRecords(review[s])]
    /\ UNCHANGED storeVars

ReviewSyncAbsences(s) ==
    /\ ReviewAt(s, "absences")
    /\ review' = [review EXCEPT ![s] = SeenAbsences(review[s])]
    /\ UNCHANGED storeVars

ReviewUpsert(s) ==
    /\ ReviewAt(s, "upsert")
    /\ UpsertSummary(review[s])
    /\ ReviewEnds(s)
    /\ UNCHANGED <<now, records, nextRecord, requests, nextRequest, closings,
                   evidence, remote>>

ReviewFails(s) ==
    /\ review[s] # Null
    /\ ReviewEnds(s)
    /\ UNCHANGED storeVars

ReviewStep(s) ==
    \/ ReviewCheck(s) \/ ReviewSave(s)
    \/ ReviewSyncRecords(s) \/ ReviewSyncAbsences(s) \/ ReviewUpsert(s)
=============================================================================
