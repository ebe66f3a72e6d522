---------------------------- MODULE MonthlyClosing ----------------------------
(***************************************************************************)
(* closeMonthlyClosing and reopenMonthlyClosing. Closing a month builds    *)
(* its snapshot first, then looks for the month's row, and writes last.    *)
(***************************************************************************)
EXTENDS AttendanceStore

CONSTANT ClosingSlots   \* bound: closings and reopenings in flight at once

VARIABLE closing

ClosingPCs == {"snapshot", "write", "reopen"}
Queries == {"records", "absences"}

\* recs, absences: the snapshot; todo: its queries not answered yet; found:
\* the month already had a row.
ClosingLocal ==
    [pc : ClosingPCs, month : Months, recs : SUBSET Fact,
     absences : SUBSET RequestIds, todo : SUBSET Queries, found : BOOLEAN]

ClosingTypeOK == closing \in [ClosingSlots -> ClosingLocal \cup {Null}]
ClosingInit == closing = [s \in ClosingSlots |-> Null]

ClosingAt(s, pc) == closing[s] # Null /\ closing[s].pc = pc
ClosingEnds(s) == closing' = [closing EXCEPT ![s] = Null]

WithRecords(c, recs) == [c EXCEPT !.recs = recs, !.todo = @ \ {"records"}]
WithAbsences(c, absences) ==
    [c EXCEPT !.absences = absences, !.todo = @ \ {"absences"}]

Finding(c, found) == [c EXCEPT !.pc = "write", !.found = found]

\* The status alone changes: the snapshot stays in the row.
Reopened(row) == [row EXCEPT !.status = "open"]

\* Only the current month and the past ones can be closed.
CloseStart(s, m) ==
    /\ closing[s] = Null
    /\ m <= MonthOf[LocalDay[now]]
    /\ closing' = [closing EXCEPT ![s] =
                     [pc |-> "snapshot", month |-> m, recs |-> {},
                      absences |-> {}, todo |-> Queries, found |-> FALSE]]
    /\ UNCHANGED storeVars

\* The two queries of the snapshot (Promise.all) are answered in any order.
CloseReadRecords(s) ==
    /\ ClosingAt(s, "snapshot")
    /\ "records" \in closing[s].todo
    /\ closing' = [closing EXCEPT ![s] =
                     WithRecords(closing[s], MonthFacts(closing[s].month))]
    /\ UNCHANGED storeVars

CloseReadAbsences(s) ==
    /\ ClosingAt(s, "snapshot")
    /\ "absences" \in closing[s].todo
    /\ closing' = [closing EXCEPT ![s] =
                     WithAbsences(closing[s], MonthAbsences(closing[s].month))]
    /\ UNCHANGED storeVars

CloseFind(s) ==
    /\ ClosingAt(s, "snapshot")
    /\ closing[s].todo = {}
    /\ LET status == closings[closing[s].month].status IN
       IF status = "closed"
         THEN ClosingEnds(s)
         ELSE closing' = [closing EXCEPT ![s] =
                                Finding(closing[s], status # "none")]
    /\ UNCHANGED storeVars

\* Mutant of CloseWrite: a month that is closed again keeps its snapshot.
CloseWriteStatusOnly(s) ==
    LET c == closing[s] IN
    /\ ClosingAt(s, "write")
    /\ closings' = [closings EXCEPT ![c.month] =
                      IF c.found
                        THEN [@ EXCEPT !.status = "closed"]
                        ELSE [status |-> "closed", recs |-> c.recs,
                              absences |-> c.absences]]
    /\ ClosingEnds(s)
    /\ UNCHANGED <<now, records, nextRecord, requests, nextRequest, summaries,
                   evidence, remote>>

\* update() of the row found, or create(), which the unique index on the
\* month rejects when another request has inserted the row meanwhile.
CloseWrite(s) ==
    LET c == closing[s] IN
    /\ ClosingAt(s, "write")
    /\ closings' = IF ~c.found /\ closings[c.month].status # "none"
                     THEN closings
                     ELSE [closings EXCEPT ![c.month] =
                             [status |-> "closed", recs |-> c.recs,
                              absences |-> c.absences]]
    /\ ClosingEnds(s)
    /\ UNCHANGED <<now, records, nextRecord, requests, nextRequest, summaries,
                   evidence, remote>>

\* A reopening finds the month closed...
ReopenFind(s, m) ==
    /\ closing[s] = Null
    /\ closings[m].status = "closed"
    /\ closing' = [closing EXCEPT ![s] =
                     [pc |-> "reopen", month |-> m, recs |-> {},
                      absences |-> {}, todo |-> {}, found |-> TRUE]]
    /\ UNCHANGED storeVars

\* ... and then sets it open.
ReopenWrite(s) ==
    /\ ClosingAt(s, "reopen")
    /\ closings' = [closings EXCEPT ![closing[s].month] =
                     Reopened(closings[closing[s].month])]
    /\ ClosingEnds(s)
    /\ UNCHANGED <<now, records, nextRecord, requests, nextRequest, summaries,
                   evidence, remote>>

ClosingFails(s) ==
    /\ closing[s] # Null
    /\ ClosingEnds(s)
    /\ UNCHANGED storeVars

ClosingStep(s) ==
    \/ CloseReadRecords(s) \/ CloseReadAbsences(s) \/ CloseFind(s)
    \/ CloseWrite(s) \/ ReopenWrite(s)
=============================================================================
