----------------------------- MODULE RequestDesk -----------------------------
(***************************************************************************)
(* The handlers of employee requests: createEmployeeRequest ("file"),      *)
(* reviewEmployeeRequest ("decide"), deleteEmployeeRequest ("remove") and  *)
(* assignAbsence ("assign"). Who may decide is left to the leadership      *)
(* model: a request handled here is in the scope of its requester.         *)
(***************************************************************************)
EXTENDS AttendanceStore

CONSTANTS
    DeskSlots,      \* bound: such requests in flight at once
    Adjustments     \* the times an adjustment may ask for

ASSUME AdjustmentsAssumption == Adjustments \subseteq Adjustment

VARIABLE desk

NoTimes == [t \in Types |-> Null]
Asked(times) == {t \in Types : times[t] # Null}

\* A handler is at one query of one operation, and keeps what it still
\* needs. next: the request as it will be written; copy: as it was loaded.
Filing == [pc : {"file"}, user : Users, next : Request]

\* loaded, todo: the day's markings as loaded, the types yet to be adjusted.
Deciding ==
    {h \in [pc : {"decide", "load", "apply", "save"}, user : Users,
            qid : RequestIds, copy : Request, next : Request,
            loaded : [RecordIds -> Record \cup {Null}], todo : SUBSET Types] :
       h.todo \subseteq Asked(h.next.times)}

Removing ==
    [pc : {"remove", "destroy"}, user : Users, qid : RequestIds, key : Days]

\* days: the days still to be covered; the loop is at the first.
Assigning ==
    [pc : {"assign", "find", "give"}, user : Users,
     days : (SUBSET Days) \ {{}}]

\* days: the days an assignment has left after this one.
DeskSync ==
    [pc : SyncPCs, user : Users, key : Days, seen : SUBSET Fact,
     absences : SUBSET RequestIds, days : SUBSET Days]

DeskLocal == Filing \cup Deciding \cup Removing \cup Assigning \cup DeskSync

DeskTypeOK == desk \in [DeskSlots -> DeskLocal \cup {Null}]
DeskInit == desk = [s \in DeskSlots |-> Null]

DeskAt(s, pc) == desk[s] # Null /\ desk[s].pc = pc
DeskGoes(s, pc) == desk' = [desk EXCEPT ![s] = Goto(desk[s], pc)]
DeskEnds(s) == desk' = [desk EXCEPT ![s] = Null]
DeskSyncs(s, u, d, days) ==
    desk' = [desk EXCEPT ![s] =
               [pc |-> "records", user |-> u, key |-> d,
                seen |-> {}, absences |-> {}, days |-> days]]

NothingLoaded == [i \in RecordIds |-> Null]

\* The times of an adjustment are on its day; an absence has none.
WellFormed(kind, d, times) ==
    IF kind = "absence"
      THEN times = NoTimes
      ELSE \A t \in Asked(times) : LocalDay[times[t]] = d

\* getFutureAdjustmentLabel finds none.
NoneInFuture(times) == \A t \in Asked(times) : times[t] <= now

-----------------------------------------------------------------------------
\* createEmployeeRequest: validation and assertPeriodOpen, then the insert.
FileStart(s, u, d, kind, times) ==
    LET row == [user |-> u, day |-> d, kind |-> kind, times |-> times,
                status |-> "pending"] IN
    /\ desk[s] = Null
    /\ WellFormed(kind, d, times)
    /\ kind = "adjustment" => Asked(times) # {} /\ NoneInFuture(times)
    /\ PeriodOpen(d)
    /\ desk' = [desk EXCEPT ![s] =
                  [pc |-> "file", user |-> u, next |-> row]]
    /\ UNCHANGED storeVars

FileCreate(s) ==
    /\ DeskAt(s, "file")
    /\ InsertRequest(desk[s].next)
    /\ DeskEnds(s)
    /\ UNCHANGED <<now, records, nextRecord, summaries, closings, evidence,
                   remote>>

-----------------------------------------------------------------------------
(***************************************************************************)
(* reviewEmployeeRequest. The request may be in any status: nothing asks   *)
(* for a pending one. The reviewer may override the times of an            *)
(* adjustment.                                                             *)
(***************************************************************************)
Decided(row, status, times) ==
    [row EXCEPT !.status = status, !.times = times]

DecideLoad(s, q, status, times) ==
    LET row == requests[q] IN
    /\ desk[s] = Null
    /\ row # Null
    /\ WellFormed(row.kind, row.day, times)
    /\ desk' = [desk EXCEPT ![s] =
                  [pc |-> "decide", user |-> row.user, qid |-> q,
                   copy |-> row,
                   next |-> Decided(row, status, times),
                   loaded |-> NothingLoaded, todo |-> {}]]
    /\ UNCHANGED storeVars

Adjusts(next) == next.kind = "adjustment" /\ next.status = "approved"

DecideCheck(s) ==
    LET next == desk[s].next IN
    /\ DeskAt(s, "decide")
    /\ IF /\ PeriodOpen(next.day)
          /\ Adjusts(next) => NoneInFuture(next.times)
         THEN DeskGoes(s, IF Adjusts(next) /\ Asked(next.times) # {}
                            THEN "load" ELSE "save")
         ELSE DeskEnds(s)
    /\ UNCHANGED storeVars

DayRead(h, rows) ==
    [h EXCEPT !.pc = "apply", !.todo = Asked(h.next.times), !.loaded = rows]

\* applyApprovedTimeAdjustment loads every marking of the day, whatever its
\* status...
DecideReadDay(s) ==
    LET today == RowsOf(desk[s].user, desk[s].next.day) IN
    /\ DeskAt(s, "load")
    /\ desk' = [desk EXCEPT ![s] =
                  DayRead(desk[s], [i \in RecordIds |->
                                      IF i \in today THEN records[i] ELSE Null])]
    /\ UNCHANGED storeVars

\* ... and, for each type asked for, in the order of the day, ...
NextToApply(h, t) == t \in h.todo /\ Earlier[t] \cap h.todo = {}

Applied(h, t) ==
    [h EXCEPT !.todo = @ \ {t}, !.pc = IF h.todo = {t} THEN "save" ELSE "apply"]

ApplyEnds(s, t) == desk' = [desk EXCEPT ![s] = Applied(desk[s], t)]

Adjusted(row, time) == [row EXCEPT !.time = time, !.status = "adjusted"]

OfType(h, t) ==
    {i \in RecordIds : h.loaded[i] # Null /\ h.loaded[i].type = t}

\* ... adjusts the first marking of that type, ...
DecideAdjust(s) ==
    LET h == desk[s] IN
    /\ DeskAt(s, "apply")
    /\ \E t \in Types, i \in RecordIds :
         /\ NextToApply(h, t)
         /\ i \in OfType(h, t)
         /\ \A j \in OfType(h, t) : h.loaded[i].time <= h.loaded[j].time
         /\ records' = [records EXCEPT ![i] =
                          SavedRecord(records[i], h.loaded[i],
                                      Adjusted(h.loaded[i], h.next.times[t]))]
         /\ ApplyEnds(s, t)
    /\ UNCHANGED <<now, nextRecord, requests, nextRequest, summaries,
                   closings, evidence, remote>>

\* Mutant of DecideInsert: it inserts although the day has the type.
DecideInsertAlways(s) ==
    LET h == desk[s] IN
    /\ DeskAt(s, "apply")
    /\ \E t \in Types :
         /\ NextToApply(h, t)
         /\ InsertRecord([user |-> h.user, time |-> h.next.times[t],
                          type |-> t, status |-> "adjusted"])
         /\ ApplyEnds(s, t)
    /\ UNCHANGED <<now, requests, nextRequest, summaries, closings, evidence,
                   remote>>

\* ... or inserts one when the day had none.
DecideInsert(s) ==
    LET h == desk[s] IN
    /\ DeskAt(s, "apply")
    /\ \E t \in Types :
         /\ NextToApply(h, t)
         /\ OfType(h, t) = {}
         /\ InsertRecord([user |-> h.user, time |-> h.next.times[t],
                          type |-> t, status |-> "adjusted"])
         /\ ApplyEnds(s, t)
    /\ UNCHANGED <<now, requests, nextRequest, summaries, closings, evidence,
                   remote>>

DecideSave(s) ==
    LET h == desk[s] IN
    /\ DeskAt(s, "save")
    /\ requests' = [requests EXCEPT ![h.qid] =
                      SavedRequest(requests[h.qid], h.copy, h.next)]
    /\ DeskSyncs(s, h.user, h.next.day, {})
    /\ UNCHANGED <<now, records, nextRecord, nextRequest, summaries, closings,
                   evidence, remote>>

-----------------------------------------------------------------------------
\* deleteEmployeeRequest. The markings an approved adjustment wrote remain.
RemoveLoad(s, q) ==
    /\ desk[s] = Null
    /\ requests[q] # Null
    /\ desk' = [desk EXCEPT ![s] =
                  [pc |-> "remove", user |-> requests[q].user, qid |-> q,
                   key |-> requests[q].day]]
    /\ UNCHANGED storeVars

RemoveCheck(s) ==
    /\ DeskAt(s, "remove")
    /\ IF PeriodOpen(desk[s].key) THEN DeskGoes(s, "destroy") ELSE DeskEnds(s)
    /\ UNCHANGED storeVars

\* Mutant of RemoveDestroy: the summary is not refreshed.
RemoveDestroyOnly(s) ==
    /\ DeskAt(s, "destroy")
    /\ requests' = [requests EXCEPT ![desk[s].qid] = Null]
    /\ DeskEnds(s)
    /\ UNCHANGED <<now, records, nextRecord, nextRequest, summaries, closings,
                   evidence, remote>>

RemoveDestroy(s) ==
    /\ DeskAt(s, "destroy")
    /\ requests' = [requests EXCEPT ![desk[s].qid] = Null]
    /\ DeskSyncs(s, desk[s].user, desk[s].key, {})
    /\ UNCHANGED <<now, records, nextRecord, nextRequest, summaries, closings,
                   evidence, remote>>

-----------------------------------------------------------------------------
(***************************************************************************)
(* assignAbsence gives approved absences for a range of days, one day at a *)
(* time and in order; a day that has an absence is skipped.                *)
(***************************************************************************)
First(days) == {d \in days : \A e \in days : d <= e}

\* The loop goes on with the days that are left, or the handler answers.
GoOn(u, days) ==
    IF days = {} THEN Null ELSE [pc |-> "assign", user |-> u, days |-> days]

AssignStart(s, u, days) ==
    /\ desk[s] = Null
    /\ days # {}
    /\ desk' = [desk EXCEPT ![s] = GoOn(u, days)]
    /\ UNCHANGED storeVars

\* A closed month stops the loop; the days already covered stay covered.
AssignCheck(s) ==
    /\ DeskAt(s, "assign")
    /\ \E d \in First(desk[s].days) :
         IF PeriodOpen(d) THEN DeskGoes(s, "find") ELSE DeskEnds(s)
    /\ UNCHANGED storeVars

HasAbsence(u, d) ==
    \E q \in RequestIds : /\ requests[q] # Null
                          /\ requests[q].user = u
                          /\ requests[q].day = d
                          /\ requests[q].kind = "absence"
                          /\ requests[q].status \in {"approved", "pending"}

AssignFind(s) ==
    LET h == desk[s] IN
    /\ DeskAt(s, "find")
    /\ \E d \in First(h.days) :
         IF HasAbsence(h.user, d)
           THEN desk' = [desk EXCEPT ![s] = GoOn(h.user, h.days \ {d})]
           ELSE DeskGoes(s, "give")
    /\ UNCHANGED storeVars

AssignCreate(s) ==
    LET h == desk[s] IN
    /\ DeskAt(s, "give")
    /\ \E d \in First(h.days) :
         /\ InsertRequest([user |-> h.user, day |-> d, kind |-> "absence",
                           times |-> NoTimes, status |-> "approved"])
         /\ DeskSyncs(s, h.user, d, h.days \ {d})
    /\ UNCHANGED <<now, records, nextRecord, summaries, closings, evidence,
                   remote>>

-----------------------------------------------------------------------------
DeskSyncRecords(s) ==
    /\ DeskAt(s, "records")
    /\ desk' = [desk EXCEPT ![s] = SeenRecords(desk[s])]
    /\ UNCHANGED storeVars

DeskSyncAbsences(s) ==
    /\ DeskAt(s, "absences")
    /\ desk' = [desk EXCEPT ![s] = SeenAbsences(desk[s])]
    /\ UNCHANGED storeVars

DeskUpsert(s) ==
    /\ DeskAt(s, "upsert")
    /\ UpsertSummary(desk[s])
    /\ desk' = [desk EXCEPT ![s] = GoOn(desk[s].user, desk[s].days)]
    /\ UNCHANGED <<now, records, nextRecord, requests, nextRequest, closings,
                   evidence, remote>>

DeskFails(s) ==
    /\ desk[s] # Null
    /\ DeskEnds(s)
    /\ UNCHANGED storeVars

DeskStep(s) ==
    \/ FileCreate(s)
    \/ DecideCheck(s) \/ DecideReadDay(s) \/ DecideAdjust(s)
    \/ DecideInsert(s) \/ DecideSave(s)
    \/ RemoveCheck(s) \/ RemoveDestroy(s)
    \/ AssignCheck(s) \/ AssignFind(s) \/ AssignCreate(s)
    \/ DeskSyncRecords(s) \/ DeskSyncAbsences(s) \/ DeskUpsert(s)
=============================================================================
