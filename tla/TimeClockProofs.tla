--------------------------- MODULE TimeClockProofs ---------------------------
(***************************************************************************)
(* Type correctness of TimeClock, that a record never leaves its day and,  *)
(* whatever overlaps, that a remote marking has its photo. And what        *)
(* TimeClock promises when the handlers of a user do not overlap: it       *)
(* implements Ledger, the snapshot of a closed month is exact, summaries   *)
(* are fresh and journeys legal.                                           *)
(***************************************************************************)
EXTENDS TimeClock, TLAPS

\* The facts and absences a query returns are sets of the declared types.
LEMMA FactsType ==
    ASSUME StoreTypeOK
    PROVE  /\ \A u, d : DayFacts(u, d) \in SUBSET Fact
           /\ \A u, d : DayAbsences(u, d) \in SUBSET RequestIds
           /\ \A m : MonthFacts(m) \in SUBSET Fact
           /\ \A m : MonthAbsences(m) \in SUBSET RequestIds
<1>1. \A i \in RecordIds : records[i] # Null => FactOf(i) \in Fact
  BY DEF StoreTypeOK, FactOf, Fact, Record
<1>2. \A u, d : DayFacts(u, d) \in SUBSET Fact
  BY <1>1 DEF DayFacts, Live, RowsOf
<1>3. \A m : MonthFacts(m) \in SUBSET Fact
  BY <1>1 DEF MonthFacts, Live, MonthRows
<1>4. QED
  BY <1>2, <1>3 DEF DayAbsences, MonthAbsences

\* Inserting and saving rows keeps the tables well typed.
LEMMA InsertRecordType ==
    ASSUME StoreTypeOK, NEW row \in Record, InsertRecord(row)
    PROVE  /\ records' \in [RecordIds -> Record \cup {Null}]
           /\ nextRecord' \in 1..(MaxRecords + 1)
           /\ nextRecord \in RecordIds
BY StoreAssumption DEF InsertRecord, StoreTypeOK, RecordIds

LEMMA InsertRequestType ==
    ASSUME StoreTypeOK, NEW row \in Request, InsertRequest(row)
    PROVE  /\ requests' \in [RequestIds -> Request \cup {Null}]
           /\ nextRequest' \in 1..(MaxRequests + 1)
BY StoreAssumption DEF InsertRequest, StoreTypeOK, RequestIds

LEMMA SavedRecordType ==
    ASSUME NEW row \in Record, NEW loaded \in Record, NEW next \in Record
    PROVE  /\ SavedRecord(row, loaded, next) \in Record
           /\ SavedRecord(row, loaded, next).user = row.user
           /\ SavedRecord(row, loaded, next).time \in {row.time, next.time}
           /\ SavedRecord(Null, loaded, next) = Null
BY NullAssumption DEF SavedRecord, Column, Record

LEMMA SavedRequestType ==
    ASSUME NEW row \in Request, NEW loaded \in Request, NEW next \in Request
    PROVE  /\ SavedRequest(row, loaded, next) \in Request
           /\ SavedRequest(Null, loaded, next) = Null
<1>1. \A t \in Types :
        Column(row.times[t], loaded.times[t], next.times[t])
          \in Times \cup {Null}
  BY DEF Column, Request, Adjustment
<1>2. [t \in Types |-> Column(row.times[t], loaded.times[t], next.times[t])]
        \in Adjustment
  BY <1>1 DEF Adjustment
<1>3. Column(row.status, loaded.status, next.status) \in RequestStatuses
  BY DEF Column, Request
<1>4. QED
  BY <1>2, <1>3, NullAssumption DEF SavedRequest, Request

-----------------------------------------------------------------------------
LEMMA StoreUnchangedType ==
    ASSUME StoreTypeOK, UNCHANGED storeVars
    PROVE  StoreTypeOK'
BY DEF storeVars, tables, StoreTypeOK

\* A sync that has read its tables writes a well-typed summary.
LEMMA UpsertType ==
    ASSUME StoreTypeOK, NEW h, h.user \in Users, h.key \in Days,
           h.seen \in SUBSET Fact, h.absences \in SUBSET RequestIds,
           UpsertSummary(h)
    PROVE  summaries' \in [Users -> [Days -> Summary \cup {Null}]]
BY DEF UpsertSummary, StoreTypeOK, Summary

\* What a punch handler becomes at each of its steps is a punch handler.
LEMMA MarkingType ==
    /\ \A p \in Reading : Goto(p, "read") \in Reading
    /\ \A p \in Reading, type \in Types : Resolved(p, type) \in Creating
    /\ \A p \in Creating, id \in RecordIds : Inserted(p, id) \in Storing
    /\ \A p \in Storing : Goto(p, "destroy") \in Storing
    /\ \A p \in Creating \cup Storing, flag \in 0..MaxRecords :
         Syncing(p, flag) \in PunchSync
<1> USE DEF MarkingAt, Reading, Creating, Storing
<1>1. \A p \in Reading, type \in Types : Resolved(p, type) \in Creating
  BY DEF Resolved
<1>2. \A p \in Creating, id \in RecordIds : Inserted(p, id) \in Storing
  BY DEF Inserted
<1>3. \A p \in Storing : Goto(p, "destroy") \in Storing
  BY DEF Goto
<1>4. \A p \in Creating \cup Storing, flag \in 0..MaxRecords :
        Syncing(p, flag) \in PunchSync
  BY StoreAssumption DEF Syncing, PunchSync, SyncPCs
<1>5. \A p \in Reading : Goto(p, "read") \in Reading
  BY DEF Goto
<1>6. QED
  BY <1>1, <1>2, <1>3, <1>4, <1>5

LEMMA PunchSyncType ==
    ASSUME NEW p \in PunchSync, StoreTypeOK
    PROVE  /\ SeenRecords(p) \in PunchSync
           /\ SeenAbsences(p) \in PunchSync
           /\ Goto(p, "flag") \in PunchSync
<1>1. DayFacts(p.user, p.key) \in SUBSET Fact
  BY FactsType
<1>2. DayAbsences(p.user, p.key) \in SUBSET RequestIds
  BY FactsType
<1>3. QED
  BY <1>1, <1>2 DEF SeenRecords, SeenAbsences, Goto, PunchSync, SyncPCs

\* The pc of a punch handler tells which kind it is.
LEMMA PunchKind ==
    ASSUME PunchTypeOK, NEW s \in PunchSlots
    PROVE  /\ \A pc \in {"period", "read"} :
                PunchAt(s, pc) => punch[s] \in Reading
           /\ PunchAt(s, "create") => punch[s] \in Creating
           /\ \A pc \in {"evidence", "destroy"} :
                PunchAt(s, pc) => punch[s] \in Storing
           /\ \A pc \in SyncPCs \cup {"flag"} :
                PunchAt(s, pc) => punch[s] \in PunchSync
BY DEF PunchTypeOK, PunchAt, PunchLocal, MarkingAt, Reading, Creating,
       Storing, PunchSync, SyncPCs

LEMMA PunchNextType ==
    ASSUME StoreTypeOK, PunchTypeOK, PunchNext
    PROVE  StoreTypeOK' /\ PunchTypeOK'
<1> USE DEF PunchTypeOK, PunchLocal
<1>1. ASSUME NEW s \in PunchSlots, NEW u \in Users, NEW want \in Wants,
             NEW channel \in Channels, NEW rv \in BOOLEAN,
             PunchStart(s, u, want, channel, rv)
      PROVE  StoreTypeOK' /\ PunchTypeOK'
  <2>1. [pc |-> "period", user |-> u, at |-> now, type |-> want,
         channel |-> channel, review |-> rv, rid |-> 0] \in Reading
    BY ModeAssumption DEF Reading, MarkingAt, StoreTypeOK
  <2>2. PunchTypeOK'
    BY <1>1, <2>1 DEF PunchStart
  <2>3. QED
    BY <1>1, <2>2, StoreUnchangedType DEF PunchStart
<1>2. ASSUME NEW s \in PunchSlots, PunchResolve(s)
      PROVE  StoreTypeOK' /\ PunchTypeOK'
  <2>1. punch[s] \in Reading
    BY <1>2, PunchKind DEF PunchResolve
  <2>2. PunchTypeOK'
    BY <1>2, <2>1, MarkingType DEF PunchResolve
  <2>3. QED
    BY <1>2, <2>2, StoreUnchangedType DEF PunchResolve
<1>3. ASSUME NEW s \in PunchSlots,
             PunchRefuse(s) \/ PunchDestroyFails(s) \/ PunchFails(s)
      PROVE  StoreTypeOK' /\ PunchTypeOK'
  BY <1>3, StoreUnchangedType DEF PunchRefuse, PunchFails,
         PunchDestroyFails, PunchEnds
<1>4. ASSUME NEW s \in PunchSlots, PunchCreate(s)
      PROVE  StoreTypeOK' /\ PunchTypeOK'
  <2> DEFINE p == punch[s]
             row == [user |-> p.user, time |-> p.at, type |-> p.type,
                     status |-> IF p.channel = "remote" /\ p.review
                                  THEN "pending_approval" ELSE "valid"]
  <2>1. p \in Creating
    BY <1>4, PunchKind DEF PunchCreate
  <2>2. row \in Record
    BY <2>1 DEF Creating, MarkingAt, Record, RecordStatuses
  <2>3. InsertRecord(row)
    BY <1>4 DEF PunchCreate
  <2>4. /\ records' \in [RecordIds -> Record \cup {Null}]
        /\ nextRecord' \in 1..(MaxRecords + 1)
        /\ nextRecord \in RecordIds
    BY <2>2, <2>3, InsertRecordType
  <2>5. StoreTypeOK'
    BY <1>4, <2>4 DEF PunchCreate, StoreTypeOK
  <2>6. nextRecord \in 0..MaxRecords /\ 0 \in 0..MaxRecords
    BY <2>4, StoreAssumption DEF RecordIds
  <2>7. PunchTypeOK'
    <3>1. Inserted(p, nextRecord) \in Storing
      BY <2>1, <2>4, MarkingType
    <3>2. /\ Syncing(p, nextRecord) \in PunchSync
          /\ Syncing(p, 0) \in PunchSync
      BY <2>1, <2>6, MarkingType
    <3>3. QED
      BY <1>4, <3>1, <3>2 DEF PunchCreate
  <2>8. QED
    BY <2>5, <2>7
<1>5. ASSUME NEW s \in PunchSlots, PunchEvidence(s)
      PROVE  StoreTypeOK' /\ PunchTypeOK'
  <2>1. punch[s] \in Storing
    BY <1>5, PunchKind DEF PunchEvidence
  <2>2. PunchTypeOK'
    BY <1>5, <2>1, MarkingType, StoreAssumption DEF PunchEvidence
  <2>3. StoreTypeOK'
    BY <1>5, <2>1 DEF PunchEvidence, StoreTypeOK, Storing, MarkingAt
  <2>4. QED
    BY <2>2, <2>3
<1>6. ASSUME NEW s \in PunchSlots, PunchEvidenceFails(s)
      PROVE  StoreTypeOK' /\ PunchTypeOK'
  <2>1. punch[s] \in Storing
    BY <1>6, PunchKind DEF PunchEvidenceFails
  <2>2. PunchTypeOK'
    BY <1>6, <2>1, MarkingType DEF PunchEvidenceFails
  <2>3. QED
    BY <1>6, <2>2, StoreUnchangedType DEF PunchEvidenceFails
<1>7. ASSUME NEW s \in PunchSlots, PunchDestroy(s)
      PROVE  StoreTypeOK' /\ PunchTypeOK'
  BY <1>7 DEF PunchDestroy, PunchEnds, StoreTypeOK
<1>8. ASSUME NEW s \in PunchSlots, PunchSyncRecords(s) \/ PunchSyncAbsences(s)
      PROVE  StoreTypeOK' /\ PunchTypeOK'
  <2>1. punch[s] \in PunchSync
    BY <1>8, PunchKind DEF PunchSyncRecords, PunchSyncAbsences, SyncPCs
  <2>2. PunchTypeOK'
    BY <1>8, <2>1, PunchSyncType DEF PunchSyncRecords, PunchSyncAbsences
  <2>3. QED
    BY <1>8, <2>2, StoreUnchangedType DEF PunchSyncRecords, PunchSyncAbsences
<1>9. ASSUME NEW s \in PunchSlots, PunchUpsert(s)
      PROVE  StoreTypeOK' /\ PunchTypeOK'
  <2>1. punch[s] \in PunchSync
    BY <1>9, PunchKind DEF PunchUpsert, SyncPCs
  <2>2. PunchTypeOK'
    BY <1>9, <2>1, PunchSyncType DEF PunchUpsert, PunchEnds
  <2>3. summaries' \in [Users -> [Days -> Summary \cup {Null}]]
    BY <1>9, <2>1, UpsertType DEF PunchUpsert, PunchSync
  <2>4. QED
    BY <1>9, <2>2, <2>3 DEF PunchUpsert, StoreTypeOK
<1>10. ASSUME NEW s \in PunchSlots, PunchFlag(s)
       PROVE  StoreTypeOK' /\ PunchTypeOK'
  <2>1. \A i \in RecordIds : ToApproval(records[i]) \in Record \cup {Null}
    <3>1. \A row \in Record : ToApproval(row) \in Record \cup {Null}
      BY NullAssumption DEF ToApproval, Record, RecordStatuses
    <3>2. ToApproval(Null) = Null
      BY DEF ToApproval
    <3>3. QED
      BY <3>1, <3>2 DEF StoreTypeOK
  <2>2. QED
    BY <1>10, <2>1 DEF PunchFlag, PunchEnds, StoreTypeOK
<1>11. ASSUME NEW s \in PunchSlots, PunchCheck(s)
       PROVE  StoreTypeOK' /\ PunchTypeOK'
  <2>1. punch[s] \in Reading
    BY <1>11, PunchKind DEF PunchCheck
  <2>2. PunchTypeOK'
    BY <1>11, <2>1, MarkingType DEF PunchCheck, PunchEnds
  <2>3. QED
    BY <1>11, <2>2, StoreUnchangedType DEF PunchCheck
<1>12. QED
  BY <1>1, <1>2, <1>3, <1>4, <1>5, <1>6, <1>7, <1>8, <1>9, <1>10, <1>11
     DEF PunchNext, PunchStep

-----------------------------------------------------------------------------
LEMMA ReviewedType ==
    ASSUME NEW copy \in Record, NEW status \in RecordStatuses,
           NEW type \in Types, NEW time \in Times
    PROVE  /\ Reviewed(copy, status, type, time) \in Record
           /\ Reviewed(copy, status, type, time).time \in {copy.time, time}
BY DEF Reviewed, Record

LEMMA ReviewSyncType ==
    ASSUME NEW r \in ReviewSync, StoreTypeOK
    PROVE  SeenRecords(r) \in ReviewSync /\ SeenAbsences(r) \in ReviewSync
<1>1. DayFacts(r.user, r.key) \in SUBSET Fact
  BY FactsType
<1>2. DayAbsences(r.user, r.key) \in SUBSET RequestIds
  BY FactsType
<1>3. QED
  BY <1>1, <1>2 DEF SeenRecords, SeenAbsences, ReviewSync, SyncPCs

LEMMA ReviewKind ==
    ASSUME ReviewTypeOK, NEW s \in ReviewSlots
    PROVE  /\ \A pc \in {"period", "save"} :
                ReviewAt(s, pc) => review[s] \in Reviewing
           /\ \A pc \in SyncPCs : ReviewAt(s, pc) => review[s] \in ReviewSync
BY DEF ReviewTypeOK, ReviewAt, Reviewing, ReviewSync, SyncPCs

LEMMA ReviewNextType ==
    ASSUME StoreTypeOK, ReviewTypeOK, ReviewNext
    PROVE  StoreTypeOK' /\ ReviewTypeOK'
<1> USE DEF ReviewTypeOK
<1>1. ASSUME NEW s \in ReviewSlots, NEW i \in RecordIds,
             NEW status \in RecordStatuses, NEW type \in NewTypes,
             NEW time \in Times, ReviewLoad(s, i, status, type, time)
      PROVE  StoreTypeOK' /\ ReviewTypeOK'
  <2>1. records[i] \in Record
    BY <1>1 DEF ReviewLoad, StoreTypeOK
  <2>2. Reviewed(records[i], status, type, time) \in Record
    BY <2>1, ReviewedType, ModeAssumption
  <2>3. [pc |-> "period", user |-> records[i].user, rid |-> i,
         copy |-> records[i],
         next |-> Reviewed(records[i], status, type, time)] \in Reviewing
    BY <2>1, <2>2 DEF Reviewing, Record
  <2>4. ReviewTypeOK'
    BY <1>1, <2>3 DEF ReviewLoad
  <2>5. QED
    BY <1>1, <2>4, StoreUnchangedType DEF ReviewLoad
<1>2. ASSUME NEW s \in ReviewSlots, ReviewCheck(s)
      PROVE  StoreTypeOK' /\ ReviewTypeOK'
  <2>1. review[s] \in Reviewing
    BY <1>2, ReviewKind DEF ReviewCheck
  <2>2. Goto(review[s], "save") \in Reviewing
    BY <2>1 DEF Goto, Reviewing
  <2>3. ReviewTypeOK'
    BY <1>2, <2>2 DEF ReviewCheck, ReviewEnds
  <2>4. QED
    BY <1>2, <2>3, StoreUnchangedType DEF ReviewCheck
<1>3. ASSUME NEW s \in ReviewSlots, ReviewSave(s)
      PROVE  StoreTypeOK' /\ ReviewTypeOK'
  <2> DEFINE r == review[s]
  <2>1. r \in Reviewing
    BY <1>3, ReviewKind DEF ReviewSave
  <2>2. SavedRecord(records[r.rid], r.copy, r.next) \in Record \cup {Null}
    BY <2>1, SavedRecordType DEF Reviewing, StoreTypeOK
  <2>3. StoreTypeOK'
    BY <1>3, <2>2 DEF ReviewSave, StoreTypeOK
  <2>4. [pc |-> "records", user |-> r.user, key |-> DateKey[r.next.time],
         seen |-> {}, absences |-> {}] \in ReviewSync
    BY <2>1, StoreAssumption DEF Reviewing, ReviewSync, SyncPCs, Record
  <2>5. ReviewTypeOK'
    BY <1>3, <2>4 DEF ReviewSave
  <2>6. QED
    BY <2>3, <2>5
<1>4. ASSUME NEW s \in ReviewSlots,
             ReviewSyncRecords(s) \/ ReviewSyncAbsences(s)
      PROVE  StoreTypeOK' /\ ReviewTypeOK'
  <2>1. review[s] \in ReviewSync
    BY <1>4, ReviewKind DEF ReviewSyncRecords, ReviewSyncAbsences, SyncPCs
  <2>2. ReviewTypeOK'
    BY <1>4, <2>1, ReviewSyncType DEF ReviewSyncRecords, ReviewSyncAbsences
  <2>3. QED
    BY <1>4, <2>2, StoreUnchangedType
       DEF ReviewSyncRecords, ReviewSyncAbsences
<1>5. ASSUME NEW s \in ReviewSlots, ReviewUpsert(s)
      PROVE  StoreTypeOK' /\ ReviewTypeOK'
  <2>1. review[s] \in ReviewSync
    BY <1>5, ReviewKind DEF ReviewUpsert, SyncPCs
  <2>2. summaries' \in [Users -> [Days -> Summary \cup {Null}]]
    BY <1>5, <2>1, UpsertType DEF ReviewUpsert, ReviewSync
  <2>3. QED
    BY <1>5, <2>2 DEF ReviewUpsert, ReviewEnds, StoreTypeOK
<1>6. ASSUME NEW s \in ReviewSlots, ReviewFails(s)
      PROVE  StoreTypeOK' /\ ReviewTypeOK'
  BY <1>6, StoreUnchangedType DEF ReviewFails, ReviewEnds
<1>7. QED
  BY <1>1, <1>2, <1>3, <1>4, <1>5, <1>6 DEF ReviewNext, ReviewStep

-----------------------------------------------------------------------------
LEMMA ClosingLocalType ==
    ASSUME NEW c \in ClosingLocal
    PROVE  /\ \A recs \in SUBSET Fact : WithRecords(c, recs) \in ClosingLocal
           /\ \A absences \in SUBSET RequestIds :
                WithAbsences(c, absences) \in ClosingLocal
           /\ \A found \in BOOLEAN : Finding(c, found) \in ClosingLocal
BY DEF ClosingLocal, ClosingPCs, Queries, WithRecords, WithAbsences, Finding

LEMMA ClosingNextType ==
    ASSUME StoreTypeOK, ClosingTypeOK, ClosingNext
    PROVE  StoreTypeOK' /\ ClosingTypeOK'
<1> USE DEF ClosingTypeOK
<1>1. ASSUME NEW s \in ClosingSlots, NEW m \in Months, CloseStart(s, m)
      PROVE  StoreTypeOK' /\ ClosingTypeOK'
  <2>1. [pc |-> "snapshot", month |-> m, recs |-> {}, absences |-> {},
         todo |-> Queries, found |-> FALSE] \in ClosingLocal
    BY DEF ClosingLocal, ClosingPCs
  <2>2. QED
    BY <1>1, <2>1, StoreUnchangedType DEF CloseStart
<1>2. ASSUME NEW s \in ClosingSlots, CloseReadAbsences(s)
      PROVE  StoreTypeOK' /\ ClosingTypeOK'
  <2>1. closing[s] \in ClosingLocal
    BY <1>2 DEF CloseReadAbsences, ClosingAt
  <2>2. MonthAbsences(closing[s].month) \in SUBSET RequestIds
    BY FactsType
  <2>3. QED
    BY <1>2, <2>1, <2>2, ClosingLocalType, StoreUnchangedType
       DEF CloseReadAbsences
<1>3. ASSUME NEW s \in ClosingSlots, CloseFind(s)
      PROVE  StoreTypeOK' /\ ClosingTypeOK'
  <2>1. closing[s] \in ClosingLocal
    BY <1>3 DEF CloseFind, ClosingAt
  <2>2. \A found \in BOOLEAN : Finding(closing[s], found) \in ClosingLocal
    BY <2>1, ClosingLocalType
  <2>3. QED
    BY <1>3, <2>2, StoreUnchangedType DEF CloseFind, ClosingEnds
<1>4. ASSUME NEW s \in ClosingSlots, CloseWrite(s)
      PROVE  StoreTypeOK' /\ ClosingTypeOK'
  <2> DEFINE c == closing[s]
  <2>1. c \in ClosingLocal
    BY <1>4 DEF CloseWrite, ClosingAt
  <2>2. [status |-> "closed", recs |-> c.recs, absences |-> c.absences]
          \in Closing
    BY <2>1 DEF ClosingLocal, Closing
  <2>3. closings' \in [Months -> Closing]
    BY <1>4, <2>2 DEF CloseWrite, StoreTypeOK
  <2>4. QED
    BY <1>4, <2>3 DEF CloseWrite, ClosingEnds, StoreTypeOK
<1>5. ASSUME NEW s \in ClosingSlots, NEW m \in Months, ReopenFind(s, m)
      PROVE  StoreTypeOK' /\ ClosingTypeOK'
  <2>1. [pc |-> "reopen", month |-> m, recs |-> {}, absences |-> {},
         todo |-> {}, found |-> TRUE] \in ClosingLocal
    BY DEF ClosingLocal, ClosingPCs
  <2>2. QED
    BY <1>5, <2>1, StoreUnchangedType DEF ReopenFind
<1>6. ASSUME NEW s \in ClosingSlots, ReopenWrite(s)
      PROVE  StoreTypeOK' /\ ClosingTypeOK'
  <2>1. closing[s].month \in Months
    BY <1>6 DEF ReopenWrite, ClosingAt, ClosingLocal
  <2>2. \A row \in Closing : Reopened(row) \in Closing
    BY DEF Reopened, Closing
  <2>3. closings' \in [Months -> Closing]
    BY <1>6, <2>1, <2>2 DEF ReopenWrite, StoreTypeOK
  <2>4. QED
    BY <1>6, <2>3 DEF ReopenWrite, ClosingEnds, StoreTypeOK
<1>7. ASSUME NEW s \in ClosingSlots, ClosingFails(s)
      PROVE  StoreTypeOK' /\ ClosingTypeOK'
  BY <1>7, StoreUnchangedType DEF ClosingFails, ClosingEnds
<1>8. ASSUME NEW s \in ClosingSlots, CloseReadRecords(s)
      PROVE  StoreTypeOK' /\ ClosingTypeOK'
  <2>1. closing[s] \in ClosingLocal
    BY <1>8 DEF CloseReadRecords, ClosingAt
  <2>2. MonthFacts(closing[s].month) \in SUBSET Fact
    BY FactsType
  <2>3. QED
    BY <1>8, <2>1, <2>2, ClosingLocalType, StoreUnchangedType
       DEF CloseReadRecords
<1>9. QED
  BY <1>1, <1>2, <1>3, <1>4, <1>5, <1>6, <1>7, <1>8
     DEF ClosingNext, ClosingStep

-----------------------------------------------------------------------------
\* What a request handler becomes at each of its steps is a request handler.
LEMMA DeskLocalType ==
    /\ \A h \in Deciding : /\ \A pc \in {"load", "save"} : Goto(h, pc) \in Deciding
                          /\ \A t \in Types : Applied(h, t) \in Deciding
    /\ \A h \in Deciding, rows \in [RecordIds -> Record \cup {Null}] :
         DayRead(h, rows) \in Deciding
    /\ \A h \in Removing : Goto(h, "destroy") \in Removing
    /\ \A h \in Assigning, pc \in {"find", "give"} : Goto(h, pc) \in Assigning
    /\ \A u \in Users, days \in SUBSET Days :
         GoOn(u, days) \in Assigning \cup {Null}
<1>1. \A h \in Deciding, pc \in {"load", "save"} : Goto(h, pc) \in Deciding
  BY DEF Goto, Deciding
<1>2. \A h \in Deciding, t \in Types : Applied(h, t) \in Deciding
  BY DEF Applied, Deciding
<1>3. \A h \in Deciding, rows \in [RecordIds -> Record \cup {Null}] :
        DayRead(h, rows) \in Deciding
  BY DEF DayRead, Deciding, Asked
<1>4. \A h \in Removing : Goto(h, "destroy") \in Removing
  BY DEF Goto, Removing
<1>5. \A h \in Assigning, pc \in {"find", "give"} : Goto(h, pc) \in Assigning
  BY DEF Goto, Assigning
<1>6. \A u \in Users, days \in SUBSET Days :
        GoOn(u, days) \in Assigning \cup {Null}
  <2> SUFFICES ASSUME NEW u \in Users, NEW days \in SUBSET Days
               PROVE  GoOn(u, days) \in Assigning \cup {Null}
    OBVIOUS
  <2>1. CASE days = {}
    BY <2>1 DEF GoOn
  <2>2. CASE days # {}
    <3>1. [pc |-> "assign", user |-> u, days |-> days] \in Assigning
      BY <2>2 DEF Assigning
    <3>2. QED
      BY <2>2, <3>1 DEF GoOn
  <2>3. QED
    BY <2>1, <2>2
<1>7. QED
  BY <1>1, <1>2, <1>3, <1>4, <1>5, <1>6

LEMMA DeskSyncType ==
    ASSUME NEW h \in DeskSync, StoreTypeOK
    PROVE  SeenRecords(h) \in DeskSync /\ SeenAbsences(h) \in DeskSync
<1>1. DayFacts(h.user, h.key) \in SUBSET Fact
  BY FactsType
<1>2. DayAbsences(h.user, h.key) \in SUBSET RequestIds
  BY FactsType
<1>3. QED
  BY <1>1, <1>2 DEF SeenRecords, SeenAbsences, DeskSync, SyncPCs

\* The pc of a request handler tells which kind it is.
LEMMA DeskKind ==
    ASSUME DeskTypeOK, NEW s \in DeskSlots
    PROVE  /\ DeskAt(s, "file") => desk[s] \in Filing
           /\ \A pc \in {"decide", "load", "apply", "save"} :
                DeskAt(s, pc) => desk[s] \in Deciding
           /\ \A pc \in {"remove", "destroy"} :
                DeskAt(s, pc) => desk[s] \in Removing
           /\ \A pc \in {"assign", "find", "give"} :
                DeskAt(s, pc) => desk[s] \in Assigning
           /\ \A pc \in SyncPCs : DeskAt(s, pc) => desk[s] \in DeskSync
BY DEF DeskTypeOK, DeskAt, DeskLocal, Filing, Deciding, Removing, Assigning,
       DeskSync, SyncPCs

LEMMA DeskSyncsType ==
    ASSUME DeskTypeOK, NEW s \in DeskSlots, NEW u \in Users, NEW d \in Days,
           NEW days \in SUBSET Days, DeskSyncs(s, u, d, days)
    PROVE  DeskTypeOK'
<1>1. [pc |-> "records", user |-> u, key |-> d, seen |-> {},
       absences |-> {}, days |-> days] \in DeskSync
  BY DEF DeskSync, SyncPCs
<1>2. QED
  BY <1>1 DEF DeskSyncs, DeskTypeOK, DeskLocal

\* An adjusted or filed row is well typed.
LEMMA RowType ==
    /\ NoTimes \in Adjustment
    /\ \A row \in Record, time \in Times : Adjusted(row, time) \in Record
    /\ \A row \in Request, status \in RequestStatuses, times \in Adjustment :
         Decided(row, status, times) \in Request
<1>1. NoTimes \in Adjustment
  BY DEF NoTimes, Adjustment
<1>2. \A row \in Record, time \in Times : Adjusted(row, time) \in Record
  BY DEF Adjusted, Record, RecordStatuses
<1>3. \A row \in Request, status \in RequestStatuses, times \in Adjustment :
        Decided(row, status, times) \in Request
  BY DEF Decided, Request
<1>4. QED
  BY <1>1, <1>2, <1>3

LEMMA DeskOpensType ==
    ASSUME StoreTypeOK, DeskTypeOK, NEW s \in DeskSlots, DeskOpens(s)
    PROVE  UNCHANGED storeVars /\ DeskTypeOK'
<1> USE DEF DeskTypeOK, DeskLocal
<1>1. ASSUME NEW u \in Users, NEW d \in Days, NEW kind \in Kinds,
             NEW times \in Adjustments \cup {NoTimes},
             FileStart(s, u, d, kind, times)
      PROVE  UNCHANGED storeVars /\ DeskTypeOK'
  <2>1. times \in Adjustment
    BY RowType, AdjustmentsAssumption
  <2>2. [user |-> u, day |-> d, kind |-> kind, times |-> times,
         status |-> "pending"] \in Request
    BY <2>1 DEF Request, RequestStatuses
  <2>3. QED
    BY <1>1, <2>2 DEF FileStart, Filing
<1>2. ASSUME NEW q \in RequestIds, RemoveLoad(s, q)
      PROVE  UNCHANGED storeVars /\ DeskTypeOK'
  <2>1. requests[q] \in Request
    BY <1>2 DEF RemoveLoad, StoreTypeOK
  <2>2. QED
    BY <1>2, <2>1 DEF RemoveLoad, Removing, Request
<1>3. ASSUME NEW q \in RequestIds, NEW status \in {"approved", "rejected"},
             NEW times \in Adjustments \cup {NoTimes},
             DecideLoad(s, q, status, times)
      PROVE  UNCHANGED storeVars /\ DeskTypeOK'
  <2>1. requests[q] \in Request
    BY <1>3 DEF DecideLoad, StoreTypeOK
  <2>2. Decided(requests[q], status, times) \in Request
    BY <2>1, RowType, AdjustmentsAssumption DEF RequestStatuses
  <2>3. NothingLoaded \in [RecordIds -> Record \cup {Null}]
    BY DEF NothingLoaded
  <2>4. [pc |-> "decide", user |-> requests[q].user, qid |-> q,
         copy |-> requests[q],
         next |-> Decided(requests[q], status, times),
         loaded |-> NothingLoaded, todo |-> {}] \in Deciding
    BY <2>1, <2>2, <2>3 DEF Deciding, Request
  <2>5. QED
    BY <1>3, <2>4 DEF DecideLoad
<1>4. ASSUME NEW u \in Users, NEW days \in SUBSET Days,
             AssignStart(s, u, days)
      PROVE  UNCHANGED storeVars /\ DeskTypeOK'
  BY <1>4, DeskLocalType DEF AssignStart
<1>5. QED
  BY <1>1, <1>2, <1>3, <1>4 DEF DeskOpens

LEMMA DeskNextType ==
    ASSUME StoreTypeOK, DeskTypeOK, DeskNext
    PROVE  StoreTypeOK' /\ DeskTypeOK'
<1> USE DEF DeskTypeOK, DeskLocal
<1>1. ASSUME NEW s \in DeskSlots, DeskOpens(s)
      PROVE  StoreTypeOK' /\ DeskTypeOK'
  BY <1>1, DeskOpensType, StoreUnchangedType
<1>2. ASSUME NEW s \in DeskSlots, FileCreate(s)
      PROVE  StoreTypeOK' /\ DeskTypeOK'
  <2>1. desk[s].next \in Request
    BY <1>2, DeskKind DEF FileCreate, Filing
  <2>2. /\ requests' \in [RequestIds -> Request \cup {Null}]
        /\ nextRequest' \in 1..(MaxRequests + 1)
    BY <1>2, <2>1, InsertRequestType DEF FileCreate
  <2>3. QED
    BY <1>2, <2>2 DEF FileCreate, DeskEnds, StoreTypeOK
<1>3. ASSUME NEW s \in DeskSlots, DecideCheck(s)
      PROVE  StoreTypeOK' /\ DeskTypeOK'
  <2>1. desk[s] \in Deciding
    BY <1>3, DeskKind DEF DecideCheck
  <2>2. Goto(desk[s], "load") \in Deciding /\ Goto(desk[s], "save") \in Deciding
    BY <2>1, DeskLocalType
  <2>3. QED
    BY <1>3, <2>2, StoreUnchangedType DEF DecideCheck, DeskGoes, DeskEnds
<1>4. ASSUME NEW s \in DeskSlots, DecideReadDay(s)
      PROVE  StoreTypeOK' /\ DeskTypeOK'
  <2> DEFINE today == RowsOf(desk[s].user, desk[s].next.day)
             rows == [i \in RecordIds |-> IF i \in today THEN records[i]
                                                        ELSE Null]
  <2>1. desk[s] \in Deciding
    BY <1>4, DeskKind DEF DecideReadDay
  <2>2. rows \in [RecordIds -> Record \cup {Null}]
    BY DEF StoreTypeOK
  <2>3. DayRead(desk[s], rows) \in Deciding
    BY <2>1, <2>2, DeskLocalType
  <2>4. QED
    BY <1>4, <2>3, StoreUnchangedType DEF DecideReadDay
<1>5. ASSUME NEW s \in DeskSlots, DecideAdjust(s)
      PROVE  StoreTypeOK' /\ DeskTypeOK'
  <2> DEFINE h == desk[s]
  <2>1. h \in Deciding
    BY <1>5, DeskKind DEF DecideAdjust
  <2>2. PICK t \in Types, i \in RecordIds :
          /\ NextToApply(h, t)
          /\ i \in OfType(h, t)
          /\ records' = [records EXCEPT ![i] =
                          SavedRecord(records[i], h.loaded[i],
                                      Adjusted(h.loaded[i], h.next.times[t]))]
          /\ ApplyEnds(s, t)
    BY <1>5 DEF DecideAdjust
  <2>3. h.loaded[i] \in Record
    BY <2>1, <2>2 DEF Deciding, OfType
  <2>4. h.next.times[t] \in Times
    BY <2>1, <2>2 DEF Deciding, NextToApply, Asked, Request, Adjustment
  <2>5. Adjusted(h.loaded[i], h.next.times[t]) \in Record
    BY <2>3, <2>4, RowType
  <2>6. SavedRecord(records[i], h.loaded[i],
                    Adjusted(h.loaded[i], h.next.times[t]))
          \in Record \cup {Null}
    BY <2>3, <2>5, SavedRecordType DEF StoreTypeOK
  <2>7. records' \in [RecordIds -> Record \cup {Null}]
    BY <2>2, <2>6 DEF StoreTypeOK
  <2>8. DeskTypeOK'
    BY <2>1, <2>2, DeskLocalType DEF ApplyEnds
  <2>9. QED
    BY <1>5, <2>7, <2>8 DEF DecideAdjust, StoreTypeOK
<1>6. ASSUME NEW s \in DeskSlots, DecideInsert(s)
      PROVE  StoreTypeOK' /\ DeskTypeOK'
  <2> DEFINE h == desk[s]
             row(t) == [user |-> h.user, time |-> h.next.times[t],
                        type |-> t, status |-> "adjusted"]
  <2>1. h \in Deciding
    BY <1>6, DeskKind DEF DecideInsert
  <2>2. PICK t \in Types :
          NextToApply(h, t) /\ InsertRecord(row(t)) /\ ApplyEnds(s, t)
    BY <1>6 DEF DecideInsert
  <2>3. h.next.times[t] \in Times
    BY <2>1, <2>2 DEF Deciding, NextToApply, Asked, Request, Adjustment
  <2>4. row(t) \in Record
    BY <2>1, <2>3 DEF Deciding, Record, RecordStatuses
  <2>5. /\ records' \in [RecordIds -> Record \cup {Null}]
        /\ nextRecord' \in 1..(MaxRecords + 1)
    BY <2>2, <2>4, InsertRecordType
  <2>6. DeskTypeOK'
    BY <2>1, <2>2, DeskLocalType DEF ApplyEnds
  <2>7. QED
    BY <1>6, <2>5, <2>6 DEF DecideInsert, StoreTypeOK
<1>7. ASSUME NEW s \in DeskSlots, DecideSave(s)
      PROVE  StoreTypeOK' /\ DeskTypeOK'
  <2> DEFINE h == desk[s]
  <2>1. h \in Deciding
    BY <1>7, DeskKind DEF DecideSave
  <2>2. /\ h.qid \in RequestIds /\ h.copy \in Request /\ h.next \in Request
        /\ h.user \in Users
        /\ h.next.day \in Days
    BY <2>1 DEF Deciding, Request
  <2>3. SavedRequest(requests[h.qid], h.copy, h.next) \in Request \cup {Null}
    BY <2>2, SavedRequestType DEF StoreTypeOK
  <2>4. StoreTypeOK'
    BY <1>7, <2>3 DEF DecideSave, StoreTypeOK
  <2>5. DeskTypeOK'
    BY <1>7, <2>2, DeskSyncsType DEF DecideSave
  <2>6. QED
    BY <2>4, <2>5
<1>8. ASSUME NEW s \in DeskSlots, RemoveCheck(s)
      PROVE  StoreTypeOK' /\ DeskTypeOK'
  <2>1. desk[s] \in Removing
    BY <1>8, DeskKind DEF RemoveCheck
  <2>2. Goto(desk[s], "destroy") \in Removing
    BY <2>1, DeskLocalType
  <2>3. QED
    BY <1>8, <2>2, StoreUnchangedType DEF RemoveCheck, DeskGoes, DeskEnds
<1>9. ASSUME NEW s \in DeskSlots, RemoveDestroy(s)
      PROVE  StoreTypeOK' /\ DeskTypeOK'
  <2>1. desk[s] \in Removing
    BY <1>9, DeskKind DEF RemoveDestroy
  <2>2. DeskTypeOK'
    BY <1>9, <2>1, DeskSyncsType DEF RemoveDestroy, Removing
  <2>3. QED
    BY <1>9, <2>2 DEF RemoveDestroy, StoreTypeOK
<1>10. ASSUME NEW s \in DeskSlots, AssignCheck(s) \/ AssignFind(s)
       PROVE  StoreTypeOK' /\ DeskTypeOK'
  <2>1. desk[s] \in Assigning
    BY <1>10, DeskKind DEF AssignCheck, AssignFind
  <2>2. /\ Goto(desk[s], "find") \in Assigning
        /\ Goto(desk[s], "give") \in Assigning
        /\ \A d \in desk[s].days :
             GoOn(desk[s].user, desk[s].days \ {d}) \in Assigning \cup {Null}
    BY <2>1, DeskLocalType DEF Assigning
  <2>3. DeskTypeOK'
    BY <1>10, <2>2 DEF AssignCheck, AssignFind, DeskGoes, DeskEnds, First
  <2>4. QED
    BY <1>10, <2>3, StoreUnchangedType DEF AssignCheck, AssignFind
<1>11. ASSUME NEW s \in DeskSlots, AssignCreate(s)
       PROVE  StoreTypeOK' /\ DeskTypeOK'
  <2> DEFINE h == desk[s]
             row(d) == [user |-> h.user, day |-> d, kind |-> "absence",
                        times |-> NoTimes, status |-> "approved"]
  <2>1. h \in Assigning
    BY <1>11, DeskKind DEF AssignCreate
  <2>2. PICK d \in First(h.days) :
          InsertRequest(row(d)) /\ DeskSyncs(s, h.user, d, h.days \ {d})
    BY <1>11 DEF AssignCreate
  <2>3. d \in Days /\ h.days \ {d} \in SUBSET Days /\ h.user \in Users
    BY <2>1, <2>2 DEF Assigning, First
  <2>4. row(d) \in Request
    BY <2>3, RowType DEF Request, Kinds, RequestStatuses
  <2>5. /\ requests' \in [RequestIds -> Request \cup {Null}]
        /\ nextRequest' \in 1..(MaxRequests + 1)
    BY <2>2, <2>4, InsertRequestType
  <2>6. DeskTypeOK'
    BY <2>2, <2>3, DeskSyncsType
  <2>7. QED
    BY <1>11, <2>5, <2>6 DEF AssignCreate, StoreTypeOK
<1>12. ASSUME NEW s \in DeskSlots, DeskSyncRecords(s) \/ DeskSyncAbsences(s)
       PROVE  StoreTypeOK' /\ DeskTypeOK'
  <2>1. desk[s] \in DeskSync
    BY <1>12, DeskKind DEF DeskSyncRecords, DeskSyncAbsences, SyncPCs
  <2>2. DeskTypeOK'
    BY <1>12, <2>1, DeskSyncType DEF DeskSyncRecords, DeskSyncAbsences
  <2>3. QED
    BY <1>12, <2>2, StoreUnchangedType DEF DeskSyncRecords, DeskSyncAbsences
<1>13. ASSUME NEW s \in DeskSlots, DeskUpsert(s)
       PROVE  StoreTypeOK' /\ DeskTypeOK'
  <2>1. desk[s] \in DeskSync
    BY <1>13, DeskKind DEF DeskUpsert, SyncPCs
  <2>2. summaries' \in [Users -> [Days -> Summary \cup {Null}]]
    BY <1>13, <2>1, UpsertType DEF DeskUpsert, DeskSync
  <2>3. GoOn(desk[s].user, desk[s].days) \in Assigning \cup {Null}
    BY <2>1, DeskLocalType DEF DeskSync
  <2>4. DeskTypeOK'
    BY <1>13, <2>3 DEF DeskUpsert
  <2>5. QED
    BY <1>13, <2>2, <2>4 DEF DeskUpsert, StoreTypeOK
<1>14. ASSUME NEW s \in DeskSlots, DeskFails(s)
       PROVE  StoreTypeOK' /\ DeskTypeOK'
  BY <1>14, StoreUnchangedType DEF DeskFails, DeskEnds
<1>15. QED
  BY <1>1, <1>2, <1>3, <1>4, <1>5, <1>6, <1>7, <1>8, <1>9, <1>10, <1>11,
     <1>12, <1>13, <1>14
     DEF DeskNext, DeskStep

-----------------------------------------------------------------------------
LEMMA CrashType ==
    ASSUME TypeOK, Crash
    PROVE  TypeOK'
<1>1. StoreTypeOK'
  BY StoreUnchangedType DEF TypeOK, Crash
<1>2. QED
  BY <1>1 DEF TypeOK, Crash, PunchTypeOK, ReviewTypeOK, ClosingTypeOK,
              DeskTypeOK

LEMMA TickType ==
    ASSUME TypeOK, Tick
    PROVE  TypeOK'
<1>1. now' \in Times
  BY StoreAssumption DEF TypeOK, StoreTypeOK, Tick, Times
<1>2. QED
  BY <1>1 DEF TypeOK, StoreTypeOK, Tick, tables, handlers, PunchTypeOK,
              ReviewTypeOK, ClosingTypeOK, DeskTypeOK

LEMMA NextType ==
    ASSUME TypeOK, [Next]_vars
    PROVE  TypeOK'
<1> USE DEF TypeOK
<1>1. CASE Tick
  BY <1>1, TickType
<1>2. CASE PunchNext
  <2>1. StoreTypeOK' /\ PunchTypeOK'
    BY <1>2, PunchNextType
  <2>2. QED
    BY <1>2, <2>1 DEF PunchNext, ReviewTypeOK, ClosingTypeOK, DeskTypeOK
<1>3. CASE ReviewNext
  <2>1. StoreTypeOK' /\ ReviewTypeOK'
    BY <1>3, ReviewNextType
  <2>2. QED
    BY <1>3, <2>1 DEF ReviewNext, PunchTypeOK, ClosingTypeOK, DeskTypeOK
<1>4. CASE ClosingNext
  <2>1. StoreTypeOK' /\ ClosingTypeOK'
    BY <1>4, ClosingNextType
  <2>2. QED
    BY <1>4, <2>1 DEF ClosingNext, PunchTypeOK, ReviewTypeOK, DeskTypeOK
<1>5. CASE DeskNext
  <2>1. StoreTypeOK' /\ DeskTypeOK'
    BY <1>5, DeskNextType
  <2>2. QED
    BY <1>5, <2>1 DEF DeskNext, PunchTypeOK, ReviewTypeOK, ClosingTypeOK
<1>6. CASE Crash
  BY <1>6, CrashType
<1>7. CASE UNCHANGED vars
  <2>1. StoreTypeOK'
    BY <1>7, StoreUnchangedType DEF vars, storeVars
  <2>2. QED
    BY <1>7, <2>1 DEF vars, PunchTypeOK, ReviewTypeOK, ClosingTypeOK,
                      DeskTypeOK
<1>8. QED
  BY <1>1, <1>2, <1>3, <1>4, <1>5, <1>6, <1>7 DEF Next

LEMMA InitType == Init => TypeOK
<1> SUFFICES ASSUME Init PROVE TypeOK
  OBVIOUS
<1>1. StoreTypeOK
  BY StoreAssumption DEF Init, StoreInit, StoreTypeOK, Times, Closing
<1>2. QED
  BY <1>1 DEF Init, TypeOK, PunchInit, PunchTypeOK, ReviewInit, ReviewTypeOK,
              ClosingInit, ClosingTypeOK, DeskInit, DeskTypeOK

\* Type correctness: whatever the interleaving, faults or bounds, the tables
\* hold rows of their columns' types and every handler has the locals of the
\* query it waits for (a remote marking waiting for its photo has a row, a
\* decision applies only times that were asked for).
THEOREM TypeCorrect == Spec => []TypeOK
<1>1. Init => TypeOK
  BY InitType
<1>2. TypeOK /\ [Next]_vars => TypeOK'
  BY NextType
<1>3. QED
  BY <1>1, <1>2, PTL DEF Spec

-----------------------------------------------------------------------------
(***************************************************************************)
(* A record keeps its day. KeepsDays says it of one step; it is proved     *)
(* from WritesStayOnDay, which it in turn preserves.                       *)
(***************************************************************************)
SameDay(i) ==
    /\ records'[i].user = records[i].user
    /\ LocalDay[records'[i].time] = LocalDay[records[i].time]

KeepsDays ==
    /\ nextRecord' >= nextRecord
    /\ \A i \in RecordIds :
         /\ records'[i] # Null =>
              i < nextRecord' /\ (i < nextRecord => records[i] # Null)
         /\ records[i] # Null /\ records'[i] # Null => SameDay(i)

\* The four ways in which a step writes time_records.
LEMMA UnchangedKeepsDays ==
    ASSUME StoreTypeOK, IdsUnused, UNCHANGED <<records, nextRecord>>
    PROVE  KeepsDays
BY StoreAssumption
   DEF KeepsDays, SameDay, IdsUnused, StoreTypeOK, RecordIds

LEMMA InsertKeepsDays ==
    ASSUME StoreTypeOK, IdsUnused, NEW row, InsertRecord(row)
    PROVE  KeepsDays
<1>1. nextRecord \in Nat /\ nextRecord' = nextRecord + 1
  BY StoreAssumption DEF InsertRecord, StoreTypeOK
<1>2. \A i \in RecordIds : i # nextRecord => records'[i] = records[i]
  BY DEF InsertRecord, StoreTypeOK
<1>3. \A i \in RecordIds : i \in Nat /\ (i >= nextRecord => records[i] = Null)
  BY StoreAssumption DEF IdsUnused, RecordIds
<1>4. QED
  BY <1>1, <1>2, <1>3 DEF KeepsDays, SameDay

LEMMA WriteKeepsDays ==
    ASSUME StoreTypeOK, IdsUnused, nextRecord' = nextRecord,
           NEW j \in RecordIds, NEW row,
           records' = [records EXCEPT ![j] = row],
           \/ row = Null
           \/ /\ records[j] # Null
              /\ row.user = records[j].user
              /\ LocalDay[row.time] = LocalDay[records[j].time]
    PROVE  KeepsDays
<1>1. nextRecord \in Nat
  BY StoreAssumption DEF StoreTypeOK
<1>2. /\ \A i \in RecordIds : i # j => records'[i] = records[i]
      /\ records'[j] = row
  BY DEF StoreTypeOK
<1>3. \A i \in RecordIds : i \in Nat /\ (i >= nextRecord => records[i] = Null)
  BY StoreAssumption DEF IdsUnused, RecordIds
<1>4. QED
  BY <1>1, <1>2, <1>3 DEF KeepsDays, SameDay

LEMMA PunchKeepsDays ==
    ASSUME StoreTypeOK, PunchTypeOK, IdsUnused, PunchNext
    PROVE  KeepsDays
<1>1. ASSUME NEW s \in PunchSlots, PunchCreate(s)
      PROVE  KeepsDays
  BY <1>1, InsertKeepsDays DEF PunchCreate
<1>2. ASSUME NEW s \in PunchSlots, PunchDestroy(s)
      PROVE  KeepsDays
  <2>1. punch[s].rid \in RecordIds
    BY <1>2, PunchKind DEF PunchDestroy, Storing, MarkingAt
  <2>2. QED
    BY <1>2, <2>1, WriteKeepsDays DEF PunchDestroy
<1>3. ASSUME NEW s \in PunchSlots, PunchFlag(s)
      PROVE  KeepsDays
  <2> DEFINE j == punch[s].flag
  <2>1. CASE j \in RecordIds /\ records[j] # Null
    <3>1. records[j] \in Record
      BY <2>1 DEF StoreTypeOK
    <3>2. \A row \in Record : /\ ToApproval(row).user = row.user
                             /\ ToApproval(row).time = row.time
      BY NullAssumption DEF ToApproval, Record
    <3>3. QED
      BY <1>3, <2>1, <3>1, <3>2, WriteKeepsDays DEF PunchFlag
  <2>2. CASE j \in RecordIds /\ records[j] = Null
    <3>1. ToApproval(records[j]) = Null
      BY <2>2 DEF ToApproval
    <3>2. QED
      BY <1>3, <2>2, <3>1, WriteKeepsDays DEF PunchFlag
  <2>3. CASE j \notin RecordIds
    <3>1. records' = records
      BY <1>3, <2>3 DEF PunchFlag, StoreTypeOK
    <3>2. QED
      BY <1>3, <3>1, UnchangedKeepsDays DEF PunchFlag
  <2>4. QED
    BY <2>1, <2>2, <2>3
<1>4. CASE UNCHANGED <<records, nextRecord>>
  BY <1>4, UnchangedKeepsDays
<1>5. QED
  BY <1>1, <1>2, <1>3, <1>4
     DEF PunchNext, PunchStep, PunchStart, PunchCheck, PunchResolve, PunchRefuse,
         PunchEvidence, PunchEvidenceFails, PunchSyncRecords,
         PunchSyncAbsences, PunchUpsert, PunchFails,
         PunchDestroyFails, storeVars, tables

LEMMA ReviewKeepsDays ==
    ASSUME StoreTypeOK, ReviewTypeOK, IdsUnused, ReviewOnDay, ReviewNext
    PROVE  KeepsDays
<1>1. ASSUME NEW s \in ReviewSlots, ReviewSave(s)
      PROVE  KeepsDays
  <2> DEFINE r == review[s]
             row == SavedRecord(records[r.rid], r.copy, r.next)
  <2>1. r \in Reviewing
    BY <1>1, ReviewKind DEF ReviewSave
  <2>2. /\ r.rid \in RecordIds /\ r.copy \in Record /\ r.next \in Record
        /\ records[r.rid] \in Record \cup {Null}
    BY <2>1 DEF Reviewing, StoreTypeOK
  <2>3. /\ LocalDay[r.next.time] = LocalDay[r.copy.time]
        /\ records[r.rid] # Null =>
             LocalDay[records[r.rid].time] = LocalDay[r.copy.time]
    BY <1>1 DEF ReviewSave, ReviewOnDay, OnDay
  <2>4. \/ row = Null
        \/ /\ records[r.rid] # Null
           /\ row.user = records[r.rid].user
           /\ LocalDay[row.time] = LocalDay[records[r.rid].time]
    BY <2>2, <2>3, SavedRecordType
  <2>5. QED
    BY <1>1, <2>2, <2>4, WriteKeepsDays DEF ReviewSave
<1>2. CASE UNCHANGED <<records, nextRecord>>
  BY <1>2, UnchangedKeepsDays
<1>3. QED
  BY <1>1, <1>2
     DEF ReviewNext, ReviewStep, ReviewLoad, ReviewCheck, ReviewSyncRecords,
         ReviewSyncAbsences, ReviewUpsert, ReviewFails, storeVars, tables

LEMMA DeskKeepsDays ==
    ASSUME StoreTypeOK, DeskTypeOK, IdsUnused, DecisionOnDay, DeskNext
    PROVE  KeepsDays
<1>1. ASSUME NEW s \in DeskSlots, DecideAdjust(s)
      PROVE  KeepsDays
  <2> DEFINE h == desk[s]
             next(i, t) == Adjusted(h.loaded[i], h.next.times[t])
             row(i, t) == SavedRecord(records[i], h.loaded[i], next(i, t))
  <2>1. h \in Deciding
    BY <1>1, DeskKind DEF DecideAdjust
  <2>2. PICK t \in Types, i \in RecordIds :
          /\ NextToApply(h, t)
          /\ i \in OfType(h, t)
          /\ records' = [records EXCEPT ![i] = row(i, t)]
    BY <1>1 DEF DecideAdjust
  <2>3. /\ h.loaded[i] \in Record /\ h.loaded[i] # Null
        /\ records[i] \in Record \cup {Null}
        /\ t \in Asked(h.next.times)
        /\ h.next.times[t] \in Times
    BY <2>1, <2>2, NullAssumption
       DEF Deciding, OfType, NextToApply, Asked, Request, Adjustment,
           StoreTypeOK
  <2>4. /\ LocalDay[h.next.times[t]] = h.next.day
        /\ LocalDay[h.loaded[i].time] = h.next.day
        /\ records[i] # Null => LocalDay[records[i].time] = h.next.day
    BY <1>1, <2>3 DEF DecideAdjust, DecisionOnDay, OnDay
  <2>5. /\ next(i, t) \in Record
        /\ next(i, t).time = h.next.times[t]
    BY <2>3, RowType DEF Adjusted, Record
  <2>6. \/ row(i, t) = Null
        \/ /\ records[i] # Null
           /\ row(i, t).user = records[i].user
           /\ LocalDay[row(i, t).time] = LocalDay[records[i].time]
    BY <2>3, <2>4, <2>5, SavedRecordType
  <2>7. QED
    BY <1>1, <2>2, <2>6, WriteKeepsDays DEF DecideAdjust
<1>2. ASSUME NEW s \in DeskSlots, DecideInsert(s)
      PROVE  KeepsDays
  BY <1>2, InsertKeepsDays DEF DecideInsert
<1>3. CASE UNCHANGED <<records, nextRecord>>
  BY <1>3, UnchangedKeepsDays
<1>4. QED
  BY <1>1, <1>2, <1>3
     DEF DeskNext, DeskOpens, DeskStep, FileStart, DecideLoad, RemoveLoad,
         AssignStart, FileCreate, DecideCheck, DecideReadDay, DecideSave,
         RemoveCheck, RemoveDestroy, AssignCheck, AssignFind, AssignCreate,
         DeskSyncRecords, DeskSyncAbsences, DeskUpsert, DeskFails, storeVars,
         tables

LEMMA NextKeepsDays ==
    ASSUME TypeOK, WritesStayOnDay, [Next]_vars
    PROVE  KeepsDays
<1> USE DEF TypeOK, WritesStayOnDay
<1>1. CASE PunchNext
  BY <1>1, PunchKeepsDays
<1>2. CASE ReviewNext
  BY <1>2, ReviewKeepsDays
<1>3. CASE DeskNext
  BY <1>3, DeskKeepsDays
<1>4. CASE UNCHANGED <<records, nextRecord>>
  BY <1>4, UnchangedKeepsDays
<1>5. ClosingNext => UNCHANGED <<records, nextRecord>>
  BY DEF ClosingNext, ClosingStep, CloseStart, CloseReadRecords, CloseReadAbsences,
         CloseFind, CloseWrite, ReopenFind, ReopenWrite, ClosingFails, storeVars, tables
<1>6. QED
  BY <1>1, <1>2, <1>3, <1>4, <1>5
     DEF Next, Tick, Crash, vars, storeVars, tables

\* A row that is on a day stays on it, or is deleted for good.
LEMMA OnDayStable ==
    ASSUME StoreTypeOK, KeepsDays, StoreTypeOK',
           NEW i \in RecordIds, NEW d, OnDay(i, d)
    PROVE  /\ i < nextRecord'
           /\ records'[i] # Null => LocalDay[records'[i].time] = d
<1>1. i \in Nat /\ nextRecord \in Nat /\ nextRecord' \in Nat
  BY StoreAssumption DEF StoreTypeOK, RecordIds
<1>2. QED
  BY <1>1 DEF OnDay, KeepsDays, SameDay

LEMMA IdsUnusedNext ==
    ASSUME StoreTypeOK', KeepsDays
    PROVE  IdsUnused'
BY StoreAssumption DEF KeepsDays, IdsUnused, StoreTypeOK, RecordIds

\* What ReviewOnDay says of a review r, in the next state.
ReviewFits(r) ==
    /\ r.rid < nextRecord'
    /\ records'[r.rid] # Null =>
         LocalDay[records'[r.rid].time] = LocalDay[r.copy.time]
    /\ LocalDay[r.next.time] = LocalDay[r.copy.time]

\* A review that held a row still fits after any step.
LEMMA ReviewStable ==
    ASSUME TypeOK, TypeOK', WritesStayOnDay, KeepsDays, NEW z \in ReviewSlots,
           ReviewAt(z, "period") \/ ReviewAt(z, "save")
    PROVE  ReviewFits(review[z])
<1>1. review[z] \in Reviewing
  BY ReviewKind DEF TypeOK
<1>2. /\ OnDay(review[z].rid, LocalDay[review[z].copy.time])
      /\ LocalDay[review[z].next.time] = LocalDay[review[z].copy.time]
  BY DEF WritesStayOnDay, ReviewOnDay
<1>3. review[z].rid \in RecordIds
  BY <1>1 DEF Reviewing
<1>4. QED
  BY <1>2, <1>3, OnDayStable DEF ReviewFits, TypeOK

\* A review handler that holds a row either held it before, or loads it.
LEMMA ReviewOnDayNext ==
    ASSUME TypeOK, TypeOK', WritesStayOnDay, KeepsDays, ReviewNext
    PROVE  ReviewOnDay'
<1> USE DEF TypeOK
<1>1. SUFFICES ASSUME NEW z \in ReviewSlots,
                      (ReviewAt(z, "period") \/ ReviewAt(z, "save"))'
               PROVE  ReviewFits(review'[z])
  BY DEF ReviewOnDay, ReviewFits, OnDay
<1>2. ASSUME review'[z] = review[z]
      PROVE  ReviewFits(review'[z])
  <2>1. ReviewAt(z, "period") \/ ReviewAt(z, "save")
    BY <1>1, <1>2 DEF ReviewAt
  <2>2. QED
    BY <1>2, <2>1, ReviewStable
<1>3. ASSUME NEW s \in ReviewSlots, NEW i \in RecordIds,
             NEW status \in RecordStatuses, NEW type \in NewTypes,
             NEW time \in Times, ReviewLoad(s, i, status, type, time),
             review'[z] # review[z]
      PROVE  ReviewFits(review'[z])
  <2>1. /\ s = z
        /\ review'[z].rid = i
        /\ review'[z].copy = records[i]
        /\ review'[z].next = Reviewed(records[i], status, type, time)
        /\ records' = records /\ nextRecord' = nextRecord
    BY <1>3 DEF ReviewLoad, ReviewTypeOK, storeVars, tables
  <2>2. records[i] \in Record /\ records[i] # Null
    BY <1>3 DEF ReviewLoad, StoreTypeOK
  <2>3. Reviewed(records[i], status, type, time).time \in {records[i].time, time}
    BY <2>2, ReviewedType, ModeAssumption
  <2>4. LocalDay[time] = LocalDay[records[i].time]
    BY <1>3 DEF ReviewLoad
  <2>5. i < nextRecord
    BY <2>2, StoreAssumption
       DEF WritesStayOnDay, IdsUnused, StoreTypeOK, RecordIds
  <2>6. QED
    BY <2>1, <2>3, <2>4, <2>5 DEF ReviewFits
<1>4. ASSUME NEW s \in ReviewSlots, ReviewCheck(s), review'[z] # review[z]
      PROVE  ReviewFits(review'[z])
  <2>1. s = z /\ review'[z] = Goto(review[z], "save")
    BY <1>1, <1>4 DEF ReviewCheck, ReviewEnds, ReviewTypeOK, ReviewAt
  <2>2. review[z] \in Reviewing
    BY <1>4, <2>1, ReviewKind DEF ReviewCheck
  <2>3. \A r \in Reviewing : /\ Goto(r, "save").rid = r.rid
                             /\ Goto(r, "save").copy = r.copy
                             /\ Goto(r, "save").next = r.next
    BY DEF Goto, Reviewing
  <2>4. /\ review'[z].rid = review[z].rid
        /\ review'[z].copy = review[z].copy
        /\ review'[z].next = review[z].next
    BY <2>1, <2>2, <2>3
  <2>5. ReviewFits(review[z])
    BY <1>4, <2>1, ReviewStable DEF ReviewCheck
  <2>6. QED
    BY <2>4, <2>5 DEF ReviewFits
<1>5. ASSUME NEW s \in ReviewSlots, review'[z] # review[z],
             \/ ReviewSave(s) \/ ReviewSyncRecords(s)
             \/ ReviewSyncAbsences(s) \/ ReviewUpsert(s) \/ ReviewFails(s)
      PROVE  FALSE
  <2>1. \A r \in ReviewSync : SeenRecords(r).pc = "absences"
                              /\ SeenAbsences(r).pc = "upsert"
    BY DEF SeenRecords, SeenAbsences, ReviewSync
  <2>2. ReviewSyncRecords(s) \/ ReviewSyncAbsences(s) => review[s] \in ReviewSync
    BY ReviewKind DEF ReviewSyncRecords, ReviewSyncAbsences, SyncPCs
  <2>3. QED
    BY <1>1, <1>5, <2>1, <2>2
       DEF ReviewSave, ReviewSyncRecords, ReviewSyncAbsences, ReviewUpsert,
           ReviewFails, ReviewEnds, ReviewTypeOK, ReviewAt
<1>6. QED
  BY <1>2, <1>3, <1>4, <1>5 DEF ReviewNext, ReviewStep

\* What DecisionOnDay says of a decision h, in the next state.
DecisionFits(h) ==
    /\ \A t \in Asked(h.next.times) :
         LocalDay[h.next.times[t]] = h.next.day
    /\ \A i \in RecordIds :
         h.loaded[i] # Null =>
           /\ i < nextRecord'
           /\ records'[i] # Null => LocalDay[records'[i].time] = h.next.day
           /\ LocalDay[h.loaded[i].time] = h.next.day

\* A decision that was under way still fits after any step.
LEMMA DecisionStable ==
    ASSUME TypeOK, TypeOK', WritesStayOnDay, KeepsDays, NEW z \in DeskSlots,
           NEW pc \in {"decide", "load", "apply", "save"}, DeskAt(z, pc)
    PROVE  DecisionFits(desk[z])
<1>1. /\ \A t \in Asked(desk[z].next.times) :
            LocalDay[desk[z].next.times[t]] = desk[z].next.day
      /\ \A i \in RecordIds :
            desk[z].loaded[i] # Null =>
              /\ OnDay(i, desk[z].next.day)
              /\ LocalDay[desk[z].loaded[i].time] = desk[z].next.day
  BY DEF WritesStayOnDay, DecisionOnDay
<1>2. QED
  BY <1>1, OnDayStable DEF DecisionFits, TypeOK

LEMMA DecisionOnDayNext ==
    ASSUME TypeOK, TypeOK', WritesStayOnDay, KeepsDays, DeskNext
    PROVE  DecisionOnDay'
<1> USE DEF TypeOK
<1> DEFINE Decides(z) == \E pc \in {"decide", "load", "apply", "save"} :
                           DeskAt(z, pc)
<1>1. SUFFICES ASSUME NEW z \in DeskSlots, Decides(z)'
               PROVE  DecisionFits(desk'[z])
  BY DEF DecisionOnDay, DecisionFits, OnDay
<1>2. ASSUME desk'[z] = desk[z]
      PROVE  DecisionFits(desk'[z])
  <2>1. Decides(z)
    BY <1>1, <1>2 DEF DeskAt
  <2>2. QED
    BY <1>2, <2>1, DecisionStable
<1>3. ASSUME NEW s \in DeskSlots, NEW q \in RequestIds,
             NEW status \in {"approved", "rejected"},
             NEW times \in Adjustments \cup {NoTimes},
             DecideLoad(s, q, status, times), desk'[z] # desk[z]
      PROVE  DecisionFits(desk'[z])
  <2>1. requests[q] \in Request
    BY <1>3 DEF DecideLoad, StoreTypeOK
  <2>2. /\ Decided(requests[q], status, times).times = times
        /\ Decided(requests[q], status, times).day = requests[q].day
    BY <2>1 DEF Decided, Request
  <2>3. /\ desk'[z].next = Decided(requests[q], status, times)
        /\ desk'[z].loaded = NothingLoaded
    BY <1>3 DEF DecideLoad, DeskTypeOK
  <2>4. \A t \in Asked(times) : LocalDay[times[t]] = requests[q].day
    BY <1>3 DEF DecideLoad, WellFormed, NoTimes, Asked
  <2>5. QED
    BY <2>2, <2>3, <2>4 DEF DecisionFits, NothingLoaded
<1>4. ASSUME NEW s \in DeskSlots, DecideReadDay(s), desk'[z] # desk[z]
      PROVE  DecisionFits(desk'[z])
  <2> DEFINE today == RowsOf(desk[s].user, desk[s].next.day)
             rows == [i \in RecordIds |-> IF i \in today THEN records[i]
                                                        ELSE Null]
  <2>1. s = z /\ desk'[z] = DayRead(desk[z], rows)
    BY <1>4 DEF DecideReadDay, DeskTypeOK
  <2>2. desk[z] \in Deciding
    BY <1>4, <2>1, DeskKind DEF DecideReadDay
  <2>3. /\ desk'[z].next = desk[z].next
        /\ desk'[z].loaded = rows
    BY <2>1, <2>2 DEF DayRead, Deciding
  <2>4. records' = records /\ nextRecord' = nextRecord
    BY <1>4 DEF DecideReadDay, storeVars, tables
  <2>5. \A i \in RecordIds : records[i] # Null => i < nextRecord
    BY StoreAssumption DEF WritesStayOnDay, IdsUnused, StoreTypeOK, RecordIds
  <2>6. DecisionFits(desk[z])
    BY <1>4, <2>1, DecisionStable DEF DecideReadDay
  <2>7. \A i \in RecordIds :
          rows[i] # Null => /\ rows[i] = records[i]
                            /\ LocalDay[records[i].time] = desk[z].next.day
    BY <2>1 DEF RowsOf
  <2>8. QED
    BY <2>3, <2>4, <2>5, <2>6, <2>7 DEF DecisionFits
<1>5. ASSUME NEW s \in DeskSlots, desk'[z] # desk[z],
             DecideCheck(s) \/ DecideAdjust(s) \/ DecideInsert(s)
      PROVE  DecisionFits(desk'[z])
  <2>1. /\ s = z
        /\ \/ desk'[z] \in {Goto(desk[z], "load"), Goto(desk[z], "save")}
           \/ \E t \in Types : desk'[z] = Applied(desk[z], t)
    BY <1>1, <1>5
       DEF DecideCheck, DecideAdjust, DecideInsert, DeskGoes, DeskEnds,
           ApplyEnds, DeskTypeOK, DeskAt
  <2>2. desk[z] \in Deciding
    BY <1>5, <2>1, DeskKind DEF DecideCheck, DecideAdjust, DecideInsert
  <2>3. \A h \in Deciding, pc \in {"load", "save"} :
          Goto(h, pc).next = h.next /\ Goto(h, pc).loaded = h.loaded
    BY DEF Goto, Deciding
  <2>4. \A h \in Deciding, t \in Types :
          Applied(h, t).next = h.next /\ Applied(h, t).loaded = h.loaded
    BY DEF Applied, Deciding
  <2>5. desk'[z].next = desk[z].next /\ desk'[z].loaded = desk[z].loaded
    BY <2>1, <2>2, <2>3, <2>4
  <2>6. DecisionFits(desk[z])
    BY <1>5, <2>1, DecisionStable DEF DecideCheck, DecideAdjust, DecideInsert
  <2>7. QED
    BY <2>5, <2>6 DEF DecisionFits
<1>6. ASSUME NEW s \in DeskSlots, desk'[z] # desk[z],
             DeskOpens(s),
             \A q \in RequestIds, status \in {"approved", "rejected"},
                times \in Adjustments \cup {NoTimes} :
               ~DecideLoad(s, q, status, times)
      PROVE  FALSE
  <2>1. \A u, d, kind, times :
          FileStart(s, u, d, kind, times) => z = s /\ desk'[z].pc = "file"
    BY <1>6 DEF FileStart, DeskTypeOK
  <2>2. \A q : RemoveLoad(s, q) => z = s /\ desk'[z].pc = "remove"
    BY <1>6 DEF RemoveLoad, DeskTypeOK
  <2>3. \A u, days : AssignStart(s, u, days) =>
                        z = s /\ (desk'[z] = Null \/ desk'[z].pc = "assign")
    BY <1>6 DEF AssignStart, GoOn, DeskTypeOK
  <2>4. QED
    BY <1>1, <1>6, <2>1, <2>2, <2>3 DEF DeskOpens, DeskAt
<1>7. ASSUME NEW s \in DeskSlots, desk'[z] # desk[z],
             \/ FileCreate(s) \/ DecideSave(s) \/ RemoveDestroy(s)
             \/ AssignCreate(s) \/ DeskUpsert(s) \/ DeskFails(s)
      PROVE  FALSE
  <2>1. \A u, d, days :
          DeskSyncs(s, u, d, days) => z = s /\ desk'[z].pc = "records"
    BY <1>7 DEF DeskSyncs, DeskTypeOK
  <2>2. DecideSave(s) \/ RemoveDestroy(s) \/ AssignCreate(s) =>
          z = s /\ desk'[z].pc = "records"
    BY <2>1 DEF DecideSave, RemoveDestroy, AssignCreate
  <2>3. DeskUpsert(s) => z = s /\ (desk'[z] = Null \/ desk'[z].pc = "assign")
    BY <1>7 DEF DeskUpsert, GoOn, DeskTypeOK
  <2>4. FileCreate(s) \/ DeskFails(s) => z = s /\ desk'[z] = Null
    BY <1>7 DEF FileCreate, DeskFails, DeskEnds, DeskTypeOK
  <2>5. QED
    BY <1>1, <1>7, <2>2, <2>3, <2>4 DEF DeskAt
<1>8. ASSUME NEW s \in DeskSlots, desk'[z] # desk[z],
             RemoveCheck(s) \/ AssignCheck(s) \/ AssignFind(s)
      PROVE  FALSE
  <2>1. desk[s] \in Removing \cup Assigning
    BY <1>8, DeskKind DEF RemoveCheck, AssignCheck, AssignFind
  <2>2. \A h \in Removing \cup Assigning, pc \in {"destroy", "find", "give"} :
          Goto(h, pc).pc = pc
    BY DEF Goto, Removing, Assigning
  <2>3. QED
    BY <1>1, <1>8, <2>1, <2>2
       DEF RemoveCheck, AssignCheck, AssignFind, DeskGoes, DeskEnds, GoOn,
           DeskTypeOK, DeskAt
<1>9. ASSUME NEW s \in DeskSlots, desk'[z] # desk[z],
             DeskSyncRecords(s) \/ DeskSyncAbsences(s)
      PROVE  FALSE
  <2>1. desk[s] \in DeskSync
    BY <1>9, DeskKind DEF DeskSyncRecords, DeskSyncAbsences, SyncPCs
  <2>2. \A h \in DeskSync : SeenRecords(h).pc = "absences"
                            /\ SeenAbsences(h).pc = "upsert"
    BY DEF SeenRecords, SeenAbsences, DeskSync
  <2>3. QED
    BY <1>1, <1>9, <2>1, <2>2
       DEF DeskSyncRecords, DeskSyncAbsences, DeskTypeOK, DeskAt
<1>10. QED
  BY <1>2, <1>3, <1>4, <1>5, <1>6, <1>7, <1>8, <1>9 DEF DeskNext, DeskStep

LEMMA WritesStayOnDayNext ==
    ASSUME TypeOK, WritesStayOnDay, [Next]_vars
    PROVE  WritesStayOnDay' /\ KeepsDays
<1>1. TypeOK' /\ KeepsDays
  BY NextType, NextKeepsDays
<1>2. IdsUnused'
  BY <1>1, IdsUnusedNext DEF TypeOK
<1>3. ReviewOnDay'
  <2>1. CASE UNCHANGED review
    BY <1>1, <2>1, ReviewStable DEF ReviewOnDay, ReviewFits, OnDay, ReviewAt
  <2>2. CASE ReviewNext
    BY <1>1, <2>2, ReviewOnDayNext
  <2>3. CASE Crash
    BY <2>3 DEF Crash, ReviewOnDay, ReviewAt
  <2>4. QED
    BY <2>1, <2>2, <2>3
       DEF Next, Tick, PunchNext, ClosingNext, DeskNext, vars, handlers
<1>4. DecisionOnDay'
  <2>1. CASE UNCHANGED desk
    BY <1>1, <2>1, DecisionStable
       DEF DecisionOnDay, DecisionFits, OnDay, DeskAt
  <2>2. CASE DeskNext
    BY <1>1, <2>2, DecisionOnDayNext
  <2>3. CASE Crash
    BY <2>3 DEF Crash, DecisionOnDay, DeskAt
  <2>4. QED
    BY <2>1, <2>2, <2>3
       DEF Next, Tick, PunchNext, ReviewNext, ClosingNext, vars, handlers
<1>5. QED
  BY <1>1, <1>2, <1>3, <1>4 DEF WritesStayOnDay

LEMMA InitOnDay == Init => WritesStayOnDay
BY DEF Init, StoreInit, ReviewInit, DeskInit, WritesStayOnDay, IdsUnused,
       ReviewOnDay, DecisionOnDay, ReviewAt, DeskAt

\* However many handlers overlap, fail or are cut off by a restart, what a
\* review or a decision is about to write is on the day of the row it writes.
THEOREM WritesOnDay == Spec => []WritesStayOnDay
<1>1. Init => TypeOK /\ WritesStayOnDay
  BY InitType, InitOnDay
<1>2. TypeOK /\ WritesStayOnDay /\ [Next]_vars => TypeOK' /\ WritesStayOnDay'
  BY NextType, WritesStayOnDayNext
<1>3. QED
  BY <1>1, <1>2, PTL DEF Spec

\* The day and the owner of a marking are fixed at its insertion, for any
\* number of users, handlers and interleavings: none of the unsynchronized
\* load-then-save paths can move it out of the period that was checked.
THEOREM RecordsKeepTheirDay == Spec => RecordKeepsItsDay
<1>1. TypeOK /\ WritesStayOnDay /\ [Next]_vars =>
        [\A i \in RecordIds :
           records[i] # Null /\ records'[i] # Null =>
             /\ records'[i].user = records[i].user
             /\ LocalDay[records'[i].time] = LocalDay[records[i].time]]_vars
  BY WritesStayOnDayNext DEF KeepsDays, SameDay
<1>2. QED
  BY <1>1, TypeCorrect, WritesOnDay, PTL DEF Spec, RecordKeepsItsDay

-----------------------------------------------------------------------------
(***************************************************************************)
(* The inductive invariant of serialized handlers. A handler that waits    *)
(* for its next query is alone with the rows of its user, so what it found *)
(* out in its earlier queries is still so.                                 *)
(***************************************************************************)
PunchAlone ==
    \A s \in PunchSlots : punch[s] # Null =>
      /\ \A t \in PunchSlots :
           t # s /\ punch[t] # Null => punch[t].user # punch[s].user
      /\ \A t \in ReviewSlots : review[t] # Null => review[t].user # punch[s].user
      /\ \A t \in DeskSlots : desk[t] # Null => desk[t].user # punch[s].user

ReviewAlone ==
    \A s \in ReviewSlots : review[s] # Null =>
      /\ \A t \in ReviewSlots :
           t # s /\ review[t] # Null => review[t].user # review[s].user
      /\ \A t \in DeskSlots : desk[t] # Null => desk[t].user # review[s].user

DeskAlone ==
    \A s, t \in DeskSlots :
      s # t /\ desk[s] # Null /\ desk[t] # Null => desk[t].user # desk[s].user

ClosingAlone ==
    \A s \in ClosingSlots : closing[s] # Null =>
      /\ \A t \in ClosingSlots : t # s => closing[t] = Null
      /\ \A t \in PunchSlots : punch[t] = Null
      /\ \A t \in ReviewSlots : review[t] = Null
      /\ \A t \in DeskSlots : desk[t] = Null

Alone == PunchAlone /\ ReviewAlone /\ DeskAlone /\ ClosingAlone

\* Row i exists, is the user's, and its day may still be changed.
Editable(i, u) ==
    /\ records[i] # Null
    /\ records[i].user = u
    /\ PeriodOpen(LocalDay[records[i].time])

\* What a punch p has found out, by the query it waits for.
PunchHolds(p) ==
    /\ p.pc \in {"read", "create"} => PeriodOpen(LocalDay[p.at])
    /\ p.pc = "create" =>
         /\ ~IsRecent(p)
         /\ \E want \in Types \cup {"auto"} : Accepts(want, TypesToday(p), p.type)
    /\ p.pc \in {"evidence", "destroy"} => Editable(p.rid, p.user)
    /\ p.pc \in SyncPCs \cup {"flag"} => p.flag = 0 \/ Editable(p.flag, p.user)

\* A review has the row as it is.
ReviewHolds(r) ==
    /\ r.pc \in {"period", "save"} =>
         /\ records[r.rid] = r.copy
         /\ r.copy.user = r.user
         /\ r.next.user = r.user
         /\ LocalDay[r.next.time] = LocalDay[r.copy.time]
    /\ r.pc = "save" => PeriodOpen(LocalDay[r.copy.time])

\* A decision has the request as it is; an adjustment that is applied knows
\* every marking of the day of a type it has yet to adjust.
DecisionHolds(h) ==
    /\ requests[h.qid] = h.copy
    /\ h.copy.user = h.user
    /\ h.next = Decided(h.copy, h.next.status, h.next.times)
    /\ h.pc # "decide" => PeriodOpen(h.next.day)
    /\ \A i \in RecordIds :
         /\ h.loaded[i] # Null => records[i] # Null /\ records[i].user = h.user
         /\ i \in RowsOf(h.user, h.next.day) /\ records[i].type \in h.todo =>
              h.loaded[i] # Null /\ h.loaded[i].type = records[i].type

DeskHolds(h) ==
    /\ h.pc = "file" => /\ h.next.status = "pending"
                        /\ h.next.user = h.user
                        /\ PeriodOpen(h.next.day)
    /\ h.pc \in {"decide", "load", "apply", "save"} => DecisionHolds(h)
    /\ h.pc \in {"remove", "destroy"} =>
         /\ requests[h.qid] # Null
         /\ requests[h.qid].user = h.user
         /\ requests[h.qid].day = h.key
    /\ h.pc = "destroy" => PeriodOpen(h.key)
    /\ h.pc \in {"find", "give"} => \A d \in First(h.days) : PeriodOpen(d)
    /\ h.pc = "give" => \A d \in First(h.days) : ~HasAbsence(h.user, d)

\* A closing has read the month as it is, and knows the status of its row.
ClosingHolds(c) ==
    /\ c.pc \in {"snapshot", "write"} =>
         /\ "records" \notin c.todo => c.recs = MonthFacts(c.month)
         /\ "absences" \notin c.todo => c.absences = MonthAbsences(c.month)
    /\ c.pc = "write" =>
         /\ c.todo = {}
         /\ closings[c.month].status # "closed"
         /\ c.found = (closings[c.month].status # "none")
    /\ c.pc = "reopen" => closings[c.month].status = "closed"

HandlersHold ==
    /\ \A s \in PunchSlots : punch[s] # Null => PunchHolds(punch[s])
    /\ \A s \in ReviewSlots : review[s] # Null => ReviewHolds(review[s])
    /\ \A s \in DeskSlots : desk[s] # Null => DeskHolds(desk[s])
    /\ \A s \in ClosingSlots : closing[s] # Null => ClosingHolds(closing[s])

\* Ids of requests are not reused (those of records: IdsUnused).
RequestIdsUnused == \A q \in RequestIds : q >= nextRequest => requests[q] = Null

SerialInv == Alone /\ HandlersHold /\ RequestIdsUnused

-----------------------------------------------------------------------------
(***************************************************************************)
(* Handlers stay alone.                                                    *)
(***************************************************************************)

\* Every handler goes on for the same user, or ends.
GoesOn ==
    /\ \A t \in PunchSlots : punch'[t] # Null =>
         punch[t] # Null /\ punch'[t].user = punch[t].user
    /\ \A t \in ReviewSlots : review'[t] # Null =>
         review[t] # Null /\ review'[t].user = review[t].user
    /\ \A t \in DeskSlots : desk'[t] # Null =>
         desk[t] # Null /\ desk'[t].user = desk[t].user
    /\ \A t \in ClosingSlots : closing'[t] # Null => closing[t] # Null

\* A handler starts for u, who has no other.
PunchEnters(s, u) ==
    /\ Quiet(u) /\ NoClosing
    /\ \A t \in PunchSlots : t # s => punch'[t] = punch[t]
    /\ punch'[s] # Null => punch'[s].user = u
    /\ UNCHANGED <<review, desk, closing>>

ReviewEnters(s, u) ==
    /\ Quiet(u) /\ NoClosing
    /\ \A t \in ReviewSlots : t # s => review'[t] = review[t]
    /\ review'[s] # Null => review'[s].user = u
    /\ UNCHANGED <<punch, desk, closing>>

DeskEnters(s, u) ==
    /\ Quiet(u) /\ NoClosing
    /\ \A t \in DeskSlots : t # s => desk'[t] = desk[t]
    /\ desk'[s] # Null => desk'[s].user = u
    /\ UNCHANGED <<punch, review, closing>>

ClosingEnters(s) ==
    /\ NoClosing
    /\ \A u \in Users : Quiet(u)
    /\ \A t \in ClosingSlots : t # s => closing'[t] = closing[t]
    /\ UNCHANGED <<punch, review, desk>>

\* A handler's user is one of the users.
LEMMA HandlerUser ==
    ASSUME TypeOK
    PROVE  /\ \A s \in PunchSlots : punch[s] # Null => punch[s].user \in Users
           /\ \A s \in ReviewSlots : review[s] # Null => review[s].user \in Users
           /\ \A s \in DeskSlots : desk[s] # Null => desk[s].user \in Users
<1>1. \A p \in PunchLocal : p.user \in Users
  BY DEF PunchLocal, Reading, Creating, Storing, MarkingAt, PunchSync
<1>2. \A r \in Reviewing \cup ReviewSync : r.user \in Users
  BY DEF Reviewing, ReviewSync
<1>3. \A h \in DeskLocal : h.user \in Users
  BY DEF DeskLocal, Filing, Deciding, Removing, Assigning, DeskSync
<1>4. QED
  BY <1>1, <1>2, <1>3
     DEF TypeOK, PunchTypeOK, ReviewTypeOK, DeskTypeOK

\* The handlers' functions keep the user when they change the pc.
LEMMA SameUser ==
    /\ \A pc : \A p \in PunchLocal : Goto(p, pc).user = p.user
    /\ \A type : \A p \in PunchLocal : Resolved(p, type).user = p.user
    /\ \A id : \A p \in PunchLocal : Inserted(p, id).user = p.user
    /\ \A p, flag : Syncing(p, flag).user = p.user
    /\ \A pc : \A r \in Reviewing : Goto(r, pc).user = r.user
    /\ \A pc : \A h \in DeskLocal : Goto(h, pc).user = h.user
    /\ \A t : \A h \in Deciding : Applied(h, t).user = h.user
    /\ \A rows : \A h \in Deciding : DayRead(h, rows).user = h.user
    /\ \A h \in PunchSync \cup ReviewSync \cup DeskSync :
         SeenRecords(h).user = h.user /\ SeenAbsences(h).user = h.user
<1>1. \A p \in PunchLocal : p = [f \in DOMAIN p |-> p[f]] /\ "user" \in DOMAIN p
  BY DEF PunchLocal, Reading, Creating, Storing, MarkingAt, PunchSync
<1>2. \A h \in DeskLocal : h = [f \in DOMAIN h |-> h[f]] /\ "user" \in DOMAIN h
  BY DEF DeskLocal, Filing, Deciding, Removing, Assigning, DeskSync
<1>3. \A pc : \A p \in PunchLocal : Goto(p, pc).user = p.user
  BY <1>1 DEF Goto
<1>4. \A type : \A p \in PunchLocal : Resolved(p, type).user = p.user
  BY <1>1 DEF Resolved
<1>5. \A id : \A p \in PunchLocal : Inserted(p, id).user = p.user
  BY <1>1 DEF Inserted
<1>6. \A p, flag : Syncing(p, flag).user = p.user
  BY DEF Syncing
<1>7. \A pc : \A r \in Reviewing : Goto(r, pc).user = r.user
  BY DEF Goto, Reviewing
<1>8. \A pc : \A h \in DeskLocal : Goto(h, pc).user = h.user
  BY <1>2 DEF Goto
<1>9. \A t : \A h \in Deciding : Applied(h, t).user = h.user
  BY DEF Applied, Deciding
<1>10. \A rows : \A h \in Deciding : DayRead(h, rows).user = h.user
  BY DEF DayRead, Deciding
<1>11. \A h \in PunchSync \cup ReviewSync \cup DeskSync :
         SeenRecords(h).user = h.user /\ SeenAbsences(h).user = h.user
  BY DEF SeenRecords, SeenAbsences, PunchSync, ReviewSync, DeskSync
<1>12. QED
  BY <1>3, <1>4, <1>5, <1>6, <1>7, <1>8, <1>9, <1>10, <1>11

\* A step of a punch that is under way.
LEMMA PunchGoesOn ==
    ASSUME TypeOK, NEW s \in PunchSlots,
           \/ PunchStep(s) \/ PunchEvidenceFails(s)
           \/ PunchDestroyFails(s) \/ PunchFails(s)
    PROVE  /\ punch[s] # Null
           /\ \A t \in PunchSlots : t # s => punch'[t] = punch[t]
           /\ punch'[s] # Null => punch'[s].user = punch[s].user
<1> USE SameUser DEF TypeOK, PunchTypeOK
<1>1. punch[s] # Null
  BY DEF PunchStep, PunchCheck, PunchResolve, PunchRefuse, PunchCreate,
         PunchEvidence, PunchEvidenceFails, PunchDestroy, PunchSyncRecords,
         PunchSyncAbsences, PunchUpsert, PunchFlag, PunchFails,
         PunchDestroyFails, PunchAt
<1>2. punch[s] \in PunchLocal
  BY <1>1
<1>3. PunchSyncRecords(s) \/ PunchSyncAbsences(s) => punch[s] \in PunchSync
  BY PunchKind DEF PunchSyncRecords, PunchSyncAbsences, SyncPCs
<1>4. QED
  BY <1>1, <1>2, <1>3
     DEF PunchStep, PunchCheck, PunchResolve, PunchRefuse, PunchCreate,
         PunchEvidence, PunchEvidenceFails, PunchDestroy, PunchSyncRecords,
         PunchSyncAbsences, PunchUpsert, PunchFlag, PunchFails,
         PunchDestroyFails, PunchEnds

LEMMA ReviewGoesOn ==
    ASSUME TypeOK, NEW s \in ReviewSlots, ReviewStep(s) \/ ReviewFails(s)
    PROVE  /\ review[s] # Null
           /\ \A t \in ReviewSlots : t # s => review'[t] = review[t]
           /\ review'[s] # Null => review'[s].user = review[s].user
<1> USE SameUser DEF TypeOK, ReviewTypeOK
<1>1. review[s] # Null
  BY DEF ReviewStep, ReviewCheck, ReviewSave, ReviewSyncRecords,
         ReviewSyncAbsences, ReviewUpsert, ReviewFails, ReviewAt
<1>2. ReviewCheck(s) \/ ReviewSave(s) => review[s] \in Reviewing
  BY ReviewKind DEF ReviewCheck, ReviewSave
<1>3. ReviewSyncRecords(s) \/ ReviewSyncAbsences(s) => review[s] \in ReviewSync
  BY ReviewKind DEF ReviewSyncRecords, ReviewSyncAbsences, SyncPCs
<1>4. QED
  BY <1>1, <1>2, <1>3
     DEF ReviewStep, ReviewCheck, ReviewSave, ReviewSyncRecords,
         ReviewSyncAbsences, ReviewUpsert, ReviewFails, ReviewEnds

LEMMA DeskGoesOn ==
    ASSUME TypeOK, NEW s \in DeskSlots, DeskStep(s) \/ DeskFails(s)
    PROVE  /\ desk[s] # Null
           /\ \A t \in DeskSlots : t # s => desk'[t] = desk[t]
           /\ desk'[s] # Null => desk'[s].user = desk[s].user
<1> USE SameUser DEF TypeOK, DeskTypeOK
<1>1. desk[s] # Null
  BY DEF DeskStep, FileCreate, DecideCheck, DecideReadDay, DecideAdjust,
         DecideInsert, DecideSave, RemoveCheck, RemoveDestroy, AssignCheck,
         AssignFind, AssignCreate, DeskSyncRecords, DeskSyncAbsences,
         DeskUpsert, DeskFails, DeskAt
<1>2. desk[s] \in DeskLocal
  BY <1>1
<1>3. DecideReadDay(s) \/ DecideAdjust(s) \/ DecideInsert(s) => desk[s] \in Deciding
  BY DeskKind DEF DecideReadDay, DecideAdjust, DecideInsert
<1>4. DeskSyncRecords(s) \/ DeskSyncAbsences(s) => desk[s] \in DeskSync
  BY DeskKind DEF DeskSyncRecords, DeskSyncAbsences, SyncPCs
<1>5. \A u, days : GoOn(u, days) # Null => GoOn(u, days).user = u
  BY DEF GoOn
<1>6. ASSUME NEW h, h # Null => h.user = desk[s].user,
             desk' = [desk EXCEPT ![s] = h]
      PROVE  /\ \A t \in DeskSlots : t # s => desk'[t] = desk[t]
             /\ desk'[s] # Null => desk'[s].user = desk[s].user
  BY <1>6
<1>7. CASE FileCreate(s) \/ DeskFails(s)
  BY <1>1, <1>6, <1>7 DEF FileCreate, DeskFails, DeskEnds
<1>8. CASE DecideCheck(s) \/ RemoveCheck(s) \/ AssignCheck(s)
  BY <1>1, <1>2, <1>8 DEF DecideCheck, RemoveCheck, AssignCheck, DeskGoes, DeskEnds
<1>9. CASE DecideReadDay(s)
  BY <1>1, <1>3, <1>6, <1>9 DEF DecideReadDay
<1>10. CASE DecideAdjust(s) \/ DecideInsert(s)
  <2>1. PICK t \in Types : ApplyEnds(s, t)
    BY <1>10 DEF DecideAdjust, DecideInsert
  <2>2. QED
    BY <1>1, <1>3, <1>6, <1>10, <2>1 DEF ApplyEnds
<1>11. CASE DecideSave(s) \/ RemoveDestroy(s) \/ AssignCreate(s)
  <2>1. PICK d, days : DeskSyncs(s, desk[s].user, d, days)
    BY <1>11 DEF DecideSave, RemoveDestroy, AssignCreate
  <2>2. QED
    BY <1>1, <1>6, <2>1 DEF DeskSyncs
<1>12. CASE AssignFind(s) \/ DeskUpsert(s)
  <2>1. \/ desk' = [desk EXCEPT ![s] = Goto(desk[s], "give")]
        \/ \E days : desk' = [desk EXCEPT ![s] = GoOn(desk[s].user, days)]
    BY <1>12 DEF AssignFind, DeskUpsert, DeskGoes
  <2>2. Goto(desk[s], "give").user = desk[s].user
    BY <1>2
  <2>3. QED
    BY <1>1, <1>5, <1>6, <2>1, <2>2
<1>13. CASE DeskSyncRecords(s) \/ DeskSyncAbsences(s)
  BY <1>1, <1>4, <1>13 DEF DeskSyncRecords, DeskSyncAbsences
<1>14. QED
  BY <1>1, <1>7, <1>8, <1>9, <1>10, <1>11, <1>12, <1>13 DEF DeskStep

\* Every step lets the handlers go on, or lets one enter.
LEMMA NextEnters ==
    ASSUME TypeOK, Serialized, [Next]_vars
    PROVE  \/ GoesOn
           \/ \E s \in PunchSlots, u \in Users : PunchEnters(s, u)
           \/ \E s \in ReviewSlots, u \in Users : ReviewEnters(s, u)
           \/ \E s \in DeskSlots, u \in Users : DeskEnters(s, u)
           \/ \E s \in ClosingSlots : ClosingEnters(s)
<1>1. CASE PunchNext
  <2>1. ASSUME NEW s \in PunchSlots, NEW u \in Users, NEW want \in Wants,
               NEW channel \in Channels, NEW rv \in BOOLEAN,
               MayStart(u), PunchStart(s, u, want, channel, rv)
        PROVE  PunchEnters(s, u)
    BY <1>1, <2>1
       DEF PunchNext, PunchStart, PunchEnters, MayStart, TypeOK, PunchTypeOK
  <2>2. ASSUME NEW s \in PunchSlots,
               \/ PunchStep(s) \/ PunchEvidenceFails(s)
               \/ PunchDestroyFails(s) \/ PunchFails(s)
        PROVE  GoesOn
    BY <1>1, <2>2, PunchGoesOn DEF PunchNext, GoesOn
  <2>3. QED
    BY <1>1, <2>1, <2>2 DEF PunchNext
<1>2. CASE ReviewNext
  <2>1. ASSUME NEW s \in ReviewSlots, NEW i \in RecordIds,
               NEW status \in RecordStatuses, NEW type \in NewTypes,
               NEW time \in Times, MayStart(records[i].user),
               records[i] # Null, ReviewLoad(s, i, status, type, time)
        PROVE  records[i].user \in Users /\ ReviewEnters(s, records[i].user)
    <3>1. records[i].user \in Users
      BY <2>1 DEF TypeOK, StoreTypeOK, Record
    <3>2. QED
      BY <1>2, <2>1, <3>1
         DEF ReviewNext, ReviewLoad, ReviewEnters, MayStart, TypeOK, ReviewTypeOK
  <2>2. ASSUME NEW s \in ReviewSlots, ReviewStep(s) \/ ReviewFails(s)
        PROVE  GoesOn
    BY <1>2, <2>2, ReviewGoesOn DEF ReviewNext, GoesOn
  <2>3. QED
    BY <1>2, <2>1, <2>2 DEF ReviewNext
<1>3. CASE DeskNext
  <2>1. ASSUME NEW s \in DeskSlots, DeskOpens(s)
        PROVE  \E u \in Users : DeskEnters(s, u)
    <3>1. ASSUME NEW u \in Users, NEW d \in Days, NEW kind \in Kinds,
                 NEW times \in Adjustments \cup {NoTimes}, MayStart(u),
                 FileStart(s, u, d, kind, times)
          PROVE  DeskEnters(s, u)
      BY <1>3, <3>1
         DEF DeskNext, FileStart, DeskEnters, MayStart, TypeOK, DeskTypeOK
    <3>2. ASSUME NEW q \in RequestIds, requests[q] # Null,
                 MayStart(requests[q].user),
                 \/ RemoveLoad(s, q)
                 \/ \E status, times : DecideLoad(s, q, status, times)
          PROVE  DeskEnters(s, requests[q].user) /\ requests[q].user \in Users
      <4>1. requests[q].user \in Users
        BY <3>2 DEF TypeOK, StoreTypeOK, Request
      <4>2. QED
        BY <1>3, <3>2, <4>1
           DEF DeskNext, RemoveLoad, DecideLoad, DeskEnters, MayStart, TypeOK,
               DeskTypeOK
    <3>3. ASSUME NEW u \in Users, NEW days \in SUBSET Days, MayStart(u),
                 AssignStart(s, u, days)
          PROVE  DeskEnters(s, u)
      BY <1>3, <3>3
         DEF DeskNext, AssignStart, GoOn, DeskEnters, MayStart, TypeOK,
             DeskTypeOK
    <3>4. QED
      BY <2>1, <3>1, <3>2, <3>3 DEF DeskOpens
  <2>2. ASSUME NEW s \in DeskSlots, DeskStep(s) \/ DeskFails(s)
        PROVE  GoesOn
    BY <1>3, <2>2, DeskGoesOn DEF DeskNext, GoesOn
  <2>3. QED
    BY <1>3, <2>1, <2>2 DEF DeskNext
<1>4. CASE ClosingNext
  <2> USE DEF TypeOK, ClosingTypeOK
  <2>1. ASSUME NEW s \in ClosingSlots, NEW m \in Months, MayClose,
               CloseStart(s, m) \/ ReopenFind(s, m)
        PROVE  ClosingEnters(s)
    BY <1>4, <2>1
       DEF ClosingNext, CloseStart, ReopenFind, ClosingEnters, MayClose
  <2>2. ASSUME NEW s \in ClosingSlots, ClosingStep(s) \/ ClosingFails(s)
        PROVE  GoesOn
    BY <1>4, <2>2
       DEF ClosingNext, GoesOn, ClosingStep, CloseReadRecords,
           CloseReadAbsences, CloseFind, CloseWrite, ReopenWrite, ClosingFails,
           ClosingEnds, ClosingAt
  <2>3. QED
    BY <1>4, <2>1, <2>2 DEF ClosingNext
<1>5. CASE Tick \/ Crash \/ UNCHANGED vars
  BY <1>5 DEF Tick, Crash, vars, handlers, GoesOn
<1>6. QED
  BY <1>1, <1>2, <1>3, <1>4, <1>5 DEF Next

LEMMA AloneNext ==
    ASSUME TypeOK, Serialized, Alone, [Next]_vars
    PROVE  Alone'
<1> USE DEF Alone, PunchAlone, ReviewAlone, DeskAlone, ClosingAlone
<1>1. CASE GoesOn
  BY <1>1 DEF GoesOn
<1>2. ASSUME NEW s \in PunchSlots, NEW u \in Users, PunchEnters(s, u)
      PROVE  Alone'
  BY <1>2 DEF PunchEnters, Quiet, NoClosing
<1>3. ASSUME NEW s \in ReviewSlots, NEW u \in Users, ReviewEnters(s, u)
      PROVE  Alone'
  BY <1>3 DEF ReviewEnters, Quiet, NoClosing
<1>4. ASSUME NEW s \in DeskSlots, NEW u \in Users, DeskEnters(s, u)
      PROVE  Alone'
  BY <1>4 DEF DeskEnters, Quiet, NoClosing
<1>5. ASSUME NEW s \in ClosingSlots, ClosingEnters(s)
      PROVE  Alone'
  BY <1>5, HandlerUser DEF ClosingEnters, Quiet, NoClosing
<1>6. QED
  BY <1>1, <1>2, <1>3, <1>4, <1>5, NextEnters

-----------------------------------------------------------------------------
(***************************************************************************)
(* A handler touches only the rows of its user.                            *)
(***************************************************************************)
Untouched(u) ==
    /\ closings' = closings
    /\ \A i \in RecordIds :
         \/ records'[i] = records[i]
         \/ /\ records[i] # Null => records[i].user # u
            /\ records'[i] # Null => records'[i].user # u
    /\ \A q \in RequestIds :
         \/ requests'[q] = requests[q]
         \/ /\ requests[q] # Null => requests[q].user # u
            /\ requests'[q] # Null => requests'[q].user # u

LEMMA UntouchedRows ==
    ASSUME NEW u, Untouched(u)
    PROVE  /\ \A i \in RecordIds :
                records[i] # Null /\ records[i].user = u => records'[i] = records[i]
           /\ \A d : RowsOf(u, d)' = RowsOf(u, d)
           /\ \A d : Live(RowsOf(u, d))' = Live(RowsOf(u, d))
           /\ \A d : HasAbsence(u, d)' = HasAbsence(u, d)
           /\ \A d : PeriodOpen(d)' = PeriodOpen(d)
<1>1. \A d : RowsOf(u, d)' = RowsOf(u, d)
  BY DEF Untouched, RowsOf
<1>2. \A i \in RecordIds :
        records[i] # Null /\ records[i].user = u => records'[i] = records[i]
  BY DEF Untouched
<1>3. \A d : Live(RowsOf(u, d))' = Live(RowsOf(u, d))
  BY <1>2 DEF Untouched, Live, RowsOf
<1>4. \A d : HasAbsence(u, d)' = HasAbsence(u, d)
  BY DEF Untouched, HasAbsence
<1>5. QED
  BY <1>1, <1>2, <1>3, <1>4 DEF Untouched, PeriodOpen

LEMMA PunchHoldsStable ==
    ASSUME TypeOK, NEW t \in PunchSlots, punch[t] # Null,
           PunchHolds(punch[t]), Untouched(punch[t].user),
           punch'[t] = punch[t]
    PROVE  PunchHolds(punch[t])'
<1> DEFINE p == punch[t]
           u == punch[t].user
<1>1. \A i \in RecordIds : Editable(i, u) => Editable(i, u)'
  BY UntouchedRows DEF Editable, PeriodOpen, Untouched
<1>2. PeriodOpen(LocalDay[p.at])' = PeriodOpen(LocalDay[p.at])
  BY DEF PeriodOpen, Untouched
<1>3. Today(p)' = Today(p)
  BY UntouchedRows DEF Today
<1>4. \A i \in Today(p) : records'[i] = records[i]
  BY UntouchedRows DEF Today, Live, RowsOf
<1>5. TypesToday(p)' = TypesToday(p) /\ IsRecent(p)' = IsRecent(p)
  BY <1>3, <1>4 DEF TypesToday, IsRecent
<1>6. /\ p.pc \in {"evidence", "destroy"} => p.rid \in RecordIds
      /\ p.pc \in SyncPCs \cup {"flag"} => p.flag = 0 \/ p.flag \in RecordIds
  <2>1. p.pc \in {"evidence", "destroy"} => p \in Storing
    BY PunchKind DEF TypeOK, PunchAt
  <2>2. p.pc \in SyncPCs \cup {"flag"} => p \in PunchSync
    BY PunchKind DEF TypeOK, PunchAt
  <2>3. QED
    BY <2>1, <2>2, StoreAssumption DEF Storing, MarkingAt, PunchSync, RecordIds
<1>7. QED
  BY <1>1, <1>2, <1>5, <1>6 DEF PunchHolds

LEMMA ReviewHoldsStable ==
    ASSUME TypeOK, NEW t \in ReviewSlots, review[t] # Null,
           ReviewHolds(review[t]), Untouched(review[t].user),
           review'[t] = review[t]
    PROVE  ReviewHolds(review[t])'
<1>1. review[t].pc \in {"period", "save"} =>
        /\ review[t].rid \in RecordIds
        /\ review[t].copy # Null
  BY ReviewKind, NullAssumption DEF TypeOK, ReviewAt, Reviewing
<1>2. QED
  BY <1>1, UntouchedRows DEF ReviewHolds, PeriodOpen, Untouched

LEMMA DecisionHoldsStable ==
    ASSUME TypeOK, NEW t \in DeskSlots, desk[t] \in Deciding,
           DecisionHolds(desk[t]), Untouched(desk[t].user), desk'[t] = desk[t]
    PROVE  DecisionHolds(desk[t])'
<1> DEFINE h == desk[t]
<1>1. /\ h.qid \in RequestIds /\ h.copy # Null
      /\ requests[h.qid] = h.copy
      /\ h.copy.user = h.user
  BY NullAssumption DEF Deciding, DecisionHolds
<1>2. requests'[h.qid] = requests[h.qid]
  BY <1>1 DEF Untouched
<1>3. RowsOf(h.user, h.next.day)' = RowsOf(h.user, h.next.day)
  BY UntouchedRows
<1>4. ASSUME NEW i \in RecordIds
      PROVE  /\ h.loaded[i] # Null => records'[i] # Null /\ records'[i].user = h.user
             /\ i \in RowsOf(h.user, h.next.day) /\ records'[i].type \in h.todo =>
                  h.loaded[i] # Null /\ h.loaded[i].type = records'[i].type
  <2>1. records'[i] = records[i]
        \/ (records[i] = Null \/ records[i].user # h.user)
    BY <1>4 DEF Untouched
  <2>2. QED
    BY <2>1, <1>4 DEF DecisionHolds, RowsOf, Untouched
<1>5. PeriodOpen(h.next.day)' = PeriodOpen(h.next.day)
  BY DEF PeriodOpen, Untouched
<1>6. QED
  BY <1>1, <1>2, <1>3, <1>4, <1>5 DEF DecisionHolds

LEMMA DeskHoldsStable ==
    ASSUME TypeOK, NEW t \in DeskSlots, desk[t] # Null,
           DeskHolds(desk[t]), Untouched(desk[t].user), desk'[t] = desk[t]
    PROVE  DeskHolds(desk[t])'
<1> DEFINE h == desk[t]
<1>1. h.pc \in {"decide", "load", "apply", "save"} => DecisionHolds(h)'
  BY DeskKind, DecisionHoldsStable DEF DeskHolds, TypeOK, DeskAt
<1>2. h.pc \in {"remove", "destroy"} => h.qid \in RequestIds
  BY DeskKind DEF TypeOK, DeskAt, Removing
<1>3. h.pc \in {"remove", "destroy"} => requests'[h.qid] = requests[h.qid]
  BY <1>2 DEF DeskHolds, Untouched
<1>4. \A d : /\ PeriodOpen(d)' = PeriodOpen(d)
             /\ HasAbsence(h.user, d)' = HasAbsence(h.user, d)
  BY UntouchedRows
<1>5. QED
  BY <1>1, <1>3, <1>4 DEF DeskHolds

-----------------------------------------------------------------------------
(***************************************************************************)
(* A step of a handler keeps what it needs later, and others' rows.        *)
(***************************************************************************)
LeavesOthers(w) == \A u \in Users : u # w => Untouched(u)

LEMMA TablesUntouched ==
    ASSUME NEW w, UNCHANGED <<records, requests, closings>>
    PROVE  LeavesOthers(w)
BY DEF LeavesOthers, Untouched

\* A step that writes one row of time_records, of user w before and after.
LEMMA RecordUntouched ==
    ASSUME StoreTypeOK, NEW w, NEW j, NEW row,
           records' = [records EXCEPT ![j] = row],
           UNCHANGED <<requests, closings>>,
           j \in RecordIds => records[j] = Null \/ records[j].user = w,
           j \in RecordIds => row = Null \/ row.user = w
    PROVE  LeavesOthers(w)
BY DEF LeavesOthers, Untouched, StoreTypeOK

LEMMA RequestUntouched ==
    ASSUME StoreTypeOK, NEW w, NEW j, NEW row,
           requests' = [requests EXCEPT ![j] = row],
           UNCHANGED <<records, closings>>,
           j \in RequestIds => requests[j] = Null \/ requests[j].user = w,
           j \in RequestIds => row = Null \/ row.user = w
    PROVE  LeavesOthers(w)
BY DEF LeavesOthers, Untouched, StoreTypeOK

\* The fields a punch keeps.
LEMMA PunchFields ==
    /\ \A p \in Reading : LET q == Goto(p, "read") IN
         q.pc = "read" /\ q.user = p.user /\ q.at = p.at
    /\ \A p \in Reading, type \in Types : LET q == Resolved(p, type) IN
         q.pc = "create" /\ q.user = p.user /\ q.at = p.at /\ q.type = type
    /\ \A p \in Creating, id \in RecordIds : LET q == Inserted(p, id) IN
         q.pc = "evidence" /\ q.user = p.user /\ q.rid = id
    /\ \A p \in Storing : LET q == Goto(p, "destroy") IN
         q.pc = "destroy" /\ q.user = p.user /\ q.rid = p.rid
    /\ \A p, flag : LET q == Syncing(p, flag) IN
         q.pc = "records" /\ q.user = p.user /\ q.flag = flag
    /\ \A p \in PunchSync :
         /\ \A q \in {SeenRecords(p), SeenAbsences(p), Goto(p, "flag")} :
              q.user = p.user /\ q.flag = p.flag
         /\ SeenRecords(p).pc = "absences" /\ SeenAbsences(p).pc = "upsert"
         /\ Goto(p, "flag").pc = "flag"
<1> USE DEF Goto
<1>1. \A p \in Reading : LET q == Goto(p, "read") IN
        q.pc = "read" /\ q.user = p.user /\ q.at = p.at
  BY DEF Reading, MarkingAt
<1>2. \A p \in Reading, type \in Types : LET q == Resolved(p, type) IN
        q.pc = "create" /\ q.user = p.user /\ q.at = p.at /\ q.type = type
  BY DEF Reading, MarkingAt, Resolved
<1>3. \A p \in Creating, id \in RecordIds : LET q == Inserted(p, id) IN
        q.pc = "evidence" /\ q.user = p.user /\ q.rid = id
  BY DEF Creating, MarkingAt, Inserted
<1>4. \A p \in Storing : LET q == Goto(p, "destroy") IN
        q.pc = "destroy" /\ q.user = p.user /\ q.rid = p.rid
  BY DEF Storing, MarkingAt
<1>5. \A p, flag : LET q == Syncing(p, flag) IN
        q.pc = "records" /\ q.user = p.user /\ q.flag = flag
  BY DEF Syncing
<1>6. \A p \in PunchSync :
        /\ \A q \in {SeenRecords(p), SeenAbsences(p), Goto(p, "flag")} :
             q.user = p.user /\ q.flag = p.flag
        /\ SeenRecords(p).pc = "absences" /\ SeenAbsences(p).pc = "upsert"
        /\ Goto(p, "flag").pc = "flag"
  BY DEF SeenRecords, SeenAbsences, PunchSync
<1>7. QED
  BY <1>1, <1>2, <1>3, <1>4, <1>5, <1>6

\* The rows a punch writes are its user's.
LEMMA PunchLeavesOthers ==
    ASSUME TypeOK, IdsUnused, NEW s \in PunchSlots, PunchHolds(punch[s]),
           \/ PunchStep(s) \/ PunchEvidenceFails(s)
           \/ PunchDestroyFails(s) \/ PunchFails(s)
    PROVE  LeavesOthers(punch[s].user)
<1> USE DEF TypeOK
<1>1. CASE PunchCreate(s)
  <2>1. records[nextRecord] = Null \/ nextRecord \notin RecordIds
    BY StoreAssumption DEF IdsUnused, StoreTypeOK, RecordIds
  <2>2. QED
    BY <1>1, <2>1, RecordUntouched DEF PunchCreate, InsertRecord
<1>2. CASE PunchDestroy(s)
  <2>1. Editable(punch[s].rid, punch[s].user)
    BY <1>2 DEF PunchDestroy, PunchAt, PunchHolds
  <2>2. QED
    BY <1>2, <2>1, RecordUntouched DEF PunchDestroy, Editable
<1>3. CASE PunchFlag(s)
  <2> DEFINE j == punch[s].flag
  <2>1. j \in RecordIds => records[j] \in Record /\ records[j].user = punch[s].user
    BY <1>3, StoreAssumption
       DEF PunchFlag, PunchAt, PunchHolds, Editable, StoreTypeOK, RecordIds
  <2>2. \A row \in Record : ToApproval(row).user = row.user
    BY NullAssumption DEF ToApproval, Record
  <2>3. QED
    BY <1>3, <2>1, <2>2, RecordUntouched DEF PunchFlag
<1>4. CASE UNCHANGED <<records, requests, closings>>
  BY <1>4, TablesUntouched
<1>5. QED
  BY <1>1, <1>2, <1>3, <1>4
     DEF PunchStep, PunchCheck, PunchResolve, PunchRefuse,
         PunchEvidence, PunchEvidenceFails, PunchSyncRecords,
         PunchSyncAbsences, PunchUpsert, PunchFails,
         PunchDestroyFails, storeVars, tables

LEMMA PunchHoldsNext ==
    ASSUME TypeOK, NEW s \in PunchSlots, PunchHolds(punch[s]),
           \/ PunchStep(s) \/ PunchEvidenceFails(s)
           \/ PunchDestroyFails(s) \/ PunchFails(s)
    PROVE  punch'[s] # Null => PunchHolds(punch[s])'
<1> USE DEF TypeOK, PunchTypeOK
<1> DEFINE p == punch[s]
<1>1. CASE PunchCheck(s)
  <2>1. p \in Reading
    BY <1>1, PunchKind DEF PunchCheck
  <2>2. QED
    BY <1>1, <2>1, PunchFields
       DEF PunchCheck, PunchEnds, PunchHolds, PeriodOpen, storeVars, tables, SyncPCs
<1>2. CASE PunchResolve(s)
  <2>1. p \in Reading
    BY <1>2, PunchKind DEF PunchResolve
  <2>2. PICK type \in Types :
          /\ Accepts(p.type, TypesToday(p), type)
          /\ punch' = [punch EXCEPT ![s] = Resolved(p, type)]
    BY <1>2 DEF PunchResolve
  <2>3. /\ punch'[s].pc = "create" /\ punch'[s].user = p.user
        /\ punch'[s].at = p.at /\ punch'[s].type = type
    BY <2>1, <2>2, PunchFields
  <2>4. UNCHANGED <<records, closings>>
    BY <1>2 DEF PunchResolve, storeVars, tables
  <2>5. Today(p)' = Today(p)
    BY <2>3, <2>4 DEF Today, Live, RowsOf
  <2>6. TypesToday(p)' = TypesToday(p) /\ IsRecent(p)' = IsRecent(p)
    BY <2>3, <2>4, <2>5 DEF TypesToday, IsRecent
  <2>7. PeriodOpen(LocalDay[p.at])' /\ ~IsRecent(p)
    BY <1>2, <2>3, <2>4 DEF PunchResolve, PunchAt, PunchHolds, PeriodOpen
  <2>8. p.type \in Types \cup {"auto"}
    BY <2>1 DEF Reading, MarkingAt
  <2>9. QED
    BY <2>2, <2>3, <2>6, <2>7, <2>8 DEF PunchHolds, SyncPCs
<1>3. CASE PunchCreate(s)
  <2>1. p \in Creating /\ nextRecord \in RecordIds
    BY <1>3, PunchKind, StoreAssumption
       DEF PunchCreate, InsertRecord, StoreTypeOK, RecordIds
  <2>2. /\ records'[nextRecord].user = p.user
        /\ records'[nextRecord].time = p.at
        /\ closings' = closings
    BY <1>3, <2>1 DEF PunchCreate, InsertRecord, StoreTypeOK
  <2>3. records'[nextRecord] # Null
    <3>1. records'[nextRecord] \in Record
      BY <1>3, <2>1
         DEF PunchCreate, InsertRecord, StoreTypeOK, Record, RecordStatuses,
             Creating, MarkingAt
    <3>2. QED
      BY <3>1, NullAssumption
  <2>4. PeriodOpen(LocalDay[p.at])
    BY <1>3 DEF PunchCreate, PunchAt, PunchHolds
  <2>5. /\ records'[nextRecord] # Null
        /\ records'[nextRecord].user = p.user
        /\ closings'[MonthOf[LocalDay[records'[nextRecord].time]]].status # "closed"
    BY <2>2, <2>3, <2>4 DEF PeriodOpen
  <2>6. \/ /\ punch'[s].pc = "evidence" /\ punch'[s].user = p.user
           /\ punch'[s].rid = nextRecord
        \/ /\ punch'[s].pc = "records" /\ punch'[s].user = p.user
           /\ punch'[s].flag \in {0, nextRecord}
    BY <1>3, <2>1, PunchFields DEF PunchCreate
  <2>7. QED
    BY <2>5, <2>6 DEF PunchHolds, Editable, PeriodOpen, SyncPCs
<1>4. CASE PunchEvidence(s)
  BY <1>4, PunchFields DEF PunchEvidence, PunchHolds, SyncPCs
<1>5. CASE PunchEvidenceFails(s)
  <2>1. p \in Storing
    BY <1>5, PunchKind DEF PunchEvidenceFails
  <2>2. QED
    BY <1>5, <2>1, PunchFields
       DEF PunchEvidenceFails, PunchAt, PunchHolds, Editable, PeriodOpen,
           storeVars, tables, SyncPCs
<1>6. CASE PunchSyncRecords(s) \/ PunchSyncAbsences(s)
  <2>1. p \in PunchSync
    BY <1>6, PunchKind DEF PunchSyncRecords, PunchSyncAbsences, SyncPCs
  <2>2. QED
    BY <1>6, <2>1, PunchFields
       DEF PunchSyncRecords, PunchSyncAbsences, PunchAt, PunchHolds, Editable,
           PeriodOpen, storeVars, tables, SyncPCs
<1>7. CASE PunchUpsert(s)
  <2>1. p \in PunchSync
    BY <1>7, PunchKind DEF PunchUpsert, SyncPCs
  <2>2. QED
    BY <1>7, <2>1, PunchFields
       DEF PunchUpsert, PunchAt, PunchEnds, PunchHolds, Editable, PeriodOpen,
           SyncPCs
<1>8. CASE \/ PunchRefuse(s) \/ PunchDestroy(s) \/ PunchFlag(s)
           \/ PunchDestroyFails(s) \/ PunchFails(s)
  BY <1>8 DEF PunchRefuse, PunchDestroy, PunchFlag, PunchFails,
         PunchDestroyFails, PunchEnds
<1>9. QED
  BY <1>1, <1>2, <1>3, <1>4, <1>5, <1>6, <1>7, <1>8 DEF PunchStep

LEMMA ReviewFields ==
    /\ \A r \in Reviewing : LET q == Goto(r, "save") IN
         /\ q.pc = "save" /\ q.user = r.user /\ q.rid = r.rid
         /\ q.copy = r.copy /\ q.next = r.next
    /\ \A r \in ReviewSync :
         SeenRecords(r).pc = "absences" /\ SeenAbsences(r).pc = "upsert"
    /\ \A copy \in Record, status \in RecordStatuses, type \in Types, time \in Times :
         Reviewed(copy, status, type, time).user = copy.user
BY DEF Goto, SeenRecords, SeenAbsences, Reviewing, ReviewSync, Reviewed, Record

LEMMA ReviewLeavesOthers ==
    ASSUME TypeOK, NEW s \in ReviewSlots, ReviewHolds(review[s]),
           ReviewStep(s) \/ ReviewFails(s)
    PROVE  LeavesOthers(review[s].user)
<1> USE DEF TypeOK
<1>1. CASE ReviewSave(s)
  <2> DEFINE r == review[s]
             row == SavedRecord(records[r.rid], r.copy, r.next)
  <2>1. r \in Reviewing
    BY <1>1, ReviewKind DEF ReviewSave
  <2>2. /\ records[r.rid] = r.copy
        /\ r.copy.user = r.user
        /\ r.copy \in Record /\ r.next \in Record
    BY <1>1, <2>1 DEF ReviewSave, ReviewAt, ReviewHolds, Reviewing
  <2>3. row.user = r.user
    BY <2>2, SavedRecordType
  <2>4. QED
    BY <1>1, <2>2, <2>3, RecordUntouched DEF ReviewSave
<1>2. CASE UNCHANGED <<records, requests, closings>>
  BY <1>2, TablesUntouched
<1>3. QED
  BY <1>1, <1>2
     DEF ReviewStep, ReviewCheck, ReviewSyncRecords, ReviewSyncAbsences,
         ReviewUpsert, ReviewFails, storeVars, tables

LEMMA ReviewHoldsNext ==
    ASSUME TypeOK, NEW s \in ReviewSlots, ReviewHolds(review[s]),
           ReviewStep(s) \/ ReviewFails(s)
    PROVE  review'[s] # Null => ReviewHolds(review[s])'
<1> USE DEF TypeOK, ReviewTypeOK
<1>1. CASE ReviewCheck(s)
  <2>1. review[s] \in Reviewing
    BY <1>1, ReviewKind DEF ReviewCheck
  <2>2. QED
    BY <1>1, <2>1, ReviewFields
       DEF ReviewCheck, ReviewAt, ReviewEnds, ReviewHolds, PeriodOpen,
           storeVars, tables
<1>2. CASE ReviewSave(s)
  BY <1>2 DEF ReviewSave, ReviewHolds
<1>3. CASE ReviewSyncRecords(s) \/ ReviewSyncAbsences(s)
  <2>1. review[s] \in ReviewSync
    BY <1>3, ReviewKind DEF ReviewSyncRecords, ReviewSyncAbsences, SyncPCs
  <2>2. QED
    BY <1>3, <2>1, ReviewFields
       DEF ReviewSyncRecords, ReviewSyncAbsences, ReviewHolds
<1>4. CASE ReviewUpsert(s) \/ ReviewFails(s)
  BY <1>4 DEF ReviewUpsert, ReviewFails, ReviewEnds
<1>5. QED
  BY <1>1, <1>2, <1>3, <1>4 DEF ReviewStep

-----------------------------------------------------------------------------
LEMMA DeskFields ==
    /\ \A h \in Deciding, pc \in {"load", "save"} : LET q == Goto(h, pc) IN
         /\ q.pc = pc /\ q.user = h.user /\ q.qid = h.qid /\ q.copy = h.copy
         /\ q.next = h.next /\ q.loaded = h.loaded /\ q.todo = h.todo
    /\ \A h \in Deciding, t \in Types : LET q == Applied(h, t) IN
         /\ q.pc \in {"apply", "save"} /\ q.user = h.user /\ q.qid = h.qid
         /\ q.copy = h.copy /\ q.next = h.next /\ q.loaded = h.loaded
         /\ q.todo = h.todo \ {t}
    /\ \A h \in Deciding : \A rows : LET q == DayRead(h, rows) IN
         /\ q.pc = "apply" /\ q.user = h.user /\ q.qid = h.qid
         /\ q.copy = h.copy /\ q.next = h.next /\ q.loaded = rows
         /\ q.todo = Asked(h.next.times)
    /\ \A h \in Removing : LET q == Goto(h, "destroy") IN
         q.pc = "destroy" /\ q.user = h.user /\ q.qid = h.qid /\ q.key = h.key
    /\ \A h \in Assigning, pc \in {"find", "give"} : LET q == Goto(h, pc) IN
         q.pc = pc /\ q.user = h.user /\ q.days = h.days
    /\ \A u, days : GoOn(u, days) # Null => GoOn(u, days).pc = "assign"
    /\ \A h \in DeskSync :
         SeenRecords(h).pc = "absences" /\ SeenAbsences(h).pc = "upsert"
<1>1. \A h \in Deciding, pc \in {"load", "save"} : LET q == Goto(h, pc) IN
        /\ q.pc = pc /\ q.user = h.user /\ q.qid = h.qid /\ q.copy = h.copy
        /\ q.next = h.next /\ q.loaded = h.loaded /\ q.todo = h.todo
  BY DEF Goto, Deciding
<1>2. \A h \in Deciding, t \in Types : LET q == Applied(h, t) IN
        /\ q.pc \in {"apply", "save"} /\ q.user = h.user /\ q.qid = h.qid
        /\ q.copy = h.copy /\ q.next = h.next /\ q.loaded = h.loaded
        /\ q.todo = h.todo \ {t}
  BY DEF Applied, Deciding
<1>3. \A h \in Deciding : \A rows : LET q == DayRead(h, rows) IN
        /\ q.pc = "apply" /\ q.user = h.user /\ q.qid = h.qid
        /\ q.copy = h.copy /\ q.next = h.next /\ q.loaded = rows
        /\ q.todo = Asked(h.next.times)
  BY DEF DayRead, Deciding
<1>4. \A h \in Removing : LET q == Goto(h, "destroy") IN
        q.pc = "destroy" /\ q.user = h.user /\ q.qid = h.qid /\ q.key = h.key
  BY DEF Goto, Removing
<1>5. \A h \in Assigning, pc \in {"find", "give"} : LET q == Goto(h, pc) IN
        q.pc = pc /\ q.user = h.user /\ q.days = h.days
  BY DEF Goto, Assigning
<1>6. \A u, days : GoOn(u, days) # Null => GoOn(u, days).pc = "assign"
  BY DEF GoOn
<1>7. \A h \in DeskSync :
        SeenRecords(h).pc = "absences" /\ SeenAbsences(h).pc = "upsert"
  BY DEF SeenRecords, SeenAbsences, DeskSync
<1>8. QED
  BY <1>1, <1>2, <1>3, <1>4, <1>5, <1>6, <1>7

\* An assignment is at one day at a time.
LEMMA FirstIsOne ==
    ASSUME NEW days \in SUBSET Days, NEW d \in First(days)
    PROVE  First(days) = {d} /\ d \in days
<1>1. d \in days /\ \A e \in days : e \in Nat
  BY StoreAssumption DEF First
<1>2. \A e \in First(days) : e \in days /\ e <= d /\ d <= e
  BY <1>1 DEF First
<1>3. \A e \in First(days) : e = d
  BY <1>1, <1>2
<1>4. QED
  BY <1>1, <1>3

\* What a decision holds, by name.
LEMMA DecidingHolds ==
    ASSUME TypeOK, NEW s \in DeskSlots, DeskHolds(desk[s]),
           NEW pc \in {"decide", "load", "apply", "save"}, DeskAt(s, pc)
    PROVE  /\ desk[s] \in Deciding
           /\ DecisionHolds(desk[s])
           /\ desk[s].qid \in RequestIds
           /\ desk[s].copy \in Request /\ desk[s].next \in Request
           /\ desk[s].next.user = desk[s].user
           /\ desk[s].next.day = desk[s].copy.day
           /\ desk[s].next.kind = desk[s].copy.kind
<1>1. desk[s] \in Deciding /\ DecisionHolds(desk[s])
  BY DeskKind DEF TypeOK, DeskAt, DeskHolds
<1>2. QED
  BY <1>1 DEF Deciding, DecisionHolds, Decided, Request

LEMMA DeskLeavesOthers ==
    ASSUME TypeOK, WritesStayOnDay, RequestIdsUnused, NEW s \in DeskSlots,
           DeskHolds(desk[s]), DeskStep(s) \/ DeskFails(s)
    PROVE  LeavesOthers(desk[s].user)
<1> USE DEF TypeOK
<1> DEFINE h == desk[s]
<1>1. /\ records[nextRecord] = Null \/ nextRecord \notin RecordIds
      /\ requests[nextRequest] = Null \/ nextRequest \notin RequestIds
  BY StoreAssumption
     DEF WritesStayOnDay, IdsUnused, RequestIdsUnused, StoreTypeOK, RecordIds,
         RequestIds
<1>2. CASE FileCreate(s)
  BY <1>1, <1>2, RequestUntouched
     DEF FileCreate, InsertRequest, DeskAt, DeskHolds
<1>3. CASE DecideAdjust(s)
  <2>1. h \in Deciding /\ DecisionHolds(h)
    BY <1>3, DecidingHolds DEF DecideAdjust
  <2>2. PICK t \in Types, i \in RecordIds :
          /\ NextToApply(h, t)
          /\ i \in OfType(h, t)
          /\ records' = [records EXCEPT ![i] =
                          SavedRecord(records[i], h.loaded[i],
                                      Adjusted(h.loaded[i], h.next.times[t]))]
    BY <1>3 DEF DecideAdjust
  <2>3. records[i] # Null /\ records[i].user = h.user
    BY <2>1, <2>2 DEF OfType, DecisionHolds
  <2>4. SavedRecord(records[i], h.loaded[i],
                    Adjusted(h.loaded[i], h.next.times[t])).user = h.user
    BY <2>3 DEF SavedRecord
  <2>5. QED
    BY <1>3, <2>2, <2>3, <2>4, RecordUntouched DEF DecideAdjust
<1>4. CASE DecideInsert(s)
  BY <1>1, <1>4, RecordUntouched DEF DecideInsert, InsertRecord
<1>5. CASE DecideSave(s)
  <2>1. /\ requests[h.qid] = h.copy /\ h.copy.user = h.user
        /\ h.copy \in Request
    BY <1>5, DecidingHolds DEF DecideSave, DecisionHolds
  <2>2. SavedRequest(requests[h.qid], h.copy, h.next).user = h.user
    BY <2>1, NullAssumption DEF SavedRequest
  <2>3. QED
    BY <1>5, <2>1, <2>2, RequestUntouched DEF DecideSave
<1>6. CASE RemoveDestroy(s)
  BY <1>6, RequestUntouched DEF RemoveDestroy, DeskAt, DeskHolds
<1>7. CASE AssignCreate(s)
  BY <1>1, <1>7, RequestUntouched DEF AssignCreate, InsertRequest
<1>8. CASE \/ DecideCheck(s) \/ DecideReadDay(s) \/ RemoveCheck(s)
           \/ AssignCheck(s) \/ AssignFind(s) \/ DeskSyncRecords(s)
           \/ DeskSyncAbsences(s) \/ DeskUpsert(s) \/ DeskFails(s)
  <2>1. UNCHANGED <<records, requests, closings>>
    BY <1>8
       DEF DecideCheck, DecideReadDay, RemoveCheck, AssignCheck, AssignFind,
           DeskSyncRecords, DeskSyncAbsences, DeskUpsert, DeskFails, storeVars,
           tables
  <2>2. QED
    BY <2>1, TablesUntouched
<1>9. QED
  BY <1>2, <1>3, <1>4, <1>5, <1>6, <1>7, <1>8 DEF DeskStep

LEMMA DecisionHoldsNext ==
    ASSUME TypeOK, WritesStayOnDay, NEW s \in DeskSlots, DeskHolds(desk[s]),
           \/ DecideCheck(s) \/ DecideReadDay(s) \/ DecideAdjust(s)
           \/ DecideInsert(s)
    PROVE  desk'[s] # Null => DeskHolds(desk[s])'
<1> USE DEF TypeOK, DeskTypeOK
<1> DEFINE h == desk[s]
<1>1. h \in Deciding /\ DecisionHolds(h) /\ h.qid \in RequestIds
      /\ \E pc \in {"decide", "load", "apply", "save"} : DeskAt(s, pc)
  BY DecidingHolds DEF DecideCheck, DecideReadDay, DecideAdjust, DecideInsert
<1>2. SUFFICES ASSUME desk'[s] # Null
               PROVE  /\ desk'[s].pc \in {"load", "apply", "save"}
                      /\ DecisionHolds(desk[s])'
  BY DEF DeskHolds
<1>3. UNCHANGED <<requests, closings>>
  BY DEF DecideCheck, DecideReadDay, DecideAdjust, DecideInsert, storeVars, tables
<1>4. CASE DecideCheck(s)
  <2>1. records' = records /\ PeriodOpen(h.next.day)
    BY <1>2, <1>4 DEF DecideCheck, DeskEnds, storeVars, tables
  <2>2. desk'[s] \in {Goto(h, "load"), Goto(h, "save")}
    BY <1>2, <1>4 DEF DecideCheck, DeskGoes, DeskEnds
  <2>3. /\ desk'[s].pc \in {"load", "save"} /\ desk'[s].user = h.user
        /\ desk'[s].qid = h.qid /\ desk'[s].copy = h.copy
        /\ desk'[s].next = h.next /\ desk'[s].loaded = h.loaded
        /\ desk'[s].todo = h.todo
    BY <1>1, <2>2, DeskFields
  <2>4. QED
    BY <1>1, <1>3, <2>1, <2>3 DEF DecisionHolds, PeriodOpen, RowsOf
<1>5. CASE DecideReadDay(s)
  <2> DEFINE today == RowsOf(h.user, h.next.day)
             rows == [i \in RecordIds |-> IF i \in today THEN records[i] ELSE Null]
  <2>1. records' = records /\ h.pc = "load" /\ desk'[s] = DayRead(h, rows)
    BY <1>5 DEF DecideReadDay, DeskAt, storeVars, tables
  <2>2. /\ desk'[s].pc = "apply" /\ desk'[s].user = h.user
        /\ desk'[s].qid = h.qid /\ desk'[s].copy = h.copy
        /\ desk'[s].next = h.next /\ desk'[s].loaded = rows
    BY <1>1, <2>1, DeskFields
  <2>3. RowsOf(h.user, h.next.day)' = today
    BY <2>1, <2>2 DEF RowsOf
  <2>4. \A i \in RecordIds :
          /\ rows[i] # Null => records[i] # Null /\ records[i].user = h.user
          /\ i \in today => rows[i] = records[i] /\ records[i] # Null
    BY DEF RowsOf
  <2>5. PeriodOpen(h.next.day)'
    BY <1>1, <1>3, <2>1, <2>2 DEF DecisionHolds, PeriodOpen
  <2>6. QED
    BY <1>1, <1>3, <2>1, <2>2, <2>3, <2>4, <2>5 DEF DecisionHolds
<1>6. ASSUME NEW t \in Types, ApplyEnds(s, t), DeskAt(s, "apply"),
             \A i \in RecordIds :
               \/ records'[i] = records[i]
               \/ /\ records'[i] # Null /\ records'[i].user = h.user
                  /\ \/ records'[i].type = t
                     \/ /\ i \in RowsOf(h.user, h.next.day)
                        /\ records'[i].type = records[i].type
      PROVE  /\ desk'[s].pc \in {"load", "apply", "save"}
             /\ DecisionHolds(desk[s])'
  <2>1. desk'[s] = Applied(h, t)
    BY <1>6 DEF ApplyEnds
  <2>2. /\ desk'[s].pc \in {"apply", "save"} /\ desk'[s].user = h.user
        /\ desk'[s].qid = h.qid /\ desk'[s].copy = h.copy
        /\ desk'[s].next = h.next /\ desk'[s].loaded = h.loaded
        /\ desk'[s].todo = h.todo \ {t}
    BY <1>1, <2>1, DeskFields
  <2>3. PeriodOpen(h.next.day)'
    BY <1>1, <1>3, <1>6, <2>2 DEF DecisionHolds, PeriodOpen, DeskAt
  <2>4. ASSUME NEW i \in RecordIds
        PROVE  /\ h.loaded[i] # Null => records'[i] # Null /\ records'[i].user = h.user
               /\ i \in RowsOf(h.user, h.next.day)' /\ records'[i].type \in h.todo \ {t} =>
                    h.loaded[i] # Null /\ h.loaded[i].type = records'[i].type
    BY <1>1, <1>6, <2>2, <2>4 DEF DecisionHolds, RowsOf
  <2>5. QED
    BY <1>1, <1>3, <2>2, <2>3, <2>4 DEF DecisionHolds
<1>7. CASE DecideAdjust(s)
  <2>1. PICK t \in Types, j \in RecordIds :
          /\ NextToApply(h, t)
          /\ j \in OfType(h, t)
          /\ records' = [records EXCEPT ![j] =
                          SavedRecord(records[j], h.loaded[j],
                                      Adjusted(h.loaded[j], h.next.times[t]))]
          /\ ApplyEnds(s, t)
    BY <1>7 DEF DecideAdjust
  <2> DEFINE row == SavedRecord(records[j], h.loaded[j],
                                Adjusted(h.loaded[j], h.next.times[t]))
  <2>2. /\ h.loaded[j] \in Record
        /\ records[j] \in Record /\ records[j].user = h.user
        /\ LocalDay[records[j].time] = h.next.day
    <3>1. h.loaded[j] # Null /\ h.loaded[j] \in Record
      BY <1>1, <2>1 DEF Deciding, OfType
    <3>2. records[j] # Null /\ records[j].user = h.user
      BY <1>1, <3>1 DEF DecisionHolds
    <3>3. OnDay(j, h.next.day)
      BY <1>1, <3>1 DEF WritesStayOnDay, DecisionOnDay
    <3>4. QED
      BY <3>1, <3>2, <3>3 DEF OnDay, StoreTypeOK
  <2>3. row \in Record /\ row.user = h.user /\ row.type = records[j].type
    <3>1. h.next.times[t] \in Times
      BY <1>1, <2>1 DEF Deciding, NextToApply, Asked, Request, Adjustment
    <3>2. Adjusted(h.loaded[j], h.next.times[t]) \in Record
      BY <2>2, <3>1, RowType
    <3>3. Adjusted(h.loaded[j], h.next.times[t]).type = h.loaded[j].type
      BY <2>2 DEF Adjusted, Record
    <3>4. QED
      BY <2>2, <3>2, <3>3, SavedRecordType, NullAssumption DEF SavedRecord, Column
  <2>4. j \in RowsOf(h.user, h.next.day)
    BY <2>2, NullAssumption DEF RowsOf
  <2>5. \A i \in RecordIds : records'[i] = IF i = j THEN row ELSE records[i]
    BY <2>1 DEF StoreTypeOK
  <2>6. QED
    BY <1>6, <1>7, <2>1, <2>3, <2>4, <2>5, NullAssumption DEF DecideAdjust
<1>8. CASE DecideInsert(s)
  <2>1. PICK t \in Types :
          /\ NextToApply(h, t)
          /\ InsertRecord([user |-> h.user, time |-> h.next.times[t],
                           type |-> t, status |-> "adjusted"])
          /\ ApplyEnds(s, t)
    BY <1>8 DEF DecideInsert
  <2> DEFINE row == [user |-> h.user, time |-> h.next.times[t],
                     type |-> t, status |-> "adjusted"]
  <2>2. \A i \in RecordIds : records'[i] = IF i = nextRecord THEN row ELSE records[i]
    BY <2>1 DEF InsertRecord, StoreTypeOK
  <2>3. row \in Record
    BY <1>1, <2>1
       DEF Deciding, NextToApply, Asked, Request, Adjustment, Record,
           RecordStatuses
  <2>4. QED
    BY <1>6, <1>8, <2>1, <2>2, <2>3, NullAssumption DEF DecideInsert
<1>9. QED
  BY <1>4, <1>5, <1>7, <1>8

LEMMA DeskHoldsNext ==
    ASSUME TypeOK, WritesStayOnDay, NEW s \in DeskSlots, DeskHolds(desk[s]),
           DeskStep(s) \/ DeskFails(s)
    PROVE  desk'[s] # Null => DeskHolds(desk[s])'
<1> USE DEF TypeOK, DeskTypeOK
<1> DEFINE h == desk[s]
<1>1. CASE DecideCheck(s) \/ DecideReadDay(s) \/ DecideAdjust(s) \/ DecideInsert(s)
  BY <1>1, DecisionHoldsNext
<1>2. CASE FileCreate(s) \/ DeskFails(s)
  BY <1>2 DEF FileCreate, DeskFails, DeskEnds
<1>3. ASSUME NEW q, desk' = [desk EXCEPT ![s] = q],
             q = Null \/ q.pc \in {"assign", "records", "absences", "upsert"}
      PROVE  desk'[s] # Null => DeskHolds(desk[s])'
  BY <1>3 DEF DeskHolds
<1>4. CASE DecideSave(s) \/ RemoveDestroy(s) \/ AssignCreate(s)
  <2>1. PICK u, d, days : DeskSyncs(s, u, d, days)
    BY <1>4 DEF DecideSave, RemoveDestroy, AssignCreate
  <2>2. QED
    BY <1>3, <2>1 DEF DeskSyncs
<1>5. CASE DeskUpsert(s)
  <2>1. desk' = [desk EXCEPT ![s] = GoOn(h.user, h.days)]
    BY <1>5 DEF DeskUpsert
  <2>2. QED
    BY <1>3, <2>1 DEF GoOn
<1>6. CASE DeskSyncRecords(s) \/ DeskSyncAbsences(s)
  <2>1. h \in DeskSync
    BY <1>6, DeskKind DEF DeskSyncRecords, DeskSyncAbsences, SyncPCs
  <2>2. QED
    BY <1>3, <1>6, <2>1, DeskFields DEF DeskSyncRecords, DeskSyncAbsences
<1>7. CASE RemoveCheck(s)
  <2>1. h \in Removing
    BY <1>7, DeskKind DEF RemoveCheck
  <2>2. QED
    BY <1>7, <2>1, DeskFields
       DEF RemoveCheck, DeskAt, DeskGoes, DeskEnds, DeskHolds, PeriodOpen,
           storeVars, tables
<1>8. CASE AssignCheck(s)
  <2>1. h \in Assigning /\ h.days \in SUBSET Days /\ closings' = closings
    BY <1>8, DeskKind DEF AssignCheck, Assigning, storeVars, tables
  <2>2. PICK d \in First(h.days) :
          IF PeriodOpen(d) THEN DeskGoes(s, "find") ELSE DeskEnds(s)
    BY <1>8 DEF AssignCheck
  <2>3. First(h.days) = {d}
    BY <2>1, FirstIsOne
  <2>4. QED
    BY <2>1, <2>2, <2>3, DeskFields
       DEF DeskGoes, DeskEnds, DeskHolds, PeriodOpen
<1>9. CASE AssignFind(s)
  <2>1. /\ h \in Assigning /\ h.days \in SUBSET Days
        /\ UNCHANGED <<closings, requests>>
        /\ \A d \in First(h.days) : PeriodOpen(d)
    BY <1>9, DeskKind
       DEF AssignFind, DeskAt, DeskHolds, Assigning, storeVars, tables
  <2>2. PICK d \in First(h.days) :
          IF HasAbsence(h.user, d)
            THEN desk' = [desk EXCEPT ![s] = GoOn(h.user, h.days \ {d})]
            ELSE DeskGoes(s, "give")
    BY <1>9 DEF AssignFind
  <2>3. First(h.days) = {d}
    BY <2>1, FirstIsOne
  <2>4. CASE HasAbsence(h.user, d)
    <3>1. desk' = [desk EXCEPT ![s] = GoOn(h.user, h.days \ {d})]
      BY <2>2, <2>4
    <3>2. QED
      BY <1>3, <3>1 DEF GoOn
  <2>5. CASE ~HasAbsence(h.user, d)
    <3>1. /\ desk'[s].pc = "give" /\ desk'[s].user = h.user
          /\ desk'[s].days = h.days
      BY <2>1, <2>2, <2>5, DeskFields DEF DeskGoes
    <3>2. PeriodOpen(d)' /\ ~HasAbsence(h.user, d)'
      BY <2>1, <2>5, <3>1 DEF PeriodOpen, HasAbsence
    <3>3. QED
      BY <2>1, <2>3, <3>1, <3>2 DEF DeskHolds, HasAbsence, PeriodOpen
  <2>6. QED
    BY <2>4, <2>5
<1>10. QED
  BY <1>1, <1>2, <1>4, <1>5, <1>6, <1>7, <1>8, <1>9 DEF DeskStep

-----------------------------------------------------------------------------
\* While a closing is under way nothing else is, so what it read is so.
LEMMA ClosingFields ==
    ASSUME NEW c \in ClosingLocal
    PROVE  /\ \A recs : LET q == WithRecords(c, recs) IN
                /\ q.pc = c.pc /\ q.month = c.month /\ q.recs = recs
                /\ q.absences = c.absences /\ q.todo = c.todo \ {"records"}
           /\ \A absences : LET q == WithAbsences(c, absences) IN
                /\ q.pc = c.pc /\ q.month = c.month /\ q.recs = c.recs
                /\ q.absences = absences /\ q.todo = c.todo \ {"absences"}
           /\ \A found : LET q == Finding(c, found) IN
                /\ q.pc = "write" /\ q.month = c.month /\ q.recs = c.recs
                /\ q.absences = c.absences /\ q.todo = c.todo /\ q.found = found
<1>1. \A recs : LET q == WithRecords(c, recs) IN
        /\ q.pc = c.pc /\ q.month = c.month /\ q.recs = recs
        /\ q.absences = c.absences /\ q.todo = c.todo \ {"records"}
  BY DEF WithRecords, ClosingLocal
<1>2. \A absences : LET q == WithAbsences(c, absences) IN
        /\ q.pc = c.pc /\ q.month = c.month /\ q.recs = c.recs
        /\ q.absences = absences /\ q.todo = c.todo \ {"absences"}
  BY DEF WithAbsences, ClosingLocal
<1>3. \A found : LET q == Finding(c, found) IN
        /\ q.pc = "write" /\ q.month = c.month /\ q.recs = c.recs
        /\ q.absences = c.absences /\ q.todo = c.todo /\ q.found = found
  BY DEF Finding, ClosingLocal
<1>4. QED
  BY <1>1, <1>2, <1>3

LEMMA MonthUnchanged ==
    ASSUME UNCHANGED <<records, requests>>
    PROVE  /\ \A m : MonthFacts(m)' = MonthFacts(m)
           /\ \A m : MonthAbsences(m)' = MonthAbsences(m)
BY DEF MonthFacts, MonthAbsences, MonthRows, Live, FactOf, IsApprovedAbsence

LEMMA ClosingHoldsStable ==
    ASSUME NEW t \in ClosingSlots, closing[t] # Null, ClosingHolds(closing[t]),
           UNCHANGED <<records, requests, closings>>, closing'[t] = closing[t]
    PROVE  ClosingHolds(closing[t])'
BY MonthUnchanged DEF ClosingHolds

LEMMA ClosingHoldsNext ==
    ASSUME TypeOK, NEW s \in ClosingSlots, ClosingHolds(closing[s]),
           ClosingStep(s) \/ ClosingFails(s)
    PROVE  closing'[s] # Null => ClosingHolds(closing[s])'
<1> USE DEF TypeOK, ClosingTypeOK
<1> DEFINE c == closing[s]
<1>1. CASE CloseReadRecords(s)
  <2>1. /\ c \in ClosingLocal /\ c.pc = "snapshot"
        /\ UNCHANGED <<records, requests, closings>>
        /\ closing'[s] = WithRecords(c, MonthFacts(c.month))
    BY <1>1 DEF CloseReadRecords, ClosingAt, storeVars, tables
  <2>2. QED
    BY <1>1, <2>1, ClosingFields, MonthUnchanged DEF ClosingHolds
<1>2. CASE CloseReadAbsences(s)
  <2>1. /\ c \in ClosingLocal /\ c.pc = "snapshot"
        /\ UNCHANGED <<records, requests, closings>>
        /\ closing'[s] = WithAbsences(c, MonthAbsences(c.month))
    BY <1>2 DEF CloseReadAbsences, ClosingAt, storeVars, tables
  <2>2. QED
    BY <1>2, <2>1, ClosingFields, MonthUnchanged DEF ClosingHolds
<1>3. CASE CloseFind(s)
  <2> DEFINE status == closings[c.month].status
  <2>1. /\ c \in ClosingLocal /\ c.pc = "snapshot" /\ c.todo = {}
        /\ UNCHANGED <<records, requests, closings>>
    BY <1>3 DEF CloseFind, ClosingAt, storeVars, tables
  <2>2. CASE status = "closed"
    BY <1>3, <2>2 DEF CloseFind, ClosingEnds
  <2>3. CASE status # "closed"
    <3>1. closing'[s] = Finding(c, status # "none")
      BY <1>3, <2>1, <2>3 DEF CloseFind
    <3>2. QED
      BY <2>1, <2>3, <3>1, ClosingFields, MonthUnchanged DEF ClosingHolds
  <2>4. QED
    BY <2>2, <2>3
<1>4. CASE CloseWrite(s) \/ ReopenWrite(s) \/ ClosingFails(s)
  BY <1>4 DEF CloseWrite, ReopenWrite, ClosingFails, ClosingEnds
<1>5. QED
  BY <1>1, <1>2, <1>3, <1>4 DEF ClosingStep

-----------------------------------------------------------------------------
(***************************************************************************)
(* Every step preserves SerialInv.                                         *)
(***************************************************************************)

\* A handler that does not take part keeps what it found out, when the step
\* leaves its user's rows alone.
LEMMA BystandersHold ==
    ASSUME TypeOK, HandlersHold
    PROVE  /\ \A t \in PunchSlots :
                /\ punch[t] # Null /\ punch'[t] = punch[t]
                /\ Untouched(punch[t].user)
                => PunchHolds(punch[t])'
           /\ \A t \in ReviewSlots :
                /\ review[t] # Null /\ review'[t] = review[t]
                /\ Untouched(review[t].user)
                => ReviewHolds(review[t])'
           /\ \A t \in DeskSlots :
                /\ desk[t] # Null /\ desk'[t] = desk[t]
                /\ Untouched(desk[t].user)
                => DeskHolds(desk[t])'
BY PunchHoldsStable, ReviewHoldsStable, DeskHoldsStable DEF HandlersHold

\* When the tables do not change, all who do not take part keep it.
LEMMA QuietTables ==
    ASSUME TypeOK, HandlersHold, UNCHANGED <<records, requests, closings>>
    PROVE  /\ \A t \in PunchSlots :
                punch[t] # Null /\ punch'[t] = punch[t] => PunchHolds(punch[t])'
           /\ \A t \in ReviewSlots :
                review[t] # Null /\ review'[t] = review[t] => ReviewHolds(review[t])'
           /\ \A t \in DeskSlots :
                desk[t] # Null /\ desk'[t] = desk[t] => DeskHolds(desk[t])'
           /\ \A t \in ClosingSlots :
                closing[t] # Null /\ closing'[t] = closing[t] =>
                  ClosingHolds(closing[t])'
<1>1. \A u : Untouched(u)
  BY DEF Untouched
<1>2. \A t \in ClosingSlots :
        closing[t] # Null /\ closing'[t] = closing[t] => ClosingHolds(closing[t])'
  BY ClosingHoldsStable DEF HandlersHold
<1>3. QED
  BY <1>1, <1>2, BystandersHold

LEMMA PunchStepHolds ==
    ASSUME TypeOK, WritesStayOnDay, SerialInv, NEW s \in PunchSlots,
           \/ PunchStep(s) \/ PunchEvidenceFails(s)
           \/ PunchDestroyFails(s) \/ PunchFails(s),
           UNCHANGED <<review, closing, desk>>
    PROVE  HandlersHold'
<1> USE DEF SerialInv, Alone
<1>1. /\ punch[s] # Null
      /\ \A t \in PunchSlots : t # s => punch'[t] = punch[t]
  BY PunchGoesOn
<1>2. PunchHolds(punch[s])
  BY <1>1 DEF HandlersHold
<1>3. LeavesOthers(punch[s].user)
  BY <1>2, PunchLeavesOthers DEF WritesStayOnDay
<1>4. punch'[s] # Null => PunchHolds(punch[s])'
  BY <1>2, PunchHoldsNext
<1>5. ASSUME NEW t \in PunchSlots, t # s, punch'[t] # Null
      PROVE  PunchHolds(punch[t])'
  BY <1>1, <1>3, <1>5, HandlerUser, BystandersHold DEF PunchAlone, LeavesOthers
<1>6. ASSUME NEW t \in ReviewSlots, review'[t] # Null
      PROVE  ReviewHolds(review[t])'
  BY <1>1, <1>3, <1>6, HandlerUser, BystandersHold DEF PunchAlone, LeavesOthers
<1>7. ASSUME NEW t \in DeskSlots, desk'[t] # Null
      PROVE  DeskHolds(desk[t])'
  BY <1>1, <1>3, <1>7, HandlerUser, BystandersHold DEF PunchAlone, LeavesOthers
<1>8. \A t \in ClosingSlots : closing'[t] = Null
  BY <1>1 DEF ClosingAlone
<1>9. QED
  BY <1>4, <1>5, <1>6, <1>7, <1>8 DEF HandlersHold

LEMMA ReviewStepHolds ==
    ASSUME TypeOK, SerialInv, NEW s \in ReviewSlots,
           ReviewStep(s) \/ ReviewFails(s), UNCHANGED <<punch, closing, desk>>
    PROVE  HandlersHold'
<1> USE DEF SerialInv, Alone
<1>1. /\ review[s] # Null
      /\ \A t \in ReviewSlots : t # s => review'[t] = review[t]
  BY ReviewGoesOn
<1>2. ReviewHolds(review[s])
  BY <1>1 DEF HandlersHold
<1>3. LeavesOthers(review[s].user)
  BY <1>2, ReviewLeavesOthers
<1>4. review'[s] # Null => ReviewHolds(review[s])'
  BY <1>2, ReviewHoldsNext
<1>5. ASSUME NEW t \in PunchSlots, punch'[t] # Null
      PROVE  PunchHolds(punch[t])'
  BY <1>1, <1>3, <1>5, HandlerUser, BystandersHold DEF PunchAlone, LeavesOthers
<1>6. ASSUME NEW t \in ReviewSlots, t # s, review'[t] # Null
      PROVE  ReviewHolds(review[t])'
  BY <1>1, <1>3, <1>6, HandlerUser, BystandersHold DEF ReviewAlone, LeavesOthers
<1>7. ASSUME NEW t \in DeskSlots, desk'[t] # Null
      PROVE  DeskHolds(desk[t])'
  BY <1>1, <1>3, <1>7, HandlerUser, BystandersHold DEF ReviewAlone, LeavesOthers
<1>8. \A t \in ClosingSlots : closing'[t] = Null
  BY <1>1 DEF ClosingAlone
<1>9. QED
  BY <1>4, <1>5, <1>6, <1>7, <1>8 DEF HandlersHold

LEMMA DeskStepHolds ==
    ASSUME TypeOK, WritesStayOnDay, SerialInv, NEW s \in DeskSlots,
           DeskStep(s) \/ DeskFails(s), UNCHANGED <<punch, review, closing>>
    PROVE  HandlersHold'
<1> USE DEF SerialInv, Alone
<1>1. /\ desk[s] # Null
      /\ \A t \in DeskSlots : t # s => desk'[t] = desk[t]
  BY DeskGoesOn
<1>2. DeskHolds(desk[s])
  BY <1>1 DEF HandlersHold
<1>3. LeavesOthers(desk[s].user)
  BY <1>2, DeskLeavesOthers
<1>4. desk'[s] # Null => DeskHolds(desk[s])'
  BY <1>2, DeskHoldsNext
<1>5. ASSUME NEW t \in PunchSlots, punch'[t] # Null
      PROVE  PunchHolds(punch[t])'
  BY <1>1, <1>3, <1>5, HandlerUser, BystandersHold DEF PunchAlone, LeavesOthers
<1>6. ASSUME NEW t \in ReviewSlots, review'[t] # Null
      PROVE  ReviewHolds(review[t])'
  BY <1>1, <1>3, <1>6, HandlerUser, BystandersHold DEF ReviewAlone, LeavesOthers
<1>7. ASSUME NEW t \in DeskSlots, t # s, desk'[t] # Null
      PROVE  DeskHolds(desk[t])'
  BY <1>1, <1>3, <1>7, HandlerUser, BystandersHold DEF DeskAlone, LeavesOthers
<1>8. \A t \in ClosingSlots : closing'[t] = Null
  BY <1>1 DEF ClosingAlone
<1>9. QED
  BY <1>4, <1>5, <1>6, <1>7, <1>8 DEF HandlersHold

LEMMA ClosingStepHolds ==
    ASSUME TypeOK, SerialInv, NEW s \in ClosingSlots,
           ClosingStep(s) \/ ClosingFails(s), UNCHANGED <<punch, review, desk>>
    PROVE  HandlersHold'
<1>1. /\ closing[s] # Null
      /\ \A t \in ClosingSlots : t # s => closing'[t] = closing[t]
  BY DEF ClosingStep, CloseReadRecords, CloseReadAbsences, CloseFind,
         CloseWrite, ReopenWrite, ClosingFails, ClosingEnds, ClosingAt, TypeOK,
         ClosingTypeOK
<1>2. closing'[s] # Null => ClosingHolds(closing[s])'
  BY <1>1, ClosingHoldsNext DEF SerialInv, HandlersHold
<1>3. /\ \A t \in PunchSlots : punch'[t] = Null
      /\ \A t \in ReviewSlots : review'[t] = Null
      /\ \A t \in DeskSlots : desk'[t] = Null
      /\ \A t \in ClosingSlots : t # s => closing'[t] = Null
  BY <1>1 DEF SerialInv, Alone, ClosingAlone
<1>4. QED
  BY <1>2, <1>3 DEF HandlersHold

\* A handler that starts knows what it has just read.
LEMMA PunchStartHolds ==
    ASSUME TypeOK, HandlersHold, NEW s \in PunchSlots, NEW u, NEW want,
           NEW channel, NEW rv, PunchStart(s, u, want, channel, rv),
           UNCHANGED <<review, closing, desk>>
    PROVE  HandlersHold'
<1>1. UNCHANGED <<records, requests, closings>>
  BY DEF PunchStart, storeVars, tables
<1>2. \A t \in PunchSlots : t # s => punch'[t] = punch[t]
  BY DEF PunchStart, TypeOK, PunchTypeOK
<1>3. PunchHolds(punch[s])'
  BY DEF PunchStart, PunchHolds, TypeOK, PunchTypeOK, SyncPCs
<1>4. QED
  BY <1>1, <1>2, <1>3, QuietTables DEF HandlersHold

LEMMA ReviewLoadHolds ==
    ASSUME TypeOK, HandlersHold, NEW s \in ReviewSlots, NEW i \in RecordIds,
           NEW status \in RecordStatuses, NEW type \in Types, NEW time \in Times,
           ReviewLoad(s, i, status, type, time), UNCHANGED <<punch, closing, desk>>
    PROVE  HandlersHold'
<1>1. UNCHANGED <<records, requests, closings>>
  BY DEF ReviewLoad, storeVars, tables
<1>2. \A t \in ReviewSlots : t # s => review'[t] = review[t]
  BY DEF ReviewLoad, TypeOK, ReviewTypeOK
<1>3. /\ records[i] \in Record
      /\ Reviewed(records[i], status, type, time).user = records[i].user
      /\ LocalDay[Reviewed(records[i], status, type, time).time] =
           LocalDay[records[i].time]
  <2>1. records[i] \in Record /\ LocalDay[time] = LocalDay[records[i].time]
    BY DEF ReviewLoad, TypeOK, StoreTypeOK
  <2>2. QED
    BY <2>1, ReviewFields, ReviewedType
<1>4. ReviewHolds(review[s])'
  BY <1>1, <1>3 DEF ReviewLoad, ReviewHolds, TypeOK, ReviewTypeOK
<1>5. QED
  BY <1>1, <1>2, <1>4, QuietTables DEF HandlersHold

LEMMA ClosingStartHolds ==
    ASSUME TypeOK, HandlersHold, NEW s \in ClosingSlots, NEW m \in Months,
           CloseStart(s, m) \/ ReopenFind(s, m), UNCHANGED <<punch, review, desk>>
    PROVE  HandlersHold'
<1>1. UNCHANGED <<records, requests, closings>>
  BY DEF CloseStart, ReopenFind, storeVars, tables
<1>2. \A t \in ClosingSlots : t # s => closing'[t] = closing[t]
  BY DEF CloseStart, ReopenFind, TypeOK, ClosingTypeOK
<1>3. ClosingHolds(closing[s])'
  BY <1>1 DEF CloseStart, ReopenFind, ClosingHolds, TypeOK, ClosingTypeOK, Queries
<1>4. QED
  BY <1>1, <1>2, <1>3, QuietTables DEF HandlersHold

LEMMA DeskOpensHolds ==
    ASSUME TypeOK, HandlersHold, NEW s \in DeskSlots, DeskOpens(s),
           UNCHANGED <<punch, review, closing>>
    PROVE  HandlersHold'
<1> USE DEF TypeOK, DeskTypeOK
<1>1. UNCHANGED <<records, requests, closings>>
  BY DEF DeskOpens, FileStart, RemoveLoad, DecideLoad, AssignStart, storeVars,
         tables
<1>2. \A t \in DeskSlots : t # s => desk'[t] = desk[t]
  BY DEF DeskOpens, FileStart, RemoveLoad, DecideLoad, AssignStart
<1>3. ASSUME NEW u, NEW d, NEW kind, NEW times, FileStart(s, u, d, kind, times)
      PROVE  DeskHolds(desk[s])'
  BY <1>1, <1>3 DEF FileStart, DeskHolds, PeriodOpen
<1>4. ASSUME NEW q \in RequestIds, RemoveLoad(s, q)
      PROVE  DeskHolds(desk[s])'
  BY <1>1, <1>4 DEF RemoveLoad, DeskHolds
<1>5. ASSUME NEW q \in RequestIds, NEW status \in RequestStatuses,
             NEW times \in Adjustment, DecideLoad(s, q, status, times)
      PROVE  DeskHolds(desk[s])'
  <2> DEFINE row == requests[q]
             h == [pc |-> "decide", user |-> row.user, qid |-> q, copy |-> row,
                   next |-> Decided(row, status, times),
                   loaded |-> NothingLoaded, todo |-> {}]
  <2>1. row \in Request /\ desk'[s] = h
    BY <1>5 DEF DecideLoad, StoreTypeOK
  <2>2. /\ h.next.status = status /\ h.next.times = times
    BY <2>1 DEF Decided, Request
  <2>3. h.loaded = NothingLoaded /\ h.todo = {} /\ h.pc = "decide"
    OBVIOUS
  <2>4. DecisionHolds(desk[s])'
    BY <1>1, <2>1, <2>2, <2>3 DEF DecisionHolds, NothingLoaded
  <2>5. QED
    BY <2>1, <2>4 DEF DeskHolds
<1>6. ASSUME NEW u, NEW days, AssignStart(s, u, days)
      PROVE  DeskHolds(desk[s])'
  BY <1>6 DEF AssignStart, GoOn, DeskHolds
<1>7. DeskHolds(desk[s])'
  <2>1. Adjustments \cup {NoTimes} \subseteq Adjustment
    BY RowType, AdjustmentsAssumption
  <2>2. QED
    BY <1>3, <1>4, <1>5, <1>6, <2>1 DEF DeskOpens, RequestStatuses
<1>8. QED
  BY <1>1, <1>2, <1>7, QuietTables DEF HandlersHold

LEMMA HandlersHoldNext ==
    ASSUME TypeOK, WritesStayOnDay, Serialized, SerialInv, [Next]_vars
    PROVE  HandlersHold'
<1>0. HandlersHold
  BY DEF SerialInv
<1>1. CASE PunchNext
  BY <1>0, <1>1, PunchStartHolds, PunchStepHolds DEF PunchNext
<1>2. CASE ReviewNext
  BY <1>0, <1>2, ReviewLoadHolds, ReviewStepHolds, ModeAssumption DEF ReviewNext
<1>3. CASE ClosingNext
  BY <1>0, <1>3, ClosingStartHolds, ClosingStepHolds DEF ClosingNext
<1>4. CASE DeskNext
  BY <1>0, <1>4, DeskOpensHolds, DeskStepHolds DEF DeskNext
<1>5. CASE Crash
  BY <1>5 DEF Crash, HandlersHold
<1>6. CASE Tick \/ UNCHANGED vars
  <2>1. UNCHANGED <<records, requests, closings>> /\ UNCHANGED handlers
    BY <1>6 DEF Tick, vars, tables, handlers
  <2>2. QED
    BY <1>0, <2>1, QuietTables DEF HandlersHold, handlers
<1>7. QED
  BY <1>1, <1>2, <1>3, <1>4, <1>5, <1>6 DEF Next

LEMMA RequestIdsUnusedNext ==
    ASSUME TypeOK, SerialInv, [Next]_vars
    PROVE  RequestIdsUnused'
<1> USE DEF TypeOK, SerialInv, RequestIdsUnused
<1>1. nextRequest \in Nat /\ \A q \in RequestIds : q \in Nat
  BY StoreAssumption DEF StoreTypeOK, RequestIds
<1>2. ASSUME UNCHANGED <<requests, nextRequest>>
      PROVE  RequestIdsUnused'
  BY <1>2
<1>3. ASSUME NEW row, InsertRequest(row)
      PROVE  RequestIdsUnused'
  BY <1>1, <1>3 DEF InsertRequest, StoreTypeOK
<1>4. ASSUME NEW j \in RequestIds, NEW row, requests[j] # Null,
             requests' = [requests EXCEPT ![j] = row], nextRequest' = nextRequest
      PROVE  RequestIdsUnused'
  BY <1>1, <1>4 DEF StoreTypeOK
<1>5. CASE PunchNext
  BY <1>2, <1>5
     DEF PunchNext, PunchStart, PunchStep, PunchCheck, PunchResolve,
         PunchRefuse, PunchCreate, PunchEvidence, PunchEvidenceFails,
         PunchDestroy, PunchSyncRecords, PunchSyncAbsences, PunchUpsert,
         PunchFlag, PunchFails, PunchDestroyFails, storeVars, tables
<1>6. CASE ReviewNext
  BY <1>2, <1>6
     DEF ReviewNext, ReviewLoad, ReviewStep, ReviewCheck, ReviewSave,
         ReviewSyncRecords, ReviewSyncAbsences, ReviewUpsert, ReviewFails,
         storeVars, tables
<1>7. CASE ClosingNext
  BY <1>2, <1>7
     DEF ClosingNext, CloseStart, ReopenFind, ClosingStep, CloseReadRecords,
         CloseReadAbsences, CloseFind, CloseWrite, ReopenWrite, ClosingFails,
         storeVars, tables
<1>8. CASE DeskNext
  <2>1. ASSUME NEW s \in DeskSlots, FileCreate(s) \/ AssignCreate(s)
        PROVE  RequestIdsUnused'
    BY <1>3, <2>1 DEF FileCreate, AssignCreate
  <2>2. ASSUME NEW s \in DeskSlots, DecideSave(s)
        PROVE  RequestIdsUnused'
    <3>1. desk[s] # Null /\ DeskHolds(desk[s])
      BY <2>2 DEF DecideSave, DeskAt, HandlersHold
    <3>2. requests[desk[s].qid] # Null /\ desk[s].qid \in RequestIds
      BY <2>2, <3>1, DecidingHolds, NullAssumption DEF DecideSave, DecisionHolds
    <3>3. QED
      BY <1>4, <2>2, <3>2 DEF DecideSave
  <2>3. ASSUME NEW s \in DeskSlots, RemoveDestroy(s)
        PROVE  RequestIdsUnused'
    <3>1. desk[s] # Null /\ DeskHolds(desk[s]) /\ desk[s] \in Removing
      BY <2>3, DeskKind DEF RemoveDestroy, DeskAt, HandlersHold
    <3>2. QED
      BY <1>4, <2>3, <3>1 DEF RemoveDestroy, DeskAt, DeskHolds, Removing
  <2>4. ASSUME NEW s \in DeskSlots,
               \/ DeskOpens(s)
               \/ DecideCheck(s) \/ DecideReadDay(s) \/ DecideAdjust(s)
               \/ DecideInsert(s) \/ RemoveCheck(s) \/ AssignCheck(s)
               \/ AssignFind(s) \/ DeskSyncRecords(s) \/ DeskSyncAbsences(s)
               \/ DeskUpsert(s) \/ DeskFails(s)
        PROVE  RequestIdsUnused'
    BY <1>2, <2>4
       DEF DeskOpens, FileStart, RemoveLoad, DecideLoad, AssignStart,
           DecideCheck, DecideReadDay, DecideAdjust, DecideInsert, RemoveCheck,
           AssignCheck, AssignFind, DeskSyncRecords, DeskSyncAbsences,
           DeskUpsert, DeskFails, storeVars, tables
  <2>5. QED
    BY <1>8, <2>1, <2>2, <2>3, <2>4 DEF DeskNext, DeskStep
<1>9. CASE Tick \/ Crash \/ UNCHANGED vars
  BY <1>2, <1>9 DEF Tick, Crash, vars, storeVars, tables
<1>10. QED
  BY <1>5, <1>6, <1>7, <1>8, <1>9 DEF Next

LEMMA SerialInvNext ==
    ASSUME TypeOK, WritesStayOnDay, Serialized, SerialInv, [Next]_vars
    PROVE  SerialInv'
BY AloneNext, HandlersHoldNext, RequestIdsUnusedNext DEF SerialInv

LEMMA InitSerial == Init => SerialInv
BY DEF Init, StoreInit, PunchInit, ReviewInit, ClosingInit, DeskInit,
       SerialInv, Alone, PunchAlone, ReviewAlone, DeskAlone, ClosingAlone,
       HandlersHold, RequestIdsUnused

\* When the handlers of a user do not overlap, what a handler found out in its
\* earlier queries (an open month, the types of the day, the row as it was
\* loaded, no other absence) still holds when it writes, for every number of
\* users, handlers and rows, and whatever fails in between.
THEOREM ChecksStillHold == Serialized /\ Spec => []SerialInv
<1> SUFFICES ASSUME Serialized
             PROVE  Spec => []SerialInv
  OBVIOUS
<1>1. Init => TypeOK /\ WritesStayOnDay /\ SerialInv
  BY InitType, InitOnDay, InitSerial
<1>2. TypeOK /\ WritesStayOnDay /\ SerialInv /\ [Next]_vars =>
        TypeOK' /\ WritesStayOnDay' /\ SerialInv'
  BY NextType, WritesStayOnDayNext, SerialInvNext
<1>3. QED
  BY <1>1, <1>2, PTL DEF Spec

-----------------------------------------------------------------------------
(***************************************************************************)
(* The refinement: the step of a handler that writes is an operation of    *)
(* Ledger, every other step leaves the ledger alone.                       *)
(***************************************************************************)
LEMMA LedgerConstants ==
    /\ Promise!Types = Types
    /\ Promise!RecordIds = RecordIds /\ Promise!RequestIds = RequestIds
    /\ Promise!Record = Record /\ Promise!Request = Request
    /\ Promise!RequestStatuses = RequestStatuses
    /\ Promise!Adjustment = Adjustment
    /\ \A want, have, type : Promise!Accepts(want, have, type) <=>
                              Accepts(want, have, type)
<1> USE DEF Promise!Types, Types, Promise!Times, Times
<1>1. Promise!RecordIds = RecordIds /\ Promise!RequestIds = RequestIds
  BY DEF Promise!RecordIds, RecordIds, Promise!RequestIds, RequestIds
<1>2. Promise!Record = Record
  BY DEF Promise!Record, Record, Promise!RecordStatuses, RecordStatuses
<1>3. Promise!Adjustment = Adjustment /\ Promise!RequestStatuses = RequestStatuses
  BY DEF Promise!Adjustment, Adjustment, Promise!RequestStatuses, RequestStatuses
<1>4. Promise!Request = Request
  BY <1>3 DEF Promise!Request, Request, Promise!Kinds, Kinds
<1>5. \A want, have, type : Promise!Accepts(want, have, type) <=>
                            Accepts(want, have, type)
  BY DEF Promise!Accepts, Accepts, Promise!IsExpected, IsExpected,
         Promise!Earlier, Earlier
<1>6. QED
  BY <1>1, <1>2, <1>3, <1>4, <1>5

LEMMA LedgerTerms ==
    /\ \A d : Promise!Open(d) <=> PeriodOpen(d)
    /\ \A u, d : Promise!Marked(u, d) = Live(RowsOf(u, d))
    /\ \A m : Promise!Content(m) = [status |-> "closed", recs |-> MonthFacts(m),
                                    absences |-> MonthAbsences(m)]
<1>1. \A d : Promise!Open(d) <=> PeriodOpen(d)
  BY DEF Promise!Open, PeriodOpen
<1>2. \A u, d : Promise!Marked(u, d) = Live(RowsOf(u, d))
  BY LedgerConstants DEF Promise!Marked, Live, RowsOf
<1>3. ASSUME NEW m
      PROVE  Promise!Content(m) = [status |-> "closed", recs |-> MonthFacts(m),
                                   absences |-> MonthAbsences(m)]
  <2>1. {j \in RecordIds : /\ records[j] # Null
                           /\ records[j].status # "rejected"
                           /\ MonthOf[LocalDay[records[j].time]] = m}
          = Live(MonthRows(m))
    BY DEF Live, MonthRows
  <2>2. QED
    BY <2>1, LedgerConstants
       DEF Promise!Content, MonthFacts, MonthAbsences, FactOf, IsApprovedAbsence
<1>4. QED
  BY <1>1, <1>2, <1>3

LEMMA CreateMarks ==
    ASSUME TypeOK, NEW s \in PunchSlots, PunchHolds(punch[s]), PunchCreate(s)
    PROVE  \E row \in Record : Promise!Mark(row)
<1> USE DEF TypeOK
<1> DEFINE p == punch[s]
           row == [user |-> p.user, time |-> p.at, type |-> p.type,
                   status |-> IF p.channel = "remote" /\ p.review
                                THEN "pending_approval" ELSE "valid"]
           today == Promise!Marked(row.user, LocalDay[row.time])
<1>1. p \in Creating
  BY PunchKind DEF PunchCreate
<1>2. row \in Record /\ row.status \in {"valid", "pending_approval"}
  BY <1>1 DEF Creating, MarkingAt, Record, RecordStatuses
<1>3. today = Today(p)
  BY LedgerTerms DEF Today
<1>4. /\ PeriodOpen(LocalDay[p.at]) /\ ~IsRecent(p)
      /\ \E want \in Types \cup {"auto"} : Accepts(want, TypesToday(p), p.type)
  BY DEF PunchCreate, PunchAt, PunchHolds
<1>5. \A i \in today : records[i].time < row.time
  <2>1. \A i \in Today(p) : records[i].time \in Nat
    BY StoreAssumption DEF Today, Live, RowsOf, StoreTypeOK, Record, Times
  <2>2. p.at \in Nat
    BY <1>1, StoreAssumption DEF Creating, MarkingAt, Times
  <2>3. QED
    BY <1>3, <1>4, <2>1, <2>2 DEF IsRecent
<1>6. \E want \in Types \cup {"auto"} :
        Accepts(want, {records[i].type : i \in today}, row.type)
  BY <1>3, <1>4 DEF TypesToday
<1>7. Promise!Insert(row)
  <2>1. nextRecord \in RecordIds
    BY StoreAssumption DEF PunchCreate, InsertRecord, StoreTypeOK, RecordIds
  <2>2. QED
    BY <1>4, <2>1, LedgerTerms, LedgerConstants
       DEF PunchCreate, InsertRecord, Promise!Insert
<1>8. Promise!Mark(row)
  BY <1>2, <1>5, <1>6, <1>7, LedgerConstants DEF Promise!Mark
<1>9. QED
  BY <1>2, <1>8

\* A write of one record that exists, within its day, while its month is open.
LEMMA WriteAmends ==
    ASSUME NEW i \in RecordIds, NEW row \in Record, records[i] # Null,
           row.user = records[i].user,
           LocalDay[row.time] = LocalDay[records[i].time],
           PeriodOpen(LocalDay[records[i].time]),
           records' = [records EXCEPT ![i] = row],
           UNCHANGED <<nextRecord, requests, nextRequest, closings>>
    PROVE  Promise!Amend(i, row)
BY LedgerTerms DEF Promise!Amend

LEMMA PunchWrites ==
    ASSUME TypeOK, NEW s \in PunchSlots, PunchHolds(punch[s]),
           PunchDestroy(s) \/ PunchFlag(s)
    PROVE  \/ \E i \in RecordIds :
                Promise!Withdraw(i) \/ \E row \in Record : Promise!Amend(i, row)
           \/ UNCHANGED Promise!ledger
<1> USE DEF TypeOK
<1>1. CASE PunchDestroy(s)
  <2>1. punch[s].rid \in RecordIds
    BY <1>1, PunchKind DEF PunchDestroy, Storing, MarkingAt
  <2>2. Editable(punch[s].rid, punch[s].user)
    BY <1>1 DEF PunchDestroy, PunchAt, PunchHolds
  <2>3. Promise!Withdraw(punch[s].rid)
    BY <1>1, <2>2, LedgerTerms DEF PunchDestroy, Editable, Promise!Withdraw
  <2>4. QED
    BY <2>1, <2>3
<1>2. CASE PunchFlag(s)
  <2> DEFINE j == punch[s].flag
             row == ToApproval(records[j])
  <2>1. j \in 0..MaxRecords /\ (j = 0 \/ Editable(j, punch[s].user))
    BY <1>2, PunchKind DEF PunchFlag, PunchAt, PunchHolds, PunchSync
  <2>2. CASE j = 0
    <3>1. j \notin RecordIds
      BY <2>2, StoreAssumption DEF RecordIds
    <3>2. records' = records
      BY <1>2, <3>1 DEF PunchFlag, StoreTypeOK
    <3>3. QED
      BY <1>2, <3>2 DEF PunchFlag, Promise!ledger
  <2>3. CASE j # 0
    <3>1. j \in RecordIds /\ Editable(j, punch[s].user)
      BY <2>1, <2>3, StoreAssumption DEF RecordIds
    <3>2. records[j] \in Record
      BY <3>1 DEF Editable, StoreTypeOK
    <3>3. row \in Record /\ row.user = records[j].user /\ row.time = records[j].time
      BY <3>2, NullAssumption DEF ToApproval, Record, RecordStatuses
    <3>4. Promise!Amend(j, row)
      BY <1>2, <3>1, <3>3, WriteAmends DEF PunchFlag, Editable
    <3>5. QED
      BY <3>1, <3>3, <3>4
  <2>4. QED
    BY <2>2, <2>3
<1>3. QED
  BY <1>1, <1>2

LEMMA ReviewSaveAmends ==
    ASSUME TypeOK, NEW s \in ReviewSlots, ReviewHolds(review[s]), ReviewSave(s)
    PROVE  \E i \in RecordIds : \E row \in Record : Promise!Amend(i, row)
<1> USE DEF TypeOK
<1> DEFINE r == review[s]
           row == SavedRecord(records[r.rid], r.copy, r.next)
<1>1. r \in Reviewing
  BY ReviewKind DEF ReviewSave
<1>2. /\ r.rid \in RecordIds /\ r.copy \in Record /\ r.next \in Record
      /\ records[r.rid] = r.copy
      /\ LocalDay[r.next.time] = LocalDay[r.copy.time]
      /\ PeriodOpen(LocalDay[r.copy.time])
  BY <1>1 DEF ReviewSave, ReviewAt, ReviewHolds, Reviewing
<1>3. /\ row \in Record /\ row.user = r.copy.user
      /\ LocalDay[row.time] = LocalDay[r.copy.time]
  BY <1>2, SavedRecordType
<1>4. Promise!Amend(r.rid, row)
  BY <1>2, <1>3, NullAssumption, WriteAmends DEF ReviewSave
<1>5. QED
  BY <1>2, <1>3, <1>4

LEMMA AdjustAmends ==
    ASSUME TypeOK, WritesStayOnDay, NEW s \in DeskSlots, DeskHolds(desk[s]),
           DecideAdjust(s)
    PROVE  \E i \in RecordIds : \E row \in Record : Promise!Amend(i, row)
<1> USE DEF TypeOK
<1> DEFINE h == desk[s]
<1>1. h \in Deciding /\ DecisionHolds(h)
      /\ \E pc \in {"decide", "load", "apply", "save"} : DeskAt(s, pc)
  BY DecidingHolds DEF DecideAdjust
<1>2. PICK t \in Types, j \in RecordIds :
        /\ NextToApply(h, t)
        /\ j \in OfType(h, t)
        /\ records' = [records EXCEPT ![j] =
                        SavedRecord(records[j], h.loaded[j],
                                    Adjusted(h.loaded[j], h.next.times[t]))]
  BY DEF DecideAdjust
<1> DEFINE row == SavedRecord(records[j], h.loaded[j],
                              Adjusted(h.loaded[j], h.next.times[t]))
<1>3. /\ h.loaded[j] # Null /\ h.loaded[j] \in Record
      /\ records[j] # Null /\ records[j] \in Record
  <2>1. h.loaded[j] # Null /\ h.loaded[j] \in Record
    BY <1>1, <1>2 DEF Deciding, OfType
  <2>2. QED
    BY <1>1, <2>1 DEF DecisionHolds, StoreTypeOK
<1>4. LocalDay[records[j].time] = h.next.day
  BY <1>1, <1>3 DEF WritesStayOnDay, DecisionOnDay, OnDay
<1>5. h.next.times[t] \in Times /\ LocalDay[h.next.times[t]] = h.next.day
  <2>1. t \in Asked(h.next.times)
    BY <1>1, <1>2 DEF Deciding, NextToApply
  <2>2. h.next.times[t] \in Times
    BY <1>1, <2>1 DEF Deciding, Asked, Request, Adjustment
  <2>3. QED
    BY <1>1, <2>1, <2>2 DEF WritesStayOnDay, DecisionOnDay
<1>6. /\ row \in Record /\ row.user = records[j].user
      /\ LocalDay[row.time] = h.next.day
  <2>1. /\ Adjusted(h.loaded[j], h.next.times[t]) \in Record
        /\ Adjusted(h.loaded[j], h.next.times[t]).time = h.next.times[t]
    BY <1>3, <1>5, RowType DEF Adjusted, Record
  <2>2. QED
    BY <1>3, <1>4, <1>5, <2>1, SavedRecordType
<1>7. PeriodOpen(h.next.day)
  BY <1>1 DEF DecideAdjust, DeskAt, DecisionHolds
<1>8. Promise!Amend(j, row)
  BY <1>2, <1>3, <1>4, <1>6, <1>7, WriteAmends DEF DecideAdjust
<1>9. QED
  BY <1>6, <1>8

LEMMA InsertSupplies ==
    ASSUME TypeOK, WritesStayOnDay, NEW s \in DeskSlots, DeskHolds(desk[s]),
           DecideInsert(s)
    PROVE  \E row \in Record : Promise!Supply(row)
<1> USE DEF TypeOK
<1> DEFINE h == desk[s]
<1>1. h \in Deciding /\ DecisionHolds(h)
      /\ \E pc \in {"decide", "load", "apply", "save"} : DeskAt(s, pc)
  BY DecidingHolds DEF DecideInsert
<1>2. PICK t \in Types :
        /\ NextToApply(h, t)
        /\ OfType(h, t) = {}
        /\ InsertRecord([user |-> h.user, time |-> h.next.times[t],
                         type |-> t, status |-> "adjusted"])
  BY DEF DecideInsert
<1> DEFINE row == [user |-> h.user, time |-> h.next.times[t],
                   type |-> t, status |-> "adjusted"]
<1>3. t \in h.todo /\ h.next.times[t] \in Times
      /\ LocalDay[h.next.times[t]] = h.next.day
  <2>1. t \in h.todo /\ t \in Asked(h.next.times)
    BY <1>1, <1>2 DEF Deciding, NextToApply
  <2>2. h.next.times[t] \in Times
    BY <1>1, <2>1 DEF Deciding, Asked, Request, Adjustment
  <2>3. QED
    BY <1>1, <2>1, <2>2 DEF WritesStayOnDay, DecisionOnDay
<1>4. row \in Record
  BY <1>1, <1>3 DEF Deciding, Record, RecordStatuses
<1>5. ASSUME NEW i \in RecordIds, records[i] # Null, records[i].user = h.user,
             records[i].type = t, LocalDay[records[i].time] = h.next.day
      PROVE  FALSE
  BY <1>1, <1>2, <1>3, <1>5 DEF DecisionHolds, RowsOf, OfType
<1>6. PeriodOpen(h.next.day)
  BY <1>1 DEF DecideInsert, DeskAt, DecisionHolds
<1>7. Promise!Insert(row)
  <2>1. nextRecord \in RecordIds
    BY <1>2, StoreAssumption DEF InsertRecord, StoreTypeOK, RecordIds
  <2>2. QED
    BY <1>2, <1>3, <1>6, <2>1, LedgerTerms, LedgerConstants
       DEF DecideInsert, InsertRecord, Promise!Insert
<1>8. Promise!Supply(row)
  BY <1>3, <1>5, <1>7, LedgerConstants DEF Promise!Supply
<1>9. QED
  BY <1>4, <1>8

LEMMA FileAsks ==
    ASSUME TypeOK, NEW s \in DeskSlots, DeskHolds(desk[s]), FileCreate(s)
    PROVE  \E row \in Request : Promise!Ask(row)
<1> USE DEF TypeOK
<1>1. /\ desk[s].next \in Request /\ desk[s].next.status = "pending"
      /\ PeriodOpen(desk[s].next.day)
  BY DeskKind DEF FileCreate, DeskAt, DeskHolds, Filing
<1>2. nextRequest \in RequestIds
  BY StoreAssumption DEF FileCreate, InsertRequest, StoreTypeOK, RequestIds
<1>3. Promise!Ask(desk[s].next)
  BY <1>1, <1>2, LedgerTerms, LedgerConstants
     DEF FileCreate, InsertRequest, Promise!Ask
<1>4. QED
  BY <1>1, <1>3

LEMMA AssignAsks ==
    ASSUME TypeOK, NEW s \in DeskSlots, DeskHolds(desk[s]), AssignCreate(s)
    PROVE  \E row \in Request : Promise!Ask(row)
<1> USE DEF TypeOK
<1> DEFINE h == desk[s]
           row(d) == [user |-> h.user, day |-> d, kind |-> "absence",
                      times |-> NoTimes, status |-> "approved"]
<1>1. h \in Assigning
  BY DeskKind DEF AssignCreate
<1>2. PICK d \in First(h.days) : InsertRequest(row(d))
  BY DEF AssignCreate
<1>3. row(d) \in Request
  BY <1>1, RowType DEF Assigning, First, Request, Kinds, RequestStatuses
<1>4. PeriodOpen(d) /\ ~HasAbsence(h.user, d)
  BY <1>2 DEF AssignCreate, DeskAt, DeskHolds
<1>5. ASSUME NEW q \in RequestIds, requests[q] # Null,
             requests[q].user = h.user, requests[q].day = d,
             requests[q].kind = "absence"
      PROVE  requests[q].status = "rejected"
  BY <1>4, <1>5 DEF HasAbsence, StoreTypeOK, Request, RequestStatuses
<1>6. nextRequest \in RequestIds
  BY <1>2, StoreAssumption DEF InsertRequest, StoreTypeOK, RequestIds
<1>7. Promise!Ask(row(d))
  BY <1>2, <1>4, <1>5, <1>6, LedgerTerms, LedgerConstants
     DEF AssignCreate, InsertRequest, Promise!Ask
<1>8. QED
  BY <1>3, <1>7

LEMMA DecidedFields ==
    ASSUME NEW row \in Request, NEW status, NEW times
    PROVE  Decided(row, status, times)
             = [user |-> row.user, day |-> row.day, kind |-> row.kind,
                times |-> times, status |-> status]
<1> DEFINE mid == [user |-> row.user, day |-> row.day, kind |-> row.kind,
                   times |-> row.times, status |-> status]
<1>1. [row EXCEPT !.status = status] = mid
  BY DEF Request
<1>2. [mid EXCEPT !.times = times]
        = [user |-> row.user, day |-> row.day, kind |-> row.kind,
           times |-> times, status |-> status]
  OBVIOUS
<1>3. Decided(row, status, times) = [[row EXCEPT !.status = status]
                                         EXCEPT !.times = times]
  BY DEF Decided, Request
<1>4. QED
  BY <1>1, <1>2, <1>3

LEMMA SaveDecides ==
    ASSUME TypeOK, NEW s \in DeskSlots, DeskHolds(desk[s]), DecideSave(s)
    PROVE  \E q \in RequestIds : \E status \in RequestStatuses, times \in Adjustment :
             Promise!Decide(q, status, times)
<1> USE DEF TypeOK
<1> DEFINE h == desk[s]
           q == h.qid
           row == requests[q]
<1>1. /\ q \in RequestIds /\ row = h.copy /\ row \in Request /\ row # Null
      /\ h.next \in Request /\ h.next.day = row.day
      /\ PeriodOpen(row.day)
  <2>1. /\ DecisionHolds(h) /\ q \in RequestIds
        /\ h.copy \in Request /\ h.next \in Request /\ h.next.day = h.copy.day
    BY DecidingHolds DEF DecideSave
  <2>2. h.pc = "save"
    BY DEF DecideSave, DeskAt
  <2>3. QED
    BY <2>1, <2>2, NullAssumption DEF DecisionHolds
<1>2. /\ h.next.status \in RequestStatuses /\ h.next.times \in Adjustment
      /\ row.times \in Adjustment
  BY <1>1 DEF Request
<1>3. [t \in Types |-> Column(row.times[t], row.times[t], h.next.times[t])]
        = h.next.times
  BY <1>2 DEF Column, Adjustment
<1>4. SavedRequest(row, h.copy, h.next)
        = [row EXCEPT !.status = h.next.status, !.times = h.next.times]
  <2> DEFINE saved == [user |-> row.user, day |-> row.day, kind |-> row.kind,
                       times |-> h.next.times, status |-> h.next.status]
  <2>1. SavedRequest(row, h.copy, h.next) = saved
    BY <1>1, <1>3 DEF SavedRequest, Column
  <2>2. Decided(row, h.next.status, h.next.times) = saved
    BY <1>1, DecidedFields
  <2>3. QED
    BY <2>1, <2>2 DEF Decided
<1>5. requests' = [requests EXCEPT ![q].status = h.next.status,
                                   ![q].times = h.next.times]
  BY <1>1, <1>4 DEF DecideSave, StoreTypeOK
<1>6. Promise!Decide(q, h.next.status, h.next.times)
  BY <1>1, <1>5, LedgerTerms DEF DecideSave, Promise!Decide
<1>7. QED
  BY <1>1, <1>2, <1>6

LEMMA DestroyRemoves ==
    ASSUME TypeOK, NEW s \in DeskSlots, DeskHolds(desk[s]), RemoveDestroy(s)
    PROVE  \E q \in RequestIds : Promise!Remove(q)
<1>1. /\ desk[s].qid \in RequestIds /\ requests[desk[s].qid] # Null
      /\ PeriodOpen(requests[desk[s].qid].day)
  BY DeskKind DEF TypeOK, RemoveDestroy, DeskAt, DeskHolds, Removing
<1>2. Promise!Remove(desk[s].qid)
  BY <1>1, LedgerTerms DEF RemoveDestroy, Promise!Remove
<1>3. QED
  BY <1>1, <1>2

LEMMA ClosingWrites ==
    ASSUME TypeOK, NEW s \in ClosingSlots, ClosingHolds(closing[s]),
           CloseWrite(s) \/ ReopenWrite(s)
    PROVE  \E m \in Months : Promise!Close(m) \/ Promise!Reopen(m)
<1> USE DEF TypeOK
<1> DEFINE c == closing[s]
<1>1. c \in ClosingLocal /\ c.month \in Months
  BY DEF CloseWrite, ReopenWrite, ClosingAt, ClosingTypeOK, ClosingLocal
<1>2. CASE CloseWrite(s)
  <2>1. /\ c.recs = MonthFacts(c.month) /\ c.absences = MonthAbsences(c.month)
        /\ closings[c.month].status # "closed"
        /\ c.found = (closings[c.month].status # "none")
    BY <1>2 DEF CloseWrite, ClosingAt, ClosingHolds
  <2>2. closings' = [closings EXCEPT ![c.month] =
                       [status |-> "closed", recs |-> c.recs,
                        absences |-> c.absences]]
    BY <1>2, <2>1 DEF CloseWrite
  <2>3. Promise!Close(c.month)
    BY <1>2, <2>1, <2>2, LedgerTerms DEF CloseWrite, Promise!Close
  <2>4. QED
    BY <1>1, <2>3
<1>3. CASE ReopenWrite(s)
  <2>1. closings[c.month].status = "closed" /\ closings[c.month] \in Closing
    BY <1>1, <1>3 DEF ReopenWrite, ClosingAt, ClosingHolds, StoreTypeOK
  <2>2. closings' = [closings EXCEPT ![c.month].status = "open"]
    BY <1>3, <2>1 DEF ReopenWrite, Reopened
  <2>3. Promise!Reopen(c.month)
    BY <1>3, <2>1, <2>2 DEF ReopenWrite, Promise!Reopen
  <2>4. QED
    BY <1>1, <2>3
<1>4. QED
  BY <1>2, <1>3

LEMMA StepImplements ==
    ASSUME TypeOK, WritesStayOnDay, SerialInv, [Next]_vars
    PROVE  [Promise!Next]_(Promise!ledger)
<1> USE DEF SerialInv
<1>1. CASE PunchNext
  <2>1. ASSUME NEW s \in PunchSlots, PunchCreate(s)
        PROVE  Promise!Next
    BY <2>1, CreateMarks, LedgerConstants
       DEF Promise!Next, PunchCreate, PunchAt, HandlersHold
  <2>2. ASSUME NEW s \in PunchSlots, PunchDestroy(s) \/ PunchFlag(s)
        PROVE  [Promise!Next]_(Promise!ledger)
    BY <2>2, PunchWrites, LedgerConstants
       DEF Promise!Next, PunchDestroy, PunchFlag, PunchAt, HandlersHold
  <2>3. CASE UNCHANGED Promise!ledger
    BY <2>3
  <2>4. QED
    BY <1>1, <2>1, <2>2, <2>3
       DEF PunchNext, PunchStart, PunchStep, PunchCheck, PunchResolve,
           PunchRefuse, PunchEvidence, PunchEvidenceFails, PunchSyncRecords,
           PunchSyncAbsences, PunchUpsert, PunchFails,
           PunchDestroyFails, storeVars, tables,
           Promise!ledger
<1>2. CASE ReviewNext
  <2>1. ASSUME NEW s \in ReviewSlots, ReviewSave(s)
        PROVE  Promise!Next
    BY <2>1, ReviewSaveAmends, LedgerConstants
       DEF Promise!Next, ReviewSave, ReviewAt, HandlersHold
  <2>2. CASE UNCHANGED Promise!ledger
    BY <2>2
  <2>3. QED
    BY <1>2, <2>1, <2>2
       DEF ReviewNext, ReviewLoad, ReviewStep, ReviewCheck, ReviewSyncRecords,
           ReviewSyncAbsences, ReviewUpsert, ReviewFails, storeVars, tables,
           Promise!ledger
<1>3. CASE ClosingNext
  <2>1. ASSUME NEW s \in ClosingSlots, CloseWrite(s) \/ ReopenWrite(s)
        PROVE  Promise!Next
    BY <2>1, ClosingWrites, LedgerConstants
       DEF Promise!Next, CloseWrite, ReopenWrite, ClosingAt, HandlersHold
  <2>2. CASE UNCHANGED Promise!ledger
    BY <2>2
  <2>3. QED
    BY <1>3, <2>1, <2>2
       DEF ClosingNext, CloseStart, ReopenFind, ClosingStep, CloseReadRecords,
           CloseReadAbsences, CloseFind, ClosingFails, storeVars, tables,
           Promise!ledger
<1>4. CASE DeskNext
  <2>1. ASSUME NEW s \in DeskSlots,
               \/ FileCreate(s) \/ DecideAdjust(s) \/ DecideInsert(s)
               \/ DecideSave(s) \/ RemoveDestroy(s) \/ AssignCreate(s)
        PROVE  Promise!Next
    <3>1. DeskHolds(desk[s])
      BY <2>1
         DEF FileCreate, DecideAdjust, DecideInsert, DecideSave, RemoveDestroy,
             AssignCreate, DeskAt, HandlersHold
    <3>2. CASE FileCreate(s) \/ AssignCreate(s)
      BY <3>1, <3>2, FileAsks, AssignAsks, LedgerConstants DEF Promise!Next
    <3>3. CASE DecideAdjust(s) \/ DecideInsert(s)
      BY <3>1, <3>3, AdjustAmends, InsertSupplies, LedgerConstants
         DEF Promise!Next
    <3>4. CASE DecideSave(s) \/ RemoveDestroy(s)
      BY <3>1, <3>4, SaveDecides, DestroyRemoves, LedgerConstants
         DEF Promise!Next
    <3>5. QED
      BY <2>1, <3>2, <3>3, <3>4
  <2>2. CASE UNCHANGED Promise!ledger
    BY <2>2
  <2>3. QED
    BY <1>4, <2>1, <2>2
       DEF DeskNext, DeskOpens, FileStart, RemoveLoad, DecideLoad, AssignStart,
           DeskStep, DecideCheck, DecideReadDay, RemoveCheck, AssignCheck,
           AssignFind, DeskSyncRecords, DeskSyncAbsences, DeskUpsert, DeskFails,
           storeVars, tables, Promise!ledger
<1>5. CASE Tick \/ Crash \/ UNCHANGED vars
  BY <1>5 DEF Tick, Crash, vars, storeVars, tables, Promise!ledger
<1>6. QED
  BY <1>1, <1>2, <1>3, <1>4, <1>5 DEF Next

\* The detailed handlers implement the abstract ledger when those of a user do
\* not overlap, for any number of users, handlers, rows and months: a punch, a
\* review, a decision, a removal, an absence or a closing is one operation of
\* Ledger, at the query that writes, with all of that operation's conditions
\* true at that moment; failures and restarts in between add nothing.
THEOREM TimeClockImplementsLedger == Serialized /\ Spec => ImplementsLedger
<1> SUFFICES ASSUME Serialized
             PROVE  Spec => ImplementsLedger
  OBVIOUS
<1>1. Init => Promise!Init
  BY LedgerConstants DEF Init, StoreInit, Promise!Init
<1>2. TypeOK /\ WritesStayOnDay /\ SerialInv /\ [Next]_vars =>
        [Promise!Next]_(Promise!ledger)
  BY StepImplements
<1>3. QED
  BY <1>1, <1>2, TypeCorrect, WritesOnDay, ChecksStillHold, PTL
     DEF Spec, ImplementsLedger, Promise!Spec

-----------------------------------------------------------------------------
(***************************************************************************)
(* The snapshot of a closed month is exact: no operation of the ledger     *)
(* writes into a closed month, and a closing writes what the month holds.  *)
(***************************************************************************)
LEMMA RecordsOutside ==
    ASSUME NEW m,
           \A i \in RecordIds :
             \/ records'[i] = records[i]
             \/ /\ records[i] # Null => MonthOf[LocalDay[records[i].time]] # m
                /\ records'[i] # Null => MonthOf[LocalDay[records'[i].time]] # m
    PROVE  MonthFacts(m)' = MonthFacts(m)
<1>1. MonthRows(m)' = MonthRows(m)
  BY DEF MonthRows
<1>2. \A i \in MonthRows(m) : records'[i] = records[i]
  BY DEF MonthRows
<1>3. Live(MonthRows(m))' = Live(MonthRows(m))
  BY <1>1, <1>2 DEF Live
<1>4. \A i \in Live(MonthRows(m)) : FactOf(i)' = FactOf(i)
  BY <1>2 DEF Live, FactOf
<1>5. QED
  BY <1>3, <1>4 DEF MonthFacts

LEMMA RequestsOutside ==
    ASSUME NEW m,
           \A q \in RequestIds :
             \/ requests'[q] = requests[q]
             \/ /\ requests[q] # Null => MonthOf[requests[q].day] # m
                /\ requests'[q] # Null => MonthOf[requests'[q].day] # m
    PROVE  MonthAbsences(m)' = MonthAbsences(m)
BY DEF MonthAbsences, IsApprovedAbsence

LEMMA LedgerKeepsSnapshots ==
    ASSUME StoreTypeOK, WritesStayOnDay, RequestIdsUnused, SnapshotFaithful,
           [Promise!Next]_(Promise!ledger)
    PROVE  SnapshotFaithful'
<1> USE LedgerConstants DEF StoreTypeOK
<1>1. ASSUME UNCHANGED <<requests, closings>>,
             \A i \in RecordIds :
               \/ records'[i] = records[i]
               \/ /\ records[i] # Null => PeriodOpen(LocalDay[records[i].time])
                  /\ records'[i] # Null => PeriodOpen(LocalDay[records'[i].time])
      PROVE  SnapshotFaithful'
  <2>1. ASSUME NEW m \in Months, closings[m].status = "closed"
        PROVE  MonthFacts(m)' = MonthFacts(m)
    BY <1>1, <2>1, RecordsOutside DEF PeriodOpen
  <2>2. \A m : MonthAbsences(m)' = MonthAbsences(m)
    BY <1>1, RequestsOutside
  <2>3. QED
    BY <1>1, <2>1, <2>2 DEF SnapshotFaithful
<1>2. ASSUME UNCHANGED <<records, closings>>,
             \A q \in RequestIds :
               \/ requests'[q] = requests[q]
               \/ /\ requests[q] # Null => PeriodOpen(requests[q].day)
                  /\ requests'[q] # Null => PeriodOpen(requests'[q].day)
      PROVE  SnapshotFaithful'
  <2>1. ASSUME NEW m \in Months, closings[m].status = "closed"
        PROVE  MonthAbsences(m)' = MonthAbsences(m)
    BY <1>2, <2>1, RequestsOutside DEF PeriodOpen
  <2>2. \A m : MonthFacts(m)' = MonthFacts(m)
    BY <1>2, RecordsOutside
  <2>3. QED
    BY <1>2, <2>1, <2>2 DEF SnapshotFaithful
<1>3. ASSUME NEW row \in Record, Promise!Insert(row)
      PROVE  SnapshotFaithful'
  <2>1. records[nextRecord] = Null /\ nextRecord \in RecordIds
    BY <1>3 DEF Promise!Insert, WritesStayOnDay, IdsUnused, RecordIds
  <2>2. PeriodOpen(LocalDay[row.time])
    BY <1>3, LedgerTerms DEF Promise!Insert
  <2>3. QED
    BY <1>1, <1>3, <2>1, <2>2 DEF Promise!Insert
<1>4. ASSUME NEW i \in RecordIds, NEW row \in Record, Promise!Amend(i, row)
      PROVE  SnapshotFaithful'
  BY <1>1, <1>4, LedgerTerms DEF Promise!Amend
<1>5. ASSUME NEW i \in RecordIds, Promise!Withdraw(i)
      PROVE  SnapshotFaithful'
  BY <1>1, <1>5, LedgerTerms DEF Promise!Withdraw
<1>6. ASSUME NEW row \in Request, Promise!Ask(row)
      PROVE  SnapshotFaithful'
  <2>1. requests[nextRequest] = Null /\ nextRequest \in RequestIds
    BY <1>6 DEF Promise!Ask, RequestIdsUnused, RequestIds
  <2>2. PeriodOpen(row.day)
    BY <1>6, LedgerTerms DEF Promise!Ask
  <2>3. QED
    BY <1>2, <1>6, <2>1, <2>2 DEF Promise!Ask
<1>7. ASSUME NEW q \in RequestIds, NEW status, NEW times,
             Promise!Decide(q, status, times)
      PROVE  SnapshotFaithful'
  <2>1. requests[q] \in Request /\ PeriodOpen(requests[q].day)
    BY <1>7, LedgerTerms DEF Promise!Decide
  <2>2. \A j \in RequestIds :
          requests'[j] = IF j = q THEN Decided(requests[q], status, times)
                                  ELSE requests[j]
    BY <1>7 DEF Promise!Decide, Decided
  <2>3. Decided(requests[q], status, times).day = requests[q].day
    BY <2>1, DecidedFields
  <2>4. QED
    BY <1>2, <1>7, <2>1, <2>2, <2>3 DEF Promise!Decide
<1>8. ASSUME NEW q \in RequestIds, Promise!Remove(q)
      PROVE  SnapshotFaithful'
  BY <1>2, <1>8, LedgerTerms DEF Promise!Remove
<1>9. ASSUME NEW k \in Months, Promise!Close(k) \/ Promise!Reopen(k)
      PROVE  SnapshotFaithful'
  <2>1. UNCHANGED <<records, requests>>
    BY <1>9 DEF Promise!Close, Promise!Reopen
  <2>2. \A m \in Months :
          MonthFacts(m)' = MonthFacts(m) /\ MonthAbsences(m)' = MonthAbsences(m)
    BY <2>1, MonthUnchanged
  <2>3. CASE Promise!Close(k)
    BY <2>2, <2>3, LedgerTerms DEF SnapshotFaithful, Promise!Close
  <2>4. CASE Promise!Reopen(k)
    <3>1. closings'[k].status = "open"
      BY <2>4 DEF Promise!Reopen, Closing
    <3>2. \A m \in Months : m # k => closings'[m] = closings[m]
      BY <2>4 DEF Promise!Reopen
    <3>3. QED
      BY <2>2, <3>1, <3>2 DEF SnapshotFaithful
  <2>5. QED
    BY <1>9, <2>3, <2>4
<1>10. CASE UNCHANGED Promise!ledger
  BY <1>1, <1>10 DEF Promise!ledger
<1>11. QED
  <2>1. ASSUME NEW row \in Record, Promise!Mark(row) \/ Promise!Supply(row)
        PROVE  SnapshotFaithful'
    BY <1>3, <2>1 DEF Promise!Mark, Promise!Supply
  <2>2. QED
    BY <1>4, <1>5, <1>6, <1>7, <1>8, <1>9, <1>10, <2>1 DEF Promise!Next

\* A closed month's snapshot is the month's content, to the last marking and
\* absence, as long as handlers that concern one user do not overlap and a
\* closing overlaps nothing: for any number of months, users, closings and
\* reopenings, and whatever fails or restarts in between.
THEOREM SnapshotsFaithful == Serialized /\ Spec => []SnapshotFaithful
<1> SUFFICES ASSUME Serialized
             PROVE  Spec => []SnapshotFaithful
  OBVIOUS
<1>1. Init => SnapshotFaithful
  BY DEF Init, StoreInit, SnapshotFaithful
<1>2. /\ TypeOK /\ WritesStayOnDay /\ SerialInv /\ SnapshotFaithful
      /\ [Next]_vars
      => SnapshotFaithful'
  BY StepImplements, LedgerKeepsSnapshots DEF TypeOK, SerialInv
<1>3. QED
  BY <1>1, <1>2, TypeCorrect, WritesOnDay, ChecksStillHold, PTL DEF Spec

-----------------------------------------------------------------------------
(***************************************************************************)
(* Journeys. Where punches are the only writers no marking is rejected, so *)
(* every marking counts; and a punch that may still take its marking back  *)
(* leaves a legal day behind when it does.                                 *)
(***************************************************************************)
NoneRejected ==
    \A i \in RecordIds : records[i] # Null => records[i].status # "rejected"

\* The markings in ids form a journey that normalizeManualType allows.
LegalJourney(ids) ==
    LET have == {records[i].type : i \in ids} IN
    /\ \A i, j \in ids : records[i].type = records[j].type => i = j
    /\ \A i, j \in ids : records[i].type \in Earlier[records[j].type] =>
                           records[i].time < records[j].time
    /\ \A type \in have : Earlier[type] \subseteq have \/ have = {"entry", "exit"}

\* The punch of slot s has inserted its marking and waits to store its photo.
Revocable(s) == punch[s] # Null /\ punch[s].pc \in {"evidence", "destroy"}

JourneyInv ==
    /\ NoneRejected
    /\ \A u \in Users, d \in Days : LegalJourney(RowsOf(u, d))
    /\ \A s \in PunchSlots : Revocable(s) =>
         \A d \in Days : LegalJourney(RowsOf(punch[s].user, d) \ {punch[s].rid})

LEMMA LiveIsAll ==
    ASSUME NoneRejected
    PROVE  \A u, d : Live(RowsOf(u, d)) = RowsOf(u, d)
BY DEF NoneRejected, Live, RowsOf

LEMMA JourneyInvImplies ==
    ASSUME JourneyInv
    PROVE  JourneyLegal
<1>1. NoTypeTwice
  BY LiveIsAll DEF JourneyInv, LegalJourney, NoTypeTwice
<1>2. \A have : Suggested(have) = {type \in Types : Accepts("auto", have, type)}
  BY DEF Suggested, Accepts, IsExpected, Types
<1>3. QED
  BY <1>1, <1>2, LiveIsAll
     DEF JourneyInv, LegalJourney, JourneyLegal, FaceSuggestion

\* A journey is a matter of its own rows.
LEMMA SameJourney ==
    ASSUME NEW ids, \A i \in ids : records'[i] = records[i], LegalJourney(ids)
    PROVE  LegalJourney(ids)'
BY DEF LegalJourney

LEMMA UntouchedJourney ==
    ASSUME NEW u, NEW d, NEW x, Untouched(u)
    PROVE  /\ LegalJourney(RowsOf(u, d)) => LegalJourney(RowsOf(u, d))'
           /\ LegalJourney(RowsOf(u, d) \ {x}) => LegalJourney(RowsOf(u, d) \ {x})'
<1>1. RowsOf(u, d)' = RowsOf(u, d)
  BY UntouchedRows
<1>2. \A i \in RowsOf(u, d) : records'[i] = records[i]
  BY UntouchedRows DEF RowsOf
<1>3. QED
  BY <1>1, <1>2 DEF LegalJourney

\* An accepted marking, later than the rest, extends a legal journey.
LEMMA AcceptedExtends ==
    ASSUME NEW ids, LegalJourney(ids), NEW n, n \notin ids,
           \A i \in ids : /\ records'[i] = records[i]
                          /\ records[i].type \in Types
                          /\ records[i].time \in Nat,
           records'[n].type \in Types, records'[n].time \in Nat,
           \A i \in ids : records[i].time < records'[n].time,
           NEW want,
           Accepts(want, {records[i].type : i \in ids}, records'[n].type)
    PROVE  LegalJourney(ids \cup {n})'
<1> DEFINE have == {records[i].type : i \in ids}
           type == records'[n].type
           after == {records'[i].type : i \in ids \cup {n}}
<1>1. after = have \cup {type}
  OBVIOUS
<1>2. /\ type \notin have /\ "exit" \notin have
      /\ \/ Earlier[type] \subseteq have
         \/ type = "exit" /\ "entry" \in have /\ "lunch_start" \notin have
  BY DEF Accepts, IsExpected, Earlier
<1>3. have \subseteq Types
  OBVIOUS
<1>4. \A t \in have : Earlier[t] \subseteq have
  BY <1>2 DEF LegalJourney
<1>5. \A i, j \in ids \cup {n} : records'[i].type = records'[j].type => i = j
  BY <1>2 DEF LegalJourney
<1>6. ASSUME NEW i \in ids \cup {n}, NEW j \in ids \cup {n},
             records'[i].type \in Earlier[records'[j].type]
      PROVE  records'[i].time < records'[j].time
  <2>1. CASE i \in ids /\ j \in ids
    BY <1>6, <2>1 DEF LegalJourney
  <2>2. CASE i \in ids /\ j = n
    BY <2>2
  <2>3. CASE i = n /\ j \in ids
    BY <1>2, <1>4, <1>6, <2>3
  <2>4. CASE i = n /\ j = n
    BY <1>6, <2>4 DEF Earlier, Types
  <2>5. QED
    BY <2>1, <2>2, <2>3, <2>4
<1>7. ASSUME NEW t \in after
      PROVE  Earlier[t] \subseteq after \/ after = {"entry", "exit"}
  <2>1. CASE Earlier[type] \subseteq have
    BY <1>1, <1>4, <2>1
  <2>2. CASE type = "exit" /\ "entry" \in have /\ "lunch_start" \notin have
    <3>1. "lunch_end" \notin have
      BY <1>4, <2>2 DEF Earlier
    <3>2. have = {"entry"}
      BY <1>2, <1>3, <2>2, <3>1 DEF Types
    <3>3. QED
      BY <1>1, <2>2, <3>2
  <2>3. QED
    BY <1>2, <2>1, <2>2
<1>8. QED
  BY <1>5, <1>6, <1>7 DEF LegalJourney

\* Steps that leave the markings alone, as far as the punches go.
LEMMA PunchRevocable ==
    ASSUME TypeOK, NEW s \in PunchSlots,
           \/ PunchStep(s) \/ PunchEvidenceFails(s)
           \/ PunchDestroyFails(s) \/ PunchFails(s),
           ~PunchCreate(s), Revocable(s)'
    PROVE  /\ Revocable(s) /\ punch'[s].rid = punch[s].rid
           /\ records' = records
<1> USE DEF TypeOK, PunchTypeOK, Revocable
<1>1. CASE PunchEvidenceFails(s)
  <2>1. punch[s] \in Storing
    BY <1>1, PunchKind DEF PunchEvidenceFails
  <2>2. QED
    BY <1>1, <2>1, PunchFields
       DEF PunchEvidenceFails, PunchAt, storeVars, tables
<1>2. CASE PunchCheck(s) \/ PunchResolve(s)
  <2>1. punch[s] \in Reading
    BY <1>2, PunchKind DEF PunchCheck, PunchResolve
  <2>2. QED
    BY <1>2, <2>1, PunchFields DEF PunchCheck, PunchResolve, PunchEnds
<1>3. CASE PunchEvidence(s)
  BY <1>3, PunchFields DEF PunchEvidence
<1>4. CASE PunchSyncRecords(s) \/ PunchSyncAbsences(s) \/ PunchUpsert(s)
  <2>1. punch[s] \in PunchSync
    BY <1>4, PunchKind DEF PunchSyncRecords, PunchSyncAbsences, PunchUpsert, SyncPCs
  <2>2. QED
    BY <1>4, <2>1, PunchFields
       DEF PunchSyncRecords, PunchSyncAbsences, PunchUpsert, PunchEnds
<1>5. CASE \/ PunchRefuse(s) \/ PunchDestroy(s) \/ PunchFlag(s)
           \/ PunchDestroyFails(s) \/ PunchFails(s)
  BY <1>5 DEF PunchRefuse, PunchDestroy, PunchFlag, PunchFails,
         PunchDestroyFails, PunchEnds
<1>6. QED
  BY <1>1, <1>2, <1>3, <1>4, <1>5 DEF PunchStep

\* Row i is the same marking as before, whatever its status.
SameMarking(i) ==
    \/ records'[i] = records[i]
    \/ /\ records[i] # Null /\ records'[i] # Null
       /\ records'[i].user = records[i].user
       /\ records'[i].type = records[i].type
       /\ records'[i].time = records[i].time
       /\ records'[i].status # "rejected"

LEMMA QuietJourneys ==
    ASSUME TypeOK, JourneyInv, \A i \in RecordIds : SameMarking(i),
           \A s \in PunchSlots : Revocable(s)' =>
             /\ Revocable(s) /\ punch'[s].rid = punch[s].rid
             /\ punch'[s].user = punch[s].user
    PROVE  JourneyInv'
<1>1. \A u, d : RowsOf(u, d)' = RowsOf(u, d)
  BY DEF RowsOf, SameMarking
<1>2. ASSUME NEW ids \in SUBSET RecordIds, LegalJourney(ids)
      PROVE  LegalJourney(ids)'
  <2>1. \A i \in ids : /\ records'[i].type = records[i].type
                       /\ records'[i].time = records[i].time
    BY DEF SameMarking
  <2>2. {records'[i].type : i \in ids} = {records[i].type : i \in ids}
    BY <2>1
  <2>3. QED
    BY <1>2, <2>1, <2>2 DEF LegalJourney
<1>3. ASSUME NEW u \in Users, NEW d \in Days
      PROVE  LegalJourney(RowsOf(u, d))'
  <2>1. PICK ids \in SUBSET RecordIds : ids = RowsOf(u, d)
    BY DEF RowsOf
  <2>2. LegalJourney(ids)'
    BY <1>2, <2>1 DEF JourneyInv
  <2>3. RowsOf(u, d)' = ids
    BY <1>1, <2>1
  <2>4. QED
    BY <2>2, <2>3 DEF LegalJourney
<1>4. ASSUME NEW s \in PunchSlots, Revocable(s)', NEW d \in Days
      PROVE  LegalJourney(RowsOf(punch[s].user, d) \ {punch[s].rid})'
  <2>1. PICK u, x : u = punch[s].user /\ x = punch[s].rid
    OBVIOUS
  <2>2. Revocable(s) /\ punch'[s].user = u /\ punch'[s].rid = x
    BY <1>4, <2>1
  <2>3. PICK ids \in SUBSET RecordIds : ids = RowsOf(u, d) \ {x}
    BY DEF RowsOf
  <2>4. LegalJourney(ids)'
    BY <1>2, <2>1, <2>2, <2>3 DEF JourneyInv
  <2>5. RowsOf(u, d)' \ {x} = ids
    BY <1>1, <2>3
  <2>6. QED
    BY <2>2, <2>4, <2>5 DEF LegalJourney, RowsOf
<1>5. NoneRejected'
  BY DEF JourneyInv, NoneRejected, SameMarking
<1>6. QED
  BY <1>3, <1>4, <1>5 DEF JourneyInv

\* A punch that writes: the others' days are as they were.
LEMMA OtherJourneys ==
    ASSUME TypeOK, SerialInv, JourneyInv, NEW s \in PunchSlots, punch[s] # Null,
           LeavesOthers(punch[s].user),
           \A t \in PunchSlots : t # s => punch'[t] = punch[t]
    PROVE  /\ \A u \in Users, d \in Days :
                u # punch[s].user => LegalJourney(RowsOf(u, d))'
           /\ \A t \in PunchSlots : t # s /\ Revocable(t)' =>
                \A d \in Days : LegalJourney(RowsOf(punch[t].user, d) \ {punch[t].rid})'
<1>1. ASSUME NEW u \in Users, NEW d \in Days, u # punch[s].user
      PROVE  LegalJourney(RowsOf(u, d))'
  BY <1>1, UntouchedJourney DEF LeavesOthers, JourneyInv
<1>2. ASSUME NEW t \in PunchSlots, t # s, Revocable(t)', NEW d \in Days
      PROVE  LegalJourney(RowsOf(punch[t].user, d) \ {punch[t].rid})'
  <2>1. Revocable(t) /\ punch[t].user \in Users /\ punch[t].user # punch[s].user
    BY <1>2, HandlerUser DEF Revocable, SerialInv, Alone, PunchAlone
  <2>2. LegalJourney(RowsOf(punch[t].user, d) \ {punch[t].rid})
    BY <2>1 DEF JourneyInv
  <2>3. Untouched(punch[t].user)
    BY <2>1 DEF LeavesOthers
  <2>4. /\ RowsOf(punch[t].user, d)' = RowsOf(punch[t].user, d)
        /\ \A i \in RowsOf(punch[t].user, d) : records'[i] = records[i]
        /\ punch'[t] = punch[t]
    <3>1. punch'[t] = punch[t]
      BY <1>2
    <3>2. QED
      BY <2>3, <3>1, UntouchedRows DEF RowsOf
  <2>5. QED
    BY <2>2, <2>4 DEF LegalJourney
<1>3. QED
  BY <1>1, <1>2

\* An insert adds the row to its user's day.
LEMMA InsertedRow ==
    ASSUME StoreTypeOK, NEW n \in RecordIds, records[n] = Null,
           NEW row \in Record, records' = [records EXCEPT ![n] = row]
    PROVE  \A u, d : RowsOf(u, d)' =
             IF u = row.user /\ d = LocalDay[row.time]
               THEN RowsOf(u, d) \cup {n} ELSE RowsOf(u, d)
<1>1. /\ \A i \in RecordIds : i # n => records'[i] = records[i]
      /\ records'[n] = row /\ row # Null
  BY NullAssumption DEF StoreTypeOK
<1>2. QED
  BY <1>1 DEF RowsOf

LEMMA CreateJourneys ==
    ASSUME TypeOK, WritesStayOnDay, SerialInv, JourneyInv, NEW s \in PunchSlots,
           PunchCreate(s)
    PROVE  JourneyInv'
<1> USE DEF TypeOK, PunchTypeOK
<1> DEFINE p == punch[s]
           row == [user |-> p.user, time |-> p.at, type |-> p.type,
                   status |-> IF p.channel = "remote" /\ p.review
                                THEN "pending_approval" ELSE "valid"]
<1>1. p \in Creating /\ p # Null /\ PunchHolds(p)
  BY PunchKind DEF PunchCreate, PunchAt, SerialInv, HandlersHold
<1>2. row \in Record /\ row.status # "rejected"
  BY <1>1 DEF Creating, MarkingAt, Record, RecordStatuses
<1>3. PICK u \in Users, day \in Days, n \in RecordIds :
        u = p.user /\ day = LocalDay[p.at] /\ n = nextRecord
  BY <1>1, StoreAssumption
     DEF PunchCreate, InsertRecord, StoreTypeOK, RecordIds, Creating, MarkingAt
<1>4. records[n] = Null /\ records' = [records EXCEPT ![n] = row]
  BY <1>3, StoreAssumption
     DEF PunchCreate, InsertRecord, WritesStayOnDay, IdsUnused, RecordIds
<1>5. /\ \A i \in RecordIds : i # n => records'[i] = records[i]
      /\ records'[n] = row
  BY <1>4 DEF StoreTypeOK
<1>6. \A d : RowsOf(u, d)' = IF d = day THEN RowsOf(u, d) \cup {n}
                                        ELSE RowsOf(u, d)
  <2>1. row.user = u /\ LocalDay[row.time] = day
    BY <1>3
  <2> HIDE DEF row
  <2>2. QED
    BY <1>2, <1>4, <2>1, InsertedRow
<1>7. \A d : n \notin RowsOf(u, d) /\ \A i \in RowsOf(u, d) : records'[i] = records[i]
  BY <1>4, <1>5 DEF RowsOf
<1>8. \A d \in Days : LegalJourney(RowsOf(u, d))
  BY DEF JourneyInv
<1>9. \A d \in Days : LegalJourney(RowsOf(u, d))'
  <2>1. PICK ids : ids = RowsOf(u, day)
    OBVIOUS
  <2>2. ids = Today(p)
    BY <1>3, <2>1, LiveIsAll DEF JourneyInv, Today
  <2>3. PICK want : Accepts(want, {records[i].type : i \in ids}, p.type)
    BY <1>1, <2>2 DEF PunchCreate, PunchAt, PunchHolds, TypesToday
  <2>4. p.type \in Types /\ p.at \in Nat
    BY <1>1, StoreAssumption DEF Creating, MarkingAt, Times
  <2>5. \A i \in ids : /\ records'[i] = records[i]
                       /\ records[i].type \in Types /\ records[i].time \in Nat
    <3>1. \A i \in ids : records'[i] = records[i]
      BY <1>7, <2>1
    <3>2. \A i \in ids : records[i].type \in Types /\ records[i].time \in Nat
      BY <2>1, StoreAssumption DEF RowsOf, StoreTypeOK, Record, Times
    <3>3. QED
      BY <3>1, <3>2
  <2>6. \A i \in ids : records[i].time < p.at
    <3>1. ~IsRecent(p)
      BY <1>1 DEF PunchCreate, PunchAt, PunchHolds
    <3>2. QED
      BY <2>2, <2>4, <2>5, <3>1 DEF IsRecent
  <2>7. records'[n].type = p.type /\ records'[n].time = p.at
    BY <1>5
  <2>8. LegalJourney(ids) /\ n \notin ids
    BY <1>7, <1>8, <2>1
  <2>9. LegalJourney(ids \cup {n})'
    BY <2>3, <2>4, <2>5, <2>6, <2>7, <2>8, AcceptedExtends
  <2>10. RowsOf(u, day)' = ids \cup {n}
    BY <1>6, <2>1
  <2>11. ASSUME NEW d \in Days PROVE LegalJourney(RowsOf(u, d))'
    <3>1. CASE d = day
      BY <2>9, <2>10, <3>1 DEF LegalJourney
    <3>2. CASE d # day
      BY <1>6, <1>7, <1>8, <3>2 DEF LegalJourney
    <3>3. QED
      BY <3>1, <3>2
  <2>12. QED
    BY <2>11
<1>10. \A d \in Days : LegalJourney(RowsOf(u, d) \ {n})'
  BY <1>6, <1>7, <1>8 DEF LegalJourney
<1>11. LeavesOthers(p.user)
  BY <1>1, PunchLeavesOthers DEF WritesStayOnDay, PunchStep
<1>12. \A t \in PunchSlots : t # s => punch'[t] = punch[t]
  BY DEF PunchCreate
<1>13. Revocable(s)' => punch'[s].user = u /\ punch'[s].rid = n
  BY <1>1, <1>3, PunchFields DEF PunchCreate, Revocable
<1>14. NoneRejected'
  BY <1>2, <1>5 DEF JourneyInv, NoneRejected
<1>15. /\ \A v \in Users, d \in Days : LegalJourney(RowsOf(v, d))'
       /\ \A t \in PunchSlots : t # s /\ Revocable(t)' =>
            \A d \in Days : LegalJourney(RowsOf(punch[t].user, d) \ {punch[t].rid})'
  BY <1>1, <1>3, <1>9, <1>11, <1>12, OtherJourneys
<1>16. Revocable(s)' =>
         \A d \in Days : LegalJourney(RowsOf(punch[s].user, d) \ {punch[s].rid})'
  BY <1>10, <1>13 DEF RowsOf
<1>17. QED
  BY <1>14, <1>15, <1>16 DEF JourneyInv

LEMMA DestroyJourneys ==
    ASSUME TypeOK, SerialInv, JourneyInv, NEW s \in PunchSlots, PunchDestroy(s)
    PROVE  JourneyInv'
<1> USE DEF TypeOK, PunchTypeOK
<1>1. punch[s] \in Storing /\ punch[s] # Null /\ PunchHolds(punch[s])
  BY PunchKind DEF PunchDestroy, PunchAt, SerialInv, HandlersHold
<1>2. PICK u \in Users, n \in RecordIds : u = punch[s].user /\ n = punch[s].rid
  BY <1>1 DEF Storing, MarkingAt
<1>3. /\ \A i \in RecordIds : i # n => records'[i] = records[i]
      /\ records'[n] = Null
  BY <1>2 DEF PunchDestroy, StoreTypeOK
<1>4. \A d : RowsOf(u, d)' = RowsOf(u, d) \ {n}
  BY <1>3 DEF RowsOf
<1>5. ASSUME NEW d \in Days
      PROVE  LegalJourney(RowsOf(u, d))'
  <2>1. PICK ids : ids = RowsOf(u, d) \ {n}
    OBVIOUS
  <2>2. LegalJourney(ids)
    BY <1>1, <1>2, <2>1 DEF JourneyInv, Revocable, PunchDestroy, PunchAt
  <2>3. \A i \in ids : records'[i] = records[i]
    BY <1>3, <2>1 DEF RowsOf
  <2>4. LegalJourney(ids)'
    BY <2>2, <2>3, SameJourney
  <2>5. RowsOf(u, d)' = ids
    BY <1>4, <2>1
  <2>6. QED
    BY <2>4, <2>5 DEF LegalJourney
<1>6. LeavesOthers(punch[s].user)
  <2>1. Editable(n, u)
    BY <1>1, <1>2 DEF PunchDestroy, PunchAt, PunchHolds
  <2>2. QED
    BY <1>2, <2>1, RecordUntouched DEF PunchDestroy, Editable
<1>7. (\A t \in PunchSlots : t # s => punch'[t] = punch[t]) /\ ~Revocable(s)'
  BY DEF PunchDestroy, PunchEnds, Revocable
<1>8. /\ \A v \in Users, d \in Days : LegalJourney(RowsOf(v, d))'
      /\ \A t \in PunchSlots : t # s /\ Revocable(t)' =>
           \A d \in Days : LegalJourney(RowsOf(punch[t].user, d) \ {punch[t].rid})'
  BY <1>1, <1>2, <1>5, <1>6, <1>7, OtherJourneys
<1>9. NoneRejected'
  BY <1>3 DEF JourneyInv, NoneRejected
<1>10. QED
  BY <1>7, <1>8, <1>9 DEF JourneyInv

LEMMA JourneyInvNext ==
    ASSUME TypeOK, WritesStayOnDay, SerialInv, JourneyInv,
           ReviewSlots = {}, DeskSlots = {}, [Next]_vars
    PROVE  JourneyInv'
<1> USE DEF TypeOK, PunchTypeOK
<1>1. ASSUME UNCHANGED <<records, punch>>
      PROVE  JourneyInv'
  BY <1>1, QuietJourneys DEF SameMarking, Revocable
<1>2. CASE PunchNext
  <2>1. ASSUME NEW s \in PunchSlots, NEW u, NEW want, NEW channel, NEW rv,
               PunchStart(s, u, want, channel, rv)
        PROVE  JourneyInv'
    <3>1. records' = records
      BY <2>1 DEF PunchStart, storeVars, tables
    <3>2. \A t \in PunchSlots : Revocable(t)' => punch'[t] = punch[t]
      BY <2>1 DEF PunchStart, Revocable
    <3>3. QED
      BY <3>1, <3>2, QuietJourneys DEF SameMarking, Revocable
  <2>2. ASSUME NEW s \in PunchSlots, PunchFlag(s)
        PROVE  JourneyInv'
    <3> DEFINE j == punch[s].flag
    <3>1. \A i \in RecordIds :
            records'[i] = IF i = j THEN ToApproval(records[i]) ELSE records[i]
      BY <2>2 DEF PunchFlag, StoreTypeOK
    <3>2. \A row \in Record :
            /\ ToApproval(row) \in Record
            /\ ToApproval(row).user = row.user /\ ToApproval(row).type = row.type
            /\ ToApproval(row).time = row.time
            /\ ToApproval(row).status = "pending_approval"
      BY NullAssumption DEF ToApproval, Record, RecordStatuses
    <3>3. ASSUME NEW i \in RecordIds PROVE SameMarking(i)
      <4>1. CASE records[i] = Null
        BY <3>1, <4>1 DEF SameMarking, ToApproval
      <4>2. CASE records[i] \in Record
        BY <3>1, <3>2, <4>2, NullAssumption DEF SameMarking
      <4>3. QED
        BY <4>1, <4>2 DEF StoreTypeOK
    <3>4. \A t \in PunchSlots : Revocable(t)' => punch'[t] = punch[t]
      BY <2>2 DEF PunchFlag, PunchEnds, Revocable
    <3>5. QED
      BY <3>3, <3>4, QuietJourneys DEF Revocable
  <2>3. ASSUME NEW s \in PunchSlots,
               \/ PunchStep(s) \/ PunchEvidenceFails(s)
               \/ PunchDestroyFails(s) \/ PunchFails(s),
               ~PunchCreate(s), ~PunchDestroy(s), ~PunchFlag(s)
        PROVE  JourneyInv'
    <3>1. records' = records
      BY <2>3
         DEF PunchStep, PunchCheck, PunchResolve, PunchRefuse, PunchEvidence,
             PunchEvidenceFails, PunchSyncRecords, PunchSyncAbsences,
             PunchUpsert, PunchFails, PunchDestroyFails, storeVars, tables
    <3>2. ASSUME NEW t \in PunchSlots, Revocable(t)'
          PROVE  /\ Revocable(t) /\ punch'[t].rid = punch[t].rid
                 /\ punch'[t].user = punch[t].user
      <4>1. CASE t = s
        BY <2>3, <3>2, <4>1, PunchRevocable, PunchGoesOn DEF Revocable
      <4>2. CASE t # s
        BY <2>3, <3>2, <4>2, PunchGoesOn DEF Revocable
      <4>3. QED
        BY <4>1, <4>2
    <3>3. QED
      BY <3>1, <3>2, QuietJourneys DEF SameMarking
  <2>4. QED
    BY <1>2, <2>1, <2>2, <2>3, CreateJourneys, DestroyJourneys
       DEF PunchNext, PunchStep
<1>3. CASE ClosingNext
  BY <1>1, <1>3
     DEF ClosingNext, CloseStart, ReopenFind, ClosingStep, CloseReadRecords,
         CloseReadAbsences, CloseFind, CloseWrite, ReopenWrite, ClosingFails,
         storeVars, tables
<1>4. CASE Tick \/ UNCHANGED vars
  BY <1>1, <1>4 DEF Tick, vars, tables, handlers
<1>5. CASE Crash
  <2>1. records' = records /\ \A t \in PunchSlots : ~Revocable(t)'
    BY <1>5 DEF Crash, storeVars, tables, Revocable
  <2>2. QED
    BY <2>1, QuietJourneys DEF SameMarking
<1>6. QED
  BY <1>2, <1>3, <1>4, <1>5 DEF Next, ReviewNext, DeskNext

\* Where punches are the only writers and those of a user do not overlap, the
\* markings of every day form a journey normalizeManualType allows, for any
\* number of users, terminals, days and failed photos: also when a remote
\* marking is taken back, and when a restart leaves it in place instead.
THEOREM JourneysLegal ==
    Serialized /\ ReviewSlots = {} /\ DeskSlots = {} /\ Spec => []JourneyLegal
<1> SUFFICES ASSUME Serialized, ReviewSlots = {}, DeskSlots = {}
             PROVE  Spec => []JourneyLegal
  OBVIOUS
<1>1. Init => JourneyInv
  BY DEF Init, StoreInit, PunchInit, JourneyInv, NoneRejected, RowsOf,
         LegalJourney, Revocable
<1>2. TypeOK /\ WritesStayOnDay /\ SerialInv /\ JourneyInv /\ [Next]_vars
        => JourneyInv'
  BY JourneyInvNext
<1>3. JourneyInv => JourneyLegal
  BY JourneyInvImplies
<1>4. QED
  BY <1>1, <1>2, <1>3, TypeCorrect, WritesOnDay, ChecksStillHold, PTL DEF Spec

-----------------------------------------------------------------------------
(***************************************************************************)
(* Summaries. A user without a handler in flight has fresh summaries; one  *)
(* with a handler has them except for the day the handler still has to     *)
(* refresh, and what that refresh has read so far is what there is.        *)
(***************************************************************************)
Fresh(u) == \A d \in Days : Shows(u, d)
FreshBut(u, day) == \A d \in Days : d # day => Shows(u, d)

\* The summary is the day's without record n.
ShowsBut(u, d, n) ==
    LET facts == {FactOf(i) : i \in Live(RowsOf(u, d)) \ {n}} IN
    IF summaries[u][d] = Null
      THEN facts = {} /\ DayAbsences(u, d) = {}
      ELSE summaries[u][d] = [recs |-> facts, absences |-> DayAbsences(u, d)]

\* A refresh of h that is under way.
Refreshes(h) ==
    h.pc \in SyncPCs =>
      /\ FreshBut(h.user, h.key)
      /\ h.pc \in {"absences", "upsert"} => h.seen = DayFacts(h.user, h.key)
      /\ h.pc = "upsert" => h.absences = DayAbsences(h.user, h.key)

PunchFresh(p) ==
    /\ p.pc \in {"period", "read", "create", "flag"} => Fresh(p.user)
    /\ p.pc \in {"evidence", "destroy"} =>
         /\ records[p.rid].time = p.at
         /\ FreshBut(p.user, LocalDay[p.at])
         /\ ShowsBut(p.user, LocalDay[p.at], p.rid)
    /\ Refreshes(p)
    /\ p.pc \in SyncPCs \cup {"flag"} /\ p.flag # 0 =>
         records[p.flag].status # "rejected"

ReviewFresh(r) ==
    /\ r.pc \in {"period", "save"} => Fresh(r.user)
    /\ Refreshes(r)

DeskFresh(h) ==
    /\ h.pc \notin {"apply", "save"} \cup SyncPCs => Fresh(h.user)
    /\ h.pc \in {"apply", "save"} => FreshBut(h.user, h.next.day)
    /\ Refreshes(h)

FreshInv ==
    /\ SummaryFresh
    /\ \A s \in PunchSlots : punch[s] # Null => PunchFresh(punch[s])
    /\ \A s \in ReviewSlots : review[s] # Null => ReviewFresh(review[s])
    /\ \A s \in DeskSlots : desk[s] # Null => DeskFresh(desk[s])

\* Nothing of the user's day d, or of its summary, changes.
DaySame(u, d) ==
    /\ summaries'[u][d] = summaries[u][d]
    /\ \A i \in RecordIds :
         \/ records'[i] = records[i]
         \/ /\ i \notin RowsOf(u, d)
            /\ records'[i] # Null /\ records'[i].user = u =>
                 LocalDay[records'[i].time] # d
    /\ \A q \in RequestIds :
         \/ requests'[q] = requests[q]
         \/ /\ q \notin DayAbsences(u, d)
            /\ requests'[q] # Null /\ requests'[q].user = u =>
                 requests'[q].day # d

LEMMA SameDayFacts ==
    ASSUME NEW u, NEW d, DaySame(u, d)
    PROVE  /\ Live(RowsOf(u, d))' = Live(RowsOf(u, d))
           /\ DayFacts(u, d)' = DayFacts(u, d)
           /\ DayAbsences(u, d)' = DayAbsences(u, d)
           /\ Shows(u, d) => Shows(u, d)'
           /\ \A n : ShowsBut(u, d, n) => ShowsBut(u, d, n)'
<1>1. RowsOf(u, d)' = RowsOf(u, d)
  BY DEF DaySame, RowsOf
<1>2. \A i \in RowsOf(u, d) : records'[i] = records[i]
  BY DEF DaySame, RowsOf
<1>3. Live(RowsOf(u, d))' = Live(RowsOf(u, d))
  BY <1>1, <1>2 DEF Live
<1>4. \A i \in Live(RowsOf(u, d)) : FactOf(i)' = FactOf(i)
  BY <1>2 DEF Live, FactOf
<1>5. DayFacts(u, d)' = DayFacts(u, d)
  BY <1>3, <1>4 DEF DayFacts
<1>6. DayAbsences(u, d)' = DayAbsences(u, d)
  BY DEF DaySame, DayAbsences, IsApprovedAbsence
<1>7. Shows(u, d) => Shows(u, d)'
  BY <1>5, <1>6 DEF Shows, DaySame
<1>8. ASSUME NEW n, ShowsBut(u, d, n)
      PROVE  ShowsBut(u, d, n)'
  <2>1. {FactOf(i) : i \in Live(RowsOf(u, d)) \ {n}}' =
          {FactOf(i) : i \in Live(RowsOf(u, d)) \ {n}}
    BY <1>3, <1>4
  <2>2. QED
    BY <1>6, <1>8, <2>1 DEF ShowsBut, DaySame
<1>9. QED
  BY <1>3, <1>5, <1>6, <1>7, <1>8

LEMMA UntouchedDays ==
    ASSUME NEW u, Untouched(u), summaries'[u] = summaries[u]
    PROVE  \A d : DaySame(u, d)
BY DEF Untouched, DaySame, RowsOf, DayAbsences, IsApprovedAbsence

LEMMA QuietDays ==
    ASSUME UNCHANGED <<records, requests, summaries>>
    PROVE  \A u, d : DaySame(u, d)
BY DEF DaySame

\* A handler of an untouched user stays as fresh as it was.
LEMMA BystandersFresh ==
    ASSUME TypeOK, HandlersHold, FreshInv, NEW u \in Users,
           \A d : DaySame(u, d),
           \A i \in RecordIds :
             records[i] # Null /\ records[i].user = u => records'[i] = records[i]
    PROVE  /\ Fresh(u) => Fresh(u)'
           /\ \A t \in PunchSlots :
                /\ punch[t] # Null /\ punch[t].user = u /\ punch'[t] = punch[t]
                => PunchFresh(punch[t])'
           /\ \A t \in ReviewSlots :
                /\ review[t] # Null /\ review[t].user = u /\ review'[t] = review[t]
                => ReviewFresh(review[t])'
           /\ \A t \in DeskSlots :
                /\ desk[t] # Null /\ desk[t].user = u /\ desk'[t] = desk[t]
                => DeskFresh(desk[t])'
<1>1. Fresh(u) => Fresh(u)'
  BY SameDayFacts DEF Fresh
<1>2. \A day : FreshBut(u, day) => FreshBut(u, day)'
  BY SameDayFacts DEF FreshBut
<1>3. \A h : h.user = u /\ Refreshes(h) => Refreshes(h)'
  BY <1>2, SameDayFacts DEF Refreshes
<1>4. ASSUME NEW t \in PunchSlots, punch[t] # Null, punch[t].user = u,
             punch'[t] = punch[t]
      PROVE  PunchFresh(punch[t])'
  <2>1. PICK p : p = punch[t]
    OBVIOUS
  <2>2. PunchFresh(p) /\ PunchHolds(p) /\ p.user = u
    BY <1>4, <2>1 DEF FreshInv, HandlersHold
  <2>3. /\ p.pc \in {"evidence", "destroy"} =>
             p.rid \in RecordIds /\ records'[p.rid] = records[p.rid]
        /\ p.pc \in SyncPCs \cup {"flag"} /\ p.flag # 0 =>
             p.flag \in RecordIds /\ records'[p.flag] = records[p.flag]
    <3>1. p.pc \in {"evidence", "destroy"} => p \in Storing
      BY <1>4, <2>1, PunchKind DEF TypeOK, PunchAt
    <3>2. p.pc \in SyncPCs \cup {"flag"} => p \in PunchSync
      BY <1>4, <2>1, PunchKind DEF TypeOK, PunchAt
    <3>3. QED
      BY <2>2, <3>1, <3>2, StoreAssumption
         DEF PunchHolds, Editable, Storing, MarkingAt, PunchSync, RecordIds
  <2>4. PunchFresh(p)'
    BY <1>1, <1>2, <1>3, <2>2, <2>3, SameDayFacts DEF PunchFresh
  <2>5. QED
    BY <1>4, <2>1, <2>4
<1>5. ASSUME NEW t \in ReviewSlots, review[t] # Null, review[t].user = u,
             review'[t] = review[t]
      PROVE  ReviewFresh(review[t])'
  <2>1. PICK r : r = review[t]
    OBVIOUS
  <2>2. ReviewFresh(r)'
    BY <1>1, <1>3, <1>5, <2>1 DEF FreshInv, ReviewFresh
  <2>3. QED
    BY <1>5, <2>1, <2>2
<1>6. ASSUME NEW t \in DeskSlots, desk[t] # Null, desk[t].user = u,
             desk'[t] = desk[t]
      PROVE  DeskFresh(desk[t])'
  <2>1. PICK h : h = desk[t]
    OBVIOUS
  <2>2. DeskFresh(h)'
    BY <1>1, <1>2, <1>3, <1>6, <2>1 DEF FreshInv, DeskFresh
  <2>3. QED
    BY <1>6, <2>1, <2>2
<1>7. QED
  BY <1>1, <1>4, <1>5, <1>6

\* The two reads of a refresh, and its end.
LEMMA RefreshReads ==
    ASSUME NEW h \in PunchSync \cup ReviewSync \cup DeskSync, Refreshes(h), NEW q,
           \/ h.pc = "records" /\ q = SeenRecords(h)
           \/ h.pc = "absences" /\ q = SeenAbsences(h),
           UNCHANGED <<records, requests, summaries>>
    PROVE  /\ Refreshes(q)'
           /\ q.pc \in {"absences", "upsert"} /\ q.user = h.user
<1>1. FreshBut(h.user, h.key)'
  <2>1. FreshBut(h.user, h.key)
    BY DEF Refreshes, SyncPCs
  <2>2. QED
    BY <2>1, QuietDays, SameDayFacts DEF FreshBut
<1>2. /\ DayFacts(h.user, h.key)' = DayFacts(h.user, h.key)
      /\ DayAbsences(h.user, h.key)' = DayAbsences(h.user, h.key)
  BY QuietDays, SameDayFacts
<1>3. CASE h.pc = "records" /\ q = SeenRecords(h)
  <2>1. /\ q.pc = "absences" /\ q.user = h.user /\ q.key = h.key
        /\ q.seen = DayFacts(h.user, h.key)
    BY <1>3 DEF SeenRecords, PunchSync, ReviewSync, DeskSync
  <2>2. QED
    BY <1>1, <1>2, <2>1 DEF Refreshes
<1>4. CASE h.pc = "absences" /\ q = SeenAbsences(h)
  <2>1. /\ q.pc = "upsert" /\ q.user = h.user /\ q.key = h.key
        /\ q.seen = h.seen /\ q.absences = DayAbsences(h.user, h.key)
    BY <1>4 DEF SeenAbsences, PunchSync, ReviewSync, DeskSync
  <2>2. h.seen = DayFacts(h.user, h.key)
    BY <1>4 DEF Refreshes, SyncPCs
  <2>3. QED
    BY <1>1, <1>2, <2>1, <2>2 DEF Refreshes
<1>5. QED
  BY <1>3, <1>4

LEMMA RefreshEnds ==
    ASSUME StoreTypeOK, NEW h \in PunchSync \cup ReviewSync \cup DeskSync,
           h.pc = "upsert", Refreshes(h), UpsertSummary(h),
           UNCHANGED <<records, requests>>
    PROVE  /\ Fresh(h.user)'
           /\ \A u \in Users : u # h.user => summaries'[u] = summaries[u]
<1>1. h.user \in Users /\ h.key \in Days
  BY DEF PunchSync, ReviewSync, DeskSync
<1>2. /\ \A u \in Users : u # h.user => summaries'[u] = summaries[u]
      /\ \A d \in Days : d # h.key => summaries'[h.user][d] = summaries[h.user][d]
      /\ summaries'[h.user][h.key] = [recs |-> h.seen, absences |-> h.absences]
  BY <1>1 DEF UpsertSummary, StoreTypeOK
<1>3. /\ FreshBut(h.user, h.key)
      /\ h.seen = DayFacts(h.user, h.key)
      /\ h.absences = DayAbsences(h.user, h.key)
  BY DEF Refreshes, SyncPCs
<1>4. /\ DayFacts(h.user, h.key)' = DayFacts(h.user, h.key)
      /\ DayAbsences(h.user, h.key)' = DayAbsences(h.user, h.key)
  BY DEF DayFacts, Live, RowsOf, FactOf, DayAbsences, IsApprovedAbsence
<1>5. summaries'[h.user][h.key] # Null
  BY <1>2, <1>3, FactsType, NullAssumption DEF Summary
<1>6. Shows(h.user, h.key)'
  BY <1>2, <1>3, <1>4, <1>5 DEF Shows
<1>7. ASSUME NEW d \in Days, d # h.key
      PROVE  Shows(h.user, d)'
  <2>1. DaySame(h.user, d)
    BY <1>2, <1>7 DEF DaySame
  <2>2. QED
    BY <1>3, <1>7, <2>1, SameDayFacts DEF FreshBut
<1>8. QED
  BY <1>2, <1>6, <1>7 DEF Fresh

\* The process runs in UTC: the date of an instant is its local day.
InUTC == \A t \in Times : DateKey[t] = LocalDay[t]

LEMMA CreateFresh ==
    ASSUME TypeOK, WritesStayOnDay, InUTC, NEW s \in PunchSlots, NEW w,
           w = punch[s].user, PunchFresh(punch[s]), PunchCreate(s)
    PROVE  PunchFresh(punch[s])'
<1> USE DEF TypeOK, PunchTypeOK
<1>1. PICK p \in Creating : p = punch[s]
  BY PunchKind DEF PunchCreate
<1> DEFINE row == [user |-> p.user, time |-> p.at, type |-> p.type,
                   status |-> IF p.channel = "remote" /\ p.review
                                THEN "pending_approval" ELSE "valid"]
<1>2. row \in Record /\ row.status # "rejected"
  BY DEF Creating, MarkingAt, Record, RecordStatuses
<1>3. PICK day \in Days, n \in RecordIds : day = LocalDay[p.at] /\ n = nextRecord
  BY StoreAssumption
     DEF PunchCreate, InsertRecord, StoreTypeOK, RecordIds, Creating, MarkingAt
<1>4. /\ records[n] = Null /\ records' = [records EXCEPT ![n] = row]
      /\ UNCHANGED <<requests, summaries>>
  BY <1>1, <1>3, StoreAssumption
     DEF PunchCreate, InsertRecord, WritesStayOnDay, IdsUnused, RecordIds
<1>5. /\ \A i \in RecordIds : i # n => records'[i] = records[i]
      /\ records'[n] = row
  BY <1>4 DEF StoreTypeOK
<1>6. row.user = w /\ LocalDay[row.time] = day /\ row.time = p.at
  BY <1>1, <1>3
<1> HIDE DEF row
<1>7. \A d : RowsOf(w, d)' = IF d = day THEN RowsOf(w, d) \cup {n} ELSE RowsOf(w, d)
  BY <1>2, <1>4, <1>6, InsertedRow
<1>8. \A d \in Days : Shows(w, d)
  BY <1>1 DEF PunchFresh, PunchCreate, PunchAt, Fresh
<1>9. FreshBut(w, day)'
  <2>1. ASSUME NEW d \in Days, d # day PROVE DaySame(w, d)
    BY <1>4, <1>5, <1>6, <2>1 DEF DaySame, RowsOf
  <2>2. QED
    BY <1>8, <2>1, SameDayFacts DEF FreshBut
<1>10. ShowsBut(w, day, n)'
  <2>1. PICK live : live = Live(RowsOf(w, day))
    OBVIOUS
  <2>2. /\ n \notin live
        /\ \A i \in live : records'[i] = records[i]
    BY <1>4, <1>5, <2>1 DEF Live, RowsOf
  <2>3. Live(RowsOf(w, day))' = live \cup {n}
    <3>1. \A i \in RowsOf(w, day) : records'[i] = records[i]
      BY <1>4, <1>5 DEF RowsOf
    <3>2. RowsOf(w, day)' = RowsOf(w, day) \cup {n}
      BY <1>7
    <3>3. QED
      BY <1>2, <1>5, <2>1, <3>1, <3>2 DEF Live
  <2>4. \A i \in live : FactOf(i)' = FactOf(i)
    BY <2>2 DEF FactOf
  <2>5. {FactOf(i) : i \in Live(RowsOf(w, day)) \ {n}}' = DayFacts(w, day)
    <3>1. Live(RowsOf(w, day))' \ {n} = live
      BY <2>2, <2>3
    <3>2. QED
      BY <2>1, <2>4, <3>1 DEF DayFacts
  <2>6. DayAbsences(w, day)' = DayAbsences(w, day)
    BY <1>4 DEF DayAbsences, IsApprovedAbsence
  <2>7. QED
    BY <1>4, <1>8, <2>5, <2>6 DEF Shows, ShowsBut
<1>11. CASE p.channel = "remote"
  <2>1. PICK q : q = Inserted(p, n)
    OBVIOUS
  <2>2. punch'[s] = q
    BY <1>1, <1>3, <1>11, <2>1 DEF PunchCreate
  <2>3. q.pc = "evidence" /\ q.user = w /\ q.rid = n /\ q.at = p.at
    BY <1>1, <2>1, PunchFields DEF Inserted, Creating, MarkingAt
  <2>4. PunchFresh(q)'
    BY <1>3, <1>5, <1>6, <1>9, <1>10, <2>3 DEF PunchFresh, Refreshes, SyncPCs
  <2>5. QED
    BY <2>2, <2>4
<1>12. CASE p.channel # "remote"
  <2>1. PICK flag \in {0, n} : punch'[s] = Syncing(p, flag)
    BY <1>1, <1>3, <1>12 DEF PunchCreate
  <2>2. PICK q : q = Syncing(p, flag)
    OBVIOUS
  <2>3. q.pc = "records" /\ q.user = w /\ q.flag = flag /\ q.key = day
    BY <1>1, <1>3, <2>2 DEF Syncing, InUTC, Creating, MarkingAt
  <2>4. PunchFresh(q)'
    BY <1>2, <1>5, <1>9, <2>3 DEF PunchFresh, Refreshes, SyncPCs
  <2>5. QED
    BY <2>1, <2>2, <2>4
<1>13. QED
  BY <1>11, <1>12

\* Only a refresh's end writes summaries, and only the handler's own user's.
LEMMA PunchSummaries ==
    ASSUME TypeOK, NEW s \in PunchSlots, PunchStep(s) \/ PunchEvidenceFails(s)
    PROVE  \A u \in Users : u # punch[s].user => summaries'[u] = summaries[u]
<1>1. CASE PunchUpsert(s)
  <2>1. punch[s] \in PunchSync
    BY <1>1, PunchKind DEF PunchUpsert, SyncPCs, TypeOK
  <2>2. QED
    BY <1>1, <2>1
       DEF PunchUpsert, UpsertSummary, PunchSync, TypeOK, StoreTypeOK
<1>2. CASE UNCHANGED summaries
  BY <1>2
<1>3. QED
  BY <1>1, <1>2
     DEF PunchStep, PunchCheck, PunchResolve, PunchRefuse, PunchCreate,
         PunchEvidence, PunchEvidenceFails, PunchDestroy, PunchSyncRecords,
         PunchSyncAbsences, PunchFlag, storeVars, tables

LEMMA DestroyFresh ==
    ASSUME TypeOK, NEW s \in PunchSlots, NEW w, w = punch[s].user,
           PunchHolds(punch[s]), PunchFresh(punch[s]), PunchDestroy(s)
    PROVE  Fresh(w)'
<1> USE DEF TypeOK
<1>1. PICK p \in Storing : p = punch[s] /\ p.user = w /\ p.pc = "destroy"
  BY PunchKind DEF PunchDestroy, PunchAt
<1>2. PICK day \in Days, n \in RecordIds : day = LocalDay[p.at] /\ n = p.rid
  BY StoreAssumption DEF Storing, MarkingAt
<1>3. /\ records[n] # Null /\ LocalDay[records[n].time] = day
      /\ FreshBut(w, day) /\ ShowsBut(w, day, n)
  BY <1>1, <1>2 DEF PunchHolds, Editable, PunchFresh
<1>4. /\ \A i \in RecordIds : i # n => records'[i] = records[i]
      /\ records'[n] = Null
      /\ UNCHANGED <<requests, summaries>>
  BY <1>1, <1>2 DEF PunchDestroy, StoreTypeOK
<1>5. ASSUME NEW d \in Days, d # day PROVE Shows(w, d)'
  <2>1. DaySame(w, d)
    BY <1>3, <1>4, <1>5 DEF DaySame, RowsOf
  <2>2. QED
    BY <1>3, <1>5, <2>1, SameDayFacts DEF FreshBut
<1>6. Shows(w, day)'
  <2>1. Live(RowsOf(w, day))' = Live(RowsOf(w, day)) \ {n}
    BY <1>4 DEF Live, RowsOf
  <2>2. \A i \in Live(RowsOf(w, day)) \ {n} : FactOf(i)' = FactOf(i)
    BY <1>4 DEF Live, RowsOf, FactOf
  <2>3. DayFacts(w, day)' = {FactOf(i) : i \in Live(RowsOf(w, day)) \ {n}}
    BY <2>1, <2>2 DEF DayFacts
  <2>4. DayAbsences(w, day)' = DayAbsences(w, day)
    BY <1>4 DEF DayAbsences, IsApprovedAbsence
  <2>5. QED
    BY <1>3, <1>4, <2>3, <2>4 DEF Shows, ShowsBut
<1>7. QED
  BY <1>5, <1>6 DEF Fresh

LEMMA FlagFresh ==
    ASSUME TypeOK, NEW s \in PunchSlots, NEW w, w = punch[s].user,
           PunchHolds(punch[s]), PunchFresh(punch[s]), PunchFlag(s)
    PROVE  Fresh(w)'
<1> USE DEF TypeOK
<1>1. PICK p \in PunchSync : p = punch[s] /\ p.user = w /\ p.pc = "flag"
  BY PunchKind DEF PunchFlag, PunchAt
<1>2. Fresh(w) /\ (p.flag # 0 => records[p.flag].status # "rejected")
  BY <1>1 DEF PunchFresh
<1>3. \A i \in RecordIds :
        records'[i] = IF i = p.flag THEN ToApproval(records[i]) ELSE records[i]
  BY <1>1 DEF PunchFlag, StoreTypeOK
<1>4. \A row \in Record :
        /\ ToApproval(row).user = row.user /\ ToApproval(row).type = row.type
        /\ ToApproval(row).time = row.time
        /\ ToApproval(row).status # "rejected" /\ ToApproval(row) # Null
  BY NullAssumption DEF ToApproval, Record, RecordStatuses
<1>5. ASSUME NEW i \in RecordIds
      PROVE  \/ records'[i] = records[i]
             \/ SameMarking(i) /\ records[i].status # "rejected"
  <2>1. i # 0
    BY StoreAssumption DEF RecordIds
  <2>2. records[i] = Null => records'[i] = Null
    BY <1>3 DEF ToApproval
  <2>3. QED
    BY <1>2, <1>3, <1>4, <2>1, <2>2 DEF SameMarking, StoreTypeOK
<1>6. ASSUME NEW d \in Days PROVE Shows(w, d)'
  <2>1. RowsOf(w, d)' = RowsOf(w, d)
    BY <1>5 DEF SameMarking, RowsOf
  <2>2. Live(RowsOf(w, d))' = Live(RowsOf(w, d))
    <3>1. \A i \in RowsOf(w, d) : records'[i].status # "rejected" <=>
                                  records[i].status # "rejected"
      BY <1>5 DEF SameMarking, RowsOf
    <3>2. QED
      BY <2>1, <3>1 DEF Live
  <2>3. \A i \in RecordIds : FactOf(i)' = FactOf(i)
    BY <1>5 DEF SameMarking, FactOf
  <2>4. DayFacts(w, d)' = DayFacts(w, d)
    BY <2>2, <2>3 DEF DayFacts, Live, RowsOf
  <2>5. DayAbsences(w, d)' = DayAbsences(w, d) /\ summaries' = summaries
    BY DEF PunchFlag, DayAbsences, IsApprovedAbsence
  <2>6. QED
    BY <1>2, <2>4, <2>5 DEF Fresh, Shows
<1>7. QED
  BY <1>6 DEF Fresh

\* A handler that has written goes on to the refresh.
LEMMA PunchStays ==
    ASSUME TypeOK, NEW s \in PunchSlots,
           \/ PunchCreate(s) \/ PunchEvidence(s) \/ PunchEvidenceFails(s)
           \/ PunchSyncRecords(s) \/ PunchSyncAbsences(s)
    PROVE  punch'[s] # Null
<1> USE DEF TypeOK, PunchTypeOK
<1>1. \A q \in PunchLocal : q # Null
  BY HandlerAssumption
<1>2. CASE PunchCreate(s)
  <2>1. punch[s] \in Creating
    BY <1>2, PunchKind DEF PunchCreate
  <2>2. nextRecord \in RecordIds /\ nextRecord \in 0..MaxRecords /\ 0 \in 0..MaxRecords
    BY <1>2, StoreAssumption DEF PunchCreate, InsertRecord, StoreTypeOK, RecordIds
  <2>3. /\ Inserted(punch[s], nextRecord) \in Storing
        /\ Syncing(punch[s], nextRecord) \in PunchSync
        /\ Syncing(punch[s], 0) \in PunchSync
    BY <2>1, <2>2, MarkingType
  <2>4. QED
    BY <1>1, <1>2, <2>3 DEF PunchCreate, PunchLocal
<1>3. CASE PunchEvidence(s) \/ PunchEvidenceFails(s)
  <2>1. punch[s] \in Storing
    BY <1>3, PunchKind DEF PunchEvidence, PunchEvidenceFails
  <2>2. Goto(punch[s], "destroy") \in Storing /\ Syncing(punch[s], 0) \in PunchSync
    BY <2>1, MarkingType, StoreAssumption
  <2>3. QED
    BY <1>1, <1>3, <2>2 DEF PunchEvidence, PunchEvidenceFails, PunchLocal
<1>4. CASE PunchSyncRecords(s) \/ PunchSyncAbsences(s)
  <2>1. punch[s] \in PunchSync
    BY <1>4, PunchKind DEF PunchSyncRecords, PunchSyncAbsences, SyncPCs
  <2>2. QED
    BY <1>1, <1>4, <2>1, PunchSyncType
       DEF PunchSyncRecords, PunchSyncAbsences, PunchLocal
<1>5. QED
  BY <1>2, <1>3, <1>4

LEMMA PunchFreshNext ==
    ASSUME TypeOK, WritesStayOnDay, InUTC, NEW s \in PunchSlots, NEW w,
           w = punch[s].user, PunchHolds(punch[s]), PunchFresh(punch[s]),
           PunchStep(s) \/ PunchEvidenceFails(s)
    PROVE  /\ punch'[s] = Null \/ PunchFresh(punch[s])'
           /\ punch'[s] # Null \/ Fresh(w)'
<1> USE DEF TypeOK, PunchTypeOK
<1>1. PICK p : p = punch[s] /\ p.user = w /\ PunchFresh(p)
  OBVIOUS
<1>2. ASSUME UNCHANGED <<records, requests, summaries>>
      PROVE  /\ Fresh(w) => Fresh(w)'
             /\ \A d : FreshBut(w, d) => FreshBut(w, d)'
             /\ \A d, n : ShowsBut(w, d, n) => ShowsBut(w, d, n)'
  BY <1>2, QuietDays, SameDayFacts DEF Fresh, FreshBut
<1>3. CASE PunchCreate(s)
  BY <1>3, CreateFresh, PunchStays
<1>4. CASE PunchDestroy(s)
  BY <1>4, DestroyFresh DEF PunchDestroy, PunchEnds
<1>5. CASE PunchFlag(s)
  BY <1>5, FlagFresh DEF PunchFlag, PunchEnds
<1>6. CASE PunchCheck(s) \/ PunchResolve(s) \/ PunchRefuse(s)
  <2>1. p \in Reading /\ p.pc \in {"period", "read"}
    BY <1>1, <1>6, PunchKind DEF PunchCheck, PunchResolve, PunchRefuse, PunchAt
  <2>2. UNCHANGED <<records, requests, summaries>>
    BY <1>6 DEF PunchCheck, PunchResolve, PunchRefuse, storeVars, tables
  <2>3. Fresh(w)'
    BY <1>1, <1>2, <2>1, <2>2 DEF PunchFresh
  <2>4. \/ punch'[s] = Null \/ punch'[s] = Goto(p, "read")
        \/ \E type \in Types : punch'[s] = Resolved(p, type)
    BY <1>1, <1>6 DEF PunchCheck, PunchResolve, PunchRefuse, PunchEnds
  <2>5. ASSUME NEW q, q.pc \in {"read", "create"}, q.user = w
        PROVE  PunchFresh(q)'
    BY <2>3, <2>5 DEF PunchFresh, Refreshes, SyncPCs
  <2>6. QED
    BY <1>1, <2>1, <2>3, <2>4, <2>5, PunchFields
<1>7. CASE PunchEvidence(s) \/ PunchEvidenceFails(s)
  <2>1. p \in Storing /\ p.pc = "evidence"
    BY <1>1, <1>7, PunchKind DEF PunchEvidence, PunchEvidenceFails, PunchAt
  <2>2. UNCHANGED <<records, requests, summaries>>
    BY <1>7 DEF PunchEvidence, PunchEvidenceFails, storeVars, tables
  <2>3. /\ records'[p.rid].time = p.at
        /\ FreshBut(w, LocalDay[p.at])' /\ ShowsBut(w, LocalDay[p.at], p.rid)'
    BY <1>1, <1>2, <2>1, <2>2 DEF PunchFresh
  <2>4. ASSUME NEW q, q = Syncing(p, 0) PROVE PunchFresh(q)'
    <3>1. q.pc = "records" /\ q.user = w /\ q.flag = 0 /\ q.key = LocalDay[p.at]
      BY <1>1, <2>1, <2>4 DEF Syncing, InUTC, Storing, MarkingAt
    <3>2. QED
      BY <2>3, <3>1 DEF PunchFresh, Refreshes, SyncPCs
  <2>5. ASSUME NEW q, q = Goto(p, "destroy") PROVE PunchFresh(q)'
    <3>1. q.pc = "destroy" /\ q.user = w /\ q.rid = p.rid /\ q.at = p.at
      BY <1>1, <2>1, <2>5 DEF Goto, Storing, MarkingAt
    <3>2. QED
      BY <2>3, <3>1 DEF PunchFresh, Refreshes, SyncPCs
  <2>6. punch'[s] \in {Syncing(p, 0), Goto(p, "destroy")}
    BY <1>1, <1>7 DEF PunchEvidence, PunchEvidenceFails
  <2>7. QED
    BY <1>7, <2>4, <2>5, <2>6, PunchStays
<1>8. CASE PunchSyncRecords(s) \/ PunchSyncAbsences(s)
  <2>1. p \in PunchSync /\ p.pc \in {"records", "absences"}
    BY <1>1, <1>8, PunchKind
       DEF PunchSyncRecords, PunchSyncAbsences, PunchAt, SyncPCs
  <2>2. UNCHANGED <<records, requests, summaries>>
    BY <1>8 DEF PunchSyncRecords, PunchSyncAbsences, storeVars, tables
  <2>3. PICK q : /\ punch'[s] = q
                 /\ \/ p.pc = "records" /\ q = SeenRecords(p)
                    \/ p.pc = "absences" /\ q = SeenAbsences(p)
    BY <1>1, <1>8 DEF PunchSyncRecords, PunchSyncAbsences, PunchAt
  <2>4. Refreshes(q)' /\ q.pc \in {"absences", "upsert"} /\ q.flag = p.flag
    BY <1>1, <2>1, <2>2, <2>3, RefreshReads, PunchFields DEF PunchFresh
  <2>5. PunchFresh(q)'
    BY <1>1, <2>1, <2>2, <2>4 DEF PunchFresh, SyncPCs
  <2>6. QED
    BY <1>8, <2>3, <2>5, PunchStays
<1>9. CASE PunchUpsert(s)
  <2>1. p \in PunchSync /\ p.pc = "upsert"
    BY <1>1, <1>9, PunchKind DEF PunchUpsert, PunchAt, SyncPCs
  <2>2. Fresh(w)'
    BY <1>1, <1>9, <2>1, RefreshEnds DEF PunchFresh, PunchUpsert
  <2>3. PICK q : q = Goto(p, "flag")
    OBVIOUS
  <2>4. q.pc = "flag" /\ q.user = w /\ q.flag = p.flag
    BY <1>1, <2>1, <2>3, PunchFields
  <2>5. PunchFresh(q)'
    BY <1>1, <1>9, <2>1, <2>2, <2>4
       DEF PunchFresh, Refreshes, SyncPCs, PunchUpsert
  <2>6. punch'[s] \in {Null, q}
    BY <1>1, <1>9, <2>3 DEF PunchUpsert, PunchEnds
  <2>7. QED
    BY <2>2, <2>5, <2>6
<1>10. QED
  BY <1>3, <1>4, <1>5, <1>6, <1>7, <1>8, <1>9 DEF PunchStep

LEMMA ReviewSummaries ==
    ASSUME TypeOK, NEW s \in ReviewSlots, ReviewStep(s)
    PROVE  \A u \in Users : u # review[s].user => summaries'[u] = summaries[u]
<1>1. CASE ReviewUpsert(s)
  <2>1. review[s] \in ReviewSync
    BY <1>1, ReviewKind DEF ReviewUpsert, SyncPCs, TypeOK
  <2>2. QED
    BY <1>1, <2>1
       DEF ReviewUpsert, UpsertSummary, ReviewSync, TypeOK, StoreTypeOK
<1>2. CASE UNCHANGED summaries
  BY <1>2
<1>3. QED
  BY <1>1, <1>2
     DEF ReviewStep, ReviewCheck, ReviewSave, ReviewSyncRecords,
         ReviewSyncAbsences, storeVars, tables

\* A write of one row within its day leaves the other days alone.
LEMMA OtherDaysSame ==
    ASSUME StoreTypeOK, NEW w, NEW day, NEW j, NEW row,
           records' = [records EXCEPT ![j] = row],
           UNCHANGED <<requests, summaries>>,
           j \in RecordIds =>
             /\ records[j] = Null \/ LocalDay[records[j].time] = day
             /\ LocalDay[row.time] = day
    PROVE  /\ \A d : d # day => DaySame(w, d)
           /\ FreshBut(w, day) => FreshBut(w, day)'
<1>1. \A d : d # day => DaySame(w, d)
  BY DEF StoreTypeOK, DaySame, RowsOf
<1>2. QED
  BY <1>1, SameDayFacts DEF FreshBut

LEMMA ReviewStays ==
    ASSUME TypeOK, NEW s \in ReviewSlots,
           ReviewSave(s) \/ ReviewSyncRecords(s) \/ ReviewSyncAbsences(s)
    PROVE  review'[s] # Null
<1> USE DEF TypeOK, ReviewTypeOK
<1>1. \A q \in Reviewing \cup ReviewSync : q # Null
  BY HandlerAssumption
<1>2. CASE ReviewSave(s)
  <2>1. review[s] \in Reviewing
    BY <1>2, ReviewKind DEF ReviewSave
  <2>2. [pc |-> "records", user |-> review[s].user,
         key |-> DateKey[review[s].next.time], seen |-> {}, absences |-> {}]
          \in ReviewSync
    BY <2>1, StoreAssumption DEF Reviewing, ReviewSync, SyncPCs, Record
  <2>3. QED
    BY <1>1, <1>2, <2>2 DEF ReviewSave
<1>3. CASE ReviewSyncRecords(s) \/ ReviewSyncAbsences(s)
  <2>1. review[s] \in ReviewSync
    BY <1>3, ReviewKind DEF ReviewSyncRecords, ReviewSyncAbsences, SyncPCs
  <2>2. QED
    BY <1>1, <1>3, <2>1, ReviewSyncType DEF ReviewSyncRecords, ReviewSyncAbsences
<1>4. QED
  BY <1>2, <1>3

LEMMA ReviewFreshNext ==
    ASSUME TypeOK, InUTC, NEW s \in ReviewSlots, NEW w, w = review[s].user,
           ReviewHolds(review[s]), ReviewFresh(review[s]), ReviewStep(s)
    PROVE  /\ review'[s] = Null \/ ReviewFresh(review[s])'
           /\ review'[s] # Null \/ Fresh(w)'
<1> USE DEF TypeOK, ReviewTypeOK
<1>1. PICK r : r = review[s] /\ r.user = w /\ ReviewFresh(r)
  OBVIOUS
<1>2. CASE ReviewCheck(s)
  <2>1. r \in Reviewing /\ r.pc = "period"
    BY <1>1, <1>2, ReviewKind DEF ReviewCheck, ReviewAt
  <2>2. UNCHANGED <<records, requests, summaries>>
    BY <1>2 DEF ReviewCheck, storeVars, tables
  <2>3. Fresh(w)'
    BY <1>1, <2>1, <2>2, QuietDays, SameDayFacts DEF ReviewFresh, Fresh
  <2>4. PICK q : q = Goto(r, "save")
    OBVIOUS
  <2>5. q.pc = "save" /\ q.user = w
    BY <1>1, <2>1, <2>4, ReviewFields
  <2>6. ReviewFresh(q)'
    BY <2>3, <2>5 DEF ReviewFresh, Refreshes, SyncPCs
  <2>7. review'[s] \in {Null, q}
    BY <1>1, <1>2, <2>4 DEF ReviewCheck, ReviewEnds
  <2>8. QED
    BY <2>3, <2>6, <2>7
<1>3. CASE ReviewSave(s)
  <2>1. r \in Reviewing /\ r.pc = "save"
    BY <1>1, <1>3, ReviewKind DEF ReviewSave, ReviewAt
  <2> DEFINE row == SavedRecord(r.copy, r.copy, r.next)
  <2>2. /\ r.copy \in Record /\ r.next \in Record /\ records[r.rid] = r.copy
        /\ LocalDay[r.next.time] = LocalDay[r.copy.time]
    BY <1>1, <2>1 DEF ReviewHolds, Reviewing
  <2>3. LocalDay[row.time] = LocalDay[r.copy.time]
    BY <2>2, SavedRecordType
  <2>4. PICK day : day = LocalDay[r.copy.time]
    OBVIOUS
  <2>5. FreshBut(w, day)
    BY <1>1, <2>1 DEF ReviewFresh, Fresh, FreshBut
  <2>6. /\ records' = [records EXCEPT ![r.rid] = row]
        /\ UNCHANGED <<requests, summaries>>
    BY <1>1, <1>3, <2>2 DEF ReviewSave
  <2>7. FreshBut(w, day)'
    <3> HIDE DEF row
    <3>1. QED
      BY <2>2, <2>3, <2>4, <2>5, <2>6, OtherDaysSame
  <2>8. PICK q : q = [pc |-> "records", user |-> r.user, key |-> DateKey[r.next.time],
                      seen |-> {}, absences |-> {}]
    OBVIOUS
  <2>9. q.pc = "records" /\ q.user = w /\ q.key = day
    BY <1>1, <2>2, <2>4, <2>8 DEF InUTC, Record
  <2>10. ReviewFresh(q)'
    BY <2>7, <2>9 DEF ReviewFresh, Refreshes, SyncPCs
  <2>11. review'[s] = q
    BY <1>1, <1>3, <2>8 DEF ReviewSave
  <2>12. QED
    BY <1>3, <2>10, <2>11, ReviewStays
<1>4. CASE ReviewSyncRecords(s) \/ ReviewSyncAbsences(s)
  <2>1. r \in ReviewSync /\ r.pc \in {"records", "absences"}
    BY <1>1, <1>4, ReviewKind
       DEF ReviewSyncRecords, ReviewSyncAbsences, ReviewAt, SyncPCs
  <2>2. UNCHANGED <<records, requests, summaries>>
    BY <1>4 DEF ReviewSyncRecords, ReviewSyncAbsences, storeVars, tables
  <2>3. PICK q : /\ review'[s] = q
                 /\ \/ r.pc = "records" /\ q = SeenRecords(r)
                    \/ r.pc = "absences" /\ q = SeenAbsences(r)
    BY <1>1, <1>4 DEF ReviewSyncRecords, ReviewSyncAbsences, ReviewAt
  <2>4. Refreshes(q)' /\ q.pc \in {"absences", "upsert"}
    BY <1>1, <2>1, <2>2, <2>3, RefreshReads DEF ReviewFresh
  <2>5. ReviewFresh(q)'
    BY <2>4 DEF ReviewFresh
  <2>6. QED
    BY <1>4, <2>3, <2>5, ReviewStays
<1>5. CASE ReviewUpsert(s)
  <2>1. r \in ReviewSync /\ r.pc = "upsert"
    BY <1>1, <1>5, ReviewKind DEF ReviewUpsert, ReviewAt, SyncPCs
  <2>2. Fresh(w)'
    BY <1>1, <1>5, <2>1, RefreshEnds DEF ReviewFresh, ReviewUpsert
  <2>3. QED
    BY <1>5, <2>2 DEF ReviewUpsert, ReviewEnds
<1>6. QED
  BY <1>2, <1>3, <1>4, <1>5 DEF ReviewStep

LEMMA DeskSummaries ==
    ASSUME TypeOK, NEW s \in DeskSlots, DeskStep(s)
    PROVE  \A u \in Users : u # desk[s].user => summaries'[u] = summaries[u]
<1>1. CASE DeskUpsert(s)
  <2>1. desk[s] \in DeskSync
    BY <1>1, DeskKind DEF DeskUpsert, SyncPCs, TypeOK
  <2>2. QED
    BY <1>1, <2>1 DEF DeskUpsert, UpsertSummary, DeskSync, TypeOK, StoreTypeOK
<1>2. CASE UNCHANGED summaries
  BY <1>2
<1>3. QED
  BY <1>1, <1>2
     DEF DeskStep, FileCreate, DecideCheck, DecideReadDay, DecideAdjust,
         DecideInsert, DecideSave, RemoveCheck, RemoveDestroy, AssignCheck,
         AssignFind, AssignCreate, DeskSyncRecords, DeskSyncAbsences, storeVars,
         tables

\* A write of one request of a day leaves the other days alone.
LEMMA OtherDaysKept ==
    ASSUME NEW w, NEW day, NEW q,
           \A j \in RequestIds : j # q => requests'[j] = requests[j],
           q \in RequestIds =>
             /\ requests[q] # Null => requests[q].day = day
             /\ requests'[q] # Null => requests'[q].day = day,
           UNCHANGED <<records, summaries>>
    PROVE  FreshBut(w, day) => FreshBut(w, day)'
<1>1. \A d : d # day => DaySame(w, d)
  BY DEF DaySame, DayAbsences, IsApprovedAbsence
<1>2. QED
  BY <1>1, SameDayFacts DEF FreshBut

\* An adjustment writes to the day of its request only.
LEMMA ApplyFresh ==
    ASSUME TypeOK, WritesStayOnDay, NEW s \in DeskSlots, NEW w,
           w = desk[s].user, DeskHolds(desk[s]), DeskFresh(desk[s]),
           DecideAdjust(s) \/ DecideInsert(s)
    PROVE  DeskFresh(desk[s])'
<1> USE DEF TypeOK, DeskTypeOK
<1>1. /\ desk[s] \in Deciding
      /\ \E pc \in {"decide", "load", "apply", "save"} : DeskAt(s, pc)
      /\ DeskAt(s, "apply")
  BY DecidingHolds DEF DecideAdjust, DecideInsert
<1>2. PICK h \in Deciding : h = desk[s] /\ h.user = w /\ h.pc = "apply"
  BY <1>1 DEF DeskAt
<1>3. PICK day : day = h.next.day
  OBVIOUS
<1>4. FreshBut(w, day)
  BY <1>2, <1>3 DEF DeskFresh
<1>5. ASSUME NEW t \in h.todo
      PROVE  h.next.times[t] \in Times /\ LocalDay[h.next.times[t]] = day
  <2>1. t \in Asked(h.next.times)
    BY <1>2, <1>5 DEF Deciding
  <2>2. h.next.times[t] \in Times
    BY <2>1 DEF Deciding, Asked, Request, Adjustment
  <2>3. QED
    BY <1>1, <1>2, <1>3, <2>1, <2>2 DEF WritesStayOnDay, DecisionOnDay
<1>6. ASSUME NEW t \in Types, ApplyEnds(s, t), FreshBut(w, day)'
      PROVE  DeskFresh(desk[s])'
  <2>1. PICK q : q = Applied(h, t)
    OBVIOUS
  <2>2. desk'[s] = q
    BY <1>2, <1>6, <2>1 DEF ApplyEnds
  <2>3. q.pc \in {"apply", "save"} /\ q.user = w /\ q.next = h.next
    BY <1>2, <2>1, DeskFields
  <2>4. DeskFresh(q)'
    BY <1>3, <1>6, <2>3 DEF DeskFresh, Refreshes, SyncPCs
  <2>5. QED
    BY <2>2, <2>4
<1>7. CASE DecideAdjust(s)
  <2>1. PICK t \in Types, j \in RecordIds :
          /\ NextToApply(h, t)
          /\ j \in OfType(h, t)
          /\ records' = [records EXCEPT ![j] =
                          SavedRecord(records[j], h.loaded[j],
                                      Adjusted(h.loaded[j], h.next.times[t]))]
          /\ ApplyEnds(s, t)
    BY <1>2, <1>7 DEF DecideAdjust
  <2> DEFINE row == SavedRecord(records[j], h.loaded[j],
                                Adjusted(h.loaded[j], h.next.times[t]))
  <2>2. /\ h.loaded[j] # Null /\ h.loaded[j] \in Record
        /\ records[j] # Null /\ records[j] \in Record
    <3>1. h.loaded[j] # Null /\ h.loaded[j] \in Record
      BY <2>1 DEF Deciding, OfType
    <3>2. DecisionHolds(h)
      BY <1>2 DEF DeskHolds
    <3>3. QED
      BY <3>1, <3>2 DEF DecisionHolds, StoreTypeOK
  <2>3. LocalDay[records[j].time] = day
    BY <1>1, <1>2, <1>3, <2>2 DEF WritesStayOnDay, DecisionOnDay, OnDay
  <2>4. LocalDay[row.time] = day
    <3>1. h.next.times[t] \in Times /\ LocalDay[h.next.times[t]] = day
      BY <1>5, <2>1 DEF NextToApply
    <3>2. /\ Adjusted(h.loaded[j], h.next.times[t]) \in Record
          /\ Adjusted(h.loaded[j], h.next.times[t]).time = h.next.times[t]
      BY <2>2, <3>1, RowType DEF Adjusted, Record
    <3>3. QED
      BY <2>2, <2>3, <3>1, <3>2, SavedRecordType
  <2>5. FreshBut(w, day)'
    <3>1. records' = [records EXCEPT ![j] = row]
      BY <2>1
    <3> HIDE DEF row
    <3>2. QED
      BY <1>4, <1>7, <2>3, <2>4, <3>1, OtherDaysSame DEF DecideAdjust
  <2>6. QED
    BY <1>6, <2>1, <2>5
<1>8. CASE DecideInsert(s)
  <2>1. PICK t \in Types :
          /\ NextToApply(h, t)
          /\ InsertRecord([user |-> h.user, time |-> h.next.times[t],
                           type |-> t, status |-> "adjusted"])
          /\ ApplyEnds(s, t)
    BY <1>2, <1>8 DEF DecideInsert
  <2> DEFINE row == [user |-> h.user, time |-> h.next.times[t],
                     type |-> t, status |-> "adjusted"]
  <2>2. LocalDay[row.time] = day
    BY <1>5, <2>1 DEF NextToApply
  <2>3. records' = [records EXCEPT ![nextRecord] = row]
        /\ (nextRecord \in RecordIds => records[nextRecord] = Null)
    BY <2>1, StoreAssumption
       DEF InsertRecord, WritesStayOnDay, IdsUnused, StoreTypeOK, RecordIds
  <2>4. FreshBut(w, day)'
    <3> HIDE DEF row
    <3>1. QED
      BY <1>4, <1>8, <2>2, <2>3, OtherDaysSame DEF DecideInsert
  <2>5. QED
    BY <1>6, <2>1, <2>4
<1>9. QED
  BY <1>7, <1>8

LEMMA DeskStays ==
    ASSUME TypeOK, NEW s \in DeskSlots,
           \/ DecideAdjust(s) \/ DecideInsert(s) \/ DecideSave(s)
           \/ RemoveDestroy(s) \/ AssignCreate(s)
           \/ DeskSyncRecords(s) \/ DeskSyncAbsences(s)
    PROVE  desk'[s] # Null
<1> USE DEF TypeOK, DeskTypeOK
<1>1. \A q \in DeskLocal : q # Null
  BY HandlerAssumption
<1>2. CASE DecideAdjust(s) \/ DecideInsert(s)
  <2>1. desk[s] \in Deciding
    BY <1>2, DeskKind DEF DecideAdjust, DecideInsert
  <2>2. PICK t \in Types : ApplyEnds(s, t)
    BY <1>2 DEF DecideAdjust, DecideInsert
  <2>3. QED
    BY <1>1, <2>1, <2>2, DeskLocalType DEF ApplyEnds, DeskLocal
<1>3. ASSUME NEW u \in Users, NEW d \in Days, NEW days \in SUBSET Days,
             DeskSyncs(s, u, d, days)
      PROVE  desk'[s] # Null
  <2>1. [pc |-> "records", user |-> u, key |-> d, seen |-> {},
         absences |-> {}, days |-> days] \in DeskSync
    BY DEF DeskSync, SyncPCs
  <2>2. QED
    BY <1>1, <1>3, <2>1 DEF DeskSyncs, DeskLocal
<1>4. CASE DecideSave(s)
  <2>1. desk[s].user \in Users /\ desk[s].next.day \in Days
    BY <1>4, DeskKind DEF DecideSave, Deciding, Request
  <2>2. QED
    BY <1>3, <1>4, <2>1 DEF DecideSave
<1>5. CASE RemoveDestroy(s)
  <2>1. desk[s].user \in Users /\ desk[s].key \in Days
    BY <1>5, DeskKind DEF RemoveDestroy, Removing
  <2>2. QED
    BY <1>3, <1>5, <2>1 DEF RemoveDestroy
<1>6. CASE AssignCreate(s)
  <2>1. desk[s] \in Assigning
    BY <1>6, DeskKind DEF AssignCreate
  <2>2. PICK d \in First(desk[s].days) :
          DeskSyncs(s, desk[s].user, d, desk[s].days \ {d})
    BY <1>6 DEF AssignCreate
  <2>3. d \in Days /\ desk[s].days \ {d} \in SUBSET Days /\ desk[s].user \in Users
    BY <2>1, <2>2 DEF Assigning, First
  <2>4. QED
    BY <1>3, <2>2, <2>3
<1>7. CASE DeskSyncRecords(s) \/ DeskSyncAbsences(s)
  <2>1. desk[s] \in DeskSync
    BY <1>7, DeskKind DEF DeskSyncRecords, DeskSyncAbsences, SyncPCs
  <2>2. SeenRecords(desk[s]) \in DeskSync /\ SeenAbsences(desk[s]) \in DeskSync
    BY <2>1, DeskSyncType
  <2>3. QED
    BY <1>1, <1>7, <2>2 DEF DeskSyncRecords, DeskSyncAbsences, DeskLocal
<1>8. QED
  BY <1>2, <1>4, <1>5, <1>6, <1>7

LEMMA DecideFresh ==
    ASSUME TypeOK, WritesStayOnDay, NEW s \in DeskSlots, NEW w,
           w = desk[s].user, DeskHolds(desk[s]), DeskFresh(desk[s]),
           \/ DecideCheck(s) \/ DecideReadDay(s) \/ DecideAdjust(s)
           \/ DecideInsert(s) \/ DecideSave(s)
    PROVE  /\ desk'[s] = Null \/ DeskFresh(desk[s])'
           /\ desk'[s] # Null \/ Fresh(w)'
<1> USE DEF TypeOK, DeskTypeOK
<1>1. desk[s] \in Deciding
  BY DecidingHolds
     DEF DecideCheck, DecideReadDay, DecideAdjust, DecideInsert, DecideSave
<1>2. PICK h \in Deciding : h = desk[s] /\ h.user = w
  BY <1>1
<1>3. PICK day : day = h.next.day
  OBVIOUS
<1>4. CASE DecideCheck(s) \/ DecideReadDay(s)
  <2>1. h.pc \in {"decide", "load"}
    BY <1>2, <1>4 DEF DecideCheck, DecideReadDay, DeskAt
  <2>2. UNCHANGED <<records, requests, summaries>>
    BY <1>4 DEF DecideCheck, DecideReadDay, storeVars, tables
  <2>3. Fresh(w)' /\ FreshBut(w, day)'
    BY <1>2, <2>1, <2>2, QuietDays, SameDayFacts
       DEF DeskFresh, SyncPCs, Fresh, FreshBut
  <2>4. ASSUME NEW q, q.pc \in {"load", "save", "apply"}, q.user = w,
               q.next = h.next
        PROVE  DeskFresh(q)'
    BY <1>3, <2>3, <2>4 DEF DeskFresh, Refreshes, SyncPCs
  <2>5. \/ desk'[s] = Null
        \/ \E pc \in {"load", "save"} : desk'[s] = Goto(h, pc)
        \/ \E rows : desk'[s] = DayRead(h, rows)
    BY <1>2, <1>4 DEF DecideCheck, DecideReadDay, DeskGoes, DeskEnds
  <2>6. QED
    BY <1>2, <2>3, <2>4, <2>5, DeskFields
<1>5. CASE DecideAdjust(s) \/ DecideInsert(s)
  BY <1>5, ApplyFresh, DeskStays
<1>6. CASE DecideSave(s)
  <2>1. /\ h.pc = "save" /\ DecisionHolds(h) /\ h.qid \in RequestIds
        /\ h.copy \in Request /\ h.next \in Request /\ h.next.day = h.copy.day
    BY <1>2, <1>6, DecidingHolds DEF DecideSave, DeskAt
  <2>2. FreshBut(w, day)
    BY <1>2, <1>3, <2>1 DEF DeskFresh
  <2>3. requests[h.qid] = h.copy /\ h.copy.day = day
    BY <1>3, <2>1 DEF DecisionHolds
  <2> DEFINE row == SavedRequest(requests[h.qid], h.copy, h.next)
  <2>4. row # Null => row.day = day
    BY <1>3, <2>1, <2>3, NullAssumption DEF SavedRequest, Column
  <2>5. /\ \A j \in RequestIds : j # h.qid => requests'[j] = requests[j]
        /\ requests'[h.qid] = row
    BY <1>2, <1>6, <2>1 DEF DecideSave, StoreTypeOK
  <2>6. FreshBut(w, day)'
    <3> HIDE DEF row
    <3>1. QED
      BY <1>6, <2>2, <2>3, <2>4, <2>5, OtherDaysKept DEF DecideSave
  <2>7. PICK q : q = [pc |-> "records", user |-> w, key |-> day,
                      seen |-> {}, absences |-> {}, days |-> {}]
    OBVIOUS
  <2>8. DeskFresh(q)'
    BY <2>6, <2>7 DEF DeskFresh, Refreshes, SyncPCs
  <2>9. desk'[s] = q
    BY <1>2, <1>3, <1>6, <2>7 DEF DecideSave, DeskSyncs
  <2>10. QED
    BY <1>6, <2>8, <2>9, DeskStays
<1>7. QED
  BY <1>4, <1>5, <1>6

LEMMA RemoveFresh ==
    ASSUME TypeOK, NEW s \in DeskSlots, NEW w,
           w = desk[s].user, DeskHolds(desk[s]), DeskFresh(desk[s]),
           RemoveCheck(s) \/ RemoveDestroy(s)
    PROVE  /\ desk'[s] = Null \/ DeskFresh(desk[s])'
           /\ desk'[s] # Null \/ Fresh(w)'
<1> USE DEF TypeOK, DeskTypeOK
<1>1. PICK h \in Removing : /\ h = desk[s] /\ h.user = w
                            /\ h.pc \in {"remove", "destroy"}
  BY DeskKind DEF RemoveCheck, RemoveDestroy, DeskAt
<1>2. Fresh(w)
  BY <1>1 DEF DeskFresh, SyncPCs
<1>3. CASE RemoveCheck(s)
  <2>1. Fresh(w)'
    BY <1>2, <1>3, QuietDays, SameDayFacts DEF RemoveCheck, storeVars, tables, Fresh
  <2>2. PICK q : q = Goto(h, "destroy")
    OBVIOUS
  <2>3. q.pc = "destroy" /\ q.user = w
    BY <1>1, <2>2, DeskFields
  <2>4. DeskFresh(q)'
    BY <2>1, <2>3 DEF DeskFresh, Refreshes, SyncPCs
  <2>5. desk'[s] \in {Null, q}
    BY <1>1, <1>3, <2>2 DEF RemoveCheck, DeskGoes, DeskEnds
  <2>6. QED
    BY <2>1, <2>4, <2>5
<1>4. CASE RemoveDestroy(s)
  <2>1. h.qid \in RequestIds /\ requests[h.qid].day = h.key
    BY <1>1, <1>4 DEF RemoveDestroy, DeskAt, DeskHolds, Removing
  <2>2. PICK day : day = h.key
    OBVIOUS
  <2>3. FreshBut(w, day)'
    <3>1. /\ \A j \in RequestIds : j # h.qid => requests'[j] = requests[j]
          /\ requests'[h.qid] = Null
      BY <1>1, <1>4, <2>1 DEF RemoveDestroy, StoreTypeOK
    <3>2. FreshBut(w, day)
      BY <1>2 DEF Fresh, FreshBut
    <3>3. QED
      BY <1>4, <2>1, <2>2, <3>1, <3>2, OtherDaysKept DEF RemoveDestroy
  <2>4. PICK q : q = [pc |-> "records", user |-> w, key |-> day,
                      seen |-> {}, absences |-> {}, days |-> {}]
    OBVIOUS
  <2>5. DeskFresh(q)'
    BY <2>3, <2>4 DEF DeskFresh, Refreshes, SyncPCs
  <2>6. desk'[s] = q
    BY <1>1, <1>4, <2>2, <2>4 DEF RemoveDestroy, DeskSyncs
  <2>7. QED
    BY <1>4, <2>5, <2>6, DeskStays
<1>5. QED
  BY <1>3, <1>4

\* A request that is filed or assigned is a new row.
LEMMA NewRequest ==
    ASSUME TypeOK, RequestIdsUnused, NEW row, InsertRequest(row)
    PROVE  \E q \in RequestIds :
             /\ requests[q] = Null /\ requests'[q] = row
             /\ \A j \in RequestIds : j # q => requests'[j] = requests[j]
<1>1. nextRequest \in RequestIds /\ requests[nextRequest] = Null
  BY StoreAssumption
     DEF InsertRequest, RequestIdsUnused, TypeOK, StoreTypeOK, RequestIds
<1>2. QED
  BY <1>1 DEF InsertRequest, TypeOK, StoreTypeOK

LEMMA FileFresh ==
    ASSUME TypeOK, RequestIdsUnused, NEW s \in DeskSlots, NEW w,
           w = desk[s].user, DeskHolds(desk[s]), DeskFresh(desk[s]),
           FileCreate(s)
    PROVE  desk'[s] = Null /\ Fresh(w)'
<1>1. PICK h \in Filing : h = desk[s] /\ h.user = w /\ h.pc = "file"
  BY DeskKind DEF FileCreate, DeskAt, TypeOK
<1>2. Fresh(w) /\ h.next.status = "pending"
  BY <1>1 DEF DeskFresh, SyncPCs, DeskHolds
<1>3. PICK q \in RequestIds :
        /\ requests[q] = Null /\ requests'[q] = h.next
        /\ \A j \in RequestIds : j # q => requests'[j] = requests[j]
  BY <1>1, NewRequest DEF FileCreate
<1>4. UNCHANGED <<records, summaries>> /\ desk'[s] = Null
  BY DEF FileCreate, DeskEnds, TypeOK, DeskTypeOK
<1>5. ASSUME NEW d \in Days PROVE Shows(w, d)'
  <2>1. DayAbsences(w, d)' = DayAbsences(w, d)
    <3>1. \A j \in RequestIds : /\ IsApprovedAbsence(j)' <=> IsApprovedAbsence(j)
                                /\ IsApprovedAbsence(j) => requests'[j] = requests[j]
      BY <1>2, <1>3 DEF IsApprovedAbsence
    <3>2. QED
      BY <3>1 DEF DayAbsences
  <2>2. DayFacts(w, d)' = DayFacts(w, d)
    BY <1>4 DEF DayFacts, Live, RowsOf, FactOf
  <2>3. QED
    BY <1>2, <1>4, <2>1, <2>2 DEF Fresh, Shows
<1>6. QED
  BY <1>4, <1>5 DEF Fresh

LEMMA AssignFresh ==
    ASSUME TypeOK, RequestIdsUnused, NEW s \in DeskSlots, NEW w,
           w = desk[s].user, DeskFresh(desk[s]),
           AssignCheck(s) \/ AssignFind(s) \/ AssignCreate(s)
    PROVE  /\ desk'[s] = Null \/ DeskFresh(desk[s])'
           /\ desk'[s] # Null \/ Fresh(w)'
<1> USE DEF TypeOK, DeskTypeOK
<1>1. PICK h \in Assigning : /\ h = desk[s] /\ h.user = w
                             /\ h.pc \in {"assign", "find", "give"}
  BY DeskKind DEF AssignCheck, AssignFind, AssignCreate, DeskAt
<1>2. Fresh(w)
  BY <1>1 DEF DeskFresh, SyncPCs
<1>3. CASE AssignCheck(s) \/ AssignFind(s)
  <2>1. Fresh(w)'
    BY <1>2, <1>3, QuietDays, SameDayFacts
       DEF AssignCheck, AssignFind, storeVars, tables, Fresh
  <2>2. ASSUME NEW q, q.pc \in {"assign", "find", "give"}, q.user = w
        PROVE  DeskFresh(q)'
    BY <2>1, <2>2 DEF DeskFresh, Refreshes, SyncPCs
  <2>3. \/ desk'[s] = Null
        \/ \E pc \in {"find", "give"} : desk'[s] = Goto(h, pc)
        \/ \E days : desk'[s] = GoOn(w, days)
    BY <1>1, <1>3 DEF AssignCheck, AssignFind, DeskGoes, DeskEnds
  <2>4. \A days : GoOn(w, days) # Null => GoOn(w, days).user = w
    BY DEF GoOn
  <2>5. QED
    BY <1>1, <2>1, <2>2, <2>3, <2>4, DeskFields
<1>4. CASE AssignCreate(s)
  <2> DEFINE row(d) == [user |-> w, day |-> d, kind |-> "absence",
                        times |-> NoTimes, status |-> "approved"]
  <2>1. PICK d, days : InsertRequest(row(d)) /\ DeskSyncs(s, w, d, days)
    BY <1>1, <1>4 DEF AssignCreate
  <2>2. PICK q \in RequestIds :
          /\ requests[q] = Null /\ requests'[q] = row(d)
          /\ \A j \in RequestIds : j # q => requests'[j] = requests[j]
    BY <2>1, NewRequest
  <2>3. FreshBut(w, d)'
    BY <1>2, <1>4, <2>2, OtherDaysKept DEF AssignCreate, Fresh, FreshBut
  <2>4. PICK g : g = [pc |-> "records", user |-> w, key |-> d,
                      seen |-> {}, absences |-> {}, days |-> days]
    OBVIOUS
  <2>5. DeskFresh(g)'
    BY <2>3, <2>4 DEF DeskFresh, Refreshes, SyncPCs
  <2>6. desk'[s] = g
    BY <2>1, <2>4 DEF DeskSyncs
  <2>7. QED
    BY <1>4, <2>5, <2>6, DeskStays
<1>5. QED
  BY <1>3, <1>4

LEMMA DeskFreshNext ==
    ASSUME TypeOK, WritesStayOnDay, RequestIdsUnused, NEW s \in DeskSlots, NEW w,
           w = desk[s].user, DeskHolds(desk[s]), DeskFresh(desk[s]), DeskStep(s)
    PROVE  /\ desk'[s] = Null \/ DeskFresh(desk[s])'
           /\ desk'[s] # Null \/ Fresh(w)'
<1> USE DEF TypeOK, DeskTypeOK
<1>1. PICK h : h = desk[s] /\ h.user = w /\ DeskFresh(h)
  OBVIOUS
<1>2. CASE FileCreate(s)
  BY <1>2, FileFresh
<1>3. CASE \/ DecideCheck(s) \/ DecideReadDay(s) \/ DecideAdjust(s)
           \/ DecideInsert(s) \/ DecideSave(s)
  BY <1>3, DecideFresh
<1>4. CASE RemoveCheck(s) \/ RemoveDestroy(s)
  BY <1>4, RemoveFresh
<1>5. CASE AssignCheck(s) \/ AssignFind(s) \/ AssignCreate(s)
  BY <1>5, AssignFresh
<1>6. CASE DeskSyncRecords(s) \/ DeskSyncAbsences(s)
  <2>1. h \in DeskSync
    BY <1>1, <1>6, DeskKind DEF DeskSyncRecords, DeskSyncAbsences, SyncPCs
  <2>2. UNCHANGED <<records, requests, summaries>>
    BY <1>6 DEF DeskSyncRecords, DeskSyncAbsences, storeVars, tables
  <2>3. PICK q : /\ desk'[s] = q
                 /\ \/ h.pc = "records" /\ q = SeenRecords(h)
                    \/ h.pc = "absences" /\ q = SeenAbsences(h)
    BY <1>1, <1>6 DEF DeskSyncRecords, DeskSyncAbsences, DeskAt
  <2>4. Refreshes(q)' /\ q.pc \in {"absences", "upsert"}
    BY <1>1, <2>1, <2>2, <2>3, RefreshReads DEF DeskFresh
  <2>5. DeskFresh(q)'
    BY <2>4 DEF DeskFresh, SyncPCs
  <2>6. QED
    BY <1>6, <2>3, <2>5, DeskStays
<1>7. CASE DeskUpsert(s)
  <2>1. h \in DeskSync /\ h.pc = "upsert"
    BY <1>1, <1>7, DeskKind DEF DeskUpsert, DeskAt, SyncPCs
  <2>2. Fresh(w)'
    BY <1>1, <1>7, <2>1, RefreshEnds DEF DeskFresh, DeskUpsert
  <2>3. PICK q : q = GoOn(w, h.days)
    OBVIOUS
  <2>4. q = Null \/ (q.pc = "assign" /\ q.user = w)
    BY <2>3 DEF GoOn
  <2>5. q = Null \/ DeskFresh(q)'
    BY <2>2, <2>4 DEF DeskFresh, Refreshes, SyncPCs
  <2>6. desk'[s] = q
    BY <1>1, <1>7, <2>3 DEF DeskUpsert
  <2>7. QED
    BY <2>2, <2>5, <2>6
<1>8. QED
  BY <1>2, <1>3, <1>4, <1>5, <1>6, <1>7 DEF DeskStep

\* What a step of w's handler leaves as it was.
OthersFresh(w) ==
    \A u \in Users : u # w =>
      /\ Fresh(u) => Fresh(u)'
      /\ \A t \in PunchSlots :
           /\ punch[t] # Null /\ punch[t].user = u /\ punch'[t] = punch[t]
           => PunchFresh(punch[t])'
      /\ \A t \in ReviewSlots :
           /\ review[t] # Null /\ review[t].user = u /\ review'[t] = review[t]
           => ReviewFresh(review[t])'
      /\ \A t \in DeskSlots :
           /\ desk[t] # Null /\ desk[t].user = u /\ desk'[t] = desk[t]
           => DeskFresh(desk[t])'

LEMMA LeftAlone ==
    ASSUME TypeOK, SerialInv, FreshInv, NEW w, LeavesOthers(w),
           \A u \in Users : u # w => summaries'[u] = summaries[u]
    PROVE  OthersFresh(w)
<1> SUFFICES ASSUME NEW u \in Users, u # w
             PROVE  /\ Fresh(u) => Fresh(u)'
                    /\ \A t \in PunchSlots :
                         /\ punch[t] # Null /\ punch[t].user = u
                         /\ punch'[t] = punch[t]
                         => PunchFresh(punch[t])'
                    /\ \A t \in ReviewSlots :
                         /\ review[t] # Null /\ review[t].user = u
                         /\ review'[t] = review[t]
                         => ReviewFresh(review[t])'
                    /\ \A t \in DeskSlots :
                         /\ desk[t] # Null /\ desk[t].user = u
                         /\ desk'[t] = desk[t]
                         => DeskFresh(desk[t])'
  BY DEF OthersFresh
<1>1. Untouched(u) /\ summaries'[u] = summaries[u]
  BY DEF LeavesOthers
<1>2. \A d : DaySame(u, d)
  BY <1>1, UntouchedDays
<1>3. \A i \in RecordIds :
        records[i] # Null /\ records[i].user = u => records'[i] = records[i]
  BY <1>1, UntouchedRows
<1>4. HandlersHold
  BY DEF SerialInv
<1>5. QED
  BY <1>2, <1>3, <1>4, BystandersFresh

\* Steps that write nothing leave every handler and every user as they were.
LEMMA QuietFresh ==
    ASSUME TypeOK, SerialInv, FreshInv, UNCHANGED <<records, requests, summaries>>
    PROVE  /\ \A u \in Users : Fresh(u) => Fresh(u)'
           /\ \A t \in PunchSlots :
                punch[t] # Null /\ punch'[t] = punch[t] => PunchFresh(punch[t])'
           /\ \A t \in ReviewSlots :
                review[t] # Null /\ review'[t] = review[t] => ReviewFresh(review[t])'
           /\ \A t \in DeskSlots :
                desk[t] # Null /\ desk'[t] = desk[t] => DeskFresh(desk[t])'
<1>1. HandlersHold
  BY DEF SerialInv
<1>2. \A u, d : DaySame(u, d)
  BY QuietDays
<1>3. QED
  BY <1>1, <1>2, BystandersFresh, HandlerUser

\* A step of one handler.
LEMMA FreshPunchStep ==
    ASSUME TypeOK, WritesStayOnDay, SerialInv, InUTC, FreshInv,
           NEW s \in PunchSlots, PunchStep(s) \/ PunchEvidenceFails(s),
           UNCHANGED <<review, closing, desk>>
    PROVE  FreshInv'
<1>1. /\ punch[s] # Null
      /\ \A t \in PunchSlots : t # s => punch'[t] = punch[t]
      /\ punch'[s] # Null => punch'[s].user = punch[s].user
  BY PunchGoesOn
<1>2. PICK w \in Users : w = punch[s].user
  BY <1>1, HandlerUser
<1>3. PunchHolds(punch[s]) /\ PunchFresh(punch[s]) /\ IdsUnused
  BY <1>1 DEF SerialInv, HandlersHold, FreshInv, WritesStayOnDay
<1>4. OthersFresh(w)
  BY <1>2, <1>3, PunchLeavesOthers, PunchSummaries, LeftAlone
<1>5. /\ punch'[s] = Null \/ PunchFresh(punch[s])'
      /\ punch'[s] # Null \/ Fresh(w)'
  BY <1>2, <1>3, PunchFreshNext
<1>6. /\ \A t \in PunchSlots : t # s /\ punch[t] # Null => punch[t].user # w
      /\ \A t \in ReviewSlots : review[t] # Null => review[t].user # w
      /\ \A t \in DeskSlots : desk[t] # Null => desk[t].user # w
  BY <1>1, <1>2 DEF SerialInv, Alone, PunchAlone
<1>7. ASSUME NEW u \in Users, Quiet(u)'
      PROVE  Fresh(u)'
  <2>1. CASE u = w
    BY <1>1, <1>2, <1>5, <1>7, <2>1 DEF Quiet
  <2>2. CASE u # w
    <3>1. Quiet(u)
      BY <1>1, <1>2, <1>7, <2>2 DEF Quiet
    <3>2. QED
      BY <1>4, <2>2, <3>1 DEF FreshInv, SummaryFresh, Fresh, OthersFresh
  <2>3. QED
    BY <2>1, <2>2
<1>8. ASSUME NEW t \in PunchSlots, punch'[t] # Null
      PROVE  PunchFresh(punch[t])'
  <2>1. CASE t = s
    BY <1>5, <1>8, <2>1
  <2>2. CASE t # s
    <3>1. punch'[t] = punch[t] /\ punch[t] # Null
          /\ punch[t].user \in Users /\ punch[t].user # w
      BY <1>1, <1>6, <1>8, <2>2, HandlerUser
    <3>2. QED
      BY <1>4, <3>1 DEF OthersFresh
  <2>3. QED
    BY <2>1, <2>2
<1>9. ASSUME NEW t \in ReviewSlots, review'[t] # Null
      PROVE  ReviewFresh(review[t])'
  <2>1. review'[t] = review[t] /\ review[t] # Null
        /\ review[t].user \in Users /\ review[t].user # w
    BY <1>6, <1>9, HandlerUser
  <2>2. QED
    BY <1>4, <2>1 DEF OthersFresh
<1>10. ASSUME NEW t \in DeskSlots, desk'[t] # Null
       PROVE  DeskFresh(desk[t])'
  <2>1. desk'[t] = desk[t] /\ desk[t] # Null
        /\ desk[t].user \in Users /\ desk[t].user # w
    BY <1>6, <1>10, HandlerUser
  <2>2. QED
    BY <1>4, <2>1 DEF OthersFresh
<1>11. SummaryFresh'
  BY <1>7 DEF SummaryFresh, Fresh
<1>12. QED
  BY <1>8, <1>9, <1>10, <1>11 DEF FreshInv

LEMMA FreshReviewStep ==
    ASSUME TypeOK, SerialInv, InUTC, FreshInv, NEW s \in ReviewSlots,
           ReviewStep(s), UNCHANGED <<punch, closing, desk>>
    PROVE  FreshInv'
<1>1. /\ review[s] # Null
      /\ \A t \in ReviewSlots : t # s => review'[t] = review[t]
      /\ review'[s] # Null => review'[s].user = review[s].user
  BY ReviewGoesOn
<1>2. PICK w \in Users : w = review[s].user
  BY <1>1, HandlerUser
<1>3. ReviewHolds(review[s]) /\ ReviewFresh(review[s])
  BY <1>1 DEF SerialInv, HandlersHold, FreshInv
<1>4. OthersFresh(w)
  BY <1>2, <1>3, ReviewLeavesOthers, ReviewSummaries, LeftAlone
<1>5. /\ review'[s] = Null \/ ReviewFresh(review[s])'
      /\ review'[s] # Null \/ Fresh(w)'
  BY <1>2, <1>3, ReviewFreshNext
<1>6. /\ \A t \in PunchSlots : punch[t] # Null => punch[t].user # w
      /\ \A t \in ReviewSlots : t # s /\ review[t] # Null => review[t].user # w
      /\ \A t \in DeskSlots : desk[t] # Null => desk[t].user # w
  BY <1>1, <1>2 DEF SerialInv, Alone, PunchAlone, ReviewAlone
<1>7. ASSUME NEW u \in Users, Quiet(u)'
      PROVE  Fresh(u)'
  <2>1. CASE u = w
    BY <1>1, <1>2, <1>5, <1>7, <2>1 DEF Quiet
  <2>2. CASE u # w
    <3>1. Quiet(u)
      BY <1>1, <1>2, <1>7, <2>2 DEF Quiet
    <3>2. QED
      BY <1>4, <2>2, <3>1 DEF FreshInv, SummaryFresh, Fresh, OthersFresh
  <2>3. QED
    BY <2>1, <2>2
<1>8. ASSUME NEW t \in PunchSlots, punch'[t] # Null
      PROVE  PunchFresh(punch[t])'
  <2>1. punch'[t] = punch[t] /\ punch[t] # Null
        /\ punch[t].user \in Users /\ punch[t].user # w
    BY <1>6, <1>8, HandlerUser
  <2>2. QED
    BY <1>4, <2>1 DEF OthersFresh
<1>9. ASSUME NEW t \in ReviewSlots, review'[t] # Null
      PROVE  ReviewFresh(review[t])'
  <2>1. CASE t = s
    BY <1>5, <1>9, <2>1
  <2>2. CASE t # s
    <3>1. review'[t] = review[t] /\ review[t] # Null
          /\ review[t].user \in Users /\ review[t].user # w
      BY <1>1, <1>6, <1>9, <2>2, HandlerUser
    <3>2. QED
      BY <1>4, <3>1 DEF OthersFresh
  <2>3. QED
    BY <2>1, <2>2
<1>10. ASSUME NEW t \in DeskSlots, desk'[t] # Null
       PROVE  DeskFresh(desk[t])'
  <2>1. desk'[t] = desk[t] /\ desk[t] # Null
        /\ desk[t].user \in Users /\ desk[t].user # w
    BY <1>6, <1>10, HandlerUser
  <2>2. QED
    BY <1>4, <2>1 DEF OthersFresh
<1>11. SummaryFresh'
  BY <1>7 DEF SummaryFresh, Fresh
<1>12. QED
  BY <1>8, <1>9, <1>10, <1>11 DEF FreshInv

LEMMA FreshDeskStep ==
    ASSUME TypeOK, WritesStayOnDay, SerialInv, FreshInv, NEW s \in DeskSlots,
           DeskStep(s), UNCHANGED <<punch, review, closing>>
    PROVE  FreshInv'
<1>1. /\ desk[s] # Null
      /\ \A t \in DeskSlots : t # s => desk'[t] = desk[t]
      /\ desk'[s] # Null => desk'[s].user = desk[s].user
  BY DeskGoesOn
<1>2. PICK w \in Users : w = desk[s].user
  BY <1>1, HandlerUser
<1>3. DeskHolds(desk[s]) /\ DeskFresh(desk[s]) /\ RequestIdsUnused
  BY <1>1 DEF SerialInv, HandlersHold, FreshInv
<1>4. OthersFresh(w)
  BY <1>2, <1>3, DeskLeavesOthers, DeskSummaries, LeftAlone
<1>5. /\ desk'[s] = Null \/ DeskFresh(desk[s])'
      /\ desk'[s] # Null \/ Fresh(w)'
  BY <1>2, <1>3, DeskFreshNext
<1>6. /\ \A t \in PunchSlots : punch[t] # Null => punch[t].user # w
      /\ \A t \in ReviewSlots : review[t] # Null => review[t].user # w
      /\ \A t \in DeskSlots : t # s /\ desk[t] # Null => desk[t].user # w
  BY <1>1, <1>2 DEF SerialInv, Alone, PunchAlone, ReviewAlone, DeskAlone
<1>7. ASSUME NEW u \in Users, Quiet(u)'
      PROVE  Fresh(u)'
  <2>1. CASE u = w
    BY <1>1, <1>2, <1>5, <1>7, <2>1 DEF Quiet
  <2>2. CASE u # w
    <3>1. Quiet(u)
      BY <1>1, <1>2, <1>7, <2>2 DEF Quiet
    <3>2. QED
      BY <1>4, <2>2, <3>1 DEF FreshInv, SummaryFresh, Fresh, OthersFresh
  <2>3. QED
    BY <2>1, <2>2
<1>8. ASSUME NEW t \in PunchSlots, punch'[t] # Null
      PROVE  PunchFresh(punch[t])'
  <2>1. punch'[t] = punch[t] /\ punch[t] # Null
        /\ punch[t].user \in Users /\ punch[t].user # w
    BY <1>6, <1>8, HandlerUser
  <2>2. QED
    BY <1>4, <2>1 DEF OthersFresh
<1>9. ASSUME NEW t \in ReviewSlots, review'[t] # Null
      PROVE  ReviewFresh(review[t])'
  <2>1. review'[t] = review[t] /\ review[t] # Null
        /\ review[t].user \in Users /\ review[t].user # w
    BY <1>6, <1>9, HandlerUser
  <2>2. QED
    BY <1>4, <2>1 DEF OthersFresh
<1>10. ASSUME NEW t \in DeskSlots, desk'[t] # Null
       PROVE  DeskFresh(desk[t])'
  <2>1. CASE t = s
    BY <1>5, <1>10, <2>1
  <2>2. CASE t # s
    <3>1. desk'[t] = desk[t] /\ desk[t] # Null
          /\ desk[t].user \in Users /\ desk[t].user # w
      BY <1>1, <1>6, <1>10, <2>2, HandlerUser
    <3>2. QED
      BY <1>4, <3>1 DEF OthersFresh
  <2>3. QED
    BY <2>1, <2>2
<1>11. SummaryFresh'
  BY <1>7 DEF SummaryFresh, Fresh
<1>12. QED
  BY <1>8, <1>9, <1>10, <1>11 DEF FreshInv

\* A handler enters for a user who has none, and whose summaries are fresh.
LEMMA FreshPunchEnters ==
    ASSUME TypeOK, SerialInv, FreshInv,
           UNCHANGED <<records, requests, summaries, review, desk>>,
           NEW u \in Users, Quiet(u), NEW s \in PunchSlots, punch[s] = Null,
           NEW q, q.pc = "period", q.user = u, punch' = [punch EXCEPT ![s] = q]
    PROVE  FreshInv'
<1>1. /\ \A t \in PunchSlots : t # s => punch'[t] = punch[t]
      /\ punch'[s] = q
  BY DEF TypeOK, PunchTypeOK
<1>2. Fresh(u)'
  BY QuietFresh DEF FreshInv, SummaryFresh, Fresh
<1>3. PunchFresh(punch[s])'
  BY <1>1, <1>2 DEF PunchFresh, Refreshes, SyncPCs
<1>4. \A v \in Users : Quiet(v)' => Quiet(v)
  BY <1>1 DEF Quiet
<1>5. SummaryFresh'
  BY <1>4, QuietFresh DEF FreshInv, SummaryFresh, Fresh
<1>6. QED
  BY <1>1, <1>3, <1>5, QuietFresh DEF FreshInv

LEMMA FreshReviewEnters ==
    ASSUME TypeOK, SerialInv, FreshInv,
           UNCHANGED <<records, requests, summaries, punch, desk>>,
           NEW u \in Users, Quiet(u), NEW s \in ReviewSlots, review[s] = Null,
           NEW q, q.pc = "period", q.user = u, review' = [review EXCEPT ![s] = q]
    PROVE  FreshInv'
<1>1. /\ \A t \in ReviewSlots : t # s => review'[t] = review[t]
      /\ review'[s] = q
  BY DEF TypeOK, ReviewTypeOK
<1>2. Fresh(u)'
  BY QuietFresh DEF FreshInv, SummaryFresh, Fresh
<1>3. ReviewFresh(review[s])'
  BY <1>1, <1>2 DEF ReviewFresh, Refreshes, SyncPCs
<1>4. \A v \in Users : Quiet(v)' => Quiet(v)
  BY <1>1 DEF Quiet
<1>5. SummaryFresh'
  BY <1>4, QuietFresh DEF FreshInv, SummaryFresh, Fresh
<1>6. QED
  BY <1>1, <1>3, <1>5, QuietFresh DEF FreshInv

\* Where the desk's handlers begin.
DeskStarts == {"file", "remove", "decide", "assign"}

LEMMA FreshDeskEnters ==
    ASSUME TypeOK, SerialInv, FreshInv,
           UNCHANGED <<records, requests, summaries, punch, review>>,
           NEW u \in Users, Quiet(u), NEW s \in DeskSlots, desk[s] = Null,
           NEW q, q.pc \in DeskStarts, q.user = u,
           desk' = [desk EXCEPT ![s] = q]
    PROVE  FreshInv'
<1>1. /\ \A t \in DeskSlots : t # s => desk'[t] = desk[t]
      /\ desk'[s] = q
  BY DEF TypeOK, DeskTypeOK
<1>2. Fresh(u)'
  BY QuietFresh DEF FreshInv, SummaryFresh, Fresh
<1>3. DeskFresh(desk[s])'
  BY <1>1, <1>2 DEF DeskFresh, Refreshes, SyncPCs, DeskStarts
<1>4. \A v \in Users : Quiet(v)' => Quiet(v)
  BY <1>1 DEF Quiet
<1>5. SummaryFresh'
  BY <1>4, QuietFresh DEF FreshInv, SummaryFresh, Fresh
<1>6. QED
  BY <1>1, <1>3, <1>5, QuietFresh DEF FreshInv

LEMMA FreshInvNext ==
    ASSUME TypeOK, WritesStayOnDay, Serialized, Faults = {}, InUTC, SerialInv,
           FreshInv, [Next]_vars
    PROVE  FreshInv'
<1>1. ASSUME UNCHANGED <<records, requests, summaries, punch, review, desk>>
      PROVE  FreshInv'
  <2>1. \A v \in Users : Quiet(v)' => Quiet(v)
    BY <1>1 DEF Quiet
  <2>2. SummaryFresh'
    BY <1>1, <2>1, QuietFresh DEF FreshInv, SummaryFresh, Fresh
  <2>3. QED
    BY <1>1, <2>2, QuietFresh DEF FreshInv
<1>2. CASE PunchNext
  <2>1. ASSUME NEW s \in PunchSlots, NEW u \in Users, NEW want \in Wants,
               NEW channel \in Channels, NEW rv \in BOOLEAN,
               MayStart(u), PunchStart(s, u, want, channel, rv)
        PROVE  FreshInv'
    <3>1. PICK q : /\ q.pc = "period" /\ q.user = u
                   /\ punch' = [punch EXCEPT ![s] = q]
      BY <2>1 DEF PunchStart
    <3>2. Quiet(u) /\ punch[s] = Null
      BY <2>1 DEF MayStart, PunchStart
    <3>3. UNCHANGED <<records, requests, summaries, review, desk>>
      BY <1>2, <2>1 DEF PunchNext, PunchStart, storeVars, tables
    <3>4. QED
      BY <3>1, <3>2, <3>3, FreshPunchEnters
  <2>2. ASSUME NEW s \in PunchSlots, PunchStep(s) \/ PunchEvidenceFails(s)
        PROVE  FreshInv'
    BY <1>2, <2>2, FreshPunchStep DEF PunchNext
  <2>3. QED
    BY <1>2, <2>1, <2>2 DEF PunchNext
<1>3. CASE ReviewNext
  <2>1. ASSUME NEW s \in ReviewSlots, NEW i \in RecordIds,
               NEW status \in RecordStatuses, NEW type \in NewTypes,
               NEW time \in Times, records[i] # Null,
               MayStart(records[i].user), ReviewLoad(s, i, status, type, time)
        PROVE  FreshInv'
    <3>1. PICK u \in Users : u = records[i].user
      BY <2>1 DEF TypeOK, StoreTypeOK, Record
    <3>2. PICK q : /\ q.pc = "period" /\ q.user = u
                   /\ review' = [review EXCEPT ![s] = q]
      BY <2>1, <3>1 DEF ReviewLoad
    <3>3. Quiet(u) /\ review[s] = Null
      BY <2>1, <3>1 DEF MayStart, ReviewLoad
    <3>4. UNCHANGED <<records, requests, summaries, punch, desk>>
      BY <1>3, <2>1 DEF ReviewNext, ReviewLoad, storeVars, tables
    <3>5. QED
      BY <3>2, <3>3, <3>4, FreshReviewEnters
  <2>2. ASSUME NEW s \in ReviewSlots, ReviewStep(s)
        PROVE  FreshInv'
    BY <1>3, <2>2, FreshReviewStep DEF ReviewNext
  <2>3. QED
    BY <1>3, <2>1, <2>2 DEF ReviewNext
<1>4. CASE ClosingNext
  BY <1>1, <1>4
     DEF ClosingNext, CloseStart, ReopenFind, ClosingStep, CloseReadRecords,
         CloseReadAbsences, CloseFind, CloseWrite, ReopenWrite, storeVars, tables
<1>5. CASE DeskNext
  <2>1. ASSUME NEW s \in DeskSlots, DeskOpens(s)
        PROVE  FreshInv'
    <3>1. /\ desk[s] = Null
          /\ UNCHANGED <<records, requests, summaries, punch, review>>
      BY <1>5, <2>1
         DEF DeskNext, DeskOpens, FileStart, RemoveLoad, DecideLoad,
             AssignStart, storeVars, tables
    <3>2. \A r \in RequestIds : requests[r] # Null => requests[r].user \in Users
      BY DEF TypeOK, StoreTypeOK, Request
    <3>3. ASSUME NEW q, q.pc \in DeskStarts, q.user \in Users,
                 MayStart(q.user), desk' = [desk EXCEPT ![s] = q]
          PROVE  FreshInv'
      <4>1. Quiet(q.user)
        BY <3>3 DEF MayStart
      <4>2. QED
        BY <3>1, <3>3, <4>1, FreshDeskEnters
    <3>4. ASSUME NEW u \in Users, NEW d \in Days, NEW kind \in Kinds,
                 NEW times \in Adjustments \cup {NoTimes},
                 MayStart(u), FileStart(s, u, d, kind, times)
          PROVE  FreshInv'
      <4>1. PICK q : q = [pc |-> "file", user |-> u,
                          next |-> [user |-> u, day |-> d, kind |-> kind,
                                    times |-> times, status |-> "pending"]]
        OBVIOUS
      <4>2. desk' = [desk EXCEPT ![s] = q]
        BY <3>4, <4>1 DEF FileStart
      <4>3. q.pc \in DeskStarts /\ q.user \in Users /\ q.user = u
        BY <3>4, <4>1 DEF DeskStarts
      <4>4. QED
        BY <3>3, <3>4, <4>2, <4>3
    <3>5. ASSUME NEW r \in RequestIds, requests[r] # Null,
                 MayStart(requests[r].user), RemoveLoad(s, r)
          PROVE  FreshInv'
      <4>1. PICK q : q = [pc |-> "remove", user |-> requests[r].user, qid |-> r,
                          key |-> requests[r].day]
        OBVIOUS
      <4>2. desk' = [desk EXCEPT ![s] = q]
        BY <3>5, <4>1 DEF RemoveLoad
      <4>3. q.pc \in DeskStarts /\ q.user \in Users /\ q.user = requests[r].user
        BY <3>2, <3>5, <4>1 DEF DeskStarts
      <4>4. QED
        BY <3>3, <3>5, <4>2, <4>3
    <3>6. ASSUME NEW r \in RequestIds, NEW status \in {"approved", "rejected"},
                 NEW times \in Adjustments \cup {NoTimes}, requests[r] # Null,
                 MayStart(requests[r].user), DecideLoad(s, r, status, times)
          PROVE  FreshInv'
      <4>1. PICK q : q = [pc |-> "decide", user |-> requests[r].user, qid |-> r,
                          copy |-> requests[r],
                          next |-> Decided(requests[r], status, times),
                          loaded |-> NothingLoaded, todo |-> {}]
        OBVIOUS
      <4>2. desk' = [desk EXCEPT ![s] = q]
        BY <3>6, <4>1 DEF DecideLoad
      <4>3. q.pc \in DeskStarts /\ q.user \in Users /\ q.user = requests[r].user
        BY <3>2, <3>6, <4>1 DEF DeskStarts
      <4>4. QED
        BY <3>3, <3>6, <4>2, <4>3
    <3>7. ASSUME NEW u \in Users, NEW days \in SUBSET Days,
                 MayStart(u), AssignStart(s, u, days)
          PROVE  FreshInv'
      <4>1. PICK q : q = [pc |-> "assign", user |-> u, days |-> days]
        OBVIOUS
      <4>2. desk' = [desk EXCEPT ![s] = q]
        BY <3>7, <4>1 DEF AssignStart, GoOn
      <4>3. q.pc \in DeskStarts /\ q.user \in Users /\ q.user = u
        BY <3>7, <4>1 DEF DeskStarts
      <4>4. QED
        BY <3>3, <3>7, <4>2, <4>3
    <3>8. QED
      BY <2>1, <3>4, <3>5, <3>6, <3>7 DEF DeskOpens
  <2>2. ASSUME NEW s \in DeskSlots, DeskStep(s)
        PROVE  FreshInv'
    BY <1>5, <2>2, FreshDeskStep DEF DeskNext
  <2>3. QED
    BY <1>5, <2>1, <2>2 DEF DeskNext
<1>6. CASE Tick \/ UNCHANGED vars
  BY <1>1, <1>6 DEF Tick, vars, tables, handlers
<1>7. QED
  BY <1>2, <1>3, <1>4, <1>5, <1>6 DEF Next, Crash

LEMMA InitFresh == Init => FreshInv
<1> SUFFICES ASSUME Init
             PROVE  FreshInv
  OBVIOUS
<1>1. \A u \in Users, d \in Days :
        DayFacts(u, d) = {} /\ DayAbsences(u, d) = {} /\ summaries[u][d] = Null
  BY DEF Init, StoreInit, DayFacts, Live, RowsOf, DayAbsences, IsApprovedAbsence
<1>2. SummaryFresh
  BY <1>1 DEF SummaryFresh, Shows
<1>3. QED
  BY <1>2 DEF Init, PunchInit, ReviewInit, DeskInit, FreshInv

\* When the handlers of a user do not overlap, no query fails and the process
\* runs in UTC, every handler leaves its user's summaries up to date: whatever
\* writes a marking or an absence refreshes the day it touched, for any number
\* of users, days, handlers and rows.
THEOREM SummariesFresh ==
    Serialized /\ Faults = {} /\ InUTC /\ Spec => []SummaryFresh
<1> SUFFICES ASSUME Serialized, Faults = {}, InUTC
             PROVE  Spec => []SummaryFresh
  OBVIOUS
<1>1. Init => FreshInv
  BY InitFresh
<1>2. /\ TypeOK /\ WritesStayOnDay /\ SerialInv /\ FreshInv /\ [Next]_vars
      => FreshInv'
  BY FreshInvNext
<1>3. FreshInv => SummaryFresh
  BY DEF FreshInv
<1>4. QED
  BY <1>1, <1>2, <1>3, TypeCorrect, WritesOnDay, ChecksStillHold, PTL DEF Spec

-----------------------------------------------------------------------------
(***************************************************************************)
(* Photos, whatever overlaps and whatever fails. A marking whose photo is  *)
(* pending has one punch that cares for it, which alone may delete it, and *)
(* which does so before the photo is stored or not at all.                 *)
(***************************************************************************)
Storer(i, s) ==
    /\ punch[s] # Null
    /\ punch[s].pc \in {"evidence", "destroy"}
    /\ punch[s].rid = i

Present(i) == i < nextRecord /\ records[i] # Null

PhotoInv ==
    /\ \A i \in evidence : Present(i)
    /\ \A i \in remote : i < nextRecord
    /\ \A i \in RecordIds, s \in PunchSlots : Storer(i, s) =>
         /\ Present(i) /\ i \notin evidence
         /\ \A t \in PunchSlots : Storer(i, t) => t = s

LEMMA StorerIds ==
    ASSUME TypeOK, NEW s \in PunchSlots, NEW i, Storer(i, s)
    PROVE  i \in RecordIds /\ punch[s] \in Storing
BY PunchKind DEF Storer, PunchAt, Storing, MarkingAt, TypeOK

\* Rows are deleted only by the punch that inserted them.
LEMMA RowsStay ==
    ASSUME TypeOK, WritesStayOnDay, [Next]_vars, NEW i \in RecordIds,
           records[i] # Null, records'[i] = Null
    PROVE  \E s \in PunchSlots : PunchDestroy(s) /\ Storer(i, s)
<1> USE DEF TypeOK
<1>0. /\ i \in Nat /\ (i >= nextRecord => records[i] = Null)
      /\ records[i] \in Record /\ Null \notin Record
      /\ nextRecord \in Nat
  BY StoreAssumption, NullAssumption
     DEF WritesStayOnDay, IdsUnused, RecordIds, StoreTypeOK
<1>1. ASSUME NEW row, InsertRecord(row)
      PROVE  FALSE
  BY <1>0, <1>1 DEF InsertRecord, StoreTypeOK
<1>2. ASSUME NEW j \in RecordIds, NEW row,
             records' = [records EXCEPT ![j] = row]
      PROVE  j = i /\ row = Null
  BY <1>2 DEF StoreTypeOK
<1>3. ASSUME NEW s \in PunchSlots, PunchFlag(s)
      PROVE  FALSE
  <2> DEFINE j == punch[s].flag
  <2>1. \A row \in Record : ToApproval(row) \in Record
    BY NullAssumption DEF ToApproval, Record, RecordStatuses
  <2>2. CASE j = i
    <3>1. records' = [records EXCEPT ![i] = ToApproval(records[i])]
      BY <1>3, <2>2 DEF PunchFlag
    <3>2. QED
      BY <1>0, <1>2, <2>1, <3>1
  <2>3. CASE j # i
    BY <1>3, <2>3 DEF PunchFlag, StoreTypeOK
  <2>4. QED
    BY <2>2, <2>3
<1>4. ASSUME NEW s \in ReviewSlots, ReviewSave(s)
      PROVE  FALSE
  <2>1. PICK r \in Reviewing : r = review[s]
    BY <1>4, ReviewKind DEF ReviewSave
  <2>2. r.rid \in RecordIds /\ r.copy \in Record /\ r.next \in Record
    BY <2>1 DEF Reviewing
  <2>3. records' = [records EXCEPT ![r.rid] =
                      SavedRecord(records[r.rid], r.copy, r.next)]
    BY <1>4, <2>1 DEF ReviewSave
  <2>4. r.rid = i /\ SavedRecord(records[r.rid], r.copy, r.next) = Null
    BY <1>2, <2>2, <2>3
  <2>5. QED
    BY <1>0, <2>2, <2>4, SavedRecordType
<1>5. ASSUME NEW s \in DeskSlots, DecideAdjust(s)
      PROVE  FALSE
  <2> DEFINE h == desk[s]
             next(j, t) == Adjusted(h.loaded[j], h.next.times[t])
             row(j, t) == SavedRecord(records[j], h.loaded[j], next(j, t))
  <2>1. h \in Deciding
    BY <1>5, DeskKind DEF DecideAdjust
  <2>2. PICK t \in Types, j \in RecordIds :
          /\ NextToApply(h, t)
          /\ j \in OfType(h, t)
          /\ records' = [records EXCEPT ![j] = row(j, t)]
    BY <1>5 DEF DecideAdjust
  <2>3. h.loaded[j] \in Record /\ h.next.times[t] \in Times
    BY <2>1, <2>2, NullAssumption
       DEF Deciding, OfType, NextToApply, Asked, Request, Adjustment,
           StoreTypeOK
  <2>4. next(j, t) \in Record
    BY <2>3, RowType DEF Adjusted, Record
  <2>5. j = i /\ row(j, t) = Null
    BY <1>2, <2>2
  <2>6. QED
    BY <1>0, <2>3, <2>4, <2>5, SavedRecordType
<1>6. ASSUME NEW s \in PunchSlots, PunchDestroy(s)
      PROVE  Storer(i, s)
  <2>1. punch[s].rid \in RecordIds
    BY <1>6, PunchKind DEF PunchDestroy, Storing, MarkingAt
  <2>2. punch[s].rid = i
    <3>1. records' = [records EXCEPT ![punch[s].rid] = Null]
      BY <1>6 DEF PunchDestroy
    <3>2. QED
      BY <1>2, <2>1, <3>1
  <2>3. QED
    BY <1>6, <2>2 DEF PunchDestroy, PunchAt, Storer
<1>7. records' # records
  BY <1>0
<1>8. CASE PunchNext
  BY <1>1, <1>3, <1>6, <1>7, <1>8
     DEF PunchNext, PunchStep, PunchStart, PunchCheck, PunchResolve,
         PunchRefuse, PunchCreate, PunchEvidence, PunchEvidenceFails,
         PunchSyncRecords, PunchSyncAbsences, PunchUpsert, PunchFails,
         PunchDestroyFails, storeVars, tables
<1>9. CASE ReviewNext
  BY <1>4, <1>7, <1>9
     DEF ReviewNext, ReviewStep, ReviewLoad, ReviewCheck, ReviewSyncRecords,
         ReviewSyncAbsences, ReviewUpsert, ReviewFails, storeVars, tables
<1>10. CASE DeskNext
  BY <1>1, <1>5, <1>7, <1>10
     DEF DeskNext, DeskOpens, DeskStep, FileStart, DecideLoad, RemoveLoad,
         AssignStart, FileCreate, DecideCheck, DecideReadDay, DecideInsert,
         DecideSave, RemoveCheck, RemoveDestroy, AssignCheck, AssignFind,
         AssignCreate, DeskSyncRecords, DeskSyncAbsences, DeskUpsert,
         DeskFails, storeVars, tables
<1>11. CASE ClosingNext
  BY <1>7, <1>11
     DEF ClosingNext, ClosingStep, CloseStart, CloseReadRecords,
         CloseReadAbsences, CloseFind, CloseWrite, ReopenFind, ReopenWrite,
         ClosingFails, storeVars, tables
<1>12. QED
  BY <1>7, <1>8, <1>9, <1>10, <1>11
     DEF Next, Tick, Crash, vars, storeVars, tables

\* What a step of one punch may do to photos: store the photo of the marking it
\* cares for, delete that marking, or insert another to care for.
PhotoMoves(s) ==
    /\ \A t \in PunchSlots : t # s => punch'[t] = punch[t]
    /\ \A i \in evidence' : i \in evidence \/ Storer(i, s)
    /\ \A i \in remote' : i \in remote \/ i < nextRecord'
    /\ \A i \in RecordIds : Storer(i, s)' =>
         \/ Storer(i, s) /\ i \notin evidence'
         \/ i = nextRecord /\ Present(i)'
    /\ \A i \in RecordIds : records[i] # Null /\ records'[i] = Null =>
         Storer(i, s) /\ ~Storer(i, s)' /\ i \notin evidence'

LEMMA PhotoInvMoves ==
    ASSUME TypeOK, TypeOK', KeepsDays, PhotoInv,
           NEW s \in PunchSlots, PhotoMoves(s)
    PROVE  PhotoInv'
<1>1. /\ nextRecord \in Nat /\ nextRecord' \in Nat /\ nextRecord' >= nextRecord
      /\ \A i \in RecordIds : i \in Nat
      /\ evidence \subseteq RecordIds /\ evidence' \subseteq RecordIds
      /\ remote \subseteq RecordIds /\ remote' \subseteq RecordIds
  BY StoreAssumption DEF TypeOK, StoreTypeOK, RecordIds, KeepsDays
<1>2. \A i \in RecordIds, t \in PunchSlots :
        t # s => (Storer(i, t)' <=> Storer(i, t))
  BY DEF PhotoMoves, Storer
<1>3. ASSUME NEW i \in RecordIds, Present(i),
             ~(records[i] # Null /\ records'[i] = Null)
      PROVE  Present(i)'
  BY <1>1, <1>3 DEF Present
<1>4. ASSUME NEW i \in evidence'
      PROVE  Present(i)'
  BY <1>1, <1>3, <1>4 DEF PhotoMoves, PhotoInv
<1>5. \A i \in remote' : i < nextRecord'
  BY <1>1 DEF PhotoMoves, PhotoInv
<1>6. ASSUME NEW i \in RecordIds, NEW t \in PunchSlots, Storer(i, t)'
      PROVE  /\ Present(i)' /\ i \notin evidence'
             /\ \A u \in PunchSlots : Storer(i, u)' => u = t
  <2>1. \A u \in PunchSlots : Storer(i, u) =>
          /\ Present(i) /\ i \notin evidence /\ i < nextRecord
          /\ \A v \in PunchSlots : Storer(i, v) => v = u
    BY DEF PhotoInv, Present
  <2>2. CASE t # s
    <3>1. Storer(i, t) /\ ~Storer(i, s) /\ i \notin evidence' /\ i # nextRecord
      BY <1>1, <1>2, <1>6, <2>1, <2>2 DEF PhotoMoves
    <3>2. Present(i)'
      BY <1>3, <2>1, <3>1 DEF PhotoMoves
    <3>3. ~Storer(i, s)'
      BY <3>1 DEF PhotoMoves
    <3>4. QED
      BY <1>2, <2>1, <3>1, <3>2, <3>3
  <2>3. CASE t = s /\ Storer(i, s) /\ i \notin evidence'
    <3>1. Present(i)'
      BY <1>3, <1>6, <2>1, <2>3 DEF PhotoMoves
    <3>2. QED
      BY <1>2, <2>1, <2>3, <3>1
  <2>4. CASE t = s /\ i = nextRecord /\ Present(i)'
    <3>1. \A u \in PunchSlots : ~Storer(i, u)
      BY <1>1, <2>1, <2>4
    <3>2. i \notin evidence
      BY <1>1, <2>4 DEF PhotoInv, Present
    <3>3. QED
      BY <1>2, <2>4, <3>1, <3>2 DEF PhotoMoves
  <2>5. QED
    BY <1>6, <2>2, <2>3, <2>4 DEF PhotoMoves
<1>7. QED
  BY <1>4, <1>5, <1>6 DEF PhotoInv

\* One punch lets go of a marking only with its photo, its deletion, or the
\* rejection of that deletion.
LetsGo(s) ==
    \A i \in RecordIds : Storer(i, s) =>
      \/ Storer(i, s)' \/ i \in evidence' \/ records'[i] = Null
      \/ "undo" \in Faults /\ PunchDestroyFails(s)

LEMMA PunchPhotos ==
    ASSUME TypeOK, TypeOK', WritesStayOnDay, PhotoInv, PunchNext
    PROVE  /\ PhotoInv'
           /\ evidence \subseteq evidence'
           /\ \E s \in PunchSlots :
                /\ \A t \in PunchSlots : t # s => punch'[t] = punch[t]
                /\ LetsGo(s)
                /\ \A i \in remote' : i \in remote \/ Storer(i, s)'
<1> USE DEF TypeOK, PunchTypeOK
<1>1. KeepsDays
  BY NextKeepsDays DEF Next
<1>2. /\ nextRecord \in Nat /\ nextRecord' \in Nat
      /\ evidence \subseteq RecordIds /\ remote \subseteq RecordIds
  BY StoreAssumption DEF StoreTypeOK
<1>3. SUFFICES ASSUME NEW s \in PunchSlots
               PROVE  (\/ \E u \in Users, want \in Wants, channel \in Channels,
                              rv \in BOOLEAN : PunchStart(s, u, want, channel, rv)
                       \/ PunchStep(s) \/ PunchEvidenceFails(s)
                       \/ "undo" \in Faults /\ PunchDestroyFails(s)
                       \/ PunchFails(s)) =>
                      /\ PhotoMoves(s)
                      /\ evidence \subseteq evidence'
                      /\ LetsGo(s)
                      /\ \A i \in remote' : i \in remote \/ Storer(i, s)'
  <2>1. PICK s \in PunchSlots :
          \/ \E u \in Users, want \in Wants, channel \in Channels,
                 rv \in BOOLEAN : PunchStart(s, u, want, channel, rv)
          \/ PunchStep(s) \/ PunchEvidenceFails(s)
          \/ "undo" \in Faults /\ PunchDestroyFails(s)
          \/ PunchFails(s)
    BY DEF PunchNext
  <2>2. /\ PhotoMoves(s)
        /\ evidence \subseteq evidence'
        /\ LetsGo(s)
        /\ \A i \in remote' : i \in remote \/ Storer(i, s)'
    BY <1>3, <2>1
  <2>3. PhotoInv'
    BY <1>1, <2>2, PhotoInvMoves
  <2>4. QED
    BY <2>2, <2>3 DEF PhotoMoves
<1>4. \A i \in RecordIds : records[i] # Null /\ records'[i] = Null =>
        \E t \in PunchSlots : PunchDestroy(t) /\ Storer(i, t)
  BY RowsStay DEF Next
\* A step of the punch while it cares for no marking and creates none.
<1>5. ASSUME \A t \in PunchSlots : t # s => punch'[t] = punch[t],
             UNCHANGED <<evidence, remote>>,
             \A i \in RecordIds : Storer(i, s)' => Storer(i, s),
             \A i \in RecordIds : Storer(i, s) =>
               \/ Storer(i, s)' \/ records'[i] = Null
               \/ "undo" \in Faults /\ PunchDestroyFails(s),
             \A i \in RecordIds : records[i] # Null /\ records'[i] = Null =>
               Storer(i, s) /\ ~Storer(i, s)'
      PROVE  /\ PhotoMoves(s)
             /\ evidence \subseteq evidence'
             /\ LetsGo(s)
             /\ \A i \in remote' : i \in remote \/ Storer(i, s)'
  BY <1>5 DEF PhotoMoves, LetsGo, PhotoInv
<1>6. ASSUME \A t \in PunchSlots : t # s => punch'[t] = punch[t],
             UNCHANGED <<evidence, remote>>,
             \A i \in RecordIds : Storer(i, s)' <=> Storer(i, s),
             ~PunchDestroy(s)
      PROVE  /\ PhotoMoves(s)
             /\ evidence \subseteq evidence'
             /\ LetsGo(s)
             /\ \A i \in remote' : i \in remote \/ Storer(i, s)'
  <2>1. \A t \in PunchSlots : t # s => ~PunchDestroy(t)
    BY <1>6 DEF PunchDestroy, PunchEnds, PunchAt
  <2>2. \A i \in RecordIds : ~(records[i] # Null /\ records'[i] = Null)
    BY <1>4, <1>6, <2>1
  <2>3. QED
    BY <1>5, <1>6, <2>2
\* The punch it leaves alone, starts or ends.
<1>7. CASE UNCHANGED <<evidence, remote>> /\ ~PunchDestroy(s)
           /\ (\A t \in PunchSlots : t # s => punch'[t] = punch[t])
           /\ (punch[s] # Null => punch[s].pc \notin {"evidence", "destroy"})
           /\ (punch'[s] # Null => punch'[s].pc \notin {"evidence", "destroy"})
  <2>1. \A i \in RecordIds : ~Storer(i, s) /\ ~Storer(i, s)'
    BY <1>7 DEF Storer
  <2>2. QED
    BY <1>6, <1>7, <2>1
<1>8. ASSUME NEW u \in Users, NEW want \in Wants, NEW channel \in Channels,
             NEW rv \in BOOLEAN, PunchStart(s, u, want, channel, rv)
      PROVE  /\ PhotoMoves(s)
             /\ evidence \subseteq evidence'
             /\ LetsGo(s)
             /\ \A i \in remote' : i \in remote \/ Storer(i, s)'
  BY <1>7, <1>8 DEF PunchStart, PunchDestroy, PunchAt, storeVars, tables
<1>9. CASE \/ PunchCheck(s) \/ PunchResolve(s) \/ PunchRefuse(s)
           \/ PunchSyncRecords(s) \/ PunchSyncAbsences(s) \/ PunchUpsert(s)
           \/ PunchFlag(s) \/ PunchFails(s)
  BY <1>7, <1>9, PunchFields, PunchKind
     DEF PunchCheck, PunchResolve, PunchRefuse, PunchSyncRecords,
         PunchSyncAbsences, PunchUpsert, PunchFlag, PunchFails,
         PunchDestroy, PunchAt, PunchEnds, storeVars, tables, SyncPCs
<1>10. CASE PunchCreate(s)
  <2>1. PICK p \in Creating : p = punch[s] /\ p.pc = "create"
    BY <1>10, PunchKind DEF PunchCreate, PunchAt
  <2>2. /\ nextRecord \in RecordIds /\ nextRecord' = nextRecord + 1
        /\ evidence' = evidence
        /\ \A t \in PunchSlots : t # s => punch'[t] = punch[t]
    BY <1>10, StoreAssumption
       DEF PunchCreate, InsertRecord, StoreTypeOK, RecordIds
  <2>3. \A i \in RecordIds : ~Storer(i, s)
    BY <2>1 DEF Storer
  <2>4. \A i \in RecordIds : ~(records[i] # Null /\ records'[i] = Null)
    BY <1>4, <2>2, <2>3 DEF PunchDestroy, PunchEnds, PunchAt
  <2>5. \A i \in RecordIds : i = nextRecord => Present(i)'
    <3>1. /\ p.user \in Users /\ p.at \in Times /\ p.type \in Types
          /\ DOMAIN records = RecordIds
      BY <2>1 DEF Creating, MarkingAt, StoreTypeOK
    <3>2. PICK status \in RecordStatuses :
            records'[nextRecord] = [user |-> p.user, time |-> p.at,
                                    type |-> p.type, status |-> status]
      BY <1>10, <2>1, <2>2, <3>1
         DEF PunchCreate, InsertRecord, RecordStatuses
    <3>3. records'[nextRecord] \in Record
      BY <3>1, <3>2 DEF Record
    <3>4. records'[nextRecord] # Null
      BY <3>3, NullAssumption
    <3>5. QED
      BY <1>2, <2>2, <3>4 DEF Present
  <2>6. CASE p.channel = "remote"
    <3>1. PICK q : q = Inserted(p, nextRecord)
      OBVIOUS
    <3>2. punch'[s] = q /\ q.pc = "evidence" /\ q.rid = nextRecord
      BY <1>10, <2>1, <2>2, <2>6, <3>1, PunchFields DEF PunchCreate, StoreTypeOK
    <3>3. punch'[s] # Null
      BY <1>10, PunchStays
    <3>4. /\ \A i \in RecordIds : Storer(i, s)' <=> i = nextRecord
          /\ remote' = remote \cup {nextRecord}
      BY <1>10, <2>1, <2>2, <2>6, <3>2, <3>3 DEF PunchCreate, Storer
    <3>5. QED
      BY <1>2, <2>2, <2>3, <2>4, <2>5, <3>4 DEF PhotoMoves, LetsGo, PhotoInv
  <2>7. CASE p.channel # "remote"
    <3>1. remote' = remote /\ \E flag : punch'[s] = Syncing(p, flag)
      BY <1>10, <2>1, <2>7 DEF PunchCreate
    <3>2. \A i \in RecordIds : ~Storer(i, s)'
      BY <3>1, PunchFields DEF Storer
    <3>3. QED
      BY <1>5, <2>2, <2>3, <2>4, <3>1, <3>2
  <2>8. QED
    BY <2>6, <2>7
<1>11. CASE PunchEvidence(s)
  <2>1. PICK p \in Storing : p = punch[s] /\ p.pc = "evidence"
    BY <1>11, PunchKind DEF PunchEvidence, PunchAt
  <2>2. PICK i \in RecordIds : i = p.rid
    BY <2>1 DEF Storing, MarkingAt
  <2>3. /\ \A t \in PunchSlots : t # s => punch'[t] = punch[t]
        /\ evidence' = evidence \cup {i} /\ remote' = remote
        /\ records' = records /\ punch'[s] = Syncing(p, 0)
    BY <1>11, <2>1, <2>2 DEF PunchEvidence
  <2>4. \A j \in RecordIds : (Storer(j, s) <=> j = i) /\ ~Storer(j, s)'
    BY <1>11, <2>1, <2>2, <2>3, PunchFields DEF Storer, PunchEvidence, PunchAt
  <2>5. QED
    BY <2>3, <2>4 DEF PhotoMoves, LetsGo
<1>12. CASE PunchEvidenceFails(s)
  <2>1. PICK p \in Storing : p = punch[s] /\ p.pc = "evidence"
    BY <1>12, PunchKind DEF PunchEvidenceFails, PunchAt
  <2>2. PICK q : q = Goto(p, "destroy")
    OBVIOUS
  <2>3. punch'[s] = q /\ q.pc = "destroy" /\ q.rid = p.rid
    BY <1>12, <2>1, <2>2, PunchFields DEF PunchEvidenceFails
  <2>4. punch'[s] # Null
    BY <1>12, PunchStays
  <2>5. \A i \in RecordIds : Storer(i, s)' <=> Storer(i, s)
    BY <1>12, <2>1, <2>3, <2>4 DEF Storer, PunchEvidenceFails, PunchAt
  <2>6. QED
    BY <1>6, <1>12, <2>1, <2>5
       DEF PunchEvidenceFails, PunchDestroy, PunchAt, storeVars, tables
<1>13. CASE PunchDestroy(s)
  <2>1. \A i \in RecordIds : Storer(i, s) => records'[i] = Null
    BY <1>13 DEF PunchDestroy, Storer, StoreTypeOK
  <2>2. /\ \A t \in PunchSlots : t # s => punch'[t] = punch[t]
        /\ evidence' = evidence /\ remote' = remote /\ punch'[s] = Null
    BY <1>13 DEF PunchDestroy, PunchEnds
  <2>3. \A t \in PunchSlots : PunchDestroy(t) => t = s
    BY <1>13, <2>2 DEF PunchDestroy, PunchEnds, PunchAt
  <2>4. \A i \in RecordIds : ~Storer(i, s)'
    BY <2>2 DEF Storer
  <2>5. QED
    BY <1>4, <1>5, <2>1, <2>2, <2>3, <2>4
<1>14. CASE "undo" \in Faults /\ PunchDestroyFails(s)
  <2>1. /\ \A t \in PunchSlots : t # s => punch'[t] = punch[t]
        /\ UNCHANGED <<records, evidence, remote>> /\ punch'[s] = Null
    BY <1>14 DEF PunchDestroyFails, PunchEnds, storeVars, tables
  <2>2. \A i \in RecordIds : ~Storer(i, s)'
    BY <2>1 DEF Storer
  <2>3. QED
    BY <1>5, <1>14, <2>1, <2>2
<1>15. QED
  BY <1>8, <1>9, <1>10, <1>11, <1>12, <1>13, <1>14 DEF PunchStep

\* The steps of the other handlers, of the clock and of a restart.
LEMMA OtherPhotos ==
    ASSUME TypeOK, WritesStayOnDay, PhotoInv, [Next]_vars, ~PunchNext
    PROVE  /\ UNCHANGED <<evidence, remote>>
           /\ UNCHANGED punch \/ Crash
           /\ PhotoInv'
<1>1. UNCHANGED <<evidence, remote>> /\ (UNCHANGED punch \/ Crash)
  <2>1. ReviewNext => UNCHANGED <<punch, evidence, remote>>
    BY DEF ReviewNext, ReviewLoad, ReviewStep, ReviewCheck, ReviewSave,
           ReviewSyncRecords, ReviewSyncAbsences, ReviewUpsert, ReviewFails,
           storeVars, tables
  <2>2. ClosingNext => UNCHANGED <<punch, evidence, remote>>
    BY DEF ClosingNext, CloseStart, ReopenFind, ClosingStep, CloseReadRecords,
           CloseReadAbsences, CloseFind, CloseWrite, ReopenWrite,
           ClosingFails, storeVars, tables
  <2>3. DeskNext => UNCHANGED <<punch, evidence, remote>>
    BY DEF DeskNext, DeskOpens, FileStart, RemoveLoad, DecideLoad, AssignStart,
           DeskStep, FileCreate, DecideCheck, DecideReadDay, DecideAdjust,
           DecideInsert, DecideSave, RemoveCheck, RemoveDestroy, AssignCheck,
           AssignFind, AssignCreate, DeskSyncRecords, DeskSyncAbsences,
           DeskUpsert, DeskFails, storeVars, tables
  <2>4. QED
    BY <2>1, <2>2, <2>3 DEF Next, Tick, Crash, vars, handlers, storeVars, tables
<1>2. \A i \in RecordIds, s \in PunchSlots : Storer(i, s)' => Storer(i, s)
  BY <1>1 DEF Crash, Storer
<1>3. \A i \in RecordIds : ~(records[i] # Null /\ records'[i] = Null)
  <2>1. CASE UNCHANGED punch
    <3>1. \A s \in PunchSlots : ~PunchDestroy(s)
      BY <2>1 DEF PunchDestroy, PunchEnds, PunchAt, TypeOK, PunchTypeOK
    <3>2. QED
      BY <3>1, RowsStay
  <2>2. CASE Crash
    BY <2>2 DEF Crash, storeVars, tables
  <2>3. QED
    BY <1>1, <2>1, <2>2
<1>4. /\ KeepsDays /\ nextRecord \in Nat /\ nextRecord' \in Nat
      /\ evidence \subseteq RecordIds /\ remote \subseteq RecordIds
      /\ \A i \in RecordIds : i \in Nat
  BY NextKeepsDays, NextType, StoreAssumption
     DEF TypeOK, StoreTypeOK, RecordIds
<1>5. \A i \in RecordIds : Present(i) => Present(i)'
  BY <1>3, <1>4 DEF Present, KeepsDays
<1>6. \A i \in remote' : i < nextRecord'
  BY <1>1, <1>4 DEF PhotoInv, KeepsDays
<1>7. QED
  BY <1>1, <1>2, <1>4, <1>5, <1>6 DEF PhotoInv

\* A marking is stranded by no step but a restart or the rejection of its own
\* deletion.
LEMMA StrandedNext ==
    ASSUME TypeOK, TypeOK', WritesStayOnDay, PhotoInv, [Next]_vars,
           NEW i \in remote', Stranded(i)'
    PROVE  \/ Stranded(i) \/ Crash
           \/ "undo" \in Faults /\ UndoFails(i)
<1> SUFFICES ASSUME ~Crash
             PROVE  Stranded(i) \/ ("undo" \in Faults /\ UndoFails(i))
  OBVIOUS
<1>1. i \in RecordIds /\ records'[i] # Null /\ i \notin evidence'
  BY DEF Stranded, TypeOK, StoreTypeOK
<1>2. \A j : PhotoPending(j) <=> \E s \in PunchSlots : Storer(j, s)
  BY DEF PhotoPending, Storer
<1>3. \A s \in PunchSlots : ~Storer(i, s)'
  BY DEF Stranded, PhotoPending, Storer
<1>4. i \in remote => records[i] # Null
  <2>1. KeepsDays
    BY NextKeepsDays
  <2>2. QED
    BY <1>1, <2>1 DEF KeepsDays, PhotoInv
<1>5. CASE PunchNext
  <2>1. /\ evidence \subseteq evidence'
        /\ \E s \in PunchSlots :
             /\ \A t \in PunchSlots : t # s => punch'[t] = punch[t]
             /\ LetsGo(s)
             /\ \A j \in remote' : j \in remote \/ Storer(j, s)'
    BY <1>5, PunchPhotos
  <2>2. PICK s \in PunchSlots :
          /\ \A t \in PunchSlots : t # s => punch'[t] = punch[t]
          /\ LetsGo(s)
          /\ \A j \in remote' : j \in remote \/ Storer(j, s)'
    BY <2>1
  <2>3. i \in remote
    BY <1>3, <2>2
  <2>4. \A t \in PunchSlots : t # s => ~Storer(i, t)
    BY <1>3, <2>2 DEF Storer
  <2>5. Storer(i, s) => "undo" \in Faults /\ PunchDestroyFails(s)
    BY <1>1, <1>3, <2>2 DEF LetsGo
  <2>6. QED
    BY <1>1, <1>2, <1>4, <2>1, <2>3, <2>4, <2>5
       DEF Stranded, UndoFails, Storer
<1>6. CASE ~PunchNext
  <2>1. UNCHANGED <<evidence, remote, punch>>
    BY <1>6, OtherPhotos
  <2>2. \A s \in PunchSlots : ~Storer(i, s)
    BY <1>3, <2>1 DEF Storer
  <2>3. QED
    BY <1>1, <1>2, <1>4, <2>1, <2>2 DEF Stranded
<1>7. QED
  BY <1>5, <1>6

LEMMA PhotoInvNext ==
    ASSUME TypeOK, TypeOK', WritesStayOnDay, PhotoInv, [Next]_vars
    PROVE  PhotoInv'
BY PunchPhotos, OtherPhotos

LEMMA PhotoInvInit ==
    ASSUME Init
    PROVE  PhotoInv
BY DEF Init, StoreInit, PunchInit, PhotoInv, Storer

\* However the handlers interleave and whatever fails: a stored photo belongs
\* to a marking that exists, and a remote marking is left without its photo
\* only by a restart or by the rejection of the deletion that was to take it
\* back.
THEOREM RemotePhotos == Spec => RemoteHasPhoto
<1>1. Init => PhotoInv
  BY PhotoInvInit
<1>2. TypeOK /\ TypeOK' /\ WritesStayOnDay /\ PhotoInv /\ [Next]_vars
      => PhotoInv'
  BY PhotoInvNext
<1>3. PhotoInv => \A i \in evidence : records[i] # Null
  BY DEF PhotoInv, Present
<1>4. TypeOK /\ TypeOK' /\ WritesStayOnDay /\ PhotoInv /\ [Next]_vars
      => [\A i \in remote' :
            Stranded(i)' => Stranded(i) \/ UndoFails(i) \/ Crash]_vars
  BY StrandedNext
<1>5. QED
  BY <1>1, <1>2, <1>3, <1>4, TypeCorrect, WritesOnDay, PTL
     DEF Spec, RemoteHasPhoto

\* Without these two faults no remote marking stays without its photo.
THEOREM NoneStranded ==
    Faults \subseteq {"query"} /\ Spec => [](\A i \in remote : ~Stranded(i))
<1> SUFFICES ASSUME Faults \subseteq {"query"}
             PROVE  Spec => [](\A i \in remote : ~Stranded(i))
  OBVIOUS
<1>1. Init => PhotoInv /\ \A i \in remote : ~Stranded(i)
  BY PhotoInvInit DEF Init, StoreInit
<1>2. TypeOK /\ TypeOK' /\ WritesStayOnDay /\ PhotoInv /\ [Next]_vars
      => PhotoInv'
  BY PhotoInvNext
<1>3. TypeOK /\ TypeOK' /\ WritesStayOnDay /\ PhotoInv /\ [Next]_vars
      /\ (\A i \in remote : ~Stranded(i)) => (\A i \in remote : ~Stranded(i))'
  <2> SUFFICES ASSUME TypeOK, TypeOK', WritesStayOnDay, PhotoInv, [Next]_vars,
                      \A i \in remote : ~Stranded(i),
                      NEW i \in remote', Stranded(i)'
               PROVE  FALSE
    OBVIOUS
  <2>1. ~Crash
    BY DEF Crash
  <2>2. QED
    BY <2>1, StrandedNext DEF Stranded
<1>4. QED
  BY <1>1, <1>2, <1>3, TypeCorrect, WritesOnDay, PTL DEF Spec
=============================================================================
