-------------------------------- MODULE Punch --------------------------------
(***************************************************************************)
(* Registering a marking: registerRecord (kiosk and web) and               *)
(* registerRecordByPin through createValidatedRecord, and                  *)
(* registerRemoteRecord, which repeats its steps and adds the photo.       *)
(*                                                                         *)
(* A handler is Null or a record of its locals; pc names the query it is   *)
(* waiting for. A refusal (any 4xx answer) changes no table and ends it.   *)
(***************************************************************************)
EXTENDS AttendanceStore

CONSTANTS
    PunchSlots,     \* bound: punch requests in flight at once
    Channels        \* the entry points the instance uses

ASSUME ChannelsAssumption == Channels \subseteq {"kiosk", "web", "remote"}

VARIABLE punch

\* at: the instant taken from the clock; type: requested, then resolved;
\* review: the position is outside the company's radius; rid: the new row.
MarkingAt(pcs, types, rids) ==
    [pc : pcs, user : Users, at : Times, type : types, channel : Channels,
     review : BOOLEAN, rid : rids]

Reading == MarkingAt({"period", "read"}, Types \cup {"auto"}, {0})
Creating == MarkingAt({"create"}, Types, {0})
Storing == MarkingAt({"evidence", "destroy"}, Types, RecordIds)

\* flag: the row to send to approval once the summary is written, or 0.
PunchSync ==
    [pc : SyncPCs \cup {"flag"}, user : Users, key : Days,
     seen : SUBSET Fact, absences : SUBSET RequestIds, flag : 0..MaxRecords]

PunchLocal == Reading \cup Creating \cup Storing \cup PunchSync
PunchTypeOK == punch \in [PunchSlots -> PunchLocal \cup {Null}]
PunchInit == punch = [s \in PunchSlots |-> Null]

PunchAt(s, pc) == punch[s] # Null /\ punch[s].pc = pc
PunchEnds(s) == punch' = [punch EXCEPT ![s] = Null]

\* The handler calls syncDailySummary with the UTC date of its instant.
Syncing(p, flag) ==
    [pc |-> "records", user |-> p.user, key |-> DateKey[p.at],
     seen |-> {}, absences |-> {}, flag |-> flag]

-----------------------------------------------------------------------------
\* The request arrives and its instant is taken from the clock. A kiosk
\* marking is never sent to approval.
PunchStart(s, u, want, channel, review) ==
    /\ punch[s] = Null
    /\ channel = "kiosk" => ~review
    /\ punch' = [punch EXCEPT ![s] =
                   [pc |-> "period", user |-> u, at |-> now, type |-> want,
                    channel |-> channel, review |-> review, rid |-> 0]]
    /\ UNCHANGED storeVars

\* Mutant of PunchCheck: a closed month does not stop the marking.
PunchCheckSkipped(s) ==
    /\ PunchAt(s, "period")
    /\ punch' = [punch EXCEPT ![s] = Goto(punch[s], "read")]
    /\ UNCHANGED storeVars

\* assertPeriodOpen(now).
PunchCheck(s) ==
    /\ PunchAt(s, "period")
    /\ IF PeriodOpen(LocalDay[punch[s].at])
         THEN punch' = [punch EXCEPT ![s] = Goto(punch[s], "read")]
         ELSE PunchEnds(s)
    /\ UNCHANGED storeVars

Today(p) == Live(RowsOf(p.user, LocalDay[p.at]))

\* The last marking of the day is less than a minute old.
IsRecent(p) == \E i \in Today(p) : records[i].time >= p.at

TypesToday(p) == {records[i].type : i \in Today(p)}

Resolved(p, type) == [p EXCEPT !.pc = "create", !.type = type]

\* The day's markings are read and the requested type is accepted.
PunchResolve(s) ==
    /\ PunchAt(s, "read")
    /\ ~IsRecent(punch[s])
    /\ \E type \in Types :
         /\ Accepts(punch[s].type, TypesToday(punch[s]), type)
         /\ punch' = [punch EXCEPT ![s] = Resolved(punch[s], type)]
    /\ UNCHANGED storeVars

\* ... or the marking is refused.
PunchRefuse(s) ==
    /\ PunchAt(s, "read")
    /\ \/ IsRecent(punch[s])
       \/ ~ \E type \in Types :
              Accepts(punch[s].type, TypesToday(punch[s]), type)
    /\ PunchEnds(s)
    /\ UNCHANGED storeVars

Inserted(p, id) == [p EXCEPT !.pc = "evidence", !.rid = id]

PunchCreate(s) ==
    LET p == punch[s] IN
    /\ PunchAt(s, "create")
    /\ InsertRecord([user |-> p.user, time |-> p.at, type |-> p.type,
                     status |-> IF p.channel = "remote" /\ p.review
                                  THEN "pending_approval" ELSE "valid"])
    /\ remote' = IF p.channel = "remote" THEN remote \cup {nextRecord}
                                         ELSE remote
    /\ punch' = [punch EXCEPT ![s] =
                   IF p.channel = "remote"
                     THEN Inserted(p, nextRecord)
                     ELSE Syncing(p, IF p.channel = "web" /\ p.review
                                       THEN nextRecord ELSE 0)]
    /\ UNCHANGED <<now, requests, nextRequest, summaries, closings, evidence>>

-----------------------------------------------------------------------------
(***************************************************************************)
(* The photo of a remote marking. When its row cannot be stored the        *)
(* handler deletes the marking again and ignores a failure to do so.       *)
(***************************************************************************)
PunchEvidence(s) ==
    /\ PunchAt(s, "evidence")
    /\ evidence' = evidence \cup {punch[s].rid}
    /\ punch' = [punch EXCEPT ![s] = Syncing(punch[s], 0)]
    /\ UNCHANGED <<now, records, nextRecord, requests, nextRequest,
                   summaries, closings, remote>>

\* Mutant of PunchEvidenceFails: the marking is left as it is.
PunchEvidenceGivenUp(s) ==
    /\ PunchAt(s, "evidence")
    /\ PunchEnds(s)
    /\ UNCHANGED storeVars

PunchEvidenceFails(s) ==
    /\ PunchAt(s, "evidence")
    /\ punch' = [punch EXCEPT ![s] = Goto(punch[s], "destroy")]
    /\ UNCHANGED storeVars

PunchDestroy(s) ==
    /\ PunchAt(s, "destroy")
    /\ records' = [records EXCEPT ![punch[s].rid] = Null]
    /\ PunchEnds(s)
    /\ UNCHANGED <<now, nextRecord, requests, nextRequest, summaries,
                   closings, evidence, remote>>

-----------------------------------------------------------------------------
PunchSyncRecords(s) ==
    /\ PunchAt(s, "records")
    /\ punch' = [punch EXCEPT ![s] = SeenRecords(punch[s])]
    /\ UNCHANGED storeVars

PunchSyncAbsences(s) ==
    /\ PunchAt(s, "absences")
    /\ punch' = [punch EXCEPT ![s] = SeenAbsences(punch[s])]
    /\ UNCHANGED storeVars

\* After the sync registerRecord still has to flag a web marking made out of
\* the area; every other marking is complete.
PunchUpsert(s) ==
    /\ PunchAt(s, "upsert")
    /\ UpsertSummary(punch[s])
    /\ IF punch[s].flag # 0
         THEN punch' = [punch EXCEPT ![s] = Goto(punch[s], "flag")]
         ELSE PunchEnds(s)
    /\ UNCHANGED <<now, records, nextRecord, requests, nextRequest, closings,
                   evidence, remote>>

ToApproval(row) ==
    IF row = Null THEN Null ELSE [row EXCEPT !.status = "pending_approval"]

\* record.save() on the instance created above: only the status differs.
PunchFlag(s) ==
    /\ PunchAt(s, "flag")
    /\ records' = [records EXCEPT ![punch[s].flag] =
                     ToApproval(records[punch[s].flag])]
    /\ PunchEnds(s)
    /\ UNCHANGED <<now, nextRecord, requests, nextRequest, summaries,
                   closings, evidence, remote>>

\* The deletion is rejected, which is swallowed: the marking stays without its
\* photo, and its day is not refreshed.
PunchDestroyFails(s) ==
    /\ PunchAt(s, "destroy")
    /\ PunchEnds(s)
    /\ UNCHANGED storeVars

\* Any other query is rejected by the database: the catch answers 500 and
\* what was written stays.
PunchFails(s) ==
    /\ punch[s] # Null
    /\ punch[s].pc \notin {"evidence", "destroy"}
    /\ PunchEnds(s)
    /\ UNCHANGED storeVars

PunchStep(s) ==
    \/ PunchCheck(s) \/ PunchResolve(s) \/ PunchRefuse(s) \/ PunchCreate(s)
    \/ PunchEvidence(s) \/ PunchDestroy(s)
    \/ PunchSyncRecords(s) \/ PunchSyncAbsences(s) \/ PunchUpsert(s)
    \/ PunchFlag(s)
=============================================================================
