----------------------------- MODULE PhotoKeeping -----------------------------
(***************************************************************************)
(* The photo of a remote marking: its file, the evidence row that keeps it *)
(* for RETENTION_MONTHS, and the sweep that takes expired ones away        *)
(* (RemotePhotoRetentionService), which at its start also makes evidence   *)
(* rows for markings that were made before there were any.                 *)
(***************************************************************************)
EXTENDS Evidence

CONSTANTS
    Retention,      \* RETENTION_MONTHS
    MaxPhotos       \* bound: photos ever uploaded

VARIABLES
    files,          \* the photos on the disk
    uploads,        \* photos so far
    evidence,       \* remote_photo_evidences by record, Null for none
    sweep           \* the run of the sweep, Null between two runs

photoVars == <<files, uploads, evidence, sweep>>

ASSUME PhotoAssumption == Retention \in Nat /\ MaxPhotos \in Nat \ {0}

Proof == [data : BOOLEAN, expires : Nat]
Sweep == [at : {"look", "fill", "select", "unlink", "row", "data"},
          todo : SUBSET Ids]

PhotoTypeOK ==
    /\ files \subseteq 1..uploads /\ uploads \in 0..MaxPhotos
    /\ evidence \in [Ids -> Proof \cup {Null}]
    /\ sweep \in Sweep \cup {Null}

\* There may be a marking whose evidence row was never made, with its file
\* or without.
PhotoInit ==
    /\ evidence = [i \in Ids |-> Null]
    /\ sweep = Null
    /\ \/ /\ records = [i \in Ids |-> Null] /\ made = 0
          /\ files = {} /\ uploads = 0
       \/ /\ "photo" \in Requests /\ MaxRecords > 0
          /\ \E u \in Staff :
               records = [i \in Ids |-> IF i # 1 THEN Null ELSE
                            [user |-> u, method |-> "web", photo |-> 1, at |-> 0]]
          /\ made = 1 /\ uploads = 1 /\ files \in {{}, {1}}

PhotoRequest == [op : {"photo"}, at : {"check", "insert", "prove", "undo",
                                       "discard", "mail", "mailing"},
                 user : Users, photo : Nat, record : Ids \cup {Null},
                 expires : Nat]

Held(i) == evidence[i] # Null /\ evidence[i].data

\* What getRecordPhoto answers with.
Shown(i) == records[i] # Null /\ records[i].photo # Null /\ Held(i)

-----------------------------------------------------------------------------
\* remotePhotoUpload: the photo is on the disk before the handler begins.
PhotoArrives(s, u) ==
    /\ users[u].active /\ uploads < MaxPhotos
    /\ Serialized => sweep = Null
    /\ Begins(s, "photo", [op |-> "photo", at |-> "check", user |-> u,
                           photo |-> uploads + 1, record |-> Null,
                           expires |-> 0])
    /\ uploads' = uploads + 1 /\ files' = files \cup {uploads + 1}
    /\ UNCHANGED <<now, users, records, made, mails, faults, scene, evidence,
                   sweep>>

\* registerRemoteRecord: refused, the photo is discarded; allowed, it is
\* read, and the marking takes the time of here.
PhotoCheck(s) ==
    /\ Handling(s, "photo", "check")
    /\ \/ Goes(s, "discard")
       \/ Becomes(s, [work[s] EXCEPT !.at = "insert",
                                     !.expires = now + Retention])
    /\ UNCHANGED <<now, users, records, made, mails, faults, scene, files,
                   uploads, evidence, sweep>>

PhotoInsert(s) ==
    /\ Handling(s, "photo", "insert")
    /\ Inserted([user |-> work[s].user, method |-> "web",
                 photo |-> work[s].photo,
                 at |-> work[s].expires - Retention])
    /\ Becomes(s, [work[s] EXCEPT !.at = "prove", !.record = made + 1])
    /\ UNCHANGED <<now, users, mails, faults, scene, files, uploads, evidence,
                   sweep>>

\* record_id is unique.
PhotoProve(s) ==
    /\ Handling(s, "photo", "prove")
    /\ LET h == work[s] IN
       IF evidence[h.record] = Null
       THEN /\ evidence' = [evidence EXCEPT ![h.record] =
                              [data |-> TRUE, expires |-> h.expires]]
            /\ Goes(s, "mail")
       ELSE Goes(s, "undo") /\ UNCHANGED evidence
    /\ UNCHANGED <<now, users, records, made, mails, faults, scene, files,
                   uploads, sweep>>

\* Mutant of PhotoUndo: the marking stays when its photo cannot be kept.
PhotoUndoNone(s) ==
    /\ Handling(s, "photo", "undo") /\ Goes(s, "discard")
    /\ UNCHANGED <<now, users, records, made, mails, faults, scene, files,
                   uploads, evidence, sweep>>

\* Without its evidence the marking is taken back, if it can be: a row that
\* an evidence refers to cannot. Either way the file goes.
PhotoUndo(s) ==
    /\ Handling(s, "photo", "undo") /\ Goes(s, "discard")
    /\ records' = IF evidence[work[s].record] # Null THEN records
                  ELSE [records EXCEPT ![work[s].record] = Null]
    /\ UNCHANGED <<now, users, made, mails, faults, scene, files, uploads,
                   evidence, sweep>>

PhotoDiscard(s) ==
    /\ Handling(s, "photo", "discard") /\ Ends(s)
    /\ files' = files \ {work[s].photo}
    /\ UNCHANGED <<now, users, records, made, mails, faults, scene, uploads,
                   evidence, sweep>>

PhotoMail(s) ==
    /\ \/ Handling(s, "photo", "mail") /\ Notifies(s)
       \/ Handling(s, "photo", "mailing") /\ Answers(s) /\ UNCHANGED mails
    /\ UNCHANGED <<now, users, records, made, faults, scene, files, uploads,
                   evidence, sweep>>

\* A query fails: before the marking is in, its photo is discarded; without
\* its evidence, the marking goes too; with it, the answer is an error.
PhotoFails(s) ==
    /\ Fault
    /\ \/ \E at \in {"check", "insert"} :
            Handling(s, "photo", at) /\ Goes(s, "discard")
       \/ Handling(s, "photo", "prove") /\ Goes(s, "undo")
       \/ Handling(s, "photo", "undo") /\ Goes(s, "discard")
       \/ Handling(s, "photo", "mail") /\ Ends(s)
    /\ UNCHANGED <<now, users, records, made, mails, scene, files, uploads,
                   evidence, sweep>>

PhotoProceeds(s) ==
    \/ PhotoCheck(s) \/ PhotoInsert(s) \/ PhotoProve(s) \/ PhotoUndo(s)
    \/ PhotoDiscard(s) \/ PhotoMail(s)

PhotoStep(s) ==
    \/ \E u \in Staff : PhotoArrives(s, u)
    \/ PhotoProceeds(s) \/ PhotoFails(s)

-----------------------------------------------------------------------------
SweepStays == UNCHANGED <<now, users, made, mails, work, scene, uploads>>

\* At startup, and every hour. Where requests are serialized no request is
\* being handled meanwhile.
SweepStarts ==
    /\ "photo" \in Requests
    /\ sweep = Null
    /\ Serialized => Idle
    /\ sweep' = [at |-> "look", todo |-> {}]
    /\ SweepStays /\ UNCHANGED <<records, faults, files, evidence>>

\* The markings with a photo, and which of them have evidence.
SweepLooks ==
    /\ sweep # Null /\ sweep.at = "look"
    /\ sweep' = [at |-> "fill",
                 todo |-> {i \in Ids : /\ records[i] # Null
                                       /\ records[i].photo # Null
                                       /\ evidence[i] = Null}]
    /\ SweepStays /\ UNCHANGED <<records, faults, files, evidence>>

\* The evidence of one is made from its file, unless it has some by now; one
\* without a file shows no photo; a failure leaves it to the next run.
SweepFills(i) ==
    /\ sweep # Null /\ sweep.at = "fill" /\ i \in sweep.todo
    /\ sweep' = [sweep EXCEPT !.todo = @ \ {i}]
    /\ \/ Fault /\ UNCHANGED <<records, evidence>>
       \/ /\ UNCHANGED faults
          /\ IF records[i] = Null
             THEN UNCHANGED <<records, evidence>>
             ELSE IF records[i].photo \in files
             THEN /\ evidence' = [evidence EXCEPT ![i] = IF @ # Null THEN @ ELSE
                        [data |-> TRUE, expires |-> records[i].at + Retention]]
                  /\ UNCHANGED records
             ELSE /\ records' = [records EXCEPT ![i].photo = Null]
                  /\ UNCHANGED evidence
    /\ SweepStays /\ UNCHANGED files

Expired(i) == Held(i) /\ evidence[i].expires <= now

SweepSelects ==
    /\ sweep # Null /\ sweep.at = "fill" /\ sweep.todo = {}
    /\ LET due == {i \in Ids : Expired(i) /\ records[i] # Null} IN
       sweep' = IF due = {} THEN Null ELSE [at |-> "unlink", todo |-> due]
    /\ SweepStays /\ UNCHANGED <<records, faults, files, evidence>>

First == CHOOSE i \in sweep.todo : \A j \in sweep.todo : i <= j

\* One photo at a time: after its failure comes the next one, and the next
\* run finds it again.
SweepNext ==
    LET left == sweep.todo \ {First} IN
    sweep' = IF left = {} THEN Null ELSE [at |-> "unlink", todo |-> left]

\* The file, when the record still names one ...
SweepUnlinks ==
    /\ sweep # Null /\ sweep.at = "unlink"
    /\ files' = files \ {records[First].photo}
    /\ sweep' = [sweep EXCEPT !.at = "row"]
    /\ SweepStays /\ UNCHANGED <<records, faults, evidence>>

\* ... the reference of the record ...
SweepClearsRow ==
    /\ sweep # Null /\ sweep.at = "row"
    /\ records' = [records EXCEPT ![First].photo = Null]
    /\ sweep' = [sweep EXCEPT !.at = "data"]
    /\ SweepStays /\ UNCHANGED <<faults, files, evidence>>

\* ... and the photo of the evidence.
SweepClearsData ==
    /\ sweep # Null /\ sweep.at = "data"
    /\ evidence' = [evidence EXCEPT ![First].data = FALSE]
    /\ SweepNext
    /\ SweepStays /\ UNCHANGED <<records, faults, files>>

SweepFails ==
    /\ sweep # Null /\ sweep.at \in {"unlink", "row", "data"}
    /\ Fault /\ SweepNext
    /\ SweepStays /\ UNCHANGED <<records, files, evidence>>

SweepProceeds ==
    \/ SweepLooks \/ SweepSelects \/ SweepUnlinks \/ SweepClearsRow
    \/ SweepClearsData
    \/ \E i \in Ids : SweepFills(i)

SweepStep == SweepStarts \/ SweepProceeds \/ SweepFails
=============================================================================
