------------------------------ MODULE Aftermath ------------------------------
(***************************************************************************)
(* What surrounds a marking, together: the PIN or the face that tells      *)
(* whose it is, the photo that proves it, the e-mail that confirms it and  *)
(* the holidays its day is read with.                                      *)
(***************************************************************************)
EXTENDS PinPad, Biometrics, PhotoKeeping, RecordMail, HolidayDesk

vars == <<now, users, records, made, mails, work, faults, scene, pinVars,
          faceVars, photoVars, mailVars, dayVars>>

\* Whatever a slot may be handling.
Handlers == PinRequest \cup PinEdition \cup EnrolRequest \cup ResetRequest
              \cup FaceRequest \cup PhotoRequest \cup DayRequest
              \cup SyncRequest

ASSUME HandlerAssumption ==
    Null \notin Handlers \cup Record \cup Proof \cup Phases

TypeOK ==
    /\ EvidenceTypeOK /\ PinTypeOK /\ FaceTypeOK /\ PhotoTypeOK /\ MailTypeOK
    /\ DayTypeOK

Init ==
    /\ EvidenceInit /\ PinInit /\ FaceInit /\ PhotoInit /\ MailInit /\ DayInit

PinNext(s) == PinStep(s) /\ UNCHANGED <<faceVars, photoVars, mailVars, dayVars>>
FaceNext(s) == FaceStep(s) /\ UNCHANGED <<pinVars, photoVars, mailVars, dayVars>>
PageNext == PageStep /\ UNCHANGED <<pinVars, photoVars, mailVars, dayVars>>
PhotoNext(s) == PhotoStep(s) /\ UNCHANGED <<pinVars, faceVars, mailVars, dayVars>>
SweepNow == SweepStep /\ UNCHANGED <<pinVars, faceVars, mailVars, dayVars>>
MailNext(i) == MailStep(i) /\ UNCHANGED <<pinVars, faceVars, photoVars, dayVars>>
DayNext(s) == DayStep(s) /\ UNCHANGED <<pinVars, faceVars, photoVars, mailVars>>

TimePasses == Tick /\ UNCHANGED <<pinVars, faceVars, photoVars, mailVars, dayVars>>

\* The process restarts: what it was doing is lost, and the attempts it
\* counted; the sweep begins again at startup.
Restarts ==
    /\ Fault
    /\ work' = [s \in Slots |-> Null]
    /\ mails' = [i \in Ids |-> IF mails[i] \in {Null, "done"} THEN mails[i]
                               ELSE "lost"]
    /\ attempts' = [t \in Terminals |-> NoAttempt]
    /\ misses' = [t \in Terminals |-> {}]
    /\ sweep' = Null
    /\ page' = IF page = Null THEN Null ELSE [page EXCEPT !.saving = Null]
    /\ UNCHANGED <<now, users, records, made, scene, samples, captured, files,
                   uploads, evidence, mailVars, dayVars>>

Next ==
    \/ \E s \in Slots : PinNext(s) \/ FaceNext(s) \/ PhotoNext(s) \/ DayNext(s)
    \/ \E i \in Ids : MailNext(i)
    \/ PageNext \/ SweepNow \/ TimePasses \/ Restarts

Spec == Init /\ [][Next]_vars

Proceeds(s) ==
    \/ PinNext(s) /\ PinProceeds(s)
    \/ FaceNext(s) /\ FaceProceeds(s)
    \/ PhotoNext(s) /\ PhotoProceeds(s)
    \/ DayNext(s) /\ DayProceeds(s)

\* Handlers, e-mails and the sweep go on; the sweep runs again and again. A
\* request need not arrive, nor a page be used.
Fairness ==
    /\ \A s \in Slots : WF_vars(Proceeds(s))
    /\ WF_vars(\E i \in Ids : MailNext(i))
    /\ WF_vars(SweepNow /\ (SweepStarts \/ SweepProceeds))

FairSpec == Spec /\ Fairness

-----------------------------------------------------------------------------
\* A PIN opens one user: whoever is marked by it is the only one who has it,
\* active or not, however PINs are given, taken and users come back
\* (findUserWithSamePin). Editions that overlap may give it to two.
PinMarksItsOwner ==
    Serialized =>
      \A s \in Slots : Handling(s, "pin", "mark") =>
        {u \in Users : users[u].pin = work[s].pin} = {work[s].found}

\* "PIN temporariamente bloqueado neste terminal": no terminal ever fails
\* more than PIN_MAX_FAILED_ATTEMPTS times within the window, when its
\* attempts do not overlap and until a success or a restart.
FailuresLock ==
    Serialized => \A t \in Terminals : Cardinality(Recent(t)) <= MaxFailed

\* "Keep the legacy average descriptor representative of the whole
\* enrollment" (registerFace): when nobody enrols, a user's average is of all
\* their samples, and there is none without samples; what a page saves
\* covers every guided position, once.
EnrolmentWhole ==
    Serialized /\ NoFault =>
      /\ Idle => \A u \in Users :
           users[u].face = (IF samples[u] = {} THEN Null ELSE samples[u])
      /\ page # Null /\ page.saving # Null =>
           \A p \in 1..Positions : \E i \in DOMAIN page.got :
             page.got[i].position = p

Swept ==
    \A i \in Ids : records[i] # Null =>
      /\ ~Expired(i)
      /\ records[i].photo # Null => evidence[i] # Null

\* The photo of a remote marking can be seen from its confirmation until it
\* expires, and nothing else takes it away. A marking that is refused leaves
\* neither photo nor row behind, though one query failed.
PhotosAreKept ==
    [][/\ \A i \in Ids :
            /\ Shown(i) /\ ~Shown(i)' => /\ evidence[i].expires <= now
                                         /\ records[i].photo \notin files
            /\ Held(i) /\ ~Held(i)' => ~Shown(i)
       /\ \A s \in Slots :
            /\ Handling(s, "photo", "mail") =>
                 Shown(work[s].record) \/ work[s].expires <= now
            /\ /\ Handling(s, "photo", "discard") /\ Serialized
               /\ faults + 1 >= Scenes[scene].faults
               => \A i \in Ids : records[i] # Null =>
                                  records[i].photo # work[s].photo]_vars

\* And the sweeps take an expired one from the disk, the record and the
\* evidence, though some of their steps fail, and give its evidence to one
\* whose handler died before it did ("Only the retained image reference is
\* cleared after the physical evidence is removed").
PhotosLastTheirTime == PhotosAreKept /\ []<>Swept

\* What came of the attempt about a marking is on a row, a failure on two; a
\* row that cannot be written does not take the other one along ("Unable to
\* persist email delivery log").
OutcomesAreLogged ==
    [][\A i \in Ids : mails[i] # "done" /\ mails'[i] = "done" =>
         IF mails[i] = "sent" THEN NoFault' => <<i, "sent">> \in logs'
         ELSE /\ NoFault' => <<i, "failed">> \in logs' /\ i \in failures'
              /\ faults' + 1 >= Scenes[scene].faults =>
                   <<i, "failed">> \in logs' \/ i \in failures']_vars

\* And every marking that is confirmed is tried.
MarkingsAreNotified ==
    /\ OutcomesAreLogged
    /\ []<>\A i \in Ids : mails[i] \in {Null, "done", "lost"}

\* A holiday reaches the rows of its day: an active user's row that was
\* written on its day or later agrees with the holidays, once those who
\* change them are done.
HolidaysReachSummaries ==
    Serialized /\ NoFault /\ Idle =>
      \A u \in Users, d \in 0..now :
        LET row == summaries[<<u, d>>] IN
        users[u].active /\ row # Null /\ row.written >= d
          => row.holiday = (d \in holidays)
=============================================================================
