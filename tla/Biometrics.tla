------------------------------ MODULE Biometrics ------------------------------
(***************************************************************************)
(* Facial enrolment: the page that captures a user's face in each of the   *)
(* guided positions (FaceRegistrationModal), the handlers that replace,    *)
(* reinforce or reset the samples of a user and the average kept on their  *)
(* row (authController), and the markings by face of a terminal, which are *)
(* compared again with what is enrolled (recordController).                *)
(*                                                                         *)
(* A descriptor is the capture it came from; two people never look alike.  *)
(***************************************************************************)
EXTENDS Evidence

CONSTANTS
    Positions,      \* captureGuides.length
    MaxCaptures     \* bound: captures of every page together

VARIABLES
    samples,        \* biometric_samples: the captures of each user
    captured,       \* captures so far
    page            \* the page of one manager, Null when closed

faceVars == <<samples, captured, page>>

ASSUME FaceAssumption == Positions \in Nat \ {0} /\ MaxCaptures \in Nat

Capture == [position : 1..Positions, id : Nat]
Page == [user : Users, append : BOOLEAN, got : Seq(Capture),
         frame : 1..Positions \cup {Null}, saving : Slots \cup {Null}]

FaceTypeOK ==
    /\ samples \in [Users -> SUBSET (1..captured)]
    /\ captured \in 0..MaxCaptures
    /\ page # Null =>
         /\ page.user \in Users /\ page.saving \in Slots \cup {Null}
         /\ page.got \in Seq(Capture)
         /\ page.frame \in 1..Positions \cup {Null}

FaceInit ==
    /\ samples = [u \in Users |-> {}]
    /\ captured = 0
    /\ page = Null

CapturesOf(got) == {got[i].id : i \in DOMAIN got}

EnrolRequest == [op : {"enrol"}, at : {"load", "clear", "read", "create", "save"},
                 user : Users, replace : BOOLEAN, new : SUBSET Nat,
                 existing : SUBSET Nat, loaded : (SUBSET Nat) \cup {Null}]
ResetRequest == [op : {"reset"}, at : {"clear", "save"}, user : Users,
                 loaded : (SUBSET Nat) \cup {Null}]
FaceRequest == [op : {"face"}, at : {"compare", "mark"}, user : Users,
                person : Users]

PageStays == UNCHANGED <<now, users, records, made, mails, faults, scene,
                         samples>>
PageOnly == PageStays /\ UNCHANGED <<work, captured>>

-----------------------------------------------------------------------------
\* Reinforcing is proposed for whoever has samples.
OpenPage(u) ==
    /\ "enrol" \in Requests /\ page = Null
    /\ page' = [user |-> u, append |-> samples[u] # {}, got |-> <<>>,
                frame |-> Null, saving |-> Null]
    /\ PageOnly

ToggleAppend ==
    /\ page # Null
    /\ page' = [page EXCEPT !.append = ~@]
    /\ PageOnly

\* A frame is looked at for the position that is next when it is taken ...
FrameStart ==
    /\ page # Null /\ page.frame = Null /\ Len(page.got) < Positions
    /\ captured < MaxCaptures
    /\ page' = [page EXCEPT !.frame = Len(page.got) + 1]
    /\ PageOnly

\* ... and is added to the captures there are when it has been looked at.
FrameTaken ==
    /\ page # Null /\ page.frame # Null
    /\ captured' = captured + 1
    /\ page' = [page EXCEPT !.frame = Null,
                  !.got = Append(@, [position |-> page.frame,
                                     id |-> captured + 1])]
    /\ PageStays /\ UNCHANGED work

\* No face, a bad one, or another position.
FrameMissed ==
    /\ page # Null /\ page.frame # Null
    /\ page' = [page EXCEPT !.frame = Null]
    /\ PageOnly

\* The captures start again; a frame being looked at does not know. Where
\* requests are serialized nobody restarts during one.
Restart ==
    /\ page # Null /\ page.got # <<>> /\ page.saving = Null
    /\ Serialized => page.frame = Null
    /\ page' = [page EXCEPT !.got = <<>>]
    /\ PageOnly

Save(s) ==
    /\ page # Null /\ page.saving = Null /\ Len(page.got) >= Positions
    /\ Begins(s, "enrol",
              [op |-> "enrol", at |-> "load", user |-> page.user,
               replace |-> ~page.append, new |-> CapturesOf(page.got),
               existing |-> {}, loaded |-> Null])
    /\ page' = [page EXCEPT !.saving = s]
    /\ PageStays /\ UNCHANGED captured

\* A page can be closed while it saves.
ClosePage ==
    /\ page # Null /\ page' = Null
    /\ PageOnly

-----------------------------------------------------------------------------
EnrolTo(s, at) ==
    /\ Goes(s, at)
    /\ UNCHANGED <<now, users, records, made, mails, faults, scene, samples,
                   captured, page>>

\* registerFace: the row of the user is loaded.
EnrolLoad(s) ==
    /\ Handling(s, "enrol", "load")
    /\ Becomes(s, [work[s] EXCEPT !.loaded = users[work[s].user].face,
                     !.at = IF work[s].replace THEN "clear" ELSE "read"])
    /\ UNCHANGED <<now, users, records, made, mails, faults, scene, samples,
                   captured, page>>

\* The samples are replaced ...
EnrolClear(s) ==
    /\ Handling(s, "enrol", "clear")
    /\ samples' = [samples EXCEPT ![work[s].user] = {}]
    /\ Goes(s, "create")
    /\ UNCHANGED <<now, users, records, made, mails, faults, scene, captured,
                   page>>

\* ... or reinforced.
EnrolRead(s) ==
    /\ Handling(s, "enrol", "read")
    /\ Becomes(s, [work[s] EXCEPT !.existing = samples[work[s].user],
                                  !.at = "create"])
    /\ UNCHANGED <<now, users, records, made, mails, faults, scene, samples,
                   captured, page>>

EnrolCreate(s) ==
    /\ Handling(s, "enrol", "create")
    /\ samples' = [samples EXCEPT ![work[s].user] = @ \cup work[s].new]
    /\ Goes(s, "save")
    /\ UNCHANGED <<now, users, records, made, mails, faults, scene, captured,
                   page>>

\* Mutant of Average: a reinforcement leaves the existing samples out.
AverageNew(h) == h.new

\* averageDescriptors, of the existing and of the new samples.
Average(h) == h.existing \cup h.new

\* The average is saved, and the page is closed: its own, or the one opened
\* in its place.
EnrolSave(s) ==
    /\ Handling(s, "enrol", "save")
    /\ LET h == work[s] IN
       users' = [users EXCEPT ![h.user].face = Column(@, h.loaded, Average(h))]
    /\ Ends(s)
    /\ page' = Null
    /\ UNCHANGED <<now, records, made, mails, faults, scene, samples, captured>>

\* resetFace: the row is loaded, the samples destroyed, the average cleared.
ResetStart(s, u) ==
    /\ Begins(s, "reset", [op |-> "reset", at |-> "clear", user |-> u,
                           loaded |-> users[u].face])
    /\ UNCHANGED <<now, users, records, made, mails, faults, scene, samples,
                   captured, page>>

ResetClear(s) ==
    /\ Handling(s, "reset", "clear")
    /\ samples' = [samples EXCEPT ![work[s].user] = {}]
    /\ Goes(s, "save")
    /\ UNCHANGED <<now, users, records, made, mails, faults, scene, captured,
                   page>>

ResetSave(s) ==
    /\ Handling(s, "reset", "save")
    /\ LET h == work[s] IN
       users' = [users EXCEPT ![h.user].face = Column(@, h.loaded, Null)]
    /\ Ends(s)
    /\ UNCHANGED <<now, records, made, mails, faults, scene, samples, captured,
                   page>>

\* A query of either fails: the answer is an error, and the page stays.
FaceFails(s) ==
    /\ work[s] # Null /\ work[s].op \in {"enrol", "reset"}
    /\ Fault /\ Ends(s)
    /\ page' = IF page # Null /\ page.saving = s
               THEN [page EXCEPT !.saving = Null] ELSE page
    /\ UNCHANGED <<now, users, records, made, mails, scene, samples, captured>>

-----------------------------------------------------------------------------
\* registerRecord: a terminal takes the person before it for a user, who is
\* loaded and must be active and enrolled.
FaceArrives(s, u, person) ==
    /\ users[u].active /\ users[u].face # Null
    /\ Begins(s, "face", [op |-> "face", at |-> "compare", user |-> u,
                          person |-> person])
    /\ UNCHANGED <<now, users, records, made, mails, faults, scene, samples,
                   captured, page>>

\* validateKioskFacialAttempt: the terminal must have proved a living face,
\* close enough to be a match ...
FaceRefused(s) ==
    /\ Handling(s, "face", "compare") /\ Ends(s)
    /\ UNCHANGED <<now, users, records, made, mails, faults, scene, samples,
                   captured, page>>

\* ... and the nearest of everyone enrolled must be the user, and no one else
\* nearly as near.
FaceCompares(s) ==
    /\ Handling(s, "face", "compare")
    /\ LET p == work[s].person IN
       IF users[p].active /\ users[p].face # Null /\ p = work[s].user
       THEN Goes(s, "mark") ELSE Ends(s)
    /\ UNCHANGED <<now, users, records, made, mails, faults, scene, samples,
                   captured, page>>

\* The marking is in, unless createValidatedRecord refuses it; its answer
\* does not wait for the e-mail, which is not sent when the refresh fails.
FaceMark(s) ==
    /\ Handling(s, "face", "mark") /\ Ends(s)
    /\ \/ /\ Inserted([user |-> work[s].user, method |-> "facial",
                       photo |-> Null, at |-> now])
          /\ \/ mails' = [mails EXCEPT ![made + 1] = "due"] /\ UNCHANGED faults
             \/ Fault /\ UNCHANGED mails
       \/ UNCHANGED <<records, made, mails, faults>>
    /\ UNCHANGED <<now, users, scene, samples, captured, page>>

FaceProceeds(s) ==
    \/ EnrolLoad(s) \/ EnrolClear(s) \/ EnrolRead(s) \/ EnrolCreate(s)
    \/ EnrolSave(s) \/ ResetClear(s) \/ ResetSave(s)
    \/ FaceRefused(s) \/ FaceCompares(s) \/ FaceMark(s)

FaceStep(s) ==
    \/ FaceProceeds(s) \/ FaceFails(s) \/ Save(s)
    \/ \E u \in Staff : ResetStart(s, u)
    \/ \E u, p \in Staff : FaceArrives(s, u, p)

PageStep ==
    \/ \E u \in Staff : OpenPage(u)
    \/ ToggleAppend \/ FrameStart \/ FrameTaken \/ FrameMissed \/ Restart
    \/ ClosePage
=============================================================================
