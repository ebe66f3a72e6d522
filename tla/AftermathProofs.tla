---------------------------- MODULE AftermathProofs ----------------------------
(***************************************************************************)
(* What surrounds a marking, proved for every number of users, terminals,  *)
(* slots and markings and every bound of the clock: a PIN marks its owner, *)
(* a terminal that fails too often is locked, an enrolment is whole, a     *)
(* holiday reaches the summaries of its day, a photo can be seen until it  *)
(* expires, and the outcome of an e-mail is on its rows. Requests of every *)
(* kind may come in the same scene here, where the runs have a scene for   *)
(* each.                                                                   *)
(*                                                                         *)
(* Each component has its part of the invariant. A step of another one     *)
(* leaves the requests of this one where they are (SameHandling) and the   *)
(* columns of users it reads as they are; the effect of each component's   *)
(* steps says so once, for all the others.                                 *)
(***************************************************************************)
EXTENDS Aftermath, FiniteSetTheorems, WellFoundedInduction, TLAPS

\* One request at a time, where they are serialized.
OneAtATime ==
    Serialized => \A s, t \in Slots : work[s] # Null /\ work[t] # Null => s = t

\* What every component relies on.
Core ==
    /\ scene \in DOMAIN Scenes
    /\ now \in Days
    /\ faults \in 0..Scenes[scene].faults
    /\ made \in 0..MaxRecords
    /\ uploads \in Nat
    /\ users \in [Users -> User]
    /\ work \in [Slots -> Handlers \cup {Null}]
    /\ OneAtATime

PinOps == {"pin", "setPin"}
FaceOps == {"enrol", "reset", "face"}
PhotoOps == {"photo"}
DayOps == {"holiday", "sync"}
-----------------------------------------------------------------------------
\* The PINs: nobody has another's, one that is about to be saved is free, and
\* the owner that was found still has the one that was typed.
PinInv ==
    Serialized =>
      /\ \A u, v \in Users :
           u # v /\ users[u].pin # Null => users[u].pin # users[v].pin
      /\ \A s \in Slots : work[s] # Null =>
           /\ work[s].op = "setPin" /\ work[s].pin # Null
                => ~SamePin(work[s].pin, work[s].user)
           /\ work[s].op = "pin" /\ work[s].at \in {"compared", "mark"} =>
                \/ work[s].found = Null /\ work[s].at = "compared"
                \/ /\ work[s].found \in Users
                   /\ users[work[s].found].pin = work[s].pin

LockTyped ==
    /\ attempts \in [Terminals -> Attempt]
    /\ misses = [t \in Terminals |-> misses[t]]
    /\ \A t \in Terminals : /\ IsFiniteSet(misses[t])
                            /\ \A m \in misses[t] : m.at \in Nat

\* The attempts of a terminal cover its recent failures, and as many as lock
\* it do, until the window has passed.
Counted(t) ==
    LET a == attempts[t] IN
    /\ a.failed <= MaxFailed /\ a.last <= now
    /\ a.until = IF a.failed >= MaxFailed THEN a.last + Window ELSE Null
    /\ \A m \in Recent(t) : m.at <= a.last
    /\ Cardinality(Recent(t)) <= a.failed

\* The owner of a PIN typed at t is being looked for.
Searching(t) ==
    \E s \in Slots, at \in {"search", "compared"} :
      Handling(s, "pin", at) /\ work[s].terminal = t

Unlocked(t) == attempts[t].until = Null \/ attempts[t].until <= now

\* A PIN is looked for only where it was typed, at an unlocked terminal.
LockInv ==
    /\ LockTyped
    /\ Serialized => \A t \in Terminals :
         Counted(t) /\ (Searching(t) => Unlocked(t))

FaceTyped ==
    /\ samples \in [Users -> SUBSET Nat]
    /\ captured \in Nat
    /\ page = Null \/ page \in Page

Whole(set) == IF set = {} THEN Null ELSE set

\* The page holds one capture for each position so far, in order.
PageInv ==
    Serialized /\ page # Null =>
      /\ Len(page.got) <= Positions
      /\ \A i \in 1..Len(page.got) : page.got[i].position = i
      /\ page.frame # Null => page.frame = Len(page.got) + 1
                              /\ Len(page.got) < Positions
      /\ page.saving # Null => Len(page.got) = Positions

\* Nobody changes the samples or the average of u.
Untouched(u) ==
    \A s \in Slots : work[s] # Null /\ work[s].op \in {"enrol", "reset"}
                      => work[s].user # u

\* An enrolment or a reset, from the samples it found to the average it saves.
Enrolling(h) ==
    LET u == h.user IN
    /\ h.op = "enrol" =>
         /\ h.new # {}
         /\ h.at = "load" =>
              h.existing = {} /\ users[u].face = Whole(samples[u])
         /\ h.at \in {"clear", "read"} =>
              /\ h.existing = {} /\ users[u].face = Whole(samples[u])
              /\ h.loaded = users[u].face
         /\ h.at = "create" => /\ samples[u] = h.existing
                               /\ h.loaded = users[u].face
         /\ h.at = "save" => /\ samples[u] = h.existing \cup h.new
                             /\ h.loaded = users[u].face
    /\ h.op = "reset" =>
         /\ h.loaded = users[u].face
         /\ h.at = "save" => samples[u] = {}

EnrolInv ==
    Serialized /\ NoFault =>
      /\ \A u \in Users : Untouched(u) => users[u].face = Whole(samples[u])
      /\ \A s \in Slots : work[s] # Null => Enrolling(work[s])

FaceInv == FaceTyped /\ PageInv /\ EnrolInv

DayTyped ==
    /\ summaries \in [Users \X Days -> DaySummary \cup {Null}]
    /\ \A u \in Users, d \in Days : summaries[<<u, d>>] # Null =>
         summaries[<<u, d>>].written <= now /\ "day" \in Requests
    /\ \A s \in Slots : work[s] # Null /\ work[s].op \in DayOps =>
         "day" \in Requests /\ work[s].day \in Days

\* The holiday of d was changed, and h has still to write the row of u.
Refreshes(h, u, d) ==
    /\ h.op = "holiday" /\ h.day = d
    /\ h.at = "sync" => u \in h.left

Awaits(u, d) == \E s \in Slots : work[s] # Null /\ Refreshes(work[s], u, d)

\* What a handler has read is still so.
ReadWell(h) ==
    /\ h.op = "holiday" => \A u \in Users :
         h.read[u] # Null => /\ h.at = "sync"
                             /\ h.read[u] = (h.day \in holidays)
    /\ h.op = "sync" => h.read = (h.day \in holidays)

\* The row of u for d agrees with the holidays.
Agrees(u, d) ==
    LET row == summaries[<<u, d>>] IN
    users[u].active /\ row # Null /\ row.written >= d
      => row.holiday = (d \in holidays)

\* Nobody is made inactive, or active again, where holidays change.
StatusKept ==
    \A n \in DOMAIN Scenes :
      "day" \in Scenes[n].kinds => "status" \notin Scenes[n].kinds

HolidayInv ==
    /\ DayTyped
    /\ Serialized /\ NoFault /\ StatusKept =>
         /\ \A u \in Users, d \in Days : Awaits(u, d) \/ Agrees(u, d)
         /\ \A s \in Slots : work[s] # Null => ReadWell(work[s])

AftermathInv == Core /\ PinInv /\ LockInv /\ FaceInv /\ HolidayInv
-----------------------------------------------------------------------------
\* The effect of a step of a component on the slots: at most s is touched, by
\* a request of that component.
Moves(s, ops) ==
    /\ work' \in [Slots -> Handlers \cup {Null}]
    /\ \A t \in Slots \ {s} : work'[t] = work[t]
    /\ work'[s] # Null => work'[s].op \in ops
    /\ \/ work[s] = Null /\ (Serialized => Idle)
       \/ work[s] # Null /\ work[s].op \in ops

\* Requests of these kinds stay where they are.
SameHandling(ops) ==
    \A t \in Slots :
      \/ work'[t] = work[t]
      \/ /\ work[t] # Null => work[t].op \notin ops
         /\ work'[t] # Null => work'[t].op \notin ops

FaultsFall == faults' = faults \/ Fault

\* What a step leaves of Core.
Onward ==
    /\ scene' = scene /\ FaultsFall
    /\ made' \in 0..MaxRecords /\ uploads' \in Nat
    /\ users' \in [Users -> User]

LEMMA OthersStay ==
    ASSUME NEW s \in Slots, NEW ops, NEW others, Moves(s, ops),
           ops \cap others = {}
    PROVE  SameHandling(others)
BY DEF Moves, SameHandling

\* What a slot is handling, by the name of the operation.
LEMMA Requested ==
    ASSUME NEW s \in Slots, Core, work[s] # Null
    PROVE  /\ work[s] \in Handlers
           /\ work[s].op = "pin" => work[s] \in PinRequest
           /\ work[s].op = "setPin" => work[s] \in PinEdition
           /\ work[s].op = "enrol" => work[s] \in EnrolRequest
           /\ work[s].op = "reset" => work[s] \in ResetRequest
           /\ work[s].op = "face" => work[s] \in FaceRequest
           /\ work[s].op = "photo" => work[s] \in PhotoRequest
           /\ work[s].op = "holiday" => work[s] \in DayRequest
           /\ work[s].op = "sync" => work[s] \in SyncRequest
<1>1. work[s] \in Handlers
  BY DEF Core
<1>2. /\ \A h \in PinRequest : h.op = "pin"
      /\ \A h \in PinEdition : h.op = "setPin"
      /\ \A h \in EnrolRequest : h.op = "enrol"
      /\ \A h \in ResetRequest : h.op = "reset"
      /\ \A h \in FaceRequest : h.op = "face"
      /\ \A h \in PhotoRequest : h.op = "photo"
      /\ \A h \in DayRequest : h.op = "holiday"
      /\ \A h \in SyncRequest : h.op = "sync"
  <2>1. \A h \in PinRequest : h.op = "pin"
    BY DEF PinRequest
  <2>2. \A h \in PinEdition : h.op = "setPin"
    BY DEF PinEdition
  <2>3. \A h \in EnrolRequest : h.op = "enrol"
    BY DEF EnrolRequest
  <2>4. \A h \in ResetRequest : h.op = "reset"
    BY DEF ResetRequest
  <2>5. \A h \in FaceRequest : h.op = "face"
    BY DEF FaceRequest
  <2>6. \A h \in PhotoRequest : h.op = "photo"
    BY DEF PhotoRequest
  <2>7. \A h \in DayRequest : h.op = "holiday"
    BY DEF DayRequest
  <2>8. \A h \in SyncRequest : h.op = "sync"
    BY DEF SyncRequest
  <2> QED
    BY <2>1, <2>2, <2>3, <2>4, <2>5, <2>6, <2>7, <2>8
<1> QED
  BY <1>1, <1>2 DEF Handlers

\* A handler goes on, or ends.
LEMMA Becoming ==
    ASSUME NEW s \in Slots, NEW ops, NEW h \in Handlers \cup {Null}, Core,
           work[s] # Null, work[s].op \in ops, h = Null \/ h.op \in ops,
           Becomes(s, h)
    PROVE  Moves(s, ops) /\ work'[s] = h
BY DEF Core, Becomes, Moves

\* A request arrives.
LEMMA Beginning ==
    ASSUME NEW s \in Slots, NEW ops, NEW kind, NEW h \in Handlers, Core,
           h.op \in ops, Begins(s, kind, h)
    PROVE  /\ Moves(s, ops) /\ work'[s] = h
           /\ work[s] = Null /\ kind \in Requests
           /\ Serialized => Idle
BY DEF Core, Begins, Arrives, Moves

\* Nothing of the slots changes.
LEMMA Waiting ==
    ASSUME NEW s \in Slots, NEW ops, NEW kind, Core, Arrives(s, kind),
           work' = work
    PROVE  Moves(s, ops)
BY DEF Core, Arrives, Moves

\* Core goes on.
LEMMA CoreMoves ==
    ASSUME NEW s \in Slots, NEW ops, Core, Moves(s, ops), Onward, now' = now
    PROVE  Core'
<1>1. faults' \in 0..Scenes[scene].faults
  <2>1. Scenes[scene].faults \in Nat
    BY EvidenceAssumption DEF Core
  <2> QED
    BY <2>1 DEF Core, Onward, FaultsFall, Fault
<1>2. OneAtATime'
  BY DEF Core, Moves, OneAtATime, Onward, Serialized, Idle
<1> QED
  BY <1>1, <1>2 DEF Core, Moves, Onward, Days

LEMMA CoreStays ==
    ASSUME Core, work' = work, Onward, now' = now
    PROVE  Core'
<1>1. faults' \in 0..Scenes[scene].faults
  <2>1. Scenes[scene].faults \in Nat
    BY EvidenceAssumption DEF Core
  <2> QED
    BY <2>1 DEF Core, Onward, FaultsFall, Fault
<1>2. OneAtATime'
  BY DEF Core, OneAtATime, Onward, Serialized
<1> QED
  BY <1>1, <1>2 DEF Core, Onward, Days

\* A query that does not fail: none has failed before.
LEMMA NoFaultBefore ==
    ASSUME Core, FaultsFall, scene' = scene, NoFault'
    PROVE  NoFault /\ faults' = faults /\ ~Fault
<1>1. Scenes[scene].faults \in Nat
  BY EvidenceAssumption DEF Core
<1> QED
  BY <1>1 DEF Core, FaultsFall, Fault, NoFault
-----------------------------------------------------------------------------
FacesStay == \A u \in Users : users'[u].face = users[u].face
PinsStay == \A u \in Users : users'[u].pin = users[u].pin
StatusStays == \A u \in Users : users'[u].active = users[u].active

LEMMA NullIsNoHandler ==
    Null \notin Handlers
BY HandlerAssumption

LEMMA UsersStay ==
    ASSUME Core, users' = users
    PROVE  FacesStay /\ PinsStay /\ StatusStays /\ users' \in [Users -> User]
BY DEF Core, FacesStay, PinsStay, StatusStays

\* A column of one user is written.
LEMMA PinWritten ==
    ASSUME Core, NEW u \in Users, NEW pin \in Pins \cup {Null},
           users' = [users EXCEPT ![u].pin = pin]
    PROVE  /\ users' \in [Users -> User]
           /\ users'[u].pin = pin
           /\ \A v \in Users \ {u} : users'[v].pin = users[v].pin
           /\ FacesStay /\ StatusStays
<1>1. users \in [Users -> User]
  BY DEF Core
<1> QED
  BY <1>1 DEF FacesStay, StatusStays, User

LEMMA FaceWritten ==
    ASSUME Core, NEW u \in Users, NEW face \in (SUBSET Nat) \cup {Null},
           users' = [users EXCEPT ![u].face = face]
    PROVE  /\ users' \in [Users -> User]
           /\ users'[u].face = face
           /\ \A v \in Users \ {u} : users'[v].face = users[v].face
           /\ PinsStay /\ StatusStays
<1>1. users \in [Users -> User]
  BY DEF Core
<1> QED
  BY <1>1 DEF PinsStay, StatusStays, User

LEMMA StatusWritten ==
    ASSUME Core, NEW u \in Users, NEW active \in BOOLEAN,
           users' = [users EXCEPT ![u].active = active]
    PROVE  users' \in [Users -> User] /\ PinsStay /\ FacesStay
<1>1. users \in [Users -> User]
  BY DEF Core
<1> QED
  BY <1>1 DEF PinsStay, FacesStay, User

\* A marking gets the next id.
LEMMA Inserting ==
    ASSUME Core, NEW row, Inserted(row)
    PROVE  made + 1 \in Ids /\ made' \in 0..MaxRecords
<1>1. Scenes[scene].marks \in 0..MaxRecords /\ MaxRecords \in Nat
  BY EvidenceAssumption DEF Core
<1> QED
  BY <1>1 DEF Core, Inserted, Ids

LEMMA StaffAreUsers ==
    ASSUME Core
    PROVE  Staff \subseteq Users
BY EvidenceAssumption DEF Core, Staff
-----------------------------------------------------------------------------
\* The steps of PinPad: what they leave to the others.
PinEffect(s) ==
    /\ Moves(s, PinOps) /\ Onward /\ now' = now
    /\ FacesStay
    /\ "status" \notin Requests => StatusStays

LEMMA PinEffects ==
    ASSUME NEW s \in Slots, Core, LockTyped, PinStep(s), uploads' = uploads
    PROVE  PinEffect(s)
<1>0. Null \notin Handlers /\ PinRequest \subseteq Handlers
        /\ PinEdition \subseteq Handlers /\ uploads' \in Nat
        /\ made \in 0..MaxRecords
  BY NullIsNoHandler DEF Handlers, Core
<1>1. ASSUME NEW t \in Terminals, NEW pin \in Pins, PinArrives(s, t, pin)
      PROVE  PinEffect(s)
  <2> DEFINE h == [op |-> "pin", at |-> "search", terminal |-> t, pin |-> pin,
                   found |-> Null, record |-> Null]
  <2>1. h \in PinRequest
    BY DEF PinRequest
  <2>2. Begins(s, "pin", h)
    BY <1>1 DEF PinArrives
  <2>3. Moves(s, PinOps)
    BY <1>0, <2>1, <2>2, Beginning DEF PinOps
  <2>4. UNCHANGED <<now, users, made, faults, scene>>
    BY <1>1 DEF PinArrives
  <2> QED
    BY <1>0, <2>3, <2>4, UsersStay DEF PinEffect, Onward, FaultsFall
<1>2. ASSUME PinSearch(s)
      PROVE  PinEffect(s)
  <2>1. work[s] # Null /\ work[s].op = "pin" /\ work[s].at = "search"
    BY <1>2 DEF PinSearch, Handling
  <2>2. work[s] \in PinRequest
    BY <2>1, Requested
  <2>3. PICK u \in Users \cup {Null} :
          Becomes(s, [work[s] EXCEPT !.at = "compared", !.found = u])
    BY <1>2 DEF PinSearch
  <2> DEFINE h == [work[s] EXCEPT !.at = "compared", !.found = u]
  <2>4. h \in PinRequest /\ h.op = "pin"
    BY <2>2 DEF PinRequest
  <2>5. Becomes(s, h)
    BY <2>3
  <2> HIDE DEF h
  <2>6. Moves(s, PinOps)
    BY <1>0, <2>1, <2>4, <2>5, Becoming DEF PinOps
  <2>7. UNCHANGED <<now, users, made, faults, scene>>
    BY <1>2 DEF PinSearch
  <2> QED
    BY <1>0, <2>6, <2>7, UsersStay DEF PinEffect, Onward, FaultsFall
<1>3. ASSUME NEW op \in PinOps, NEW at, Handling(s, op, at), Ends(s),
             UNCHANGED <<now, users, scene>>, FaultsFall, made' = made
      PROVE  PinEffect(s)
  <2>1. work[s] # Null /\ work[s].op \in PinOps
    BY <1>3 DEF Handling
  <2>2. Moves(s, PinOps)
    BY <1>3, <2>1, Becoming DEF Ends
  <2> QED
    BY <1>0, <1>3, <2>2, UsersStay DEF PinEffect, Onward
<1>4. ASSUME NEW at, NEW next \in {"mark", "mailing"}, Handling(s, "pin", at),
             Goes(s, next),
             UNCHANGED <<now, users, scene, made, faults>>
      PROVE  PinEffect(s)
  <2>1. work[s] # Null /\ work[s].op = "pin"
    BY <1>4 DEF Handling
  <2>2. work[s] \in PinRequest
    BY <2>1, Requested
  <2> DEFINE h == [work[s] EXCEPT !.at = next]
  <2>3. h \in PinRequest /\ h.op = "pin"
    BY <2>2, <1>4 DEF PinRequest
  <2>4. Becomes(s, h)
    BY <1>4 DEF Goes
  <2> HIDE DEF h
  <2>5. Moves(s, PinOps)
    BY <1>0, <2>1, <2>3, <2>4, Becoming DEF PinOps
  <2> QED
    BY <1>0, <1>4, <2>5, UsersStay DEF PinEffect, Onward, FaultsFall
<1>5. ASSUME PinMark(s)
      PROVE  PinEffect(s)
  <2>1. work[s] # Null /\ work[s].op = "pin"
    BY <1>5 DEF PinMark, Handling
  <2>2. work[s] \in PinRequest
    BY <2>1, Requested
  <2>3. made + 1 \in Ids /\ made' \in 0..MaxRecords
    BY <1>5, Inserting DEF PinMark
  <2> DEFINE h == [work[s] EXCEPT !.at = "mail", !.record = made + 1]
  <2>4. h \in PinRequest /\ h.op = "pin"
    BY <2>2, <2>3 DEF PinRequest
  <2>5. Becomes(s, h)
    BY <1>5 DEF PinMark
  <2> HIDE DEF h
  <2>6. Moves(s, PinOps)
    BY <1>0, <2>1, <2>4, <2>5, Becoming DEF PinOps
  <2>7. UNCHANGED <<now, users, faults, scene>>
    BY <1>5 DEF PinMark
  <2> QED
    BY <1>0, <2>3, <2>6, <2>7, UsersStay DEF PinEffect, Onward, FaultsFall
<1>6. ASSUME NEW u \in Staff, NEW pin \in Pins \cup {Null},
             PinEditStart(s, u, pin)
      PROVE  PinEffect(s)
  <2>1. u \in Users /\ users[u].pin \in Pins \cup {Null}
    BY StaffAreUsers DEF Core, User
  <2> DEFINE h == [op |-> "setPin", at |-> "save", user |-> u,
                   loaded |-> users[u].pin, pin |-> pin]
  <2>2. h \in PinEdition /\ h.op = "setPin"
    BY <2>1 DEF PinEdition
  <2>3. Begins(s, "setPin", h)
    BY <1>6 DEF PinEditStart
  <2> HIDE DEF h
  <2>4. Moves(s, PinOps)
    BY <1>0, <2>2, <2>3, Beginning DEF PinOps
  <2>5. UNCHANGED <<now, users, made, faults, scene>>
    BY <1>6 DEF PinEditStart
  <2> QED
    BY <1>0, <2>4, <2>5, UsersStay DEF PinEffect, Onward, FaultsFall
<1>7. ASSUME PinEditSave(s)
      PROVE  PinEffect(s)
  <2>1. work[s] # Null /\ work[s].op = "setPin"
    BY <1>7 DEF PinEditSave, Handling
  <2>2. work[s] \in PinEdition
    BY <2>1, Requested
  <2> DEFINE h == work[s]
             pin == IF h.pin # Null THEN h.pin
                    ELSE Column(users[h.user].pin, h.loaded, Null)
  <2>3. h.user \in Users /\ h.pin \in Pins \cup {Null}
    BY <2>2 DEF PinEdition
  <2>4. pin \in Pins \cup {Null}
    BY <2>3 DEF Core, User, Column
  <2>5. users' = [users EXCEPT ![h.user].pin = pin]
    BY <1>7 DEF PinEditSave
  <2>6. Moves(s, PinOps)
    BY <1>7, <2>1, Becoming DEF PinEditSave, Ends, PinOps
  <2>7. UNCHANGED <<now, made, faults, scene>>
    BY <1>7 DEF PinEditSave
  <2> HIDE DEF pin, h
  <2>8. users' \in [Users -> User] /\ FacesStay /\ StatusStays
    BY <2>3, <2>4, <2>5, PinWritten
  <2> QED
    BY <1>0, <2>6, <2>7, <2>8 DEF PinEffect, Onward, FaultsFall
<1>8. ASSUME NEW u \in Staff, SetStatus(s, u)
      PROVE  PinEffect(s)
  <2>1. u \in Users /\ users[u].active \in BOOLEAN
    BY StaffAreUsers DEF Core, User
  <2>2. users' = [users EXCEPT ![u].active = ~users[u].active]
    BY <1>8 DEF SetStatus
  <2>3. users' \in [Users -> User] /\ FacesStay
    <3>1. (~users[u].active) \in BOOLEAN
      OBVIOUS
    <3> QED
      BY <2>1, <2>2, <3>1, StatusWritten
  <2>4. Moves(s, PinOps)
    BY <1>8, Waiting DEF SetStatus
  <2>5. "status" \in Requests /\ UNCHANGED <<now, made, faults, scene>>
    BY <1>8 DEF SetStatus, Arrives
  <2> QED
    BY <1>0, <2>3, <2>4, <2>5 DEF PinEffect, Onward, FaultsFall
<1>9. CASE PinMiss(s)
  BY <1>9, <1>3 DEF PinMiss, PinOps, FaultsFall
<1>10. CASE PinMatch(s)
  BY <1>10, <1>4 DEF PinMatch
<1>11. CASE PinMail(s)
  <2>1. CASE Handling(s, "pin", "mail") /\ Notifies(s)
    BY <1>11, <2>1, <1>4 DEF PinMail, Notifies
  <2>2. CASE Handling(s, "pin", "mailing") /\ Answers(s) /\ UNCHANGED mails
    BY <1>11, <2>2, <1>3 DEF PinMail, Answers, PinOps, FaultsFall
  <2> QED
    BY <1>11, <2>1, <2>2 DEF PinMail
<1>12. CASE PinRefused(s)
  BY <1>12, <1>3 DEF PinRefused, PinOps, FaultsFall
<1>13. CASE PinFails(s)
  <2>1. PICK at : Handling(s, "pin", at)
    BY <1>13 DEF PinFails
  <2> QED
    BY <1>13, <2>1, <1>3 DEF PinFails, PinOps, FaultsFall
<1> QED
  BY <1>1, <1>2, <1>5, <1>6, <1>7, <1>8, <1>9, <1>10, <1>11, <1>12, <1>13
     DEF PinStep, PinProceeds
-----------------------------------------------------------------------------
\* Another component's step.
LEMMA PinsStand ==
    ASSUME PinInv, SameHandling(PinOps), PinsStay, scene' = scene
    PROVE  PinInv'
<1> SUFFICES ASSUME Serialized'
             PROVE  PinInv'
  BY DEF PinInv
<1>1. Serialized
  BY DEF Serialized
<1>2. \A u, v \in Users :
        u # v /\ users'[u].pin # Null => users'[u].pin # users'[v].pin
  BY <1>1 DEF PinInv, PinsStay
<1>3. ASSUME NEW s \in Slots, work'[s] # Null, work'[s].op \in PinOps
      PROVE  work'[s] = work[s]
  BY <1>3 DEF SameHandling
<1>4. ASSUME NEW s \in Slots, work'[s] # Null, work'[s].op = "setPin",
             work'[s].pin # Null
      PROVE  ~SamePin(work[s].pin, work[s].user)'
  <2>1. work'[s] = work[s]
    BY <1>3, <1>4 DEF PinOps
  <2>2. ~SamePin(work[s].pin, work[s].user)
    BY <1>1, <1>4, <2>1 DEF PinInv
  <2> QED
    BY <2>1, <2>2 DEF SamePin, PinsStay
<1>5. ASSUME NEW s \in Slots, work'[s] # Null, work'[s].op = "pin",
             work'[s].at \in {"compared", "mark"}
      PROVE  \/ work'[s].found = Null /\ work'[s].at = "compared"
             \/ /\ work'[s].found \in Users
                /\ users'[work'[s].found].pin = work'[s].pin
  BY <1>1, <1>3, <1>5 DEF PinInv, PinsStay, PinOps
<1> QED
  BY <1>2, <1>4, <1>5 DEF PinInv

\* Where requests are serialized, the one that moves is the only one.
LEMMA OnlyOne ==
    ASSUME NEW s \in Slots, NEW ops, Core, Moves(s, ops), Serialized,
           NEW t \in Slots \ {s}
    PROVE  work[t] = Null /\ work'[t] = Null
BY DEF Core, Moves, OneAtATime, Idle

\* The PINs go on as they are while the request of s goes on, is as it must
\* be or ends.
LEMMA PinsGoOn ==
    ASSUME NEW s \in Slots, Core, PinInv, Moves(s, PinOps), scene' = scene,
           PinsStay,
           Serialized /\ work'[s] # Null =>
             /\ work'[s].op = "setPin" /\ work'[s].pin # Null
                  => ~SamePin(work'[s].pin, work'[s].user)
             /\ work'[s].op = "pin" /\ work'[s].at \in {"compared", "mark"} =>
                  \/ work'[s].found = Null /\ work'[s].at = "compared"
                  \/ /\ work'[s].found \in Users
                     /\ users[work'[s].found].pin = work'[s].pin
    PROVE  PinInv'
<1> SUFFICES ASSUME Serialized'
             PROVE  PinInv'
  BY DEF PinInv
<1>1. Serialized
  BY DEF Serialized
<1>2. \A u, v \in Users :
        u # v /\ users'[u].pin # Null => users'[u].pin # users'[v].pin
  BY <1>1 DEF PinInv, PinsStay
<1>3. ASSUME NEW t \in Slots, work'[t] # Null
      PROVE  t = s
  BY <1>1, <1>3, OnlyOne
<1>4. ASSUME work'[s] # Null, work'[s].op = "setPin", work'[s].pin # Null
      PROVE  (~SamePin(work[s].pin, work[s].user))'
  BY <1>1, <1>4 DEF SamePin, PinsStay
<1>5. ASSUME work'[s] # Null, work'[s].op = "pin",
             work'[s].at \in {"compared", "mark"}
      PROVE  \/ work'[s].found = Null /\ work'[s].at = "compared"
             \/ /\ work'[s].found \in Users
                /\ users'[work'[s].found].pin = work'[s].pin
  BY <1>1, <1>5 DEF PinsStay
<1> QED
  BY <1>2, <1>3, <1>4, <1>5 DEF PinInv

LEMMA PinStepsKeepOwners ==
    ASSUME NEW s \in Slots, Core, LockTyped, PinInv, PinStep(s),
           uploads' = uploads
    PROVE  PinInv'
<1>0. Moves(s, PinOps) /\ scene' = scene
  BY PinEffects DEF PinEffect, Onward
<1>1. ASSUME NEW t \in Terminals, NEW pin \in Pins, PinArrives(s, t, pin)
      PROVE  PinInv'
  <2> DEFINE h == [op |-> "pin", at |-> "search", terminal |-> t, pin |-> pin,
                   found |-> Null, record |-> Null]
  <2>1. work' = [work EXCEPT ![s] = h] /\ users' = users
    BY <1>1 DEF PinArrives, Begins
  <2>2. work'[s].op = "pin" /\ work'[s].at = "search"
    BY <2>1 DEF Core
  <2>3. PinsStay
    BY <2>1, UsersStay
  <2> QED
    BY <1>0, <2>2, <2>3, PinsGoOn
<1>2. ASSUME PinSearch(s)
      PROVE  PinInv'
  <2>1. work[s] # Null /\ work[s].op = "pin" /\ users' = users
    BY <1>2 DEF PinSearch, Handling
  <2>2. work[s] \in PinRequest
    BY <2>1, Requested
  <2> DEFINE owners == {u \in Users : users[u].active
                                        /\ users[u].pin = work[s].pin}
  <2>3. PICK u \in IF owners = {} THEN {Null} ELSE owners :
          Becomes(s, [work[s] EXCEPT !.at = "compared", !.found = u])
    BY <1>2 DEF PinSearch
  <2>4. u # Null => u \in Users /\ users[u].pin = work[s].pin
    BY <2>3
  <2>5. work' = [work EXCEPT ![s] =
                   [work[s] EXCEPT !.at = "compared", !.found = u]]
    BY <2>3 DEF Becomes
  <2>6. /\ work'[s].op = "pin" /\ work'[s].at = "compared"
        /\ work'[s].found = u /\ work'[s].pin = work[s].pin
    <3> PICK h : h = work[s]
      OBVIOUS
    <3>1. h \in PinRequest
      BY <2>2
    <3>2. work'[s] = [h EXCEPT !.at = "compared", !.found = u]
      BY <2>5 DEF Core
    <3> QED
      BY <3>1, <3>2 DEF PinRequest
  <2>7. PinsStay
    BY <2>1, UsersStay
  <2> QED
    BY <1>0, <2>4, <2>6, <2>7, PinsGoOn
<1>3. ASSUME work'[s] = Null, users' = users
      PROVE  PinInv'
  BY <1>0, <1>3, UsersStay, PinsGoOn
<1>4. ASSUME PinMatch(s)
      PROVE  PinInv'
  <2>1. /\ work[s] # Null /\ work[s].op = "pin" /\ work[s].at = "compared"
        /\ work[s].found # Null /\ users' = users
    BY <1>4 DEF PinMatch, Handling
  <2>2. work[s] \in PinRequest
    BY <2>1, Requested
  <2>3. work' = [work EXCEPT ![s] = [work[s] EXCEPT !.at = "mark"]]
    BY <1>4 DEF PinMatch, Goes, Becomes
  <2>4. /\ work'[s].op = "pin" /\ work'[s].at = "mark"
        /\ work'[s].found = work[s].found /\ work'[s].pin = work[s].pin
    <3> PICK h : h = work[s]
      OBVIOUS
    <3>1. h \in PinRequest /\ work'[s] = [h EXCEPT !.at = "mark"]
      BY <2>2, <2>3 DEF Core
    <3> QED
      BY <3>1 DEF PinRequest
  <2>5. PinsStay
    BY <2>1, UsersStay
  <2> QED
    BY <1>0, <2>1, <2>4, <2>5, PinsGoOn DEF PinInv
<1>5. ASSUME PinMark(s) \/ PinMail(s)
      PROVE  PinInv'
  <2>1. work[s] # Null /\ work[s].op = "pin" /\ users' = users
    BY <1>5 DEF PinMark, PinMail, Handling
  <2>2. work[s] \in PinRequest
    BY <2>1, Requested
  <2>3. \/ Becomes(s, [work[s] EXCEPT !.at = "mail", !.record = made + 1])
        \/ Becomes(s, [work[s] EXCEPT !.at = "mailing"])
        \/ Becomes(s, Null)
    BY <1>5 DEF PinMark, PinMail, Notifies, Answers, Goes, Ends
  <2>4. work'[s] # Null =>
          work'[s].op = "pin" /\ work'[s].at \in {"mail", "mailing"}
    <3> PICK h : h = work[s]
      OBVIOUS
    <3>1. h \in PinRequest
      BY <2>2
    <3>2. \/ work'[s] = [h EXCEPT !.at = "mail", !.record = made + 1]
          \/ work'[s] = [h EXCEPT !.at = "mailing"]
          \/ work'[s] = Null
      BY <2>3 DEF Becomes, Core
    <3> QED
      BY <3>1, <3>2 DEF PinRequest
  <2>5. PinsStay
    BY <2>1, UsersStay
  <2> QED
    BY <1>0, <2>4, <2>5, PinsGoOn
<1>6. ASSUME NEW u \in Staff, NEW pin \in Pins \cup {Null},
             PinEditStart(s, u, pin)
      PROVE  PinInv'
  <2> DEFINE h == [op |-> "setPin", at |-> "save", user |-> u,
                   loaded |-> users[u].pin, pin |-> pin]
  <2>1. work' = [work EXCEPT ![s] = h] /\ users' = users
    BY <1>6 DEF PinEditStart, Begins
  <2>2. work'[s].op = "setPin" /\ work'[s].pin = pin /\ work'[s].user = u
    BY <2>1 DEF Core
  <2>3. pin # Null => ~SamePin(pin, u)
    BY <1>6 DEF PinEditStart
  <2>4. PinsStay
    BY <2>1, UsersStay
  <2> QED
    BY <1>0, <2>2, <2>3, <2>4, PinsGoOn
<1>7. ASSUME PinEditSave(s)
      PROVE  PinInv'
  <2>1. work[s] # Null /\ work[s].op = "setPin" /\ work' = [work EXCEPT ![s] = Null]
    BY <1>7 DEF PinEditSave, Handling, Ends, Becomes
  <2>2. work[s] \in PinEdition
    BY <2>1, Requested
  <2> PICK h : h = work[s]
    OBVIOUS
  <2> DEFINE pin == IF h.pin # Null THEN h.pin
                    ELSE Column(users[h.user].pin, h.loaded, Null)
  <2>3. h.user \in Users /\ h.pin \in Pins \cup {Null}
    BY <2>2 DEF PinEdition
  <2>4. pin \in Pins \cup {Null}
    BY <2>3 DEF Core, User, Column
  <2>5. users' = [users EXCEPT ![h.user].pin = pin]
    BY <1>7 DEF PinEditSave
  <2>6. pin = users[h.user].pin \/ pin = Null \/ pin = h.pin
    BY DEF Column
  <2> HIDE DEF pin
  <2>7. /\ users'[h.user].pin = pin
        /\ \A v \in Users \ {h.user} : users'[v].pin = users[v].pin
    BY <2>3, <2>4, <2>5, PinWritten
  <2> SUFFICES ASSUME Serialized'
               PROVE  PinInv'
    BY DEF PinInv
  <2>8. Serialized
    BY <1>0 DEF Serialized
  <2>9. h.pin # Null => \A v \in Users \ {h.user} : users[v].pin # h.pin
    BY <2>1, <2>8 DEF PinInv, SamePin
  <2>10. \A u, v \in Users :
           u # v /\ users[u].pin # Null => users[u].pin # users[v].pin
    BY <2>8 DEF PinInv
  <2>11. \A u, v \in Users :
           u # v /\ users'[u].pin # Null => users'[u].pin # users'[v].pin
    BY <2>3, <2>6, <2>7, <2>9, <2>10
  <2>12. \A t \in Slots : work'[t] = Null
    <3>1. work'[s] = Null
      BY <2>1 DEF Core
    <3> QED
      BY <1>0, <2>8, <3>1, OnlyOne
  <2> QED
    BY <2>11, <2>12 DEF PinInv
<1>8. ASSUME NEW u \in Staff, SetStatus(s, u)
      PROVE  PinInv'
  <2>1. u \in Users /\ users[u].active \in BOOLEAN
    BY StaffAreUsers DEF Core, User
  <2>2. users' = [users EXCEPT ![u].active = ~users[u].active]
    BY <1>8 DEF SetStatus
  <2>3. PinsStay
    <3>1. (~users[u].active) \in BOOLEAN
      OBVIOUS
    <3> QED
      BY <2>1, <2>2, <3>1, StatusWritten
  <2>4. work'[s] = Null
    BY <1>8 DEF SetStatus, Arrives
  <2> QED
    BY <1>0, <2>3, <2>4, PinsGoOn
<1>9. ASSUME PinMiss(s) \/ PinRefused(s) \/ PinFails(s)
      PROVE  work'[s] = Null /\ users' = users
  BY <1>9 DEF PinMiss, PinRefused, PinFails, Ends, Becomes, Core
<1> QED
  BY <1>1, <1>2, <1>3, <1>4, <1>5, <1>6, <1>7, <1>8, <1>9
     DEF PinStep, PinProceeds
-----------------------------------------------------------------------------
LEMMA LocksStand ==
    ASSUME LockInv, SameHandling(PinOps), UNCHANGED <<attempts, misses>>,
           now' = now, scene' = scene
    PROVE  LockInv'
<1>1. \A t \in Terminals : Recent(t)' = Recent(t)
  BY DEF Recent
<1>2. LockTyped'
  BY DEF LockInv, LockTyped
<1>3. \A t \in Terminals : Counted(t) => Counted(t)'
  BY <1>1 DEF Counted
<1>4. ASSUME NEW t \in Terminals, Searching(t)'
      PROVE  Searching(t)
  <2>1. PICK s \in Slots, at \in {"search", "compared"} :
          Handling(s, "pin", at)' /\ work'[s].terminal = t
    BY <1>4 DEF Searching
  <2>2. work'[s] = work[s]
    BY <2>1 DEF SameHandling, Handling, PinOps
  <2> QED
    BY <2>1, <2>2 DEF Searching, Handling
<1>5. \A t \in Terminals : Unlocked(t) => Unlocked(t)'
  BY DEF Unlocked
<1> QED
  BY <1>2, <1>3, <1>4, <1>5 DEF LockInv, Serialized

\* The attempts stay, and nobody begins to search.
LEMMA LocksGoOn ==
    ASSUME LockInv, UNCHANGED <<attempts, misses>>, now' = now, scene' = scene,
           Serialized => \A t \in Terminals : Searching(t)' => Searching(t)
    PROVE  LockInv'
<1>1. \A t \in Terminals : Recent(t)' = Recent(t)
  BY DEF Recent
<1>2. LockTyped'
  BY DEF LockInv, LockTyped
<1>3. \A t \in Terminals : Counted(t) => Counted(t)'
  BY <1>1 DEF Counted
<1>4. \A t \in Terminals : Unlocked(t) => Unlocked(t)'
  BY DEF Unlocked
<1> QED
  BY <1>2, <1>3, <1>4 DEF LockInv, Serialized

LEMMA ClockIsNat ==
    ASSUME Core
    PROVE  now \in Nat /\ now \in 0..MaxTime
BY EvidenceAssumption DEF Core, Days

\* What of the misses of t is recent is finite, and fewer later.
LEMMA RecentIsFinite ==
    ASSUME NEW t \in Terminals, LockTyped
    PROVE  /\ IsFiniteSet(Recent(t))
           /\ Cardinality(Recent(t)) \in Nat
           /\ Recent(t) \subseteq misses[t]
<1>1. Recent(t) \subseteq misses[t] /\ IsFiniteSet(misses[t])
  BY DEF LockTyped, Recent
<1> QED
  BY <1>1, FS_Subset, FS_CardinalityType

\* The clock moves on: fewer failures are recent, and no lock begins.
LEMMA LocksTick ==
    ASSUME Core, LockInv, UNCHANGED <<attempts, misses, work>>,
           now' = now + 1, scene' = scene
    PROVE  LockInv'
<1>0. now \in Nat /\ Window \in Nat
  BY ClockIsNat, PinAssumption
<1>1. LockTyped /\ LockTyped'
  BY DEF LockInv, LockTyped
<1>2. ASSUME NEW t \in Terminals, Counted(t)
      PROVE  Counted(t)'
  <2>1. Recent(t)' \subseteq Recent(t)
    BY <1>0, <1>1 DEF Recent, LockTyped
  <2>2. /\ Cardinality(Recent(t)') <= Cardinality(Recent(t))
        /\ Cardinality(Recent(t)) \in Nat /\ Cardinality(Recent(t)') \in Nat
    BY <1>1, <2>1, RecentIsFinite, FS_Subset, FS_CardinalityType
  <2>3. attempts[t].failed \in Nat /\ attempts[t].last \in Nat
    BY <1>1 DEF LockTyped, Attempt
  <2> QED
    BY <1>0, <1>2, <2>1, <2>2, <2>3 DEF Counted
<1>3. ASSUME NEW t \in Terminals, Searching(t)'
      PROVE  Searching(t)
  BY <1>3 DEF Searching, Handling
<1>4. ASSUME NEW t \in Terminals, Unlocked(t)
      PROVE  Unlocked(t)'
  <2>1. attempts[t].until \in Nat \cup {Null}
    BY <1>1 DEF LockTyped, Attempt
  <2> QED
    BY <1>0, <1>4, <2>1 DEF Unlocked
<1> QED
  BY <1>1, <1>2, <1>3, <1>4 DEF LockInv, Serialized

\* The attempts of one terminal are replaced.
LEMMA LocksReplaced ==
    ASSUME Core, LockInv, NEW t \in Terminals, NEW a \in Attempt, NEW missed,
           IsFiniteSet(missed), \A m \in missed : m.at \in Nat,
           attempts' = [attempts EXCEPT ![t] = a],
           misses' = [misses EXCEPT ![t] = missed],
           now' = now, scene' = scene,
           Serialized => /\ Counted(t)'
                         /\ Searching(t)' => Unlocked(t)'
                         /\ \A u \in Terminals \ {t} : ~Searching(u)'
    PROVE  LockInv'
<1>1. LockTyped
  BY DEF LockInv
<1>2. /\ \A u \in Terminals \ {t} : attempts'[u] = attempts[u]
      /\ \A u \in Terminals \ {t} : misses'[u] = misses[u]
      /\ attempts'[t] = a /\ misses'[t] = missed
      /\ attempts' \in [Terminals -> Attempt]
      /\ misses' = [u \in Terminals |-> misses'[u]]
  BY <1>1 DEF LockTyped
<1>3. LockTyped'
  BY <1>1, <1>2 DEF LockTyped
<1>4. ASSUME NEW u \in Terminals \ {t}, Counted(u)
      PROVE  Counted(u)'
  <2>1. Recent(u)' = Recent(u)
    BY <1>2 DEF Recent
  <2> QED
    BY <1>2, <1>4, <2>1 DEF Counted
<1> QED
  BY <1>3, <1>4 DEF LockInv, Serialized

\* Attempts that have been forgotten, as none were recent.
LEMMA Forgotten ==
    ASSUME Core, NEW t \in Terminals, LockTyped, Counted(t)
    PROVE  /\ AttemptState(t) \in Attempt
           /\ \/ AttemptState(t) = attempts[t]
              \/ AttemptState(t) = NoAttempt /\ Recent(t) = {}
           /\ now - attempts[t].last >= Window => Recent(t) = {}
<1>1. attempts[t] \in Attempt /\ NoAttempt \in Attempt
  BY DEF LockTyped, Attempt, NoAttempt
<1>2. /\ attempts[t].last \in Nat /\ attempts[t].last <= now
      /\ now \in Nat /\ Window \in Nat
  BY <1>1, ClockIsNat, PinAssumption DEF Attempt, Counted
<1>3. now - attempts[t].last >= Window => Recent(t) = {}
  BY <1>2 DEF Counted, Recent, LockTyped
<1> QED
  BY <1>1, <1>2, <1>3 DEF AttemptState

LEMMA OneMore ==
    ASSUME NEW S, IsFiniteSet(S), NEW x
    PROVE  /\ IsFiniteSet(S \cup {x}) /\ Cardinality(S \cup {x}) \in Nat
           /\ Cardinality(S \cup {x}) <= Cardinality(S) + 1
<1>1. Cardinality(S) \in Nat
  BY FS_CardinalityType
<1>2. /\ IsFiniteSet(S \cup {x})
      /\ \/ Cardinality(S \cup {x}) = Cardinality(S)
         \/ Cardinality(S \cup {x}) = Cardinality(S) + 1
  BY FS_AddElement
<1> QED
  BY <1>1, <1>2

\* A failure is counted at an unlocked terminal.
LEMMA FailureCounts ==
    ASSUME Core, NEW t \in Terminals, LockTyped, Counted(t), Unlocked(t),
           NEW a, a = AfterFailure(t), NEW missed,
           missed = Recent(t) \cup {Missed(t)}
    PROVE  /\ a.failed <= MaxFailed /\ a.last = now
           /\ a.until = IF a.failed >= MaxFailed THEN a.last + Window ELSE Null
           /\ \A m \in missed : m.at <= now
           /\ IsFiniteSet(missed) /\ Cardinality(missed) <= a.failed
<1>0. /\ attempts[t] \in Attempt /\ now \in Nat
      /\ Window \in Nat \ {0} /\ MaxFailed \in Nat \ {0}
  BY ClockIsNat, PinAssumption DEF LockTyped
<1>1. attempts[t].failed \in Nat /\ attempts[t].last \in Nat
        /\ attempts[t].last <= now
  BY <1>0 DEF Attempt, Counted
<1>2. /\ IsFiniteSet(Recent(t)) /\ Cardinality(Recent(t)) \in Nat
      /\ Cardinality(Recent(t)) <= attempts[t].failed
  BY RecentIsFinite DEF Counted
<1>3. /\ IsFiniteSet(missed) /\ Cardinality(missed) \in Nat
      /\ Cardinality(missed) <= Cardinality(Recent(t)) + 1
  BY <1>2, OneMore
<1>4. \A m \in missed : m.at <= now
  <2>1. \A m \in Recent(t) : m.at \in Nat /\ m.at <= attempts[t].last
    BY DEF Counted, LockTyped, Recent
  <2>2. Missed(t).at = now
    BY DEF Missed
  <2> QED
    BY <1>0, <1>1, <2>1, <2>2
<1>5. a.last = now
  BY DEF AfterFailure
<1>6. /\ a.failed \in Nat /\ a.failed <= MaxFailed
      /\ \/ a.failed = attempts[t].failed + 1
         \/ Recent(t) = {} /\ a.failed = 1
  <2>1. CASE AttemptState(t) = NoAttempt /\ Recent(t) = {}
    <3>1. a.failed = IF now - 0 < Window THEN 0 + 1 ELSE 1
      BY <2>1 DEF AfterFailure, NoAttempt
    <3> QED
      BY <1>0, <2>1, <3>1
  <2>2. CASE AttemptState(t) = attempts[t]
    <3>1. a.failed = IF now - attempts[t].last < Window
                     THEN attempts[t].failed + 1 ELSE 1
      BY <2>2 DEF AfterFailure
    <3>2. CASE now - attempts[t].last < Window
      <4>1. attempts[t].until = Null
        <5>1. attempts[t].last + Window > now
          BY <1>0, <1>1, <3>2
        <5> QED
          BY <5>1, <1>0, <1>1 DEF Counted, Unlocked
      <4>2. ~(attempts[t].failed >= MaxFailed)
        <5>1. attempts[t].last + Window \in Nat
          BY <1>0, <1>1
        <5>2. Null \notin Nat
          BY EvidenceAssumption
        <5> QED
          BY <4>1, <5>1, <5>2 DEF Counted
      <4> QED
        BY <1>0, <1>1, <3>1, <3>2, <4>2
    <3>3. CASE ~(now - attempts[t].last < Window)
      <4>1. now - attempts[t].last >= Window
        BY <1>0, <1>1, <3>3
      <4> QED
        BY <1>0, <3>1, <3>3, <4>1, Forgotten
    <3> QED
      BY <3>2, <3>3, ClockIsNat
  <2> QED
    BY <2>1, <2>2, Forgotten
<1>7. Cardinality(missed) <= a.failed
  <2>1. CASE a.failed = attempts[t].failed + 1
    BY <1>1, <1>2, <1>3, <2>1
  <2>2. CASE Recent(t) = {} /\ a.failed = 1
    <3>1. Cardinality(Recent(t)) = 0
      BY <2>2, FS_EmptySet
    <3> QED
      BY <1>3, <2>2, <3>1
  <2> QED
    BY <1>6, <2>1, <2>2
<1>8. a.until = IF a.failed >= MaxFailed THEN a.last + Window ELSE Null
  BY DEF AfterFailure
<1> QED
  BY <1>3, <1>4, <1>5, <1>6, <1>7, <1>8

\* The one that searches, where requests are serialized.
LEMMA SearchesAt ==
    ASSUME NEW s \in Slots, NEW ops, Core, Moves(s, ops), scene' = scene,
           Serialized, NEW t \in Terminals, Searching(t)'
    PROVE  /\ work'[s] # Null /\ work'[s].op = "pin"
           /\ work'[s].at \in {"search", "compared"}
           /\ work'[s].terminal = t
BY OnlyOne DEF Searching, Handling

LEMMA PinStepsKeepLocks ==
    ASSUME NEW s \in Slots, Core, LockInv, PinStep(s), uploads' = uploads
    PROVE  LockInv'
<1>0. LockTyped
  BY DEF LockInv
<1>1. Moves(s, PinOps) /\ scene' = scene /\ now' = now
  BY <1>0, PinEffects DEF PinEffect, Onward
<1>2. ASSUME UNCHANGED <<attempts, misses>>,
             work'[s] # Null /\ work'[s].op = "pin" =>
               work'[s].at \notin {"search", "compared"}
      PROVE  LockInv'
  BY <1>1, <1>2, SearchesAt, LocksGoOn
<1>3. ASSUME NEW t \in Terminals, NEW pin \in Pins, PinArrives(s, t, pin)
      PROVE  LockInv'
  <2> DEFINE h == [op |-> "pin", at |-> "search", terminal |-> t, pin |-> pin,
                   found |-> Null, record |-> Null]
  <2>1. /\ work' = [work EXCEPT ![s] = h]
        /\ attempts' = [attempts EXCEPT ![t] = AttemptState(t)]
        /\ misses' = misses /\ ~Locked(t)
    BY <1>3 DEF PinArrives, Begins
  <2>2. work'[s].terminal = t
    BY <2>1 DEF Core
  <2>3. misses' = [misses EXCEPT ![t] = misses[t]]
    BY <1>0, <2>1 DEF LockTyped
  <2>4. AttemptState(t) \in Attempt
    BY <1>0 DEF AttemptState, LockTyped, NoAttempt, Attempt
  <2>5. attempts'[t] = AttemptState(t)
    BY <1>0, <2>1 DEF LockTyped
  <2>6. Recent(t)' = Recent(t)
    BY <1>1, <2>1 DEF Recent
  <2>7. IsFiniteSet(misses[t]) /\ \A m \in misses[t] : m.at \in Nat
    BY <1>0 DEF LockTyped
  <2>8. ASSUME Serialized
        PROVE  /\ Counted(t)' /\ Unlocked(t)'
               /\ \A u \in Terminals \ {t} : ~Searching(u)'
    <3>1. Counted(t)
      BY <2>8 DEF LockInv
    <3>2. MaxFailed \in Nat \ {0} /\ now \in Nat
      BY PinAssumption, ClockIsNat
    <3>3. Counted(t)'
      <4>1. CASE AttemptState(t) = attempts[t]
        BY <1>1, <2>5, <2>6, <3>1, <4>1 DEF Counted
      <4>2. CASE AttemptState(t) = NoAttempt /\ Recent(t) = {}
        <5>1. Cardinality(Recent(t)) = 0
          BY <4>2, FS_EmptySet
        <5> QED
          BY <1>1, <2>5, <2>6, <3>2, <4>2, <5>1 DEF Counted, NoAttempt
      <4> QED
        BY <1>0, <3>1, <4>1, <4>2, Forgotten
    <3>4. Unlocked(t)'
      <4>1. attempts'[t].until \in Nat \cup {Null}
        BY <2>4, <2>5 DEF Attempt
      <4> QED
        BY <1>1, <2>1, <2>5, <3>2, <4>1 DEF Unlocked, Locked
    <3>5. \A u \in Terminals \ {t} : ~Searching(u)'
      BY <1>1, <2>2, <2>8, SearchesAt
    <3> QED
      BY <3>3, <3>4, <3>5
  <2> HIDE DEF h
  <2> QED
    BY <1>0, <1>1, <2>1, <2>3, <2>4, <2>7, <2>8, LocksReplaced
<1>4. ASSUME PinSearch(s)
      PROVE  LockInv'
  <2>1. /\ work[s] # Null /\ work[s].op = "pin" /\ work[s].at = "search"
        /\ UNCHANGED <<attempts, misses>>
    BY <1>4 DEF PinSearch, Handling
  <2>2. work[s] \in PinRequest
    BY <2>1, Requested
  <2>3. PICK u \in Users \cup {Null} :
          Becomes(s, [work[s] EXCEPT !.at = "compared", !.found = u])
    BY <1>4 DEF PinSearch
  <2>4. work'[s].terminal = work[s].terminal
    <3> PICK h : h = work[s]
      OBVIOUS
    <3>1. h \in PinRequest
            /\ work'[s] = [h EXCEPT !.at = "compared", !.found = u]
      BY <2>2, <2>3 DEF Becomes, Core
    <3> QED
      BY <3>1 DEF PinRequest
  <2>5. ASSUME Serialized, NEW t \in Terminals, Searching(t)'
        PROVE  Searching(t)
    BY <1>1, <2>1, <2>4, <2>5, SearchesAt DEF Searching, Handling
  <2> QED
    BY <1>1, <2>1, <2>5, LocksGoOn
<1>5. ASSUME PinMiss(s)
      PROVE  LockInv'
  <2>1. /\ work[s] # Null /\ work[s].op = "pin" /\ work[s].at = "compared"
        /\ work' = [work EXCEPT ![s] = Null]
    BY <1>5 DEF PinMiss, Handling, Ends, Becomes
  <2>2. work[s] \in PinRequest
    BY <2>1, Requested
  <2> PICK t : t = work[s].terminal
    OBVIOUS
  <2> DEFINE a == AfterFailure(t)
             missed == Recent(t) \cup {Missed(t)}
  <2>3. /\ attempts' = [attempts EXCEPT ![t] = a]
        /\ misses' = [misses EXCEPT ![t] = missed]
    BY <1>5 DEF PinMiss
  <2>4. t \in Terminals /\ work'[s] = Null
    BY <2>1, <2>2 DEF PinRequest, Core
  <2>5. a \in Attempt
    <3>1. AttemptState(t) \in Attempt
      BY <1>0, <2>4 DEF AttemptState, LockTyped, NoAttempt, Attempt
    <3> QED
      BY <3>1, ClockIsNat, PinAssumption DEF AfterFailure, Attempt
  <2>6. IsFiniteSet(missed) /\ \A m \in missed : m.at \in Nat
    <3>1. IsFiniteSet(Recent(t)) /\ \A m \in Recent(t) : m.at \in Nat
      BY <1>0, <2>4, RecentIsFinite DEF LockTyped
    <3>2. Missed(t).at \in Nat
      BY ClockIsNat DEF Missed
    <3> QED
      BY <3>1, <3>2, OneMore
  <2>7. ASSUME Serialized
        PROVE  Counted(t)' /\ \A u \in Terminals : ~Searching(u)'
    <3>1. Counted(t) /\ Unlocked(t)
      BY <2>1, <2>4, <2>7 DEF LockInv, Searching, Handling
    <3>2. /\ a.failed <= MaxFailed /\ a.last = now
          /\ a.until = IF a.failed >= MaxFailed THEN a.last + Window ELSE Null
          /\ \A m \in missed : m.at <= now
          /\ IsFiniteSet(missed) /\ Cardinality(missed) <= a.failed
      BY <1>0, <2>4, <3>1, FailureCounts
    <3>3. attempts'[t] = a /\ misses'[t] = missed
      BY <1>0, <2>3, <2>4 DEF LockTyped
    <3> PICK next : next = missed
      OBVIOUS
    <3>4. Recent(t)' \subseteq next
      BY <3>3 DEF Recent
    <3>5. a.failed \in Nat /\ Cardinality(missed) \in Nat
            /\ Cardinality(Recent(t)') \in Nat
            /\ Cardinality(Recent(t)') <= Cardinality(next)
      BY <2>5, <3>2, <3>4, FS_Subset, FS_CardinalityType DEF Attempt
    <3>6. Cardinality(Recent(t)') <= a.failed
      BY <3>2, <3>5
    <3>7. now <= now
      BY ClockIsNat
    <3>8. Counted(t)'
      BY <1>1, <3>2, <3>3, <3>4, <3>6, <3>7 DEF Counted
    <3> QED
      BY <1>1, <2>4, <2>7, <3>8, SearchesAt
  <2> HIDE DEF a, missed
  <2> QED
    BY <1>0, <1>1, <2>3, <2>4, <2>5, <2>6, <2>7, LocksReplaced
<1>6. ASSUME PinMatch(s)
      PROVE  LockInv'
  <2>1. /\ work[s] # Null /\ work[s].op = "pin"
        /\ work' = [work EXCEPT ![s] = [work[s] EXCEPT !.at = "mark"]]
    BY <1>6 DEF PinMatch, Handling, Goes, Becomes
  <2>2. work[s] \in PinRequest
    BY <2>1, Requested
  <2> PICK t : t = work[s].terminal
    OBVIOUS
  <2>3. /\ attempts' = [attempts EXCEPT ![t] = NoAttempt]
        /\ misses' = [misses EXCEPT ![t] = {}]
    BY <1>6 DEF PinMatch
  <2>4. t \in Terminals /\ work'[s].at = "mark"
    <3> PICK h : h = work[s]
      OBVIOUS
    <3>1. h \in PinRequest /\ work'[s] = [h EXCEPT !.at = "mark"]
      BY <2>1, <2>2 DEF Core
    <3> QED
      BY <3>1 DEF PinRequest
  <2>5. NoAttempt \in Attempt /\ IsFiniteSet({})
    BY FS_EmptySet DEF NoAttempt, Attempt
  <2>6. ASSUME Serialized
        PROVE  Counted(t)' /\ \A u \in Terminals : ~Searching(u)'
    <3>1. attempts'[t] = NoAttempt /\ misses'[t] = {}
      BY <1>0, <2>3, <2>4 DEF LockTyped
    <3>2. Recent(t)' = {} /\ Cardinality(Recent(t)') = 0
      BY <3>1, FS_EmptySet DEF Recent
    <3>3. Counted(t)'
      BY <1>1, <3>1, <3>2, PinAssumption, ClockIsNat DEF Counted, NoAttempt
    <3> QED
      BY <1>1, <2>4, <2>6, <3>3, SearchesAt
  <2> QED
    BY <1>0, <1>1, <2>3, <2>4, <2>5, <2>6, LocksReplaced
<1>7. ASSUME PinMark(s) \/ PinMail(s)
      PROVE  LockInv'
  <2>1. /\ work[s] # Null /\ work[s].op = "pin"
        /\ UNCHANGED <<attempts, misses>>
    BY <1>7 DEF PinMark, PinMail, Handling
  <2>2. work[s] \in PinRequest
    BY <2>1, Requested
  <2>3. \/ Becomes(s, [work[s] EXCEPT !.at = "mail", !.record = made + 1])
        \/ Becomes(s, [work[s] EXCEPT !.at = "mailing"])
        \/ Becomes(s, Null)
    BY <1>7 DEF PinMark, PinMail, Notifies, Answers, Goes, Ends
  <2>4. work'[s] # Null => work'[s].at \in {"mail", "mailing"}
    <3> PICK h : h = work[s]
      OBVIOUS
    <3>1. h \in PinRequest
      BY <2>2
    <3>2. \/ work'[s] = [h EXCEPT !.at = "mail", !.record = made + 1]
          \/ work'[s] = [h EXCEPT !.at = "mailing"]
          \/ work'[s] = Null
      BY <2>3 DEF Becomes, Core
    <3> QED
      BY <3>1, <3>2 DEF PinRequest
  <2> QED
    BY <1>2, <2>1, <2>4
<1>8. ASSUME NEW u \in Staff, NEW pin \in Pins \cup {Null},
             PinEditStart(s, u, pin)
      PROVE  LockInv'
  <2> DEFINE h == [op |-> "setPin", at |-> "save", user |-> u,
                   loaded |-> users[u].pin, pin |-> pin]
  <2>1. work' = [work EXCEPT ![s] = h] /\ UNCHANGED <<attempts, misses>>
    BY <1>8 DEF PinEditStart, Begins
  <2>2. work'[s].op = "setPin"
    BY <2>1 DEF Core
  <2> QED
    BY <1>2, <2>1, <2>2
<1>9. ASSUME \/ PinEditSave(s) \/ PinRefused(s) \/ PinFails(s)
             \/ \E u \in Staff : SetStatus(s, u)
      PROVE  LockInv'
  <2>1. work'[s] = Null /\ UNCHANGED <<attempts, misses>>
    BY <1>9 DEF PinEditSave, PinRefused, PinFails, SetStatus, Ends, Becomes,
       Arrives, Core
  <2> QED
    BY <1>2, <2>1
<1> QED
  BY <1>3, <1>4, <1>5, <1>6, <1>7, <1>8, <1>9 DEF PinStep, PinProceeds
-----------------------------------------------------------------------------
\* The steps of Biometrics: what they leave to the others.
FaceEffect(s) ==
    /\ Moves(s, FaceOps) /\ Onward /\ now' = now
    /\ PinsStay /\ StatusStays

LEMMA FaceGoes ==
    ASSUME NEW s \in Slots, NEW h \in Handlers \cup {Null}, Core,
           work[s] # Null, work[s].op \in FaceOps, h = Null \/ h.op \in FaceOps,
           Becomes(s, h), FaultsFall, made' \in 0..MaxRecords,
           UNCHANGED <<now, users, scene, uploads>>
    PROVE  FaceEffect(s)
<1>1. Moves(s, FaceOps)
  BY Becoming
<1>2. uploads' \in Nat
  BY DEF Core
<1> QED
  BY <1>1, <1>2, UsersStay DEF FaceEffect, Onward

LEMMA FaceBegins ==
    ASSUME NEW s \in Slots, NEW kind, NEW h \in Handlers, Core,
           h.op \in FaceOps, Begins(s, kind, h),
           UNCHANGED <<now, users, made, faults, scene, uploads>>
    PROVE  FaceEffect(s)
<1>1. Moves(s, FaceOps)
  BY Beginning
<1>2. uploads' \in Nat /\ made' \in 0..MaxRecords
  BY DEF Core
<1> QED
  BY <1>1, <1>2, UsersStay DEF FaceEffect, Onward, FaultsFall

LEMMA EnrolRequestsAreHandlers ==
    /\ EnrolRequest \subseteq Handlers /\ ResetRequest \subseteq Handlers
    /\ FaceRequest \subseteq Handlers /\ Null \notin Handlers
BY HandlerAssumption DEF Handlers

LEMMA FaceEffects ==
    ASSUME NEW s \in Slots, Core, FaceTyped, FaceStep(s), uploads' = uploads
    PROVE  FaceEffect(s)
<1>0. made \in 0..MaxRecords /\ faults' \in {faults} => FaultsFall
  BY DEF Core, FaultsFall
<1>1. CASE EnrolLoad(s)
  <2>1. work[s] # Null /\ work[s].op = "enrol"
    BY <1>1 DEF EnrolLoad, Handling
  <2>2. work[s] \in EnrolRequest
    BY <2>1, Requested
  <2> DEFINE h == [work[s] EXCEPT !.loaded = users[work[s].user].face,
                     !.at = IF work[s].replace THEN "clear" ELSE "read"]
  <2>3. users[work[s].user].face \in (SUBSET Nat) \cup {Null}
    BY <2>2 DEF Core, User, EnrolRequest
  <2>4. h \in EnrolRequest /\ h.op = "enrol"
    BY <2>2, <2>3 DEF EnrolRequest
  <2>5. Becomes(s, h) /\ UNCHANGED <<now, users, made, faults, scene>>
    BY <1>1 DEF EnrolLoad
  <2> HIDE DEF h
  <2> QED
    BY <1>0, <2>1, <2>4, <2>5, FaceGoes, EnrolRequestsAreHandlers
       DEF FaceOps, Core, FaultsFall
<1>2. CASE EnrolClear(s) \/ EnrolCreate(s)
  <2>1. work[s] # Null /\ work[s].op = "enrol"
    BY <1>2 DEF EnrolClear, EnrolCreate, Handling
  <2>2. work[s] \in EnrolRequest
    BY <2>1, Requested
  <2>3. PICK at \in {"create", "save"} : Goes(s, at)
    BY <1>2 DEF EnrolClear, EnrolCreate
  <2> DEFINE h == [work[s] EXCEPT !.at = at]
  <2>4. h \in EnrolRequest /\ h.op = "enrol"
    BY <2>2 DEF EnrolRequest
  <2>5. Becomes(s, h) /\ UNCHANGED <<now, users, made, faults, scene>>
    BY <1>2, <2>3 DEF EnrolClear, EnrolCreate, Goes
  <2> HIDE DEF h
  <2> QED
    BY <1>0, <2>1, <2>4, <2>5, FaceGoes, EnrolRequestsAreHandlers
       DEF FaceOps, Core, FaultsFall
<1>3. CASE EnrolRead(s)
  <2>1. work[s] # Null /\ work[s].op = "enrol"
    BY <1>3 DEF EnrolRead, Handling
  <2>2. work[s] \in EnrolRequest
    BY <2>1, Requested
  <2> DEFINE h == [work[s] EXCEPT !.existing = samples[work[s].user],
                                  !.at = "create"]
  <2>3. samples[work[s].user] \in SUBSET Nat
    BY <2>2 DEF FaceTyped, EnrolRequest
  <2>4. h \in EnrolRequest /\ h.op = "enrol"
    BY <2>2, <2>3 DEF EnrolRequest
  <2>5. Becomes(s, h) /\ UNCHANGED <<now, users, made, faults, scene>>
    BY <1>3 DEF EnrolRead
  <2> HIDE DEF h
  <2> QED
    BY <1>0, <2>1, <2>4, <2>5, FaceGoes, EnrolRequestsAreHandlers
       DEF FaceOps, Core, FaultsFall
<1>4. ASSUME NEW face \in (SUBSET Nat) \cup {Null}, NEW u \in Users,
             users' = [users EXCEPT ![u].face = face],
             work[s] # Null, work[s].op \in FaceOps, Ends(s),
             UNCHANGED <<now, made, faults, scene>>
      PROVE  FaceEffect(s)
  <2>1. Moves(s, FaceOps)
    BY <1>4, Becoming DEF Ends
  <2>2. users' \in [Users -> User] /\ PinsStay /\ StatusStays
    BY <1>4, FaceWritten
  <2> QED
    BY <1>4, <2>1, <2>2 DEF FaceEffect, Onward, Core, FaultsFall
<1>5. CASE EnrolSave(s)
  <2>1. work[s] # Null /\ work[s].op = "enrol"
    BY <1>5 DEF EnrolSave, Handling
  <2>2. work[s] \in EnrolRequest
    BY <2>1, Requested
  <2> PICK h : h = work[s]
    OBVIOUS
  <2> DEFINE face == Column(users[h.user].face, h.loaded, Average(h))
  <2>3. h.user \in Users /\ h.existing \cup h.new \in SUBSET Nat
    BY <2>2 DEF EnrolRequest
  <2>4. face \in (SUBSET Nat) \cup {Null}
    BY <2>3 DEF Core, User, Column, Average
  <2>5. users' = [users EXCEPT ![h.user].face = face]
    BY <1>5 DEF EnrolSave
  <2> HIDE DEF face
  <2> QED
    BY <1>4, <1>5, <2>1, <2>3, <2>4, <2>5 DEF EnrolSave, FaceOps
<1>6. CASE ResetSave(s)
  <2>1. work[s] # Null /\ work[s].op = "reset"
    BY <1>6 DEF ResetSave, Handling
  <2>2. work[s] \in ResetRequest
    BY <2>1, Requested
  <2> PICK h : h = work[s]
    OBVIOUS
  <2> DEFINE face == Column(users[h.user].face, h.loaded, Null)
  <2>3. h.user \in Users
    BY <2>2 DEF ResetRequest
  <2>4. face \in (SUBSET Nat) \cup {Null}
    BY <2>3 DEF Core, User, Column
  <2>5. users' = [users EXCEPT ![h.user].face = face]
    BY <1>6 DEF ResetSave
  <2> HIDE DEF face
  <2> QED
    BY <1>4, <1>6, <2>1, <2>3, <2>4, <2>5 DEF ResetSave, FaceOps
<1>7. CASE ResetClear(s)
  <2>1. work[s] # Null /\ work[s].op = "reset"
    BY <1>7 DEF ResetClear, Handling
  <2>2. work[s] \in ResetRequest
    BY <2>1, Requested
  <2> DEFINE h == [work[s] EXCEPT !.at = "save"]
  <2>3. h \in ResetRequest /\ h.op = "reset"
    BY <2>2 DEF ResetRequest
  <2>4. Becomes(s, h) /\ UNCHANGED <<now, users, made, faults, scene>>
    BY <1>7 DEF ResetClear, Goes
  <2> HIDE DEF h
  <2> QED
    BY <1>0, <2>1, <2>3, <2>4, FaceGoes, EnrolRequestsAreHandlers
       DEF FaceOps, Core, FaultsFall
<1>8. ASSUME work[s] # Null, work[s].op \in FaceOps, Ends(s), FaultsFall,
             made' \in 0..MaxRecords, UNCHANGED <<now, users, scene>>
      PROVE  FaceEffect(s)
  <2>1. Becomes(s, Null)
    BY <1>8 DEF Ends
  <2> QED
    BY <1>8, <2>1, FaceGoes
<1>9. CASE FaceRefused(s)
  BY <1>8, <1>9 DEF FaceRefused, Handling, FaceOps, FaultsFall, Core
<1>10. CASE FaceCompares(s)
  <2>1. work[s] # Null /\ work[s].op = "face"
    BY <1>10 DEF FaceCompares, Handling
  <2>2. work[s] \in FaceRequest
    BY <2>1, Requested
  <2>3. UNCHANGED <<now, users, made, faults, scene>>
    BY <1>10 DEF FaceCompares
  <2>4. CASE Ends(s)
    BY <1>8, <2>1, <2>3, <2>4 DEF FaceOps, FaultsFall, Core
  <2>5. CASE Goes(s, "mark")
    <3> DEFINE h == [work[s] EXCEPT !.at = "mark"]
    <3>1. h \in FaceRequest /\ h.op = "face"
      BY <2>2 DEF FaceRequest
    <3>2. Becomes(s, h)
      BY <2>5 DEF Goes
    <3> HIDE DEF h
    <3> QED
      BY <2>1, <2>3, <3>1, <3>2, FaceGoes, EnrolRequestsAreHandlers
         DEF FaceOps, Core, FaultsFall
  <2> QED
    BY <1>10, <2>4, <2>5 DEF FaceCompares
<1>11. CASE FaceMark(s)
  <2>1. work[s] # Null /\ work[s].op = "face" /\ Ends(s)
    BY <1>11 DEF FaceMark, Handling
  <2>2. FaultsFall /\ UNCHANGED <<now, users, scene>>
    BY <1>11 DEF FaceMark, FaultsFall
  <2>3. made' \in 0..MaxRecords
    <3>1. CASE UNCHANGED made
      BY <3>1 DEF Core
    <3>2. CASE Inserted([user |-> work[s].user, method |-> "facial",
                         photo |-> Null, at |-> now])
      BY <3>2, Inserting
    <3> QED
      BY <1>11, <3>1, <3>2 DEF FaceMark
  <2> QED
    BY <1>8, <2>1, <2>2, <2>3 DEF FaceOps
<1>12. CASE FaceFails(s)
  BY <1>8, <1>12 DEF FaceFails, FaceOps, FaultsFall, Core
<1>13. CASE Save(s)
  <2> DEFINE h == [op |-> "enrol", at |-> "load", user |-> page.user,
                   replace |-> ~page.append, new |-> CapturesOf(page.got),
                   existing |-> {}, loaded |-> Null]
  <2>1. page \in Page
    BY <1>13 DEF Save, FaceTyped
  <2>2. CapturesOf(page.got) \in SUBSET Nat
    <3>1. page.got \in Seq(Capture)
      BY <2>1 DEF Page
    <3>2. \A i \in DOMAIN page.got : page.got[i] \in Capture
      BY <3>1
    <3>3. \A c \in Capture : c.id \in Nat
      BY DEF Capture
    <3> QED
      BY <3>2, <3>3 DEF CapturesOf
  <2>3. h \in EnrolRequest /\ h.op = "enrol"
    <3>1. page.user \in Users
      BY <2>1 DEF Page
    <3> QED
      BY <2>2, <3>1 DEF EnrolRequest
  <2>4. Begins(s, "enrol", h) /\ UNCHANGED <<now, users, made, faults, scene>>
    BY <1>13 DEF Save, PageStays
  <2> HIDE DEF h
  <2> QED
    BY <2>3, <2>4, FaceBegins, EnrolRequestsAreHandlers DEF FaceOps
<1>14. ASSUME NEW u \in Staff, ResetStart(s, u)
       PROVE  FaceEffect(s)
  <2> DEFINE h == [op |-> "reset", at |-> "clear", user |-> u,
                   loaded |-> users[u].face]
  <2>1. u \in Users /\ users[u].face \in (SUBSET Nat) \cup {Null}
    BY StaffAreUsers DEF Core, User
  <2>2. h \in ResetRequest /\ h.op = "reset"
    BY <2>1 DEF ResetRequest
  <2>3. Begins(s, "reset", h) /\ UNCHANGED <<now, users, made, faults, scene>>
    BY <1>14 DEF ResetStart
  <2> HIDE DEF h
  <2> QED
    BY <2>2, <2>3, FaceBegins, EnrolRequestsAreHandlers DEF FaceOps
<1>15. ASSUME NEW u \in Staff, NEW p \in Staff, FaceArrives(s, u, p)
       PROVE  FaceEffect(s)
  <2> DEFINE h == [op |-> "face", at |-> "compare", user |-> u, person |-> p]
  <2>1. h \in FaceRequest /\ h.op = "face"
    BY StaffAreUsers DEF FaceRequest
  <2>2. Begins(s, "face", h) /\ UNCHANGED <<now, users, made, faults, scene>>
    BY <1>15 DEF FaceArrives
  <2> HIDE DEF h
  <2> QED
    BY <2>1, <2>2, FaceBegins, EnrolRequestsAreHandlers DEF FaceOps
<1> QED
  BY <1>1, <1>2, <1>3, <1>5, <1>6, <1>7, <1>9, <1>10, <1>11, <1>12, <1>13,
     <1>14, <1>15 DEF FaceStep, FaceProceeds

\* What the steps of the handlers do to the page.
LEMMA FaceStepsPage ==
    ASSUME NEW s \in Slots, FaceStep(s)
    PROVE  /\ captured' = captured
           /\ \/ page' = page \/ page' = Null
              \/ page # Null /\ page' = [page EXCEPT !.saving = Null]
              \/ /\ page # Null /\ page' = [page EXCEPT !.saving = s]
                 /\ Len(page.got) >= Positions
<1>1. CASE Save(s)
  BY <1>1 DEF Save
<1>2. CASE FaceFails(s)
  BY <1>2 DEF FaceFails
<1>3. CASE EnrolSave(s)
  BY <1>3 DEF EnrolSave
<1>4. CASE \/ EnrolLoad(s) \/ EnrolClear(s) \/ EnrolRead(s) \/ EnrolCreate(s)
           \/ ResetClear(s) \/ ResetSave(s)
           \/ FaceRefused(s) \/ FaceCompares(s) \/ FaceMark(s)
  BY <1>4 DEF EnrolLoad, EnrolClear, EnrolRead, EnrolCreate, ResetClear,
     ResetSave, FaceRefused, FaceCompares, FaceMark
<1>5. CASE \/ \E u \in Staff : ResetStart(s, u)
           \/ \E u, p \in Staff : FaceArrives(s, u, p)
  BY <1>5 DEF ResetStart, FaceArrives
<1> QED
  BY <1>1, <1>2, <1>3, <1>4, <1>5 DEF FaceStep, FaceProceeds

\* ... and to the samples.
LEMMA FaceStepsSamples ==
    ASSUME NEW s \in Slots, Core, FaceTyped, FaceStep(s)
    PROVE  samples' \in [Users -> SUBSET Nat]
<1>1. CASE EnrolCreate(s)
  <2>1. work[s] # Null /\ work[s].op = "enrol"
    BY <1>1 DEF EnrolCreate, Handling
  <2>2. work[s] \in EnrolRequest
    BY <2>1, Requested
  <2>3. work[s].new \in SUBSET Nat /\ work[s].user \in Users
    BY <2>2 DEF EnrolRequest
  <2>4. samples[work[s].user] \cup work[s].new \in SUBSET Nat
    BY <2>3 DEF FaceTyped
  <2>5. samples' = [samples EXCEPT ![work[s].user] =
                      samples[work[s].user] \cup work[s].new]
    BY <1>1 DEF EnrolCreate
  <2> QED
    BY <2>4, <2>5 DEF FaceTyped
<1>2. CASE EnrolClear(s) \/ ResetClear(s)
  <2>1. samples' = [samples EXCEPT ![work[s].user] = {}]
    BY <1>2 DEF EnrolClear, ResetClear
  <2> QED
    BY <2>1 DEF FaceTyped
<1>3. CASE \/ Save(s) \/ FaceFails(s) \/ EnrolSave(s) \/ EnrolLoad(s)
           \/ EnrolRead(s) \/ ResetSave(s)
           \/ FaceRefused(s) \/ FaceCompares(s) \/ FaceMark(s)
  BY <1>3 DEF Save, PageStays, FaceFails, EnrolSave, EnrolLoad, EnrolRead,
     ResetSave, FaceRefused, FaceCompares, FaceMark, FaceTyped
<1>4. CASE \/ \E u \in Staff : ResetStart(s, u)
           \/ \E u, p \in Staff : FaceArrives(s, u, p)
  BY <1>4 DEF ResetStart, FaceArrives, FaceTyped
<1> QED
  BY <1>1, <1>2, <1>3, <1>4 DEF FaceStep, FaceProceeds

\* The page keeps its captures; only what it waits for changes.
LEMMA PageKeepsCaptures ==
    ASSUME NEW p \in Page, NEW saving \in Slots \cup {Null},
           NEW next, next = [p EXCEPT !.saving = saving]
    PROVE  /\ next \in Page /\ next.saving = saving
           /\ next.got = p.got /\ next.frame = p.frame
BY DEF Page

LEMMA PageTypes ==
    ASSUME NEW p \in Page
    PROVE  /\ p.got \in Seq(Capture) /\ Len(p.got) \in Nat
           /\ p.frame \in 1..Positions \cup {Null}
           /\ p.user \in Users /\ p.append \in BOOLEAN
           /\ p.saving \in Slots \cup {Null}
           /\ Positions \in Nat \ {0}
BY FaceAssumption DEF Page

LEMMA FaceStepsKeepPage ==
    ASSUME NEW s \in Slots, Core, FaceTyped, PageInv, FaceStep(s),
           scene' = scene
    PROVE  FaceTyped' /\ PageInv'
<1>1. samples' \in [Users -> SUBSET Nat] /\ captured' \in Nat
  BY FaceStepsSamples, FaceStepsPage DEF FaceTyped
<1>2. CASE page' = page \/ page' = Null
  BY <1>1, <1>2 DEF FaceTyped, PageInv, Serialized
<1>3. ASSUME NEW saving \in Slots \cup {Null}, page # Null,
             page' = [page EXCEPT !.saving = saving],
             saving # Null => Len(page.got) >= Positions
      PROVE  FaceTyped' /\ PageInv'
  <2> PICK p : p = page
    OBVIOUS
  <2>1. p \in Page /\ page' = [p EXCEPT !.saving = saving]
    BY <1>3 DEF FaceTyped
  <2>2. /\ page' \in Page /\ page'.saving = saving
        /\ page'.got = p.got /\ page'.frame = p.frame
    BY <2>1, PageKeepsCaptures
  <2>3. Len(p.got) \in Nat /\ Positions \in Nat
    BY <2>1, PageTypes
  <2> QED
    BY <1>1, <1>3, <2>2, <2>3 DEF FaceTyped, PageInv, Serialized
<1> QED
  BY <1>2, <1>3, FaceStepsPage
-----------------------------------------------------------------------------
\* The steps of the page: they change nothing that is saved.
LEMMA PageSteps ==
    ASSUME PageStep
    PROVE  UNCHANGED <<now, users, made, faults, scene, samples, work>>
BY DEF PageStep, OpenPage, ToggleAppend, FrameStart, FrameTaken, FrameMissed,
   Restart, ClosePage, PageOnly, PageStays

LEMMA PageStepsKeepPage ==
    ASSUME Core, FaceTyped, PageInv, PageStep
    PROVE  FaceTyped' /\ PageInv'
<1>0. UNCHANGED <<scene, samples>>
  BY PageSteps
<1>1. ASSUME NEW u \in Staff, OpenPage(u)
      PROVE  FaceTyped' /\ PageInv'
  <2> DEFINE p == [user |-> u, append |-> samples[u] # {}, got |-> <<>>,
                   frame |-> Null, saving |-> Null]
  <2>1. page' = p /\ captured' = captured
    BY <1>1 DEF OpenPage, PageOnly
  <2>2. p \in Page
    BY StaffAreUsers DEF Page
  <2>3. p.got = <<>> /\ p.frame = Null /\ p.saving = Null
    OBVIOUS
  <2>4. Positions \in Nat
    BY FaceAssumption
  <2> HIDE DEF p
  <2> QED
    BY <1>0, <2>1, <2>2, <2>3, <2>4 DEF FaceTyped, PageInv
<1>2. CASE ToggleAppend
  <2> PICK p : p = page
    OBVIOUS
  <2>1. page # Null /\ page' = [p EXCEPT !.append = ~p.append]
          /\ captured' = captured
    BY <1>2 DEF ToggleAppend, PageOnly
  <2>2. p \in Page
    BY <2>1 DEF FaceTyped
  <2>3. /\ page' \in Page /\ page'.saving = p.saving
        /\ page'.got = p.got /\ page'.frame = p.frame
    BY <2>1, <2>2 DEF Page
  <2> QED
    BY <1>0, <2>1, <2>2, <2>3 DEF FaceTyped, PageInv, Serialized
<1>3. CASE FrameStart
  <2> PICK p : p = page
    OBVIOUS
  <2>1. /\ page # Null /\ page' = [p EXCEPT !.frame = Len(p.got) + 1]
        /\ captured' = captured /\ Len(p.got) < Positions
    BY <1>3 DEF FrameStart, PageOnly
  <2>2. p \in Page
    BY <2>1 DEF FaceTyped
  <2>3. Len(p.got) \in Nat /\ Positions \in Nat
    BY <2>2, PageTypes
  <2>4. Len(p.got) + 1 \in 1..Positions
    BY <2>1, <2>3
  <2>5. /\ page' \in Page /\ page'.saving = p.saving
        /\ page'.got = p.got /\ page'.frame = Len(p.got) + 1
    BY <2>1, <2>2, <2>4 DEF Page
  <2> QED
    BY <1>0, <2>1, <2>2, <2>3, <2>5 DEF FaceTyped, PageInv, Serialized
<1>4. CASE FrameTaken
  <2> PICK p : p = page
    OBVIOUS
  <2> DEFINE c == [position |-> p.frame, id |-> captured + 1]
  <2>1. /\ page # Null /\ p.frame # Null
        /\ page' = [p EXCEPT !.frame = Null, !.got = Append(p.got, c)]
        /\ captured' = captured + 1
    BY <1>4 DEF FrameTaken
  <2>2. p \in Page
    BY <2>1 DEF FaceTyped
  <2>3. /\ p.got \in Seq(Capture) /\ Len(p.got) \in Nat
        /\ p.frame \in 1..Positions /\ Positions \in Nat
    BY <2>1, <2>2, PageTypes
  <2>4. c \in Capture /\ captured' \in Nat /\ c.position = p.frame
    BY <2>1, <2>3 DEF FaceTyped, Capture
  <2> HIDE DEF c
  <2>5. /\ Append(p.got, c) \in Seq(Capture)
        /\ Len(Append(p.got, c)) = Len(p.got) + 1
        /\ \A i \in 1..Len(p.got) : Append(p.got, c)[i] = p.got[i]
        /\ Append(p.got, c)[Len(p.got) + 1] = c
    BY <2>3, <2>4
  <2>6. /\ page' \in Page /\ page'.saving = p.saving
        /\ page'.got = Append(p.got, c) /\ page'.frame = Null
    BY <2>1, <2>2, <2>5 DEF Page
  <2>7. ASSUME Serialized
        PROVE  /\ Len(page'.got) <= Positions
               /\ \A i \in 1..Len(page'.got) : page'.got[i].position = i
               /\ page'.saving = Null
    <3>1. /\ \A i \in 1..Len(p.got) : p.got[i].position = i
          /\ p.frame = Len(p.got) + 1 /\ Len(p.got) < Positions
          /\ p.saving # Null => Len(p.got) = Positions
      BY <2>1, <2>7 DEF PageInv
    <3>2. \A i \in 1..Len(p.got) + 1 :
            i \in 1..Len(p.got) \/ i = Len(p.got) + 1
      BY <2>3
    <3> QED
      BY <2>3, <2>4, <2>5, <2>6, <3>1, <3>2
  <2> QED
    BY <1>0, <2>4, <2>6, <2>7 DEF FaceTyped, PageInv, Serialized
<1>5. CASE FrameMissed
  <2> PICK p : p = page
    OBVIOUS
  <2>1. /\ page # Null /\ page' = [p EXCEPT !.frame = Null]
        /\ captured' = captured
    BY <1>5 DEF FrameMissed, PageOnly
  <2>2. p \in Page
    BY <2>1 DEF FaceTyped
  <2>3. /\ page' \in Page /\ page'.saving = p.saving
        /\ page'.got = p.got /\ page'.frame = Null
    BY <2>1, <2>2 DEF Page
  <2> QED
    BY <1>0, <2>1, <2>2, <2>3 DEF FaceTyped, PageInv, Serialized
<1>6. CASE Restart
  <2> PICK p : p = page
    OBVIOUS
  <2>1. /\ page # Null /\ page' = [p EXCEPT !.got = <<>>]
        /\ captured' = captured /\ p.saving = Null
        /\ Serialized => p.frame = Null
    BY <1>6 DEF Restart, PageOnly
  <2>2. p \in Page /\ Positions \in Nat
    BY <2>1, FaceAssumption DEF FaceTyped
  <2>3. /\ page' \in Page /\ page'.saving = p.saving
        /\ page'.got = <<>> /\ page'.frame = p.frame
    <3> PICK none : none = <<>>
      OBVIOUS
    <3>1. none \in Seq(Capture) /\ page' = [p EXCEPT !.got = none]
      BY <2>1
    <3> QED
      BY <2>2, <3>1 DEF Page
  <2> QED
    BY <1>0, <2>1, <2>2, <2>3 DEF FaceTyped, PageInv, Serialized
<1>7. CASE ClosePage
  BY <1>0, <1>7 DEF ClosePage, PageOnly, FaceTyped, PageInv
<1> QED
  BY <1>1, <1>2, <1>3, <1>4, <1>5, <1>6, <1>7 DEF PageStep
-----------------------------------------------------------------------------
\* Another component's step.
LEMMA EnrolmentsStand ==
    ASSUME Core, EnrolInv, SameHandling({"enrol", "reset"}), FacesStay,
           samples' = samples, scene' = scene, FaultsFall
    PROVE  EnrolInv'
<1> SUFFICES ASSUME Serialized', NoFault'
             PROVE  EnrolInv'
  BY DEF EnrolInv
<1>1. Serialized /\ NoFault
  BY NoFaultBefore DEF Serialized
<1>2. ASSUME NEW t \in Slots, work'[t] # Null \/ work[t] # Null
      PROVE  \/ work'[t] = work[t]
             \/ /\ work[t] # Null => work[t].op \notin {"enrol", "reset"}
                /\ work'[t] # Null => work'[t].op \notin {"enrol", "reset"}
  BY <1>2 DEF SameHandling
<1>3. ASSUME NEW u \in Users, Untouched(u)'
      PROVE  users'[u].face = Whole(samples'[u])
  <2>1. Untouched(u)
    BY <1>2, <1>3 DEF Untouched
  <2>2. users[u].face = Whole(samples[u])
    BY <1>1, <2>1 DEF EnrolInv
  <2> QED
    BY <2>2 DEF FacesStay
<1>4. ASSUME NEW t \in Slots, work'[t] # Null,
             work'[t].op \in {"enrol", "reset"}
      PROVE  Enrolling(work[t])'
  <2>1. work'[t] = work[t]
    BY <1>2, <1>4
  <2>2. Enrolling(work[t])
    BY <1>1, <1>4, <2>1 DEF EnrolInv
  <2>3. work[t].user \in Users
    BY <1>4, <2>1, Requested DEF EnrolRequest, ResetRequest
  <2>4. users'[work[t].user].face = users[work[t].user].face
    BY <2>3 DEF FacesStay
  <2> QED
    BY <2>1, <2>2, <2>4 DEF Enrolling, Whole
<1>5. ASSUME NEW t \in Slots, work'[t] # Null,
             work'[t].op \notin {"enrol", "reset"}
      PROVE  Enrolling(work[t])'
  BY <1>5 DEF Enrolling
<1> QED
  BY <1>3, <1>4, <1>5 DEF EnrolInv, Whole

\* A handler goes on with one user: what it leaves is what the next one of it
\* finds, or the average is of the samples.
LEMMA EnrolmentsGoOn ==
    ASSUME NEW s \in Slots, Core, EnrolInv, Moves(s, FaceOps), scene' = scene,
           FaultsFall, NEW u \in Users,
           \A v \in Users \ {u} : users'[v].face = users[v].face
                                    /\ samples'[v] = samples[v],
           Serialized /\ NoFault =>
             /\ work[s] # Null /\ work[s].op \in {"enrol", "reset"}
                  => work[s].user = u
             /\ work'[s] # Null => Enrolling(work[s])'
             /\ \/ users'[u].face = Whole(samples'[u])
                \/ /\ work'[s] # Null /\ work'[s].op \in {"enrol", "reset"}
                   /\ work'[s].user = u
    PROVE  EnrolInv'
<1> SUFFICES ASSUME Serialized', NoFault'
             PROVE  EnrolInv'
  BY DEF EnrolInv
<1>1. Serialized /\ NoFault
  BY NoFaultBefore DEF Serialized
<1>2. \A t \in Slots \ {s} : work[t] = Null /\ work'[t] = Null
  BY <1>1, OnlyOne
<1>3. ASSUME NEW v \in Users \ {u}
      PROVE  users'[v].face = Whole(samples'[v])
  <2>1. Untouched(v)
    BY <1>1, <1>2 DEF Untouched
  <2>2. users[v].face = Whole(samples[v])
    BY <1>1, <2>1 DEF EnrolInv
  <2> QED
    BY <2>2
<1>4. ASSUME Untouched(u)'
      PROVE  users'[u].face = Whole(samples'[u])
  BY <1>1, <1>4 DEF Untouched
<1>5. ASSUME NEW t \in Slots, work'[t] # Null
      PROVE  Enrolling(work[t])'
  BY <1>1, <1>2, <1>5
<1> QED
  BY <1>3, <1>4, <1>5 DEF EnrolInv, Whole

\* What is known of a handler of an enrolment or a reset that goes on.
LEMMA EnrolmentFound ==
    ASSUME Core, EnrolInv, NEW s \in Slots, work[s] # Null,
           work[s].op \in {"enrol", "reset"}
    PROVE  /\ work[s].user \in Users
           /\ Serialized /\ NoFault => Enrolling(work[s])
<1>1. work[s].user \in Users
  BY Requested DEF EnrolRequest, ResetRequest
<1> QED
  BY <1>1 DEF EnrolInv

LEMMA FaceStepsKeepEnrolments ==
    ASSUME NEW s \in Slots, Core, FaceTyped, EnrolInv, FaceStep(s),
           uploads' = uploads
    PROVE  EnrolInv'
<1>0. /\ Moves(s, FaceOps) /\ scene' = scene /\ FaultsFall
      /\ samples \in [Users -> SUBSET Nat]
      /\ users \in [Users -> User] /\ work \in [Slots -> Handlers \cup {Null}]
      /\ Null \notin Handlers
  BY FaceEffects, NullIsNoHandler DEF FaceEffect, Onward, FaceTyped, Core
<1>1. CASE EnrolLoad(s)
  <2> PICK h : h = work[s]
    OBVIOUS
  <2>1. /\ work[s] # Null /\ h.op = "enrol" /\ h.at = "load"
        /\ UNCHANGED <<users, samples>>
    BY <1>1 DEF EnrolLoad, Handling
  <2>2. h \in EnrolRequest /\ h.user \in Users
          /\ (Serialized /\ NoFault => Enrolling(h))
    BY <2>1, Requested, EnrolmentFound
  <2>3. work'[s] = [h EXCEPT !.loaded = users[h.user].face,
                     !.at = IF h.replace THEN "clear" ELSE "read"]
    BY <1>0, <1>1 DEF EnrolLoad, Becomes
  <2>4. /\ work'[s].op = "enrol" /\ work'[s].user = h.user
        /\ work'[s].new = h.new /\ work'[s].existing = h.existing
        /\ work'[s].loaded = users[h.user].face
        /\ work'[s].at \in {"clear", "read"}
    BY <2>2, <2>3 DEF EnrolRequest
  <2>5. ASSUME Serialized, NoFault
        PROVE  Enrolling(work[s])' /\ users'[h.user].face = Whole(samples'[h.user])
    <3>1. Enrolling(h)
      BY <2>2, <2>5
    <3>2. /\ h.new # {} /\ h.existing = {}
          /\ users[h.user].face = Whole(samples[h.user])
      BY <2>1, <3>1 DEF Enrolling
    <3> QED
      BY <2>1, <2>4, <3>2 DEF Enrolling, Whole
  <2> QED
    BY <1>0, <2>1, <2>2, <2>5, EnrolmentsGoOn
<1>2. CASE EnrolClear(s)
  <2> PICK h : h = work[s]
    OBVIOUS
  <2>1. /\ work[s] # Null /\ h.op = "enrol" /\ h.at = "clear"
        /\ users' = users /\ samples' = [samples EXCEPT ![h.user] = {}]
    BY <1>2 DEF EnrolClear, Handling
  <2>2. h \in EnrolRequest /\ h.user \in Users
          /\ (Serialized /\ NoFault => Enrolling(h))
    BY <2>1, Requested, EnrolmentFound
  <2>3. work'[s] = [h EXCEPT !.at = "create"]
    BY <1>0, <1>2 DEF EnrolClear, Goes, Becomes
  <2>4. /\ work'[s].op = "enrol" /\ work'[s].user = h.user
        /\ work'[s].new = h.new /\ work'[s].existing = h.existing
        /\ work'[s].loaded = h.loaded /\ work'[s].at = "create"
    BY <2>2, <2>3 DEF EnrolRequest
  <2>5. /\ samples'[h.user] = {}
        /\ \A v \in Users \ {h.user} : samples'[v] = samples[v]
    BY <1>0, <2>1, <2>2
  <2>6. ASSUME Serialized, NoFault
        PROVE  Enrolling(work[s])'
    <3>1. Enrolling(h)
      BY <2>2, <2>6
    <3>2. /\ h.new # {} /\ h.existing = {} /\ h.loaded = users[h.user].face
      BY <2>1, <3>1 DEF Enrolling
    <3> QED
      BY <2>1, <2>4, <2>5, <3>2 DEF Enrolling
  <2>7. work'[s] # Null
    BY <1>0, <2>2, <2>4, EnrolRequestsAreHandlers, <2>3 DEF EnrolRequest
  <2> QED
    BY <1>0, <2>1, <2>2, <2>4, <2>5, <2>6, <2>7, EnrolmentsGoOn
<1>3. CASE EnrolRead(s)
  <2> PICK h : h = work[s]
    OBVIOUS
  <2>1. /\ work[s] # Null /\ h.op = "enrol" /\ h.at = "read"
        /\ UNCHANGED <<users, samples>>
    BY <1>3 DEF EnrolRead, Handling
  <2>2. h \in EnrolRequest /\ h.user \in Users
          /\ (Serialized /\ NoFault => Enrolling(h))
    BY <2>1, Requested, EnrolmentFound
  <2>3. work'[s] = [h EXCEPT !.existing = samples[h.user], !.at = "create"]
    BY <1>0, <1>3 DEF EnrolRead, Becomes
  <2>4. /\ work'[s].op = "enrol" /\ work'[s].user = h.user
        /\ work'[s].new = h.new /\ work'[s].existing = samples[h.user]
        /\ work'[s].loaded = h.loaded /\ work'[s].at = "create"
    BY <2>2, <2>3 DEF EnrolRequest
  <2>5. ASSUME Serialized, NoFault
        PROVE  Enrolling(work[s])' /\ users'[h.user].face = Whole(samples'[h.user])
    <3>1. Enrolling(h)
      BY <2>2, <2>5
    <3>2. /\ h.new # {} /\ h.loaded = users[h.user].face
          /\ users[h.user].face = Whole(samples[h.user])
      BY <2>1, <3>1 DEF Enrolling
    <3> QED
      BY <2>1, <2>4, <3>2 DEF Enrolling, Whole
  <2> QED
    BY <1>0, <2>1, <2>2, <2>5, EnrolmentsGoOn
<1>4. CASE EnrolCreate(s)
  <2> PICK h : h = work[s]
    OBVIOUS
  <2>1. /\ work[s] # Null /\ h.op = "enrol" /\ h.at = "create"
        /\ users' = users
        /\ samples' = [samples EXCEPT ![h.user] = samples[h.user] \cup h.new]
    BY <1>4 DEF EnrolCreate, Handling
  <2>2. h \in EnrolRequest /\ h.user \in Users
          /\ (Serialized /\ NoFault => Enrolling(h))
    BY <2>1, Requested, EnrolmentFound
  <2>3. work'[s] = [h EXCEPT !.at = "save"]
    BY <1>0, <1>4 DEF EnrolCreate, Goes, Becomes
  <2>4. /\ work'[s].op = "enrol" /\ work'[s].user = h.user
        /\ work'[s].new = h.new /\ work'[s].existing = h.existing
        /\ work'[s].loaded = h.loaded /\ work'[s].at = "save"
        /\ work'[s] \in EnrolRequest
    BY <2>2, <2>3 DEF EnrolRequest
  <2>5. /\ samples'[h.user] = samples[h.user] \cup h.new
        /\ \A v \in Users \ {h.user} : samples'[v] = samples[v]
    BY <1>0, <2>1, <2>2
  <2>6. ASSUME Serialized, NoFault
        PROVE  Enrolling(work[s])'
    <3>1. Enrolling(h)
      BY <2>2, <2>6
    <3>2. /\ h.new # {} /\ samples[h.user] = h.existing
          /\ h.loaded = users[h.user].face
      BY <2>1, <3>1 DEF Enrolling
    <3> QED
      BY <2>1, <2>4, <2>5, <3>2 DEF Enrolling
  <2>7. work'[s] # Null
    BY <1>0, <2>4, EnrolRequestsAreHandlers
  <2> QED
    BY <1>0, <2>1, <2>2, <2>4, <2>5, <2>6, <2>7, EnrolmentsGoOn
<1>5. CASE EnrolSave(s)
  <2> PICK h : h = work[s]
    OBVIOUS
  <2> DEFINE face == Column(users[h.user].face, h.loaded, Average(h))
  <2>1. /\ work[s] # Null /\ h.op = "enrol" /\ h.at = "save"
        /\ samples' = samples /\ users' = [users EXCEPT ![h.user].face = face]
    BY <1>5 DEF EnrolSave, Handling
  <2>2. h \in EnrolRequest /\ h.user \in Users
          /\ (Serialized /\ NoFault => Enrolling(h))
    BY <2>1, Requested, EnrolmentFound
  <2>3. face \in (SUBSET Nat) \cup {Null}
    <3>1. h.existing \cup h.new \in SUBSET Nat
      BY <2>2 DEF EnrolRequest
    <3> QED
      BY <2>2, <3>1 DEF Core, User, Column, Average
  <2>4. work'[s] = Null
    BY <1>0, <1>5 DEF EnrolSave, Ends, Becomes
  <2>5. ASSUME Serialized, NoFault
        PROVE  face = Whole(samples[h.user])
    <3>1. Enrolling(h)
      BY <2>2, <2>5
    <3>2. /\ h.new # {} /\ samples[h.user] = h.existing \cup h.new
          /\ h.loaded = users[h.user].face
      BY <2>1, <3>1 DEF Enrolling
    <3> QED
      BY <3>2 DEF Column, Average, Whole
  <2> HIDE DEF face
  <2>6. /\ users'[h.user].face = face
        /\ \A v \in Users \ {h.user} : users'[v].face = users[v].face
    BY <2>1, <2>2, <2>3, FaceWritten
  <2>7. Serialized /\ NoFault => users'[h.user].face = Whole(samples'[h.user])
    BY <2>1, <2>5, <2>6
  <2> QED
    BY <1>0, <2>1, <2>2, <2>4, <2>6, <2>7, EnrolmentsGoOn
<1>6. CASE ResetClear(s)
  <2> PICK h : h = work[s]
    OBVIOUS
  <2>1. /\ work[s] # Null /\ h.op = "reset" /\ h.at = "clear"
        /\ users' = users /\ samples' = [samples EXCEPT ![h.user] = {}]
    BY <1>6 DEF ResetClear, Handling
  <2>2. h \in ResetRequest /\ h.user \in Users
          /\ (Serialized /\ NoFault => Enrolling(h))
    BY <2>1, Requested, EnrolmentFound
  <2>3. work'[s] = [h EXCEPT !.at = "save"]
    BY <1>0, <1>6 DEF ResetClear, Goes, Becomes
  <2>4. /\ work'[s].op = "reset" /\ work'[s].user = h.user
        /\ work'[s].loaded = h.loaded /\ work'[s].at = "save"
        /\ work'[s] \in ResetRequest
    BY <2>2, <2>3 DEF ResetRequest
  <2>5. /\ samples'[h.user] = {}
        /\ \A v \in Users \ {h.user} : samples'[v] = samples[v]
    BY <1>0, <2>1, <2>2
  <2>6. ASSUME Serialized, NoFault
        PROVE  Enrolling(work[s])'
    <3>1. Enrolling(h)
      BY <2>2, <2>6
    <3>2. h.loaded = users[h.user].face
      BY <2>1, <3>1 DEF Enrolling
    <3> QED
      BY <2>1, <2>4, <2>5, <3>2 DEF Enrolling
  <2>7. work'[s] # Null
    BY <1>0, <2>4, EnrolRequestsAreHandlers
  <2> QED
    BY <1>0, <2>1, <2>2, <2>4, <2>5, <2>6, <2>7, EnrolmentsGoOn
<1>7. CASE ResetSave(s)
  <2> PICK h : h = work[s]
    OBVIOUS
  <2> DEFINE face == Column(users[h.user].face, h.loaded, Null)
  <2>1. /\ work[s] # Null /\ h.op = "reset" /\ h.at = "save"
        /\ samples' = samples /\ users' = [users EXCEPT ![h.user].face = face]
    BY <1>7 DEF ResetSave, Handling
  <2>2. h \in ResetRequest /\ h.user \in Users
          /\ (Serialized /\ NoFault => Enrolling(h))
    BY <2>1, Requested, EnrolmentFound
  <2>3. face \in (SUBSET Nat) \cup {Null}
    BY <2>2 DEF Core, User, Column
  <2>4. work'[s] = Null
    BY <1>0, <1>7 DEF ResetSave, Ends, Becomes
  <2>5. ASSUME Serialized, NoFault
        PROVE  face = Whole(samples[h.user])
    <3>1. Enrolling(h)
      BY <2>2, <2>5
    <3>2. samples[h.user] = {} /\ h.loaded = users[h.user].face
      BY <2>1, <3>1 DEF Enrolling
    <3> QED
      BY <3>2 DEF Column, Whole
  <2> HIDE DEF face
  <2>6. /\ users'[h.user].face = face
        /\ \A v \in Users \ {h.user} : users'[v].face = users[v].face
    BY <2>1, <2>2, <2>3, FaceWritten
  <2>7. Serialized /\ NoFault => users'[h.user].face = Whole(samples'[h.user])
    BY <2>1, <2>5, <2>6
  <2> QED
    BY <1>0, <2>1, <2>2, <2>4, <2>6, <2>7, EnrolmentsGoOn
<1>8. CASE FaceFails(s)
  <2>1. Fault /\ scene' = scene
    BY <1>8 DEF FaceFails
  <2>2. ~NoFault'
    BY <1>0, <2>1, NoFaultBefore
  <2> QED
    BY <2>2 DEF EnrolInv
<1>9. CASE Save(s)
  <2> PICK h : h = [op |-> "enrol", at |-> "load", user |-> page.user,
                    replace |-> ~page.append, new |-> CapturesOf(page.got),
                    existing |-> {}, loaded |-> Null]
    OBVIOUS
  <2> PICK p : p = page
    OBVIOUS
  <2>1. /\ Begins(s, "enrol", h) /\ Len(p.got) >= Positions
        /\ UNCHANGED <<users, samples>> /\ page # Null
    BY <1>9 DEF Save, PageStays
  <2>2. p \in Page
    BY <2>1 DEF FaceTyped
  <2>3. p.got \in Seq(Capture) /\ Len(p.got) \in Nat /\ p.user \in Users
          /\ Positions \in Nat \ {0}
    BY <2>2, PageTypes
  <2>4. p.got[1].id \in CapturesOf(p.got)
    <3>1. 1 \in DOMAIN p.got
      BY <2>1, <2>3
    <3> QED
      BY <3>1 DEF CapturesOf
  <2>5. work'[s] = h /\ work[s] = Null /\ (Serialized => Idle)
    BY <1>0, <2>1 DEF Begins, Arrives
  <2>6. ASSUME Serialized, NoFault
        PROVE  Enrolling(work[s])' /\ users'[p.user].face = Whole(samples'[p.user])
    <3>1. Untouched(p.user)
      BY <2>5, <2>6 DEF Untouched, Idle
    <3>2. users[p.user].face = Whole(samples[p.user])
      BY <2>3, <2>6, <3>1 DEF EnrolInv
    <3>3. /\ h.op = "enrol" /\ h.at = "load" /\ h.user = p.user
          /\ h.new # {} /\ h.existing = {}
      BY <2>4
    <3> QED
      BY <2>1, <2>5, <3>2, <3>3 DEF Enrolling, Whole
  <2> QED
    BY <1>0, <2>1, <2>3, <2>5, <2>6, EnrolmentsGoOn
<1>10. ASSUME NEW u \in Staff, ResetStart(s, u)
       PROVE  EnrolInv'
  <2> PICK h : h = [op |-> "reset", at |-> "clear", user |-> u,
                    loaded |-> users[u].face]
    OBVIOUS
  <2>1. Begins(s, "reset", h) /\ UNCHANGED <<users, samples>> /\ u \in Users
    BY <1>10, StaffAreUsers DEF ResetStart
  <2>2. work'[s] = h /\ work[s] = Null /\ (Serialized => Idle)
    BY <1>0, <2>1 DEF Begins, Arrives
  <2>3. ASSUME Serialized, NoFault
        PROVE  Enrolling(work[s])' /\ users'[u].face = Whole(samples'[u])
    <3>1. Untouched(u)
      BY <2>2, <2>3 DEF Untouched, Idle
    <3>2. users[u].face = Whole(samples[u])
      BY <2>1, <2>3, <3>1 DEF EnrolInv
    <3>3. /\ h.op = "reset" /\ h.at = "clear" /\ h.user = u
          /\ h.loaded = users[u].face
      OBVIOUS
    <3> QED
      BY <2>1, <2>2, <3>2, <3>3 DEF Enrolling, Whole
  <2> QED
    BY <1>0, <2>1, <2>2, <2>3, EnrolmentsGoOn
<1>11. ASSUME UNCHANGED <<users, samples>>,
              work[s] # Null => work[s].op = "face",
              work'[s] # Null => work'[s].op = "face"
       PROVE  EnrolInv'
  <2>1. SameHandling({"enrol", "reset"})
    BY <1>0, <1>11 DEF SameHandling, Moves
  <2> QED
    BY <1>0, <1>11, <2>1, UsersStay, EnrolmentsStand
<1>12. CASE FaceRefused(s) \/ FaceCompares(s) \/ FaceMark(s)
  <2>1. work[s] # Null /\ work[s].op = "face" /\ UNCHANGED <<users, samples>>
    BY <1>12 DEF FaceRefused, FaceCompares, FaceMark, Handling
  <2>2. work[s] \in FaceRequest
    BY <2>1, Requested
  <2>3. Becomes(s, Null) \/ Becomes(s, [work[s] EXCEPT !.at = "mark"])
    BY <1>12 DEF FaceRefused, FaceCompares, FaceMark, Goes, Ends
  <2>4. work'[s] # Null => work'[s].op = "face"
    <3> PICK h : h = work[s]
      OBVIOUS
    <3>1. work'[s] = Null \/ work'[s] = [h EXCEPT !.at = "mark"]
      BY <1>0, <2>3 DEF Becomes
    <3> QED
      BY <2>2, <3>1 DEF FaceRequest
  <2> QED
    BY <1>11, <2>1, <2>4
<1>13. ASSUME NEW u \in Staff, NEW p \in Staff, FaceArrives(s, u, p)
       PROVE  EnrolInv'
  <2> DEFINE h == [op |-> "face", at |-> "compare", user |-> u, person |-> p]
  <2>1. work' = [work EXCEPT ![s] = h] /\ UNCHANGED <<users, samples>>
          /\ work[s] = Null
    BY <1>13 DEF FaceArrives, Begins, Arrives
  <2>2. work'[s].op = "face"
    BY <1>0, <2>1
  <2> QED
    BY <1>11, <2>1, <2>2
<1> QED
  BY <1>1, <1>2, <1>3, <1>4, <1>5, <1>6, <1>7, <1>8, <1>9, <1>10, <1>12, <1>13
     DEF FaceStep, FaceProceeds
-----------------------------------------------------------------------------
\* The steps of PhotoKeeping and of RecordMail: what they leave to the others.
PhotoEffect(s) ==
    /\ Moves(s, PhotoOps) /\ Onward /\ now' = now /\ users' = users

StaysBehind ==
    /\ UNCHANGED <<now, users, work>> /\ Onward

LEMMA PhotoEffects ==
    ASSUME NEW s \in Slots, Core, PhotoStep(s)
    PROVE  PhotoEffect(s)
<1>0. /\ PhotoRequest \subseteq Handlers /\ now \in Nat
      /\ made \in 0..MaxRecords /\ uploads \in Nat /\ users \in [Users -> User]
  BY ClockIsNat DEF Handlers, Core
<1>1. ASSUME NEW h \in PhotoRequest \cup {Null}, Becomes(s, h),
             work[s] # Null, work[s].op = "photo",
             UNCHANGED <<now, users, scene>>, FaultsFall,
             made' \in 0..MaxRecords, uploads' \in Nat
      PROVE  PhotoEffect(s)
  <2>1. h = Null \/ h.op = "photo"
    BY DEF PhotoRequest
  <2>2. Moves(s, PhotoOps)
    BY <1>0, <1>1, <2>1, Becoming DEF PhotoOps
  <2> QED
    BY <1>0, <1>1, <2>2 DEF PhotoEffect, Onward
<1>2. ASSUME NEW u \in Staff, PhotoArrives(s, u)
      PROVE  PhotoEffect(s)
  <2> DEFINE h == [op |-> "photo", at |-> "check", user |-> u,
                   photo |-> uploads + 1, record |-> Null, expires |-> 0]
  <2>1. h \in PhotoRequest /\ h.op = "photo"
    BY <1>0, StaffAreUsers DEF PhotoRequest
  <2>2. Begins(s, "photo", h) /\ UNCHANGED <<now, users, made, faults, scene>>
          /\ uploads' = uploads + 1
    BY <1>2 DEF PhotoArrives
  <2> HIDE DEF h
  <2>3. Moves(s, PhotoOps)
    BY <1>0, <2>1, <2>2, Beginning DEF PhotoOps
  <2> QED
    BY <1>0, <2>2, <2>3 DEF PhotoEffect, Onward, FaultsFall
<1>3. ASSUME NEW op, NEW at \in {"insert", "prove", "undo", "discard", "mail",
                                 "mailing"},
             Handling(s, "photo", op), Goes(s, at),
             UNCHANGED <<now, users, scene, made, uploads>>, FaultsFall
      PROVE  PhotoEffect(s)
  <2>1. work[s] # Null /\ work[s].op = "photo"
    BY <1>3 DEF Handling
  <2>2. work[s] \in PhotoRequest
    BY <2>1, Requested
  <2> DEFINE h == [work[s] EXCEPT !.at = at]
  <2>3. h \in PhotoRequest
    BY <2>2 DEF PhotoRequest
  <2>4. Becomes(s, h)
    BY <1>3 DEF Goes
  <2> HIDE DEF h
  <2> QED
    BY <1>0, <1>1, <1>3, <2>1, <2>3, <2>4
<1>4. ASSUME NEW op, Handling(s, "photo", op), Ends(s),
             UNCHANGED <<now, users, scene, made, uploads>>, FaultsFall
      PROVE  PhotoEffect(s)
  <2>1. work[s] # Null /\ work[s].op = "photo" /\ Becomes(s, Null)
    BY <1>4 DEF Handling, Ends
  <2> QED
    BY <1>0, <1>1, <1>4, <2>1
<1>5. CASE PhotoCheck(s)
  <2>1. /\ Handling(s, "photo", "check") /\ FaultsFall
        /\ UNCHANGED <<now, users, scene, made, uploads>>
    BY <1>5 DEF PhotoCheck, FaultsFall
  <2>2. CASE Goes(s, "discard")
    BY <1>3, <2>1, <2>2
  <2>3. CASE Becomes(s, [work[s] EXCEPT !.at = "insert",
                                        !.expires = now + Retention])
    <3>1. work[s] # Null /\ work[s].op = "photo"
      BY <2>1 DEF Handling
    <3>2. work[s] \in PhotoRequest /\ now + Retention \in Nat
      BY <1>0, <3>1, Requested, PhotoAssumption
    <3> DEFINE h == [work[s] EXCEPT !.at = "insert",
                                    !.expires = now + Retention]
    <3>3. h \in PhotoRequest /\ Becomes(s, h)
      BY <2>3, <3>2 DEF PhotoRequest
    <3> HIDE DEF h
    <3> QED
      BY <1>0, <1>1, <2>1, <3>1, <3>3
  <2> QED
    BY <1>5, <2>2, <2>3 DEF PhotoCheck
<1>6. CASE PhotoInsert(s)
  <2>1. /\ work[s] # Null /\ work[s].op = "photo" /\ FaultsFall
        /\ UNCHANGED <<now, users, scene, uploads>>
    BY <1>6 DEF PhotoInsert, FaultsFall, Handling
  <2>2. work[s] \in PhotoRequest
    BY <2>1, Requested
  <2>3. made + 1 \in Ids /\ made' \in 0..MaxRecords
    BY <1>6, Inserting DEF PhotoInsert
  <2> DEFINE h == [work[s] EXCEPT !.at = "prove", !.record = made + 1]
  <2>4. h \in PhotoRequest
    BY <2>2, <2>3 DEF PhotoRequest
  <2>5. Becomes(s, h)
    BY <1>6 DEF PhotoInsert
  <2> HIDE DEF h
  <2> QED
    BY <1>0, <1>1, <2>1, <2>3, <2>4, <2>5
<1>7. CASE PhotoProve(s)
  <2>1. /\ Handling(s, "photo", "prove") /\ FaultsFall
        /\ UNCHANGED <<now, users, scene, made, uploads>>
        /\ Goes(s, "mail") \/ Goes(s, "undo")
    BY <1>7 DEF PhotoProve, FaultsFall
  <2> QED
    BY <1>3, <2>1
<1>8. CASE PhotoUndo(s)
  <2>1. /\ Handling(s, "photo", "undo") /\ FaultsFall /\ Goes(s, "discard")
        /\ UNCHANGED <<now, users, scene, made, uploads>>
    BY <1>8 DEF PhotoUndo, FaultsFall
  <2> QED
    BY <1>3, <2>1
<1>9. CASE PhotoDiscard(s)
  <2>1. /\ Handling(s, "photo", "discard") /\ FaultsFall /\ Ends(s)
        /\ UNCHANGED <<now, users, scene, made, uploads>>
    BY <1>9 DEF PhotoDiscard, FaultsFall
  <2> QED
    BY <1>4, <2>1
<1>10. CASE PhotoMail(s)
  <2>1. FaultsFall /\ UNCHANGED <<now, users, scene, made, uploads>>
    BY <1>10 DEF PhotoMail, FaultsFall
  <2>2. \/ Handling(s, "photo", "mail") /\ Goes(s, "mailing")
        \/ Handling(s, "photo", "mailing") /\ Ends(s)
    BY <1>10 DEF PhotoMail, Notifies, Answers
  <2> QED
    BY <1>3, <1>4, <2>1, <2>2
<1>11. CASE PhotoFails(s)
  <2>1. FaultsFall /\ UNCHANGED <<now, users, scene, made, uploads>>
    BY <1>11 DEF PhotoFails, FaultsFall
  <2>2. \E at : Handling(s, "photo", at) /\ (Goes(s, "discard")
                  \/ Goes(s, "undo") \/ Ends(s))
    BY <1>11 DEF PhotoFails
  <2> QED
    BY <1>3, <1>4, <2>1, <2>2
<1> QED
  BY <1>2, <1>5, <1>6, <1>7, <1>8, <1>9, <1>10, <1>11 DEF PhotoStep,
     PhotoProceeds

LEMMA SweepEffects ==
    ASSUME Core, SweepStep
    PROVE  StaysBehind
<1>1. UNCHANGED <<now, users, work, made, scene, uploads>>
  BY DEF SweepStep, SweepStarts, SweepProceeds, SweepLooks, SweepFills,
     SweepSelects, SweepUnlinks, SweepClearsRow, SweepClearsData, SweepFails,
     SweepStays
<1>2. FaultsFall
  BY DEF SweepStep, SweepStarts, SweepProceeds, SweepLooks, SweepFills,
     SweepSelects, SweepUnlinks, SweepClearsRow, SweepClearsData, SweepFails,
     FaultsFall
<1> QED
  BY <1>1, <1>2 DEF StaysBehind, Onward, Core

LEMMA MailEffects ==
    ASSUME Core, NEW i, MailStep(i), uploads' = uploads
    PROVE  StaysBehind
<1>1. UNCHANGED <<now, users, work, made, scene>>
  BY DEF MailStep, MailStarts, MailIsSent, MailIsLogged, FailureIsLogged,
     FailureIsKept, MailGoes
<1>2. FaultsFall
  BY DEF MailStep, MailStarts, MailIsSent, MailIsLogged, FailureIsLogged,
     FailureIsKept, Kept, FaultsFall
<1> QED
  BY <1>1, <1>2 DEF StaysBehind, Onward, Core
-----------------------------------------------------------------------------
LEMMA DaysStay ==
    ASSUME scene' = scene
    PROVE  Days' = Days /\ Requests' = Requests /\ Serialized' = Serialized
BY DEF Days, Requests, Serialized

LEMMA ClockWithinDays ==
    ASSUME Core
    PROVE  /\ \A d \in Days : d \in Nat /\ d \in 0..MaxTime
           /\ now \in Days
<1>1. Scenes[scene].time \in 0..MaxTime /\ MaxTime \in Nat
  BY EvidenceAssumption DEF Core
<1> QED
  BY <1>1 DEF Core, Days

\* Another component's step, or the clock's.
LEMMA HolidaysStand ==
    ASSUME Core, HolidayInv, SameHandling(DayOps),
           StatusKept /\ "day" \in Requests => StatusStays,
           UNCHANGED <<holidays, summaries>>, scene' = scene, FaultsFall,
           now' \in {now, now + 1}
    PROVE  HolidayInv'
<1>0. /\ Days' = Days /\ Requests' = Requests /\ Serialized' = Serialized
      /\ DayTyped
  BY DaysStay DEF HolidayInv
<1>1. ASSUME NEW t \in Slots, work'[t] # Null, work'[t].op \in DayOps
      PROVE  work'[t] = work[t]
  BY <1>1 DEF SameHandling
<1>2. ASSUME NEW t \in Slots, work[t] # Null, work[t].op \in DayOps
      PROVE  work'[t] = work[t]
  BY <1>2 DEF SameHandling
<1>3. \A u \in Users, d \in Days : summaries'[<<u, d>>] # Null =>
        summaries'[<<u, d>>].written <= now' /\ "day" \in Requests
  <2>1. ASSUME NEW u \in Users, NEW d \in Days, summaries[<<u, d>>] # Null
        PROVE  summaries[<<u, d>>].written <= now' /\ "day" \in Requests
    <3>1. summaries[<<u, d>>] \in DaySummary
      BY <1>0, <2>1 DEF DayTyped
    <3>2. summaries[<<u, d>>].written \in Nat /\ now \in Nat
      BY <3>1, ClockWithinDays DEF DaySummary
    <3>3. summaries[<<u, d>>].written <= now /\ "day" \in Requests
      BY <1>0, <2>1 DEF DayTyped
    <3> QED
      BY <3>2, <3>3, ClockIsNat
  <2> QED
    BY <2>1
<1>4. DayTyped'
  <2>1. summaries' \in [Users \X Days' -> (DaySummary \cup {Null})']
    BY <1>0 DEF DayTyped, DaySummary
  <2>2. \A t \in Slots : work'[t] # Null /\ work'[t].op \in DayOps =>
          "day" \in Requests' /\ work'[t].day \in Days'
    BY <1>0, <1>1 DEF DayTyped
  <2> QED
    BY <1>0, <1>3, <2>1, <2>2 DEF DayTyped
<1>5. ASSUME Serialized, NoFault', StatusKept, NEW u \in Users, NEW d \in Days
      PROVE  Awaits(u, d)' \/ Agrees(u, d)'
  <2>1. CASE Awaits(u, d)
    <3>1. PICK t \in Slots : work[t] # Null /\ Refreshes(work[t], u, d)
      BY <2>1 DEF Awaits
    <3>2. work'[t] = work[t]
      BY <1>2, <3>1 DEF Refreshes, DayOps
    <3> QED
      BY <3>1, <3>2 DEF Awaits, Refreshes
  <2>2. CASE Agrees(u, d)
    <3>1. CASE summaries[<<u, d>>] = Null
      BY <3>1 DEF Agrees
    <3>2. CASE summaries[<<u, d>>] # Null
      <4>1. users'[u].active = users[u].active
        BY <1>0, <1>5, <3>2 DEF DayTyped, StatusStays
      <4> QED
        BY <2>2, <4>1 DEF Agrees
    <3> QED
      BY <3>1, <3>2
  <2>3. NoFault
    BY <1>5, NoFaultBefore
  <2> QED
    BY <1>5, <2>1, <2>2, <2>3 DEF HolidayInv
<1>6. ASSUME Serialized, NoFault', StatusKept, NEW t \in Slots, work'[t] # Null
      PROVE  ReadWell(work[t])'
  <2>1. CASE work'[t].op \in DayOps
    <3>1. work'[t] = work[t] /\ NoFault
      BY <1>1, <1>6, <2>1, NoFaultBefore
    <3>2. ReadWell(work[t])
      BY <1>6, <3>1 DEF HolidayInv
    <3> QED
      BY <3>1, <3>2 DEF ReadWell
  <2>2. CASE work'[t].op \notin DayOps
    BY <2>2 DEF ReadWell, DayOps
  <2> QED
    BY <2>1, <2>2
<1> QED
  BY <1>0, <1>4, <1>5, <1>6 DEF HolidayInv
-----------------------------------------------------------------------------
\* The steps of HolidayDesk: what they leave to the others.
DayEffect(s) ==
    /\ Moves(s, DayOps) /\ Onward /\ now' = now /\ users' = users

LEMMA DayRequestsAreHandlers ==
    /\ DayRequest \subseteq Handlers /\ SyncRequest \subseteq Handlers
    /\ Null \notin Handlers
BY HandlerAssumption DEF Handlers

LEMMA DayGoes ==
    ASSUME NEW s \in Slots, NEW h \in DayRequest \cup {Null}, Core,
           work[s] # Null, work[s].op \in DayOps, Becomes(s, h),
           FaultsFall, UNCHANGED <<now, users, scene, made, uploads>>
    PROVE  DayEffect(s) /\ work'[s] = h
<1>1. (h = Null \/ h.op \in DayOps) /\ h \in Handlers \cup {Null}
  BY DayRequestsAreHandlers DEF DayRequest, DayOps
<1>2. Moves(s, DayOps) /\ work'[s] = h
  BY <1>1, Becoming
<1> QED
  BY <1>2 DEF DayEffect, Onward, Core

LEMMA DayBegins ==
    ASSUME NEW s \in Slots, NEW h \in DayRequest \cup SyncRequest, Core,
           Begins(s, "day", h),
           UNCHANGED <<now, users, scene, made, faults, uploads>>
    PROVE  /\ DayEffect(s) /\ work'[s] = h /\ work[s] = Null
           /\ "day" \in Requests
           /\ Serialized => Idle
<1>1. h \in Handlers /\ h.op \in DayOps
  BY DayRequestsAreHandlers DEF DayRequest, SyncRequest, DayOps
<1>2. /\ Moves(s, DayOps) /\ work'[s] = h /\ work[s] = Null
      /\ "day" \in Requests
      /\ Serialized => Idle
  BY <1>1, Beginning
<1> QED
  BY <1>2 DEF DayEffect, Onward, Core, FaultsFall

\* A row is written, or none.
RowWritten ==
    \/ summaries' = summaries
    \/ \E u \in Users, d \in Days, b \in BOOLEAN :
         /\ summaries' = [summaries EXCEPT ![<<u, d>>] =
                            [holiday |-> b, written |-> now]]
         /\ "day" \in Requests

LEMMA DayTypedGoesOn ==
    ASSUME Core, DayTyped, NEW s \in Slots, Moves(s, DayOps), scene' = scene,
           now' = now, RowWritten,
           work'[s] # Null => "day" \in Requests /\ work'[s].day \in Days
    PROVE  DayTyped'
<1>0. Days' = Days /\ Requests' = Requests /\ now \in Days /\ now \in Nat
  BY DaysStay, ClockWithinDays, ClockIsNat
<1>1. \A t \in Slots : work'[t] # Null /\ work'[t].op \in DayOps =>
        "day" \in Requests' /\ work'[t].day \in Days'
  BY <1>0 DEF DayTyped, Moves
<1>2. CASE summaries' = summaries
  BY <1>0, <1>1, <1>2 DEF DayTyped, DaySummary
<1>3. ASSUME NEW u \in Users, NEW d \in Days, NEW b \in BOOLEAN,
             summaries' = [summaries EXCEPT ![<<u, d>>] =
                             [holiday |-> b, written |-> now]],
             "day" \in Requests
      PROVE  DayTyped'
  <2> DEFINE row == [holiday |-> b, written |-> now]
  <2>1. row \in DaySummary /\ row.written = now
    BY <1>0 DEF DaySummary
  <2>2. summaries' = [summaries EXCEPT ![<<u, d>>] = row]
    BY <1>3
  <2> HIDE DEF row
  <2>3. summaries \in [Users \X Days -> DaySummary \cup {Null}]
    BY DEF DayTyped
  <2>4. summaries' \in [Users \X Days -> DaySummary \cup {Null}]
    BY <2>1, <2>2, <2>3
  <2>5. \A v \in Users, e \in Days : summaries'[<<v, e>>] =
          IF <<v, e>> = <<u, d>> THEN row ELSE summaries[<<v, e>>]
    BY <2>2, <2>3
  <2>6. \A v \in Users, e \in Days : summaries'[<<v, e>>] # Null =>
          summaries'[<<v, e>>].written <= now /\ "day" \in Requests
    BY <1>0, <1>3, <2>1, <2>5 DEF DayTyped
  <2> QED
    BY <1>0, <1>1, <2>4, <2>6 DEF DayTyped, DaySummary
<1> QED
  BY <1>2, <1>3 DEF RowWritten

\* The handler of s goes on, and with it what waits for it.
LEMMA HolidaysGoOn ==
    ASSUME NEW s \in Slots, Core, HolidayInv, DayEffect(s), RowWritten,
           work'[s] # Null => "day" \in Requests /\ work'[s].day \in Days,
           Serialized /\ NoFault /\ StatusKept =>
             /\ work'[s] # Null => ReadWell(work[s])'
             /\ \A u \in Users, d \in Days :
                  \/ work'[s] # Null /\ Refreshes(work'[s], u, d)
                  \/ Agrees(u, d)'
    PROVE  HolidayInv'
<1>0. /\ scene' = scene /\ now' = now /\ FaultsFall /\ Moves(s, DayOps)
      /\ DayTyped
  BY DEF DayEffect, Onward, HolidayInv
<1>1. DayTyped'
  BY <1>0, DayTypedGoesOn
<1>2. ASSUME Serialized', NoFault', StatusKept
      PROVE  /\ \A u \in Users, d \in Days' : Awaits(u, d)' \/ Agrees(u, d)'
             /\ \A t \in Slots : work'[t] # Null => ReadWell(work[t])'
  <2>1. Serialized /\ NoFault /\ StatusKept /\ Days' = Days
    BY <1>0, <1>2, NoFaultBefore, DaysStay
  <2>2. \A t \in Slots \ {s} : work'[t] = Null
    BY <1>0, <2>1, OnlyOne
  <2>3. \A u \in Users, d \in Days :
          work'[s] # Null /\ Refreshes(work'[s], u, d) => Awaits(u, d)'
    BY DEF Awaits, Refreshes
  <2> QED
    BY <2>1, <2>2, <2>3
<1> QED
  BY <1>1, <1>2 DEF HolidayInv

\* Whose row may be wrong before a step of s.
LEMMA WrongBefore ==
    ASSUME NEW s \in Slots, NEW ops, Core, HolidayInv, Moves(s, ops),
           Serialized, NoFault, StatusKept
    PROVE  /\ \A u \in Users, d \in Days :
                Agrees(u, d) \/ (work[s] # Null /\ Refreshes(work[s], u, d))
           /\ work[s] # Null => ReadWell(work[s])
<1>1. \A t \in Slots \ {s} : work[t] = Null
  BY OnlyOne
<1> QED
  BY <1>1 DEF HolidayInv, Awaits

\* A row that nothing touches.
LEMMA RowStands ==
    ASSUME NEW u, NEW d, Agrees(u, d), users' = users, holidays' = holidays,
           summaries'[<<u, d>>] = summaries[<<u, d>>]
    PROVE  Agrees(u, d)'
BY DEF Agrees

LEMMA HolidayRequestTypes ==
    ASSUME NEW h \in DayRequest
    PROVE  /\ h.op = "holiday" /\ h.at \in {"list", "sync"}
           /\ h.day \in 0..MaxTime /\ h.left \in SUBSET Users
           /\ h.read \in [Users -> BOOLEAN \cup {Null}]
BY DEF DayRequest

LEMMA DayStepsKeepHolidays ==
    ASSUME NEW s \in Slots, Core, HolidayInv, DayStep(s), uploads' = uploads
    PROVE  DayEffect(s) /\ HolidayInv'
<1>0. /\ DayTyped /\ work \in [Slots -> Handlers \cup {Null}]
      /\ Null \notin Handlers
      /\ Staff \subseteq Users
  BY NullIsNoHandler, StaffAreUsers DEF HolidayInv, Core
<1>1. ASSUME NEW d \in Days, HolidayChanges(s, d)
      PROVE  DayEffect(s) /\ HolidayInv'
  <2> PICK h : h = [op |-> "holiday", at |-> "list", day |-> d,
                    left |-> {}, read |-> Nobody]
    OBVIOUS
  <2>1. /\ Begins(s, "day", h)
        /\ UNCHANGED <<now, users, made, scene, faults, summaries, uploads>>
        /\ \A e \in Days \ {d} : e \in holidays' <=> e \in holidays
    BY <1>1 DEF HolidayChanges, DayStays
  <2>2. h \in DayRequest
    <3>1. Nobody \in [Users -> BOOLEAN \cup {Null}] /\ d \in 0..MaxTime
      BY ClockWithinDays DEF Nobody
    <3> QED
      BY <3>1 DEF DayRequest
  <2>3. /\ DayEffect(s) /\ work'[s] = h /\ work[s] = Null
        /\ "day" \in Requests
    BY <2>1, <2>2, DayBegins
  <2>4. /\ h.op = "holiday" /\ h.at = "list" /\ h.day = d
        /\ \A u \in Users : h.read[u] = Null
    BY DEF Nobody
  <2>5. ASSUME Serialized, NoFault, StatusKept
        PROVE  /\ ReadWell(work[s])'
               /\ \A u \in Users, e \in Days :
                    \/ work'[s] # Null /\ Refreshes(work'[s], u, e)
                    \/ Agrees(u, e)'
    <3>1. ReadWell(work[s])'
      BY <2>3, <2>4 DEF ReadWell
    <3>2. work'[s] # Null
      BY <1>0, <2>2, <2>3, DayRequestsAreHandlers
    <3>3. \A u \in Users : Refreshes(work'[s], u, d)
      BY <2>3, <2>4 DEF Refreshes
    <3>4. \A u \in Users, e \in Days : Agrees(u, e)
      BY <2>3, <2>5, WrongBefore DEF DayEffect
    <3>5. \A u \in Users, e \in Days \ {d} : Agrees(u, e)'
      BY <2>1, <3>4 DEF Agrees
    <3> QED
      BY <3>1, <3>2, <3>3, <3>5
  <2> QED
    BY <2>1, <2>3, <2>4, <2>5, HolidaysGoOn DEF RowWritten
<1>2. ASSUME HolidayLists(s)
      PROVE  DayEffect(s) /\ HolidayInv'
  <2> PICK h : h = work[s]
    OBVIOUS
  <2> PICK left : left = ToSync(h.day)
    OBVIOUS
  <2>1. /\ work[s] # Null /\ h.op = "holiday" /\ h.at = "list" /\ FaultsFall
        /\ UNCHANGED <<now, users, made, scene, holidays, summaries, uploads>>
        /\ IF left = {} THEN Becomes(s, Null)
           ELSE Becomes(s, [h EXCEPT !.at = "sync", !.left = left])
    BY <1>2 DEF HolidayLists, Handling, DayStays, FaultsFall, Ends
  <2>2. h \in DayRequest
    BY <2>1, Requested
  <2>3. left \in SUBSET Users
    BY DEF ToSync
  <2> PICK next : next = IF left = {} THEN Null
                         ELSE [h EXCEPT !.at = "sync", !.left = left]
    OBVIOUS
  <2>4. next # Null => /\ next \in DayRequest /\ next.op = "holiday"
                       /\ next.at = "sync" /\ next.left = left
                       /\ next.day = h.day /\ next.read = h.read
    BY <2>2, <2>3 DEF DayRequest
  <2>5. Becomes(s, next) /\ next \in DayRequest \cup {Null}
    BY <2>1, <2>4
  <2>6. DayEffect(s) /\ work'[s] = next
    BY <2>1, <2>5, DayGoes DEF DayOps
  <2>7. "day" \in Requests /\ h.day \in Days
    BY <1>0, <2>1 DEF DayTyped, DayOps
  <2>8. ASSUME Serialized, NoFault, StatusKept
        PROVE  /\ work'[s] # Null => ReadWell(work[s])'
               /\ \A u \in Users, d \in Days :
                    \/ work'[s] # Null /\ Refreshes(work'[s], u, d)
                    \/ Agrees(u, d)'
    <3>1. /\ \A u \in Users, d \in Days : Agrees(u, d) \/ Refreshes(h, u, d)
          /\ ReadWell(h)
      BY <2>1, <2>6, <2>8, WrongBefore DEF DayEffect
    <3>2. \A u \in Users : h.read[u] = Null
      BY <2>1, <3>1 DEF ReadWell
    <3>3. work'[s] # Null => ReadWell(work[s])'
      BY <2>4, <2>6, <3>2 DEF ReadWell
    <3>4. ASSUME NEW u \in Users, NEW d \in Days, ~Agrees(u, d)
          PROVE  next # Null /\ Refreshes(next, u, d)
      <4>1. d = h.day
        BY <3>1, <3>4 DEF Refreshes
      <4>2. /\ users[u].active /\ summaries[<<u, d>>] # Null
            /\ summaries[<<u, d>>].written >= d
        BY <3>4 DEF Agrees
      <4>3. d <= now
        <5>1. summaries[<<u, d>>] \in DaySummary
          BY <1>0, <4>2 DEF DayTyped
        <5>2. summaries[<<u, d>>].written \in Nat /\ d \in Nat /\ now \in Nat
          BY <5>1, ClockWithinDays, ClockIsNat DEF DaySummary
        <5>3. summaries[<<u, d>>].written <= now
          BY <1>0, <4>2 DEF DayTyped
        <5> QED
          BY <4>2, <5>2, <5>3
      <4>4. u \in left
        BY <4>1, <4>2, <4>3 DEF ToSync
      <4>5. next \in DayRequest
        BY <2>2, <2>3, <4>4 DEF DayRequest
      <4>6. next # Null
        BY <1>0, <4>5, DayRequestsAreHandlers
      <4> QED
        BY <2>4, <4>1, <4>4, <4>6 DEF Refreshes
    <3>5. \A u \in Users, d \in Days : Agrees(u, d) => Agrees(u, d)'
      BY <2>1, RowStands
    <3> QED
      BY <2>6, <3>3, <3>4, <3>5
  <2> QED
    BY <2>1, <2>4, <2>6, <2>7, <2>8, HolidaysGoOn DEF RowWritten
<1>3. ASSUME NEW v \in Staff, HolidayReads(s, v)
      PROVE  DayEffect(s) /\ HolidayInv'
  <2> PICK h : h = work[s]
    OBVIOUS
  <2> PICK b : b = (h.day \in holidays)
    OBVIOUS
  <2> PICK next : next = [h EXCEPT !.read[v] = b]
    OBVIOUS
  <2>1. /\ work[s] # Null /\ h.op = "holiday" /\ h.at = "sync" /\ FaultsFall
        /\ UNCHANGED <<now, users, made, scene, holidays, summaries, uploads>>
        /\ Becomes(s, next)
    BY <1>3 DEF HolidayReads, Handling, DayStays, FaultsFall
  <2>2. h \in DayRequest /\ v \in Users
    BY <1>0, <2>1, Requested
  <2>3. b \in BOOLEAN
    OBVIOUS
  <2>4. /\ next \in DayRequest /\ next.op = "holiday" /\ next.at = "sync"
        /\ next.left = h.left /\ next.day = h.day
        /\ next.read = [h.read EXCEPT ![v] = b]
    BY <2>1, <2>2, <2>3 DEF DayRequest
  <2>5. DayEffect(s) /\ work'[s] = next
    BY <2>1, <2>4, DayGoes DEF DayOps
  <2>6. "day" \in Requests /\ h.day \in Days
    BY <1>0, <2>1 DEF DayTyped, DayOps
  <2>7. ASSUME Serialized, NoFault, StatusKept
        PROVE  /\ ReadWell(work[s])'
               /\ \A u \in Users, d \in Days :
                    \/ work'[s] # Null /\ Refreshes(work'[s], u, d)
                    \/ Agrees(u, d)'
    <3>1. /\ \A u \in Users, d \in Days : Agrees(u, d) \/ Refreshes(h, u, d)
          /\ ReadWell(h)
      BY <2>1, <2>5, <2>7, WrongBefore DEF DayEffect
    <3>2. \A u \in Users : next.read[u] = IF u = v THEN b ELSE h.read[u]
      BY <2>2, <2>4, HolidayRequestTypes
    <3>3. ReadWell(work[s])'
      BY <2>1, <2>4, <2>5, <3>1, <3>2 DEF ReadWell
    <3>4. \A u \in Users, d \in Days : Refreshes(h, u, d) => Refreshes(next, u, d)
      BY <2>1, <2>4 DEF Refreshes
    <3>5. \A u \in Users, d \in Days : Agrees(u, d) => Agrees(u, d)'
      BY <2>1, RowStands
    <3>6. next # Null
      BY <1>0, <2>4, DayRequestsAreHandlers
    <3> QED
      BY <2>5, <3>1, <3>3, <3>4, <3>5, <3>6
  <2> QED
    BY <2>1, <2>4, <2>5, <2>6, <2>7, HolidaysGoOn DEF RowWritten
<1>4. ASSUME NEW v \in Users, Handling(s, "holiday", "sync"), Rests(s, v),
             FaultsFall, UNCHANGED <<now, users, made, scene, uploads>>
      PROVE  /\ DayEffect(s)
             /\ \A u \in Users \ {v}, d \in Days :
                  Refreshes(work[s], u, d) =>
                    work'[s] # Null /\ Refreshes(work'[s], u, d)
             /\ work'[s] # Null =>
                  /\ work'[s].op = "holiday" /\ work'[s].at = "sync"
                  /\ work'[s].day = work[s].day /\ work'[s].read = work[s].read
  <2> PICK h : h = work[s]
    OBVIOUS
  <2> PICK left : left = h.left \ {v}
    OBVIOUS
  <2> PICK next : next = IF left = {} THEN Null ELSE [h EXCEPT !.left = left]
    OBVIOUS
  <2>1. /\ work[s] # Null /\ h.op = "holiday" /\ h.at = "sync"
        /\ Becomes(s, next)
    BY <1>4 DEF Handling, Rests, Ends
  <2>2. h \in DayRequest
    BY <2>1, Requested
  <2>3. left \in SUBSET Users
    BY <2>2, HolidayRequestTypes
  <2>4. left # {} => /\ next \in DayRequest /\ next.op = "holiday"
                     /\ next.at = "sync" /\ next.left = left
                     /\ next.day = h.day /\ next.read = h.read
    BY <2>1, <2>2, <2>3 DEF DayRequest
  <2>5. left # {} => next # Null
    BY <1>0, <2>4, DayRequestsAreHandlers
  <2>6. DayEffect(s) /\ work'[s] = next
    BY <1>4, <2>1, <2>4, DayGoes DEF DayOps
  <2>7. ASSUME NEW u \in Users \ {v}, NEW d \in Days, Refreshes(h, u, d)
        PROVE  next # Null /\ Refreshes(next, u, d)
    BY <2>1, <2>4, <2>5, <2>7 DEF Refreshes
  <2> QED
    BY <2>4, <2>6, <2>7
<1>5. ASSUME NEW v \in Staff, HolidayWrites(s, v)
      PROVE  DayEffect(s) /\ HolidayInv'
  <2> PICK h : h = work[s]
    OBVIOUS
  <2> PICK row : row = [holiday |-> h.read[v], written |-> now]
    OBVIOUS
  <2>1. /\ work[s] # Null /\ h.op = "holiday" /\ h.at = "sync" /\ FaultsFall
        /\ Handling(s, "holiday", "sync") /\ Rests(s, v) /\ h.read[v] # Null
        /\ UNCHANGED <<now, users, made, scene, holidays, uploads>>
        /\ summaries' = [summaries EXCEPT ![<<v, h.day>>] = row]
    BY <1>5 DEF HolidayWrites, Handling, DayStays, FaultsFall, Summarised
  <2>2. h \in DayRequest /\ v \in Users
    BY <1>0, <2>1, Requested
  <2>3. h.read[v] \in BOOLEAN
    BY <2>1, <2>2, HolidayRequestTypes
  <2>4. "day" \in Requests /\ h.day \in Days
    BY <1>0, <2>1 DEF DayTyped, DayOps
  <2>5. /\ DayEffect(s)
        /\ \A u \in Users \ {v}, d \in Days :
             Refreshes(h, u, d) => work'[s] # Null /\ Refreshes(work'[s], u, d)
        /\ work'[s] # Null =>
             /\ work'[s].op = "holiday" /\ work'[s].at = "sync"
             /\ work'[s].day = h.day /\ work'[s].read = h.read
    BY <1>4, <2>1, <2>2
  <2>6. RowWritten
    BY <2>1, <2>2, <2>3, <2>4 DEF RowWritten
  <2>7. \A u \in Users, d \in Days : summaries'[<<u, d>>] =
          IF u = v /\ d = h.day THEN row ELSE summaries[<<u, d>>]
    BY <1>0, <2>1, <2>2, <2>4 DEF DayTyped
  <2>8. ASSUME Serialized, NoFault, StatusKept
        PROVE  /\ work'[s] # Null => ReadWell(work[s])'
               /\ \A u \in Users, d \in Days :
                    \/ work'[s] # Null /\ Refreshes(work'[s], u, d)
                    \/ Agrees(u, d)'
    <3>1. /\ \A u \in Users, d \in Days : Agrees(u, d) \/ Refreshes(h, u, d)
          /\ ReadWell(h)
      BY <2>1, <2>5, <2>8, WrongBefore DEF DayEffect
    <3>2. h.read[v] = (h.day \in holidays)
      BY <2>1, <2>2, <3>1 DEF ReadWell
    <3>3. work'[s] # Null => ReadWell(work[s])'
      BY <2>1, <2>5, <3>1 DEF ReadWell
    <3>4. Agrees(v, h.day)'
      BY <2>1, <2>2, <2>4, <2>7, <3>2 DEF Agrees
    <3>5. ASSUME NEW u \in Users, NEW d \in Days, u # v \/ d # h.day
          PROVE  Agrees(u, d) => Agrees(u, d)'
      BY <2>1, <2>7, <3>5, RowStands
    <3>6. ASSUME NEW u \in Users, NEW d \in Days, ~(u = v /\ d = h.day),
                 Refreshes(h, u, d)
          PROVE  work'[s] # Null /\ Refreshes(work'[s], u, d)
      BY <2>5, <3>6 DEF Refreshes
    <3> QED
      BY <3>1, <3>3, <3>4, <3>5, <3>6
  <2> QED
    BY <2>4, <2>5, <2>6, <2>8, HolidaysGoOn
<1>6. ASSUME NEW v \in Staff, HolidaySkips(s, v)
      PROVE  DayEffect(s) /\ HolidayInv'
  <2>1. /\ Handling(s, "holiday", "sync") /\ Rests(s, v) /\ Fault
        /\ UNCHANGED <<now, users, made, scene, holidays, summaries, uploads>>
    BY <1>6 DEF HolidaySkips, DayStays
  <2>2. FaultsFall /\ v \in Users
    BY <1>0, <2>1 DEF FaultsFall
  <2>3. /\ DayEffect(s)
        /\ work'[s] # Null => work'[s].day = work[s].day
    BY <1>4, <2>1, <2>2
  <2>4. work[s] # Null /\ work[s].op \in DayOps
    BY <2>1 DEF Handling, DayOps
  <2>5. "day" \in Requests /\ work[s].day \in Days
    BY <1>0, <2>4 DEF DayTyped
  <2>6. ~NoFault'
    BY <2>1, <2>2, NoFaultBefore
  <2>7. DayTyped'
    BY <1>0, <2>1, <2>3, <2>5, DayTypedGoesOn DEF DayEffect, RowWritten
  <2> QED
    BY <2>3, <2>6, <2>7 DEF HolidayInv
<1>7. ASSUME NEW v \in Staff, NEW d \in Days, SyncStart(s, v, d)
      PROVE  DayEffect(s) /\ HolidayInv'
  <2> PICK b : b = (d \in holidays)
    OBVIOUS
  <2> PICK h : h = [op |-> "sync", at |-> "write", user |-> v, day |-> d,
                    read |-> b]
    OBVIOUS
  <2>1. /\ Begins(s, "day", h)
        /\ UNCHANGED <<now, users, made, scene, faults, holidays, summaries,
                       uploads>>
    BY <1>7 DEF SyncStart, DayStays
  <2>2. h \in SyncRequest
    <3>1. d \in 0..MaxTime /\ b \in BOOLEAN /\ v \in Users
      BY <1>0, ClockWithinDays
    <3> QED
      BY <3>1 DEF SyncRequest
  <2>3. /\ DayEffect(s) /\ work'[s] = h /\ work[s] = Null
        /\ "day" \in Requests
    BY <2>1, <2>2, DayBegins
  <2>4. h.op = "sync" /\ h.day = d /\ h.read = b
    OBVIOUS
  <2>5. ASSUME Serialized, NoFault, StatusKept
        PROVE  /\ ReadWell(work[s])'
               /\ \A u \in Users, e \in Days : Agrees(u, e)'
    <3>1. ReadWell(work[s])'
      BY <2>1, <2>3, <2>4 DEF ReadWell
    <3>2. \A u \in Users, e \in Days : Agrees(u, e)
      BY <2>3, <2>5, WrongBefore DEF DayEffect
    <3>3. \A u \in Users, e \in Days : Agrees(u, e)'
      BY <2>1, <3>2, RowStands
    <3> QED
      BY <3>1, <3>3
  <2> QED
    BY <2>1, <2>3, <2>4, <2>5, HolidaysGoOn DEF RowWritten
<1>8. ASSUME SyncWrite(s)
      PROVE  DayEffect(s) /\ HolidayInv'
  <2> PICK h : h = work[s]
    OBVIOUS
  <2> PICK row : row = [holiday |-> h.read, written |-> now]
    OBVIOUS
  <2>1. /\ work[s] # Null /\ h.op = "sync" /\ FaultsFall /\ Becomes(s, Null)
        /\ UNCHANGED <<now, users, made, scene, holidays, uploads>>
        /\ summaries' = [summaries EXCEPT ![<<h.user, h.day>>] = row]
    BY <1>8 DEF SyncWrite, Handling, DayStays, FaultsFall, Summarised, Ends
  <2>2. h \in SyncRequest
    BY <2>1, Requested
  <2>3. h.user \in Users /\ h.read \in BOOLEAN
    BY <2>2 DEF SyncRequest
  <2>4. "day" \in Requests /\ h.day \in Days
    BY <1>0, <2>1 DEF DayTyped, DayOps
  <2>5. DayEffect(s) /\ work'[s] = Null
    BY <2>1, DayGoes DEF DayOps
  <2>6. RowWritten
    BY <2>1, <2>3, <2>4 DEF RowWritten
  <2>7. \A u \in Users, d \in Days : summaries'[<<u, d>>] =
          IF u = h.user /\ d = h.day THEN row ELSE summaries[<<u, d>>]
    BY <1>0, <2>1, <2>3, <2>4 DEF DayTyped
  <2>8. ASSUME Serialized, NoFault, StatusKept
        PROVE  \A u \in Users, d \in Days : Agrees(u, d)'
    <3>1. \A u \in Users, d \in Days : Agrees(u, d)
      BY <2>1, <2>5, <2>8, WrongBefore DEF DayEffect, Refreshes
    <3>2. h.read = (h.day \in holidays)
      BY <2>1, <2>5, <2>8, WrongBefore DEF DayEffect, ReadWell
    <3>3. ASSUME NEW u \in Users, NEW d \in Days, u = h.user /\ d = h.day
          PROVE  Agrees(u, d)'
      BY <2>1, <2>7, <3>2, <3>3 DEF Agrees
    <3>4. ASSUME NEW u \in Users, NEW d \in Days, ~(u = h.user /\ d = h.day)
          PROVE  Agrees(u, d)'
      BY <2>1, <2>7, <3>1, <3>4, RowStands
    <3> QED
      BY <3>3, <3>4
  <2> QED
    BY <2>5, <2>6, <2>8, HolidaysGoOn
<1> QED
  BY <1>1, <1>2, <1>3, <1>5, <1>6, <1>7, <1>8 DEF DayStep, DayProceeds
-----------------------------------------------------------------------------
\* At the start nothing is handled, nobody has a PIN or a face.
LEMMA InvAtStart ==
    ASSUME Init
    PROVE  AftermathInv
<1> USE DEF Init
<1>1. Core
  <2>1. /\ Scenes[scene].time \in 0..MaxTime /\ Scenes[scene].faults \in Nat
        /\ MaxTime \in Nat /\ MaxRecords \in Nat
        /\ scene \in DOMAIN Scenes
    BY EvidenceAssumption DEF EvidenceInit
  <2>2. now \in Days /\ faults \in 0..Scenes[scene].faults
    BY <2>1 DEF EvidenceInit, Days
  <2>3. users \in [Users -> User]
    <3>1. \A u \in Users : users[u] \in [active : BOOLEAN, pin : {Null},
                                         face : {Null}]
      BY DEF EvidenceInit
    <3>2. \A r \in [active : BOOLEAN, pin : {Null}, face : {Null}] : r \in User
      BY DEF User
    <3>3. users = [u \in Users |-> users[u]]
      BY DEF EvidenceInit
    <3> QED
      BY <3>1, <3>2, <3>3
  <2>4. made \in 0..MaxRecords /\ uploads \in Nat
    BY <2>1 DEF PhotoInit
  <2>5. work \in [Slots -> Handlers \cup {Null}] /\ OneAtATime
    BY DEF EvidenceInit, OneAtATime
  <2> QED
    BY <2>1, <2>2, <2>3, <2>4, <2>5 DEF Core
<1>2. (\A s \in Slots : work[s] = Null) /\ now \in Nat
  BY DEF EvidenceInit
<1>3. \A u \in Users : users[u].pin = Null /\ users[u].face = Null
  BY DEF EvidenceInit
<1>4. PinInv
  BY <1>2, <1>3 DEF PinInv
<1>5. LockInv
  <2>1. LockTyped
    BY FS_EmptySet DEF PinInit, LockTyped, Attempt, NoAttempt
  <2>2. ASSUME NEW t \in Terminals
        PROVE  Counted(t) /\ ~Searching(t)
    <3>1. Recent(t) = {} /\ attempts[t] = NoAttempt
      BY <2>2 DEF PinInit, Recent
    <3>2. Cardinality(Recent(t)) = 0
      BY <3>1, FS_EmptySet
    <3>3. MaxFailed \in Nat \ {0}
      BY PinAssumption
    <3> QED
      BY <1>2, <3>1, <3>2, <3>3 DEF Counted, NoAttempt, Searching, Handling
  <2> QED
    BY <2>1, <2>2 DEF LockInv
<1>6. FaceInv
  <2>1. FaceTyped /\ PageInv
    BY DEF FaceInit, FaceTyped, PageInv
  <2>2. EnrolInv
    BY <1>2, <1>3 DEF FaceInit, EnrolInv, Whole
  <2> QED
    BY <2>1, <2>2 DEF FaceInv
<1>7. HolidayInv
  <2>1. \A u \in Users, d \in Days : summaries[<<u, d>>] = Null
    BY DEF DayInit
  <2>2. DayTyped
    BY <1>2, <2>1 DEF DayTyped, DayInit
  <2> QED
    BY <1>2, <2>1, <2>2 DEF HolidayInv, Agrees
<1> QED
  BY <1>1, <1>4, <1>5, <1>6, <1>7 DEF AftermathInv

\* Faces and samples are not touched.
LEMMA FacesStand ==
    ASSUME Core, FaceInv, UNCHANGED <<samples, captured, page>>,
           scene' = scene, FaultsFall, FacesStay,
           SameHandling({"enrol", "reset"})
    PROVE  FaceInv'
<1>1. EnrolInv'
  BY EnrolmentsStand DEF FaceInv
<1>2. FaceTyped' /\ PageInv'
  BY DEF FaceInv, FaceTyped, PageInv, Serialized
<1> QED
  BY <1>1, <1>2 DEF FaceInv

\* Nothing is handled any more after a restart.
LEMMA InvAfterRestart ==
    ASSUME Core, PinInv, LockInv, FaceInv, DayTyped, Restarts
    PROVE  Core' /\ PinInv' /\ LockInv' /\ FaceInv' /\ HolidayInv'
<1>1. /\ Fault /\ \A s \in Slots : work'[s] = Null
      /\ work' \in [Slots -> Handlers \cup {Null}]
      /\ UNCHANGED <<now, users, made, scene, samples, captured, uploads,
                     holidays, summaries>>
      /\ attempts' = [t \in Terminals |-> NoAttempt]
      /\ misses' = [t \in Terminals |-> {}]
      /\ page' = IF page = Null THEN Null ELSE [page EXCEPT !.saving = Null]
  BY DEF Restarts, dayVars
<1>2. Onward /\ FaultsFall
  BY <1>1 DEF Onward, FaultsFall, Core
<1>3. ~NoFault'
  BY <1>1, <1>2, NoFaultBefore
<1>4. Core'
  <2>1. Scenes[scene].faults \in Nat
    BY EvidenceAssumption DEF Core
  <2>2. faults' \in 0..Scenes[scene].faults
    BY <1>1, <2>1 DEF Fault, Core
  <2>3. OneAtATime'
    BY <1>1 DEF OneAtATime
  <2> QED
    BY <1>1, <2>2, <2>3 DEF Core, Days
<1>5. PinInv'
  BY <1>1 DEF PinInv, Serialized
<1>6. LockInv'
  <2>1. LockTyped'
    BY <1>1, FS_EmptySet DEF LockTyped, Attempt, NoAttempt
  <2>2. ASSUME NEW t \in Terminals
        PROVE  Counted(t)' /\ ~Searching(t)'
    <3>1. Recent(t)' = {} /\ attempts'[t] = NoAttempt
      BY <1>1, <2>2 DEF Recent
    <3>2. Cardinality(Recent(t)') = 0
      BY <3>1, FS_EmptySet
    <3>3. MaxFailed \in Nat \ {0} /\ now' \in Nat
      BY <1>1, PinAssumption, ClockIsNat
    <3> QED
      BY <1>1, <3>1, <3>2, <3>3 DEF Counted, NoAttempt, Searching, Handling
  <2> QED
    BY <2>1, <2>2 DEF LockInv
<1>7. FaceInv'
  <2>1. FaceTyped' /\ PageInv'
    <3>1. CASE page = Null
      BY <1>1, <3>1 DEF FaceInv, FaceTyped, PageInv
    <3>2. CASE page # Null
      <4> PICK p : p = page
        OBVIOUS
      <4>1. p \in Page /\ page' = [p EXCEPT !.saving = Null]
        BY <1>1, <3>2 DEF FaceInv, FaceTyped
      <4>2. /\ page' \in Page /\ page'.saving = Null
            /\ page'.got = p.got /\ page'.frame = p.frame
        BY <4>1, PageKeepsCaptures
      <4> QED
        BY <1>1, <3>2, <4>2 DEF FaceInv, FaceTyped, PageInv, Serialized
    <3> QED
      BY <3>1, <3>2
  <2>2. EnrolInv'
    BY <1>3 DEF EnrolInv
  <2> QED
    BY <2>1, <2>2 DEF FaceInv
<1>8. HolidayInv'
  <2>1. DayTyped'
    BY <1>1 DEF DayTyped, DaySummary, Days, Requests
  <2> QED
    BY <1>3, <2>1 DEF HolidayInv
<1> QED
  BY <1>4, <1>5, <1>6, <1>7, <1>8

LEMMA TimeGoesOn ==
    ASSUME Core, TimePasses
    PROVE  Core' /\ FaultsFall /\ scene' = scene
<1>1. /\ now < Scenes[scene].time /\ now' = now + 1
      /\ UNCHANGED <<users, made, work, faults, scene, uploads>>
  BY DEF TimePasses, Tick, photoVars
<1>2. Scenes[scene].time \in Nat /\ now \in Nat
  BY EvidenceAssumption, ClockIsNat DEF Core
<1>3. OneAtATime'
  BY <1>1 DEF Core, OneAtATime, Serialized
<1> QED
  BY <1>1, <1>2, <1>3 DEF Core, FaultsFall, Days

\* Every step keeps what is said of the PINs, the locks and the faces.
LEMMA InvSteps ==
    ASSUME AftermathInv, [Next]_vars
    PROVE  AftermathInv'
<1>0. Core /\ PinInv /\ LockInv /\ LockTyped /\ FaceInv /\ FaceTyped
        /\ PageInv /\ EnrolInv /\ HolidayInv /\ DayTyped
  BY DEF AftermathInv, LockInv, FaceInv, HolidayInv
<1>1. ASSUME NEW s \in Slots, PinNext(s)
      PROVE  AftermathInv'
  <2>1. /\ PinStep(s) /\ uploads' = uploads
        /\ UNCHANGED <<samples, captured, page, holidays, summaries>>
    BY <1>1 DEF PinNext, faceVars, photoVars, dayVars
  <2>2. PinEffect(s)
    BY <1>0, <2>1, PinEffects
  <2>3. SameHandling({"enrol", "reset"}) /\ SameHandling(DayOps)
    BY <2>2, OthersStay DEF PinEffect, PinOps, DayOps
  <2>4. FaceInv'
    BY <1>0, <2>1, <2>2, <2>3, FacesStand DEF PinEffect, Onward
  <2>5. Core' /\ PinInv' /\ LockInv'
    BY <1>0, <2>1, <2>2, CoreMoves, PinStepsKeepOwners, PinStepsKeepLocks
       DEF PinEffect
  <2>6. StatusKept /\ "day" \in Requests => StatusStays
    BY <1>0, <2>2 DEF StatusKept, Requests, Core, PinEffect
  <2>7. HolidayInv'
    BY <1>0, <2>1, <2>2, <2>3, <2>6, HolidaysStand DEF PinEffect, Onward
  <2> QED
    BY <2>4, <2>5, <2>7 DEF AftermathInv
<1>2. ASSUME NEW s \in Slots, FaceNext(s)
      PROVE  AftermathInv'
  <2>1. FaceStep(s) /\ uploads' = uploads
          /\ UNCHANGED <<attempts, misses, holidays, summaries>>
    BY <1>2 DEF FaceNext, pinVars, photoVars, dayVars
  <2>2. FaceEffect(s)
    BY <1>0, <2>1, FaceEffects
  <2>3. SameHandling(PinOps) /\ SameHandling(DayOps)
    BY <2>2, OthersStay DEF FaceEffect, PinOps, FaceOps, DayOps
  <2>4. PinInv' /\ LockInv'
    BY <1>0, <2>1, <2>2, <2>3, PinsStand, LocksStand DEF FaceEffect, Onward
  <2>5. FaceInv'
    BY <1>0, <2>1, <2>2, FaceStepsKeepPage, FaceStepsKeepEnrolments
       DEF FaceInv, FaceEffect, Onward
  <2>6. Core'
    BY <1>0, <2>2, CoreMoves DEF FaceEffect
  <2>7. HolidayInv'
    BY <1>0, <2>1, <2>2, <2>3, HolidaysStand DEF FaceEffect, Onward
  <2> QED
    BY <2>4, <2>5, <2>6, <2>7 DEF AftermathInv
<1>3. ASSUME NEW s \in Slots, NEW ops, Moves(s, ops), Onward, now' = now,
             users' = users, ops \cap (PinOps \cup {"enrol", "reset"}) = {},
             UNCHANGED <<attempts, misses, samples, captured, page>>
      PROVE  Core' /\ PinInv' /\ LockInv' /\ FaceInv'
  <2>1. SameHandling(PinOps) /\ SameHandling({"enrol", "reset"})
    BY <1>3, OthersStay
  <2>2. PinsStay /\ FacesStay
    BY <1>0, <1>3, UsersStay
  <2>3. PinInv' /\ LockInv' /\ FaceInv'
    BY <1>0, <1>3, <2>1, <2>2, PinsStand, LocksStand, FacesStand DEF Onward
  <2>4. Core'
    BY <1>0, <1>3, CoreMoves
  <2> QED
    BY <2>3, <2>4
<1>4. ASSUME NEW s \in Slots, PhotoNext(s)
      PROVE  AftermathInv'
  <2>1. PhotoEffect(s)
    BY <1>0, <1>4, PhotoEffects DEF PhotoNext
  <2>2. Core' /\ PinInv' /\ LockInv' /\ FaceInv'
    BY <1>3, <1>4, <2>1 DEF PhotoEffect, PhotoNext, pinVars, faceVars,
       PhotoOps, PinOps
  <2>3. SameHandling(DayOps) /\ StatusStays
    BY <1>0, <2>1, OthersStay, UsersStay DEF PhotoEffect, PhotoOps, DayOps
  <2>4. HolidayInv'
    BY <1>0, <1>4, <2>1, <2>3, HolidaysStand DEF PhotoEffect, Onward,
       PhotoNext, dayVars
  <2> QED
    BY <2>2, <2>4 DEF AftermathInv
<1>5. ASSUME NEW s \in Slots, DayNext(s)
      PROVE  AftermathInv'
  <2>1. DayEffect(s) /\ HolidayInv'
    BY <1>0, <1>5, DayStepsKeepHolidays DEF DayNext, photoVars
  <2>2. Core' /\ PinInv' /\ LockInv' /\ FaceInv'
    BY <1>3, <1>5, <2>1 DEF DayEffect, DayNext, pinVars, faceVars, DayOps,
       PinOps
  <2> QED
    BY <2>1, <2>2 DEF AftermathInv
<1>6. ASSUME UNCHANGED <<now, users, work, attempts, misses, holidays,
                         summaries>>, Onward
      PROVE  /\ Core' /\ PinInv' /\ LockInv' /\ HolidayInv'
             /\ SameHandling({"enrol", "reset"}) /\ FacesStay
  <2>1. /\ SameHandling(PinOps) /\ SameHandling({"enrol", "reset"})
        /\ SameHandling(DayOps)
    BY <1>6 DEF SameHandling
  <2>2. PinsStay /\ FacesStay /\ StatusStays
    BY <1>0, <1>6, UsersStay
  <2>3. HolidayInv'
    BY <1>0, <1>6, <2>1, <2>2, HolidaysStand DEF Onward
  <2> QED
    BY <1>0, <1>6, <2>1, <2>2, <2>3, PinsStand, LocksStand, CoreStays DEF Onward
<1>7. ASSUME StaysBehind,
             UNCHANGED <<attempts, misses, samples, captured, page, holidays,
                         summaries>>
      PROVE  AftermathInv'
  <2>1. /\ Core' /\ PinInv' /\ LockInv' /\ HolidayInv'
        /\ SameHandling({"enrol", "reset"}) /\ FacesStay
    BY <1>6, <1>7 DEF StaysBehind
  <2>2. FaceInv'
    BY <1>0, <1>7, <2>1, FacesStand DEF StaysBehind, Onward
  <2> QED
    BY <2>1, <2>2 DEF AftermathInv
<1>8. ASSUME NEW i \in Ids, MailNext(i)
      PROVE  AftermathInv'
  <2>1. StaysBehind
    BY <1>0, <1>8, MailEffects DEF MailNext, photoVars
  <2> QED
    BY <1>7, <1>8, <2>1 DEF MailNext, pinVars, faceVars, dayVars
<1>9. CASE SweepNow
  <2>1. StaysBehind
    BY <1>0, <1>9, SweepEffects DEF SweepNow
  <2> QED
    BY <1>7, <1>9, <2>1 DEF SweepNow, pinVars, faceVars, dayVars
<1>10. CASE PageNext
  <2>1. PageStep /\ UNCHANGED <<attempts, misses, uploads, holidays, summaries>>
    BY <1>10 DEF PageNext, pinVars, photoVars, dayVars
  <2>2. UNCHANGED <<now, users, made, faults, scene, samples, work>>
    BY <2>1, PageSteps
  <2>3. Onward
    BY <1>0, <2>1, <2>2 DEF Onward, FaultsFall, Core
  <2>4. /\ Core' /\ PinInv' /\ LockInv' /\ HolidayInv'
        /\ SameHandling({"enrol", "reset"}) /\ FacesStay
    BY <1>6, <2>1, <2>2, <2>3
  <2>5. FaceTyped' /\ PageInv'
    BY <1>0, <2>1, PageStepsKeepPage
  <2>6. EnrolInv'
    BY <1>0, <2>2, <2>3, <2>4, EnrolmentsStand DEF Onward
  <2> QED
    BY <2>4, <2>5, <2>6 DEF AftermathInv, FaceInv
<1>11. CASE TimePasses
  <2>1. /\ now' = now + 1
        /\ UNCHANGED <<users, work, attempts, misses, samples, captured, page,
                       holidays, summaries>>
    BY <1>11 DEF TimePasses, Tick, pinVars, faceVars, dayVars
  <2>2. Core' /\ FaultsFall /\ scene' = scene
    BY <1>0, <1>11, TimeGoesOn
  <2>3. /\ SameHandling(PinOps) /\ SameHandling({"enrol", "reset"})
        /\ SameHandling(DayOps)
    BY <2>1 DEF SameHandling
  <2>4. PinsStay /\ FacesStay /\ StatusStays
    BY <1>0, <2>1, UsersStay
  <2>5. PinInv' /\ LockInv' /\ FaceInv'
    BY <1>0, <2>1, <2>2, <2>3, <2>4, PinsStand, LocksTick, FacesStand
  <2>6. HolidayInv'
    BY <1>0, <2>1, <2>2, <2>3, <2>4, HolidaysStand
  <2> QED
    BY <2>2, <2>5, <2>6 DEF AftermathInv
<1>12. CASE Restarts
  BY <1>0, <1>12, InvAfterRestart DEF AftermathInv
<1>13. CASE UNCHANGED vars
  <2>1. UNCHANGED <<now, users, made, faults, scene, work, attempts, misses,
                    samples, captured, page, uploads, holidays, summaries>>
    BY <1>13 DEF vars, pinVars, faceVars, photoVars, dayVars
  <2>2. StaysBehind
    BY <1>0, <2>1 DEF StaysBehind, Onward, FaultsFall, Core
  <2> QED
    BY <1>7, <2>1, <2>2
<1> QED
  BY <1>1, <1>2, <1>4, <1>5, <1>8, <1>9, <1>10, <1>11, <1>12, <1>13 DEF Next
-----------------------------------------------------------------------------
LEMMA InvAlways == Spec => []AftermathInv
BY InvAtStart, InvSteps, PTL DEF Spec

\* A marking by PIN goes to the only user who has that PIN, however requests
\* to mark, editions of PINs and changes of status follow one another
\* (findUserWithSamePin, registerRecordByPin).
THEOREM PinsMarkTheirOwner == Spec => []PinMarksItsOwner
<1>1. ASSUME AftermathInv
      PROVE  PinMarksItsOwner
  <2> SUFFICES ASSUME Serialized, NEW s \in Slots, Handling(s, "pin", "mark")
               PROVE  {u \in Users : users[u].pin = work[s].pin}
                        = {work[s].found}
    BY DEF PinMarksItsOwner
  <2>1. work[s] # Null /\ work[s].op = "pin" /\ work[s].at = "mark"
    BY DEF Handling
  <2>2. work[s].pin \in Pins /\ Null \notin Pins
    BY <1>1, <2>1, Requested, EvidenceAssumption DEF AftermathInv, PinRequest
  <2>3. work[s].found \in Users /\ users[work[s].found].pin = work[s].pin
    BY <1>1, <2>1 DEF AftermathInv, PinInv
  <2>4. \A u \in Users : users[u].pin = work[s].pin => u = work[s].found
    BY <1>1, <2>2, <2>3 DEF AftermathInv, PinInv
  <2> QED
    BY <2>3, <2>4
<1> QED
  BY <1>1, InvAlways, PTL

\* A terminal never fails more than PIN_MAX_FAILED_ATTEMPTS times within the
\* window (registerPinFailure, getPinAttemptState): as many failures lock it
\* until all of them are too old to count.
THEOREM FailuresAlwaysLock == Spec => []FailuresLock
<1>1. ASSUME AftermathInv
      PROVE  FailuresLock
  <2> SUFFICES ASSUME Serialized, NEW t \in Terminals
               PROVE  Cardinality(Recent(t)) <= MaxFailed
    BY DEF FailuresLock
  <2>1. LockTyped /\ Counted(t)
    BY <1>1 DEF AftermathInv, LockInv
  <2>2. Cardinality(Recent(t)) \in Nat /\ attempts[t].failed \in Nat
          /\ MaxFailed \in Nat
    BY <2>1, RecentIsFinite, PinAssumption DEF LockTyped, Attempt
  <2> QED
    BY <2>1, <2>2 DEF Counted
<1> QED
  BY <1>1, InvAlways, PTL

\* When no enrolment or reset is on its way, the average descriptor of each
\* user is that of all their samples, whichever enrolments replaced or added
\* to which; and what the guided page saves has each of its positions
\* (registerFace, FaceRegistrationModal).
THEOREM EnrolmentsWhole == Spec => []EnrolmentWhole
<1>1. ASSUME AftermathInv, Serialized, NoFault, Idle, NEW u \in Users
      PROVE  users[u].face = (IF samples[u] = {} THEN Null ELSE samples[u])
  BY <1>1 DEF AftermathInv, FaceInv, EnrolInv, Idle, Untouched, Whole
<1>2. ASSUME AftermathInv, Serialized, page # Null, page.saving # Null,
             NEW p \in 1..Positions
      PROVE  \E i \in DOMAIN page.got : page.got[i].position = p
  <2>1. page \in Page /\ PageInv
    BY <1>2 DEF AftermathInv, FaceInv, FaceTyped
  <2>2. page.got \in Seq(Capture) /\ Len(page.got) = Positions
    BY <1>2, <2>1, PageTypes DEF PageInv
  <2>3. p \in DOMAIN page.got /\ page.got[p].position = p
    BY <1>2, <2>1, <2>2 DEF PageInv
  <2> QED
    BY <2>3
<1>3. AftermathInv => EnrolmentWhole
  BY <1>1, <1>2 DEF EnrolmentWhole
<1> QED
  BY <1>3, InvAlways, PTL

\* Where nobody is made inactive or active again, the rows of a day agree
\* with the holidays once a creation or a deletion is done with its day
\* (createHoliday, deleteHoliday, syncHolidayDate). An inactive user's rows
\* wait for the next marking, so that one who comes back may have an old one.
THEOREM HolidaysReach == StatusKept /\ Spec => []HolidaysReachSummaries
<1> SUFFICES ASSUME StatusKept
             PROVE  Spec => []HolidaysReachSummaries
  OBVIOUS
<1>1. ASSUME AftermathInv
      PROVE  HolidaysReachSummaries
  <2> SUFFICES ASSUME Serialized, NoFault, Idle, NEW u \in Users,
                      NEW d \in 0..now
               PROVE  Agrees(u, d)
    BY DEF HolidaysReachSummaries, Agrees
  <2>1. d \in Days
    BY <1>1, EvidenceAssumption DEF AftermathInv, Core, Days
  <2>2. ~Awaits(u, d)
    BY DEF Awaits, Idle
  <2> QED
    BY <1>1, <2>1, <2>2 DEF AftermathInv, HolidayInv
<1> QED
  BY <1>1, InvAlways, PTL
-----------------------------------------------------------------------------
(***************************************************************************)
(* The photos. A photo is one handler's, and of one marking; the evidence  *)
(* of a marking keeps its row (the row refers to nothing that could take   *)
(* it back); and the sweep knows what it found only as far as the handlers *)
(* let it.                                                                 *)
(***************************************************************************)
Taking(s) == work[s] # Null /\ work[s].op = "photo"

Of(i, p) == records[i] # Null /\ records[i].photo = p

\* What the sweep may clear is of a marking that was made before it looked.
PhotoTyped ==
    /\ records \in [Ids -> Record \cup {Null}]
    /\ evidence \in [Ids -> Proof \cup {Null}]
    /\ files \subseteq 1..uploads
    /\ sweep \in Sweep \cup {Null}
    /\ \A i \in Ids : /\ evidence[i] # Null => records[i] # Null
                      /\ records[i] # Null => i <= made
    /\ \A i \in Ids : records[i] # Null =>
         records[i].photo \in (1..uploads) \cup {Null}
    /\ \A i, j \in Ids, p \in 1..uploads : Of(i, p) /\ Of(j, p) => i = j

\* Before its marking is in, a handler's photo is of none; then of that one.
Owns(h) ==
    /\ h.photo \in 1..uploads
    /\ h.record = Null => /\ h.at \in {"check", "insert", "discard"}
                          /\ \A i \in Ids : ~Of(i, h.photo)
    /\ h.record # Null => /\ h.at \in {"prove", "undo", "discard", "mail",
                                       "mailing"}
                          /\ h.record \in Ids /\ h.record <= made
                          /\ \A i \in Ids : Of(i, h.photo) => i = h.record

\* The handler that is refused or fails takes its marking back, unless two
\* queries failed or the sweep has made its evidence.
Stage(h) ==
    /\ h.at \in {"check", "insert"} => h.photo \in files
    /\ h.at = "insert" => h.expires - Retention \in Days
    /\ h.at = "prove" /\ evidence[h.record] = Null
         => Of(h.record, h.photo) /\ h.photo \in files
    /\ h.at = "mail" => /\ evidence[h.record] # Null
                        /\ evidence[h.record].expires = h.expires
                        /\ Shown(h.record) \/ h.expires <= now
    /\ Serialized =>
         /\ sweep = Null
         /\ h.at \in {"prove", "undo"} => evidence[h.record] = Null
         /\ h.at = "undo" => faults < Scenes[scene].faults
         /\ h.at = "discard" /\ faults + 1 >= Scenes[scene].faults
              => \A i \in Ids : ~Of(i, h.photo)

PhotoHandlers ==
    /\ \A s \in Slots : Taking(s) => Owns(work[s]) /\ Stage(work[s])
    /\ \A s, t \in Slots : Taking(s) /\ Taking(t) /\ s # t =>
         /\ work[s].photo # work[t].photo
         /\ work[s].record # Null => work[s].record # work[t].record

\* A marking that has got its evidence since the sweep looked got it from its
\* own handler, which is past throwing the photo away.
Fillable(i) ==
    /\ i <= made
    /\ Shown(i) =>
         /\ records[i].photo \in files
         /\ \A s \in Slots : Taking(s) /\ work[s].photo = records[i].photo
                               => work[s].at \in {"mail", "mailing"}

SweepKnows ==
    sweep # Null =>
      /\ sweep.at = "fill" => \A i \in sweep.todo : Fillable(i)
      /\ sweep.at \in {"unlink", "row", "data"} =>
           /\ sweep.todo # {}
           /\ \A i \in sweep.todo : Expired(i)
      /\ sweep.at \in {"row", "data"} => records[First].photo \notin files
      /\ sweep.at = "data" => records[First].photo = Null

PhotoInv == PhotoTyped /\ PhotoHandlers /\ SweepKnows

\* A refusal that waits for its second row has the first, or a query failed.
MailInv ==
    /\ mails \in [Ids -> Phases \cup {Null}]
    /\ \A i \in Ids : mails[i] = "unnoted" =>
         <<i, "failed">> \in logs \/ faults < Scenes[scene].faults
-----------------------------------------------------------------------------
\* A PIN that is about to be marked has its owner.
Owned ==
    \A s \in Slots : work[s] # Null /\ work[s].op = "pin" /\ work[s].at = "mark"
      => work[s].found \in Users

\* What the steps of the others do to the markings and to their e-mails.
MarksOnly ==
    \/ UNCHANGED <<records, made>>
    \/ \E row \in Record : row.photo = Null /\ Inserted(row)

MailsWait == mails' = mails \/ \E x : mails' = [mails EXCEPT ![x] = "due"]

LEMMA NullIsNoRow == Null \notin Record /\ Null \notin Proof
BY HandlerAssumption

LEMMA NowIsInTime == ASSUME Core PROVE now \in 0..MaxTime
<1>1. Scenes[scene].time \in 0..MaxTime /\ MaxTime \in Nat
  BY EvidenceAssumption DEF Core
<1>2. QED
  BY <1>1 DEF Core, Days

LEMMA PinStepsMark ==
    ASSUME NEW s \in Slots, Core, Owned, PinStep(s)
    PROVE  MarksOnly /\ MailsWait
<1>1. CASE PinMark(s)
  <2> DEFINE row == [user |-> work[s].found, method |-> "pin", photo |-> Null,
                     at |-> now]
  <2>1. work[s].found \in Users
    BY <1>1 DEF Owned, PinMark, Handling
  <2>2. row \in Record /\ row.photo = Null
    BY <2>1, NowIsInTime DEF Record
  <2> HIDE DEF row
  <2>3. Inserted(row) /\ mails' = mails
    BY <1>1 DEF PinMark, row
  <2>4. QED
    BY <2>2, <2>3 DEF MarksOnly, MailsWait
<1>2. CASE PinMail(s)
  BY <1>2 DEF PinMail, Notifies, MarksOnly, MailsWait
<1>3. CASE \/ PinSearch(s) \/ PinMiss(s) \/ PinMatch(s) \/ PinEditSave(s)
           \/ PinRefused(s) \/ PinFails(s)
           \/ \E t \in Terminals, pin \in Pins : PinArrives(s, t, pin)
           \/ \E u \in Staff : \/ SetStatus(s, u)
                               \/ \E pin \in Pins \cup {Null} :
                                    PinEditStart(s, u, pin)
  BY <1>3 DEF PinSearch, PinMiss, PinMatch, PinEditSave, PinRefused, PinFails,
              PinArrives, SetStatus, PinEditStart, MarksOnly, MailsWait
<1>4. QED
  BY <1>1, <1>2, <1>3 DEF PinStep, PinProceeds

LEMMA FaceStepsMark ==
    ASSUME NEW s \in Slots, Core, FaceStep(s)
    PROVE  MarksOnly /\ MailsWait
<1>1. CASE FaceMark(s)
  <2> DEFINE row == [user |-> work[s].user, method |-> "facial",
                     photo |-> Null, at |-> now]
  <2>1. work[s].user \in Users
    <3>1. work[s] # Null /\ work[s].op = "face"
      BY <1>1 DEF FaceMark, Handling
    <3>2. work[s] \in FaceRequest
      BY <3>1, Requested
    <3>3. QED
      BY <3>2 DEF FaceRequest
  <2>2. row \in Record /\ row.photo = Null
    BY <2>1, NowIsInTime DEF Record
  <2> HIDE DEF row
  <2>3. Inserted(row) \/ UNCHANGED <<records, made>>
    BY <1>1 DEF FaceMark, row
  <2>4. MailsWait
    BY <1>1 DEF FaceMark, MailsWait
  <2>5. QED
    BY <2>2, <2>3, <2>4 DEF MarksOnly
<1>2. CASE \/ EnrolLoad(s) \/ EnrolClear(s) \/ EnrolRead(s) \/ EnrolCreate(s)
           \/ EnrolSave(s) \/ ResetClear(s) \/ ResetSave(s)
           \/ FaceRefused(s) \/ FaceCompares(s) \/ FaceFails(s) \/ Save(s)
           \/ \E u \in Staff : ResetStart(s, u)
           \/ \E u, p \in Staff : FaceArrives(s, u, p)
  BY <1>2 DEF EnrolLoad, EnrolClear, EnrolRead, EnrolCreate, EnrolSave,
     EnrolTo, ResetClear, ResetSave, FaceRefused, FaceCompares, FaceFails,
     Save, PageStays, ResetStart, FaceArrives, MarksOnly, MailsWait
<1>3. QED
  BY <1>1, <1>2 DEF FaceStep, FaceProceeds

LEMMA OthersMark ==
    /\ PageStep => MarksOnly /\ mails' = mails
    /\ \A s \in Slots : DayStep(s) => MarksOnly /\ mails' = mails
    /\ \A i : MailStep(i) => MarksOnly
<1>1. PageStep => MarksOnly /\ mails' = mails
  BY PageSteps DEF PageStep, OpenPage, ToggleAppend, FrameStart, FrameTaken,
     FrameMissed, Restart, ClosePage, PageOnly, PageStays, MarksOnly
<1>2. ASSUME NEW s \in Slots, DayStep(s)
      PROVE  UNCHANGED <<records, made, mails>>
  BY <1>2 DEF DayStep, DayProceeds, HolidayChanges, HolidayLists,
     HolidayReads, HolidayWrites, HolidaySkips, SyncStart, SyncWrite, DayStays
<1>3. ASSUME NEW i, MailStep(i)
      PROVE  UNCHANGED <<records, made>>
  BY <1>3 DEF MailStep, MailStarts, MailIsSent, MailIsLogged, FailureIsLogged,
     FailureIsKept, MailGoes
<1>4. QED
  BY <1>1, <1>2, <1>3 DEF MarksOnly

\* Only a match sends a PIN on to be marked.
LEMMA PinStepsOwn ==
    ASSUME NEW s \in Slots, Core, LockTyped, Owned, PinStep(s),
           uploads' = uploads
    PROVE  Owned'
<1>1. \A t \in Slots \ {s} : work'[t] = work[t]
  BY PinEffects DEF PinEffect, Moves
<1>2. ASSUME work'[s] # Null, work'[s].op = "pin", work'[s].at = "mark"
      PROVE  work'[s].found \in Users
  <2>1. work \in [Slots -> Handlers \cup {Null}]
    BY DEF Core
  <2>2. CASE PinMatch(s)
    <3>1. work[s] # Null /\ work[s].op = "pin" /\ work[s].found # Null
      BY <2>2 DEF PinMatch, Handling
    <3>2. work[s] \in PinRequest /\ work[s].found \in Users
      <4>1. work[s] \in PinRequest
        BY <3>1, Requested
      <4>2. QED
        BY <3>1, <4>1 DEF PinRequest
    <3>3. work'[s] = [work[s] EXCEPT !.at = "mark"]
      BY <2>1, <2>2 DEF PinMatch, Goes, Becomes
    <3>4. QED
      BY <3>2, <3>3 DEF PinRequest
  <2>3. CASE PinMiss(s) \/ PinEditSave(s) \/ PinRefused(s) \/ PinFails(s)
    BY <1>2, <2>1, <2>3 DEF PinMiss, PinEditSave, PinRefused, PinFails, Ends,
                            Becomes
  <2>4. CASE \E u \in Staff : SetStatus(s, u)
    BY <1>2, <2>4 DEF SetStatus, Owned
  <2>5. ASSUME NEW h, Becomes(s, h) PROVE work'[s] = h
    BY <2>1, <2>5 DEF Becomes
  <2>6. CASE PinSearch(s) \/ PinMark(s) \/ PinMail(s)
    <3>1. work[s] \in PinRequest
      <4>1. work[s] # Null /\ work[s].op = "pin"
        BY <2>6 DEF PinSearch, PinMark, PinMail, Handling
      <4>2. QED
        BY <4>1, Requested
    <3>2. CASE PinSearch(s)
      <4>1. PICK u : Becomes(s, [work[s] EXCEPT !.at = "compared",
                                                !.found = u])
        BY <3>2 DEF PinSearch
      <4>2. work'[s].at = "compared"
        BY <2>5, <3>1, <4>1 DEF PinRequest
      <4>3. QED
        BY <1>2, <4>2
    <3>3. CASE PinMark(s)
      <4>1. Becomes(s, [work[s] EXCEPT !.at = "mail", !.record = made + 1])
        BY <3>3 DEF PinMark
      <4>2. work'[s].at = "mail"
        BY <2>5, <3>1, <4>1 DEF PinRequest
      <4>3. QED
        BY <1>2, <4>2
    <3>4. CASE PinMail(s)
      <4>1. Becomes(s, [work[s] EXCEPT !.at = "mailing"]) \/ Becomes(s, Null)
        BY <3>4 DEF PinMail, Notifies, Answers, Goes, Ends
      <4>2. work'[s].at = "mailing"
        BY <1>2, <2>5, <3>1, <4>1 DEF PinRequest
      <4>3. QED
        BY <1>2, <4>2
    <3>5. QED
      BY <2>6, <3>2, <3>3, <3>4
  <2>7. CASE \E t \in Terminals, pin \in Pins : PinArrives(s, t, pin)
    <3>1. PICK t \in Terminals, pin \in Pins :
            work'[s] = [op |-> "pin", at |-> "search", terminal |-> t,
                        pin |-> pin, found |-> Null, record |-> Null]
      BY <2>1, <2>7 DEF PinArrives, Begins
    <3>2. QED
      BY <1>2, <3>1
  <2>8. CASE \E u \in Staff, pin \in Pins \cup {Null} : PinEditStart(s, u, pin)
    <3>1. PICK u \in Staff, pin \in Pins \cup {Null} :
            work'[s] = [op |-> "setPin", at |-> "save", user |-> u,
                        loaded |-> users[u].pin, pin |-> pin]
      BY <2>1, <2>8 DEF PinEditStart, Begins
    <3>2. QED
      BY <1>2, <3>1
  <2>9. QED
    BY <2>2, <2>3, <2>4, <2>6, <2>7, <2>8 DEF PinStep, PinProceeds
<1>3. QED
  BY <1>1, <1>2 DEF Owned

LEMMA OwnedStands ==
    ASSUME Owned, SameHandling(PinOps)
    PROVE  Owned'
BY DEF Owned, SameHandling, PinOps
-----------------------------------------------------------------------------
\* What the sweep handles is one of what it has to do.
LEMMA FirstIsOne ==
    ASSUME sweep # Null, sweep \in Sweep \cup {Null}, sweep.todo # {}
    PROVE  First \in sweep.todo
<1> DEFINE R == OpToRel(<, Nat)
<1>1. sweep.todo \in SUBSET Nat
  BY EvidenceAssumption DEF Sweep, Ids
<1>2. IsWellFoundedOn(R, Nat)
  BY NatLessThanWellFounded
<1>3. \A x, y \in Nat : x < y => <<x, y>> \in R
  BY DEF OpToRel
<1> HIDE DEF R
<1>4. PICK i \in sweep.todo : \A j \in sweep.todo : <<j, i>> \notin R
  BY <1>1, <1>2, WFMin
<1>5. ASSUME NEW j \in sweep.todo PROVE i <= j
  <2>1. i \in Nat /\ j \in Nat /\ <<j, i>> \notin R
    BY <1>1, <1>4
  <2>2. ~(j < i)
    BY <1>3, <2>1
  <2>3. QED
    BY <2>1, <2>2
<1>6. QED
  BY <1>4, <1>5 DEF First

LEMMA SweepTypes ==
    ASSUME PhotoTyped, sweep # Null
    PROVE  sweep \in Sweep /\ sweep.todo \subseteq Ids
BY DEF PhotoTyped, Sweep

\* The numbers there are.
LEMMA Numbers ==
    ASSUME Core
    PROVE  /\ made \in Nat /\ uploads \in Nat /\ now \in Nat
           /\ faults \in Nat /\ Scenes[scene].faults \in Nat
           /\ faults <= Scenes[scene].faults
           /\ Ids \subseteq Nat /\ Null \notin Nat /\ Null \notin Ids
           /\ Retention \in Nat
<1>1. Scenes[scene].faults \in Nat /\ MaxRecords \in Nat /\ Null \notin Nat
  BY EvidenceAssumption DEF Core
<1>2. QED
  BY <1>1, ClockIsNat, PhotoAssumption DEF Core, Ids

LEMMA FaultsOnlyFall ==
    ASSUME Core, FaultsFall
    PROVE  faults' \in Nat /\ faults' <= faults
<1>1. faults \in Nat
  BY Numbers
<1>2. QED
  BY <1>1 DEF FaultsFall, Fault

\* A marking that is made by another handler has no photo and no evidence,
\* and takes no marking's place.
LEMMA MarkingsStay ==
    ASSUME Core, PhotoTyped, MarksOnly
    PROVE  /\ records' \in [Ids -> Record \cup {Null}]
           /\ made' \in Nat /\ made <= made'
           /\ \A i \in Ids : records[i] # Null => records'[i] = records[i]
           /\ \A i \in Ids : records'[i] # Null =>
                /\ i <= made'
                /\ records'[i] = records[i] \/ records'[i].photo = Null
           /\ \A i \in Ids : \A p \in Nat : Of(i, p)' <=> Of(i, p)
<1>1. made \in Nat /\ Ids \subseteq Nat /\ Null \notin Nat
  BY Numbers
<1>2. CASE UNCHANGED <<records, made>>
  BY <1>1, <1>2 DEF PhotoTyped, Of
<1>3. ASSUME NEW row \in Record, row.photo = Null, Inserted(row)
      PROVE  /\ records' \in [Ids -> Record \cup {Null}]
             /\ made' \in Nat /\ made <= made'
             /\ \A i \in Ids : records[i] # Null => records'[i] = records[i]
             /\ \A i \in Ids : records'[i] # Null =>
                  /\ i <= made'
                  /\ records'[i] = records[i] \/ records'[i].photo = Null
             /\ \A i \in Ids : \A p \in Nat : Of(i, p)' <=> Of(i, p)
  <2>1. made + 1 \in Ids /\ made' = made + 1
    BY <1>3, Inserting DEF Inserted
  <2>2. records' = [records EXCEPT ![made + 1] = row]
    BY <1>3 DEF Inserted
  <2>3. records[made + 1] = Null
    BY <1>1, <2>1 DEF PhotoTyped
  <2>4. records' \in [Ids -> Record \cup {Null}]
    BY <2>1, <2>2 DEF PhotoTyped
  <2>5. \A i \in Ids : i # made + 1 => records'[i] = records[i]
    BY <2>1, <2>2 DEF PhotoTyped
  <2>6. records'[made + 1] = row
    BY <2>1, <2>2 DEF PhotoTyped
  <2>7. \A i \in Ids : records[i] # Null => records'[i] = records[i]
    BY <2>3, <2>5
  <2>8. \A i \in Ids : records'[i] # Null =>
          /\ i <= made'
          /\ records'[i] = records[i] \/ records'[i].photo = Null
    <3>1. \A i \in Ids : records[i] # Null => i <= made
      BY DEF PhotoTyped
    <3>2. QED
      BY <1>1, <1>3, <2>1, <2>5, <2>6, <3>1
  <2>9. \A i \in Ids : \A p \in Nat : Of(i, p)' <=> Of(i, p)
    BY <1>1, <1>3, <2>3, <2>5, <2>6 DEF Of
  <2>10. QED
    BY <1>1, <2>1, <2>4, <2>7, <2>8, <2>9
<1>4. QED
  BY <1>2, <1>3 DEF MarksOnly

\* Whatever leaves the photos and their handlers alone, a restart included.
LEMMA PhotosStand ==
    ASSUME Core, PhotoInv, MarksOnly, FaultsFall, scene' = scene,
           now' \in Nat, now <= now',
           UNCHANGED <<files, uploads, evidence>>,
           sweep' = sweep \/ sweep' = Null,
           \A s \in Slots : Taking(s)' => work'[s] = work[s]
    PROVE  /\ PhotoInv'
           /\ \A i \in Ids : Shown(i)' <=> Shown(i)
<1>1. /\ records' \in [Ids -> Record \cup {Null}]
      /\ made' \in Nat /\ made <= made'
      /\ \A i \in Ids : records[i] # Null => records'[i] = records[i]
      /\ \A i \in Ids : records'[i] # Null =>
           /\ i <= made'
           /\ records'[i] = records[i] \/ records'[i].photo = Null
      /\ \A i \in Ids : \A p \in Nat : Of(i, p)' <=> Of(i, p)
  BY MarkingsStay DEF PhotoInv
<1>2. /\ made \in Nat /\ uploads \in Nat /\ Ids \subseteq Nat
      /\ Null \notin Nat /\ now \in Nat
      /\ faults \in Nat /\ Scenes[scene].faults \in Nat
  BY Numbers
<1>3. PhotoTyped
  BY DEF PhotoInv
<1>4. faults' \in Nat /\ faults' <= faults
  BY FaultsOnlyFall
<1>5. Days' = Days /\ Serialized' = Serialized
  BY DaysStay
<1>6. PhotoTyped'
  <2>1. \A i \in Ids : evidence'[i] # Null => records'[i] # Null
    BY <1>1, <1>3 DEF PhotoTyped
  <2>2. \A i \in Ids : records'[i] # Null =>
          records'[i].photo \in (1..uploads) \cup {Null}
    <3> SUFFICES ASSUME NEW i \in Ids, records'[i] # Null
                 PROVE  records'[i].photo \in (1..uploads) \cup {Null}
      OBVIOUS
    <3>1. CASE records'[i] = records[i]
      BY <1>3, <3>1 DEF PhotoTyped
    <3>2. CASE records'[i].photo = Null
      BY <3>2
    <3>3. QED
      BY <1>1, <3>1, <3>2
  <2>3. \A i, j \in Ids, p \in 1..uploads : Of(i, p)' /\ Of(j, p)' => i = j
    BY <1>1, <1>2, <1>3 DEF PhotoTyped
  <2>4. QED
    BY <1>1, <1>3, <2>1, <2>2, <2>3 DEF PhotoTyped
<1>7. \A i \in Ids : Shown(i)' <=> Shown(i)
  <2> SUFFICES ASSUME NEW i \in Ids PROVE Shown(i)' <=> Shown(i)
    OBVIOUS
  <2>1. Held(i)' <=> Held(i)
    BY DEF Held
  <2>2. Held(i) => records[i] # Null /\ records'[i] = records[i]
    BY <1>1, <1>3 DEF Held, PhotoTyped
  <2>3. QED
    BY <2>1, <2>2 DEF Shown
<1>8. ASSUME NEW s \in Slots, Taking(s)'
      PROVE  Taking(s) /\ Owns(work[s])' /\ Stage(work[s])'
  <2>1. work'[s] = work[s] /\ Taking(s)
    BY <1>8 DEF Taking
  <2>2. work[s] \in PhotoRequest /\ Owns(work[s]) /\ Stage(work[s])
    BY <2>1, Requested DEF Taking, PhotoInv, PhotoHandlers
  <2>3. PICK h : h = work[s]
    OBVIOUS
  <2>4. /\ h.photo \in Nat
        /\ h.record # Null => h.record \in Ids
        /\ h.expires \in Nat
    BY <2>2, <2>3 DEF PhotoRequest
  <2>5. Owns(h)'
    <3>1. Owns(h)
      BY <2>2, <2>3
    <3>2. \A i \in Ids : Of(i, h.photo)' <=> Of(i, h.photo)
      BY <1>1, <2>4 DEF Of
    <3>3. made <= made' /\ uploads' = uploads /\ made \in Nat /\ made' \in Nat
      BY <1>1, <1>2
    <3>4. h.record # Null => h.record \in Nat
      BY <1>2, <2>4
    <3>5. QED
      BY <3>1, <3>2, <3>3, <3>4 DEF Owns
  <2>6. h.at \in {"prove", "mail", "undo"} => h.record \in Ids
    BY <2>2, <2>3, <2>4 DEF Owns
  <2>7. sweep = Null => sweep' = Null
    OBVIOUS
  <2>8. h.at = "mail" => Shown(h.record)' \/ h.expires <= now'
    <3> SUFFICES ASSUME h.at = "mail"
                 PROVE  Shown(h.record)' \/ h.expires <= now'
      OBVIOUS
    <3>1. h.record \in Ids
      BY <2>6
    <3>2. Shown(h.record) \/ h.expires <= now
      BY <2>2, <2>3 DEF Stage
    <3>3. Shown(h.record) => Shown(h.record)'
      BY <1>7, <3>1
    <3>4. h.expires <= now => h.expires <= now'
      BY <1>2, <2>4
    <3>5. QED
      BY <3>2, <3>3, <3>4
  <2>9. Stage(h)'
    <3>1. Stage(h)
      BY <2>2, <2>3
    <3>2. \A i \in Ids : Of(i, h.photo)' <=> Of(i, h.photo)
      BY <1>1, <2>4 DEF Of
    <3>3. h.at = "insert" => (h.expires - Retention \in Days)'
      BY <1>5, <3>1 DEF Stage
    <3>4. evidence' = evidence /\ files' = files
      OBVIOUS
    <3>5. Serialized => /\ h.at = "undo" => faults' < Scenes[scene].faults
                        /\ faults' + 1 >= Scenes[scene].faults
                             => faults + 1 >= Scenes[scene].faults
      BY <1>2, <1>4, <3>1 DEF Stage
    <3>6. QED
      BY <1>5, <2>6, <2>7, <2>8, <3>1, <3>2, <3>3, <3>4, <3>5 DEF Stage
  <2>10. QED
    BY <2>1, <2>3, <2>5, <2>9
<1>9. PhotoHandlers'
  <2>1. ASSUME NEW s \in Slots, NEW t \in Slots, Taking(s)', Taking(t)',
               s # t
        PROVE  /\ work'[s].photo # work'[t].photo
               /\ work'[s].record # Null => work'[s].record # work'[t].record
    BY <1>8, <2>1 DEF PhotoInv, PhotoHandlers
  <2>2. QED
    BY <1>8, <2>1 DEF PhotoHandlers
<1>10. SweepKnows'
  <2> SUFFICES ASSUME sweep' # Null PROVE SweepKnows'
    BY DEF SweepKnows
  <2>1. sweep' = sweep /\ sweep # Null /\ SweepKnows
    BY DEF PhotoInv
  <2>2. sweep \in Sweep /\ sweep.todo \subseteq Ids
    BY <1>3, <2>1, SweepTypes
  <2>3. First' = First
    BY <2>1 DEF First
  <2>4. ASSUME NEW i \in sweep.todo, sweep.at = "fill" PROVE Fillable(i)'
    <3>1. i \in Ids /\ Fillable(i)
      BY <2>1, <2>2, <2>4 DEF SweepKnows
    <3>2. Shown(i) => records'[i] = records[i]
      BY <1>1, <3>1 DEF Shown
    <3>3. i <= made'
      BY <1>1, <1>2, <3>1 DEF Fillable
    <3>4. \A s \in Slots : Taking(s)' => Taking(s) /\ work'[s] = work[s]
      BY <1>8
    <3>5. ASSUME Shown(i)'
          PROVE  /\ records'[i].photo \in files'
                 /\ \A s \in Slots :
                      Taking(s)' /\ work'[s].photo = records'[i].photo
                        => work'[s].at \in {"mail", "mailing"}
      <4>1. Shown(i) /\ records'[i] = records[i]
        BY <1>7, <3>1, <3>2, <3>5
      <4>2. QED
        BY <3>1, <3>4, <4>1 DEF Fillable
    <3>6. QED
      BY <3>3, <3>5 DEF Fillable
  <2>5. ASSUME NEW i \in sweep.todo, sweep.at \in {"unlink", "row", "data"}
        PROVE  Expired(i)'
    <3>1. Expired(i) /\ i \in Ids
      BY <2>1, <2>2, <2>5 DEF SweepKnows
    <3>2. evidence[i] \in Proof
      BY <1>3, <3>1 DEF Expired, Held, PhotoTyped
    <3>3. evidence[i].expires \in Nat
      BY <3>2 DEF Proof
    <3>4. QED
      BY <1>2, <3>1, <3>3 DEF Expired, Held
  <2>6. sweep.at \in {"row", "data"} => records'[First] = records[First]
    <3> SUFFICES ASSUME sweep.at \in {"row", "data"}
                 PROVE  records'[First] = records[First]
      OBVIOUS
    <3>1. First \in sweep.todo
      BY <2>1, <2>2, FirstIsOne DEF SweepKnows
    <3>2. Held(First) /\ First \in Ids
      BY <2>1, <2>2, <3>1 DEF SweepKnows, Expired
    <3>3. QED
      BY <1>1, <1>3, <3>2 DEF Held, PhotoTyped
  <2>7. QED
    BY <2>1, <2>3, <2>4, <2>5, <2>6 DEF SweepKnows
<1>11. QED
  BY <1>6, <1>7, <1>9, <1>10 DEF PhotoInv
-----------------------------------------------------------------------------
\* The handlers of the other slots, while one goes on.
LEMMA OthersGoOn ==
    ASSUME NEW s \in Slots, Core, PhotoHandlers,
           \A t \in Slots \ {s} : work'[t] = work[t],
           Serialized => \A t \in Slots \ {s} : work[t] = Null,
           now' = now, scene' = scene, made' \in Nat, made <= made',
           uploads' \in Nat, uploads <= uploads',
           \A t \in Slots \ {s} : Taking(t) =>
             /\ \A i \in Ids :
                  records'[i] # Null /\ records'[i].photo = work[t].photo
                    => Of(i, work[t].photo)
             /\ work[t].photo \in files => work[t].photo \in files'
             /\ work[t].record # Null =>
                  /\ evidence'[work[t].record] = evidence[work[t].record]
                  /\ records'[work[t].record] = records[work[t].record]
    PROVE  \A t \in Slots \ {s} : Taking(t) => Owns(work[t])' /\ Stage(work[t])'
<1> SUFFICES ASSUME NEW t \in Slots \ {s}, Taking(t)
             PROVE  Owns(work[t])' /\ Stage(work[t])'
  OBVIOUS
<1>1. work[t] \in PhotoRequest /\ Owns(work[t]) /\ Stage(work[t])
  BY Requested DEF Taking, PhotoHandlers
<1>2. PICK h : h = work[t]
  OBVIOUS
<1>3. /\ h.photo \in Nat
      /\ h.record # Null => h.record \in Ids
      /\ h.expires \in Nat
  BY <1>1, <1>2 DEF PhotoRequest
<1>4. Owns(h) /\ Stage(h) /\ work'[t] = h
  BY <1>1, <1>2
<1>5. /\ made \in Nat /\ uploads \in Nat /\ Ids \subseteq Nat
      /\ Null \notin Nat /\ now \in Nat
  BY Numbers
<1>6. ~Serialized /\ Serialized' = Serialized /\ Days' = Days
  BY DaysStay DEF Taking
<1>7. /\ \A i \in Ids : Of(i, h.photo)' => Of(i, h.photo)
      /\ h.photo \in files => h.photo \in files'
      /\ h.record # Null => /\ evidence'[h.record] = evidence[h.record]
                            /\ records'[h.record] = records[h.record]
  BY <1>2 DEF Of
<1>8. Owns(h)'
  <2>1. h.photo \in 1..uploads'
    BY <1>3, <1>4, <1>5 DEF Owns
  <2>2. h.record # Null => h.record \in Nat /\ h.record <= made'
    <3>1. h.record # Null => h.record \in Ids /\ h.record <= made
      BY <1>4 DEF Owns
    <3>2. ASSUME h.record # Null
          PROVE  h.record \in Nat /\ h.record <= made
      BY <1>5, <3>1, <3>2
    <3>3. ASSUME h.record # Null
          PROVE  h.record <= made'
      BY <1>5, <3>2, <3>3
    <3>4. QED
      BY <3>2, <3>3
  <2>3. QED
    BY <1>4, <1>7, <2>1, <2>2 DEF Owns
<1>9. h.at \in {"prove", "mail"} => h.record # Null
  BY <1>4 DEF Owns
<1>10. Stage(h)'
  BY <1>3, <1>4, <1>6, <1>7, <1>9 DEF Stage, Of, Shown, Held
<1>11. QED
  BY <1>4, <1>8, <1>10

\* What the sweep knows is not touched by a handler that goes on.
LEMMA SweepStands ==
    ASSUME Core, PhotoTyped, SweepKnows, sweep' = sweep, now' = now,
           \A i \in Ids : evidence[i] # Null =>
             records'[i] = records[i] /\ evidence'[i] = evidence[i],
           \A p \in (1..uploads) \cup {Null} : p \notin files => p \notin files',
           sweep # Null => \A i \in Ids : Fillable(i) => Fillable(i)'
    PROVE  SweepKnows'
<1> SUFFICES ASSUME sweep # Null PROVE SweepKnows'
  BY DEF SweepKnows
<1>1. sweep \in Sweep /\ sweep.todo \subseteq Ids
  BY SweepTypes
<1>2. First' = First
  BY DEF First
<1>3. ASSUME NEW i \in sweep.todo, Expired(i)
      PROVE  Expired(i)'
  BY <1>1, <1>3 DEF Expired, Held
<1>4. ASSUME sweep.at \in {"row", "data"}
      PROVE  /\ records'[First] = records[First]
             /\ records[First].photo \notin files'
  <2>1. First \in sweep.todo
    BY <1>1, <1>4, FirstIsOne DEF SweepKnows
  <2>2. First \in Ids /\ evidence[First] # Null
    BY <1>1, <1>4, <2>1 DEF SweepKnows, Expired, Held
  <2>3. records[First].photo \in (1..uploads) \cup {Null}
    BY <2>2 DEF PhotoTyped
  <2>4. records[First].photo \notin files
    BY <1>4 DEF SweepKnows
  <2>5. QED
    BY <2>2, <2>3, <2>4
<1>5. QED
  BY <1>1, <1>2, <1>3, <1>4 DEF SweepKnows

\* What the sweep may fill is not touched by a handler that goes on: its
\* photo is not shown, or it keeps it.
LEMMA FillsGoOn ==
    ASSUME NEW s \in Slots, Core, Taking(s),
           \A t \in Slots \ {s} : work'[t] = work[t],
           made' \in Nat, made <= made',
           \A i \in Ids : i <= made /\ Shown(i)' =>
             Shown(i) /\ records'[i].photo = records[i].photo,
           \A p \in files : p # work[s].photo => p \in files',
           work[s].at \in {"mail", "mailing"} => files' = files,
           Taking(s)' =>
             /\ work'[s].photo = work[s].photo
             /\ work[s].at \in {"mail", "mailing"}
                  => work'[s].at \in {"mail", "mailing"}
    PROVE  \A i \in Ids : Fillable(i) => Fillable(i)'
<1> SUFFICES ASSUME NEW i \in Ids, Fillable(i)
             PROVE  Fillable(i)'
  OBVIOUS
<1>1. made \in Nat /\ i \in Nat /\ i <= made /\ i <= made'
  BY Numbers DEF Fillable
<1>2. ASSUME Shown(i)'
      PROVE  /\ records'[i].photo \in files'
             /\ \A t \in Slots :
                  Taking(t)' /\ work'[t].photo = records'[i].photo
                    => work'[t].at \in {"mail", "mailing"}
  <2>1. Shown(i) /\ records'[i].photo = records[i].photo
    BY <1>1, <1>2
  <2>2. /\ records[i].photo \in files
        /\ \A t \in Slots : Taking(t) /\ work[t].photo = records[i].photo
                              => work[t].at \in {"mail", "mailing"}
    BY <2>1 DEF Fillable
  <2>3. records[i].photo \in files'
    BY <2>2
  <2>4. QED
    BY <2>1, <2>2, <2>3 DEF Taking
<1>3. QED
  BY <1>1, <1>2 DEF Fillable

\* A handler goes on: the photos are as they should be if its own is.
LEMMA PhotosGoOn ==
    ASSUME NEW s \in Slots, Core, PhotoInv, PhotoTyped',
           \/ Taking(s)
           \/ /\ work[s] = Null
              /\ Serialized => Idle /\ sweep = Null,
           \A t \in Slots \ {s} : work'[t] = work[t],
           now' = now, scene' = scene, sweep' = sweep,
           made' \in Nat, made <= made', uploads' \in Nat, uploads <= uploads',
           \A t \in Slots \ {s} : Taking(t) =>
             /\ \A i \in Ids :
                  records'[i] # Null /\ records'[i].photo = work[t].photo
                    => Of(i, work[t].photo)
             /\ work[t].photo \in files => work[t].photo \in files'
             /\ work[t].record # Null =>
                  /\ evidence'[work[t].record] = evidence[work[t].record]
                  /\ records'[work[t].record] = records[work[t].record],
           \A i \in Ids : evidence[i] # Null =>
             records'[i] = records[i] /\ evidence'[i] = evidence[i],
           \A p \in (1..uploads) \cup {Null} : p \notin files => p \notin files',
           \A i \in Ids : Fillable(i) => Fillable(i)',
           NEW g, work'[s] = g,
           Taking(s)' =>
             /\ Owns(g)' /\ Stage(g)'
             /\ \A t \in Slots \ {s} : Taking(t) =>
                  /\ g.photo # work[t].photo
                  /\ g.record # Null => g.record # work[t].record
    PROVE  PhotoInv'
<1>1. Serialized => \A t \in Slots \ {s} : work[t] = Null
  BY DEF Core, OneAtATime, Taking, Idle
<1>2. \A t \in Slots \ {s} : Taking(t) => Owns(work[t])' /\ Stage(work[t])'
  BY <1>1, OthersGoOn DEF PhotoInv
<1>3. PhotoHandlers'
  <2>1. \A t \in Slots \ {s} : Taking(t)' => Taking(t)
    BY DEF Taking
  <2>2. \A t \in Slots : Taking(t)' => Owns(work[t])' /\ Stage(work[t])'
    BY <1>2, <2>1
  <2>3. ASSUME NEW t \in Slots, NEW u \in Slots, Taking(t)', Taking(u)', t # u
        PROVE  /\ work'[t].photo # work'[u].photo
               /\ work'[t].record # Null => work'[t].record # work'[u].record
    BY <2>1, <2>3 DEF PhotoInv, PhotoHandlers
  <2>4. QED
    BY <2>2, <2>3 DEF PhotoHandlers
<1>4. SweepKnows'
  BY SweepStands DEF PhotoInv
<1>5. QED
  BY <1>3, <1>4 DEF PhotoInv

LEMMA PhotoTypedStays ==
    ASSUME Core, PhotoTyped, UNCHANGED <<records, evidence, sweep>>,
           made' \in Nat, made <= made', uploads' \in Nat, uploads <= uploads',
           files' \subseteq 1..uploads'
    PROVE  PhotoTyped'
<1>1. made \in Nat /\ uploads \in Nat /\ Ids \subseteq Nat /\ Null \notin Nat
  BY Numbers
<1>2. \A i \in Ids : records'[i] # Null =>
        i <= made' /\ records'[i].photo \in (1..uploads') \cup {Null}
  <2> SUFFICES ASSUME NEW i \in Ids, records[i] # Null
               PROVE  /\ i <= made'
                      /\ records[i].photo \in (1..uploads') \cup {Null}
    OBVIOUS
  <2>1. i <= made /\ i \in Nat /\ records[i].photo \in (1..uploads) \cup {Null}
    BY <1>1 DEF PhotoTyped
  <2>2. i <= made'
    BY <1>1, <2>1
  <2>3. records[i].photo \in (1..uploads') \cup {Null}
    BY <1>1, <2>1
  <2>4. QED
    BY <2>2, <2>3
<1>3. ASSUME NEW i \in Ids, NEW j \in Ids, NEW p \in 1..uploads',
             Of(i, p)', Of(j, p)'
      PROVE  i = j
  <2>1. Of(i, p) /\ Of(j, p)
    BY <1>3 DEF Of
  <2>2. p \in 1..uploads
    BY <1>1, <2>1 DEF Of, PhotoTyped
  <2>3. QED
    BY <2>1, <2>2 DEF PhotoTyped
<1>4. QED
  BY <1>2, <1>3 DEF PhotoTyped

\* A handler goes on, and nothing else changes.
LEMMA PhotoMovesOn ==
    ASSUME NEW s \in Slots, Core, PhotoInv, Taking(s),
           \A t \in Slots \ {s} : work'[t] = work[t],
           UNCHANGED <<now, scene, records, made, files, uploads, evidence,
                       sweep>>,
           NEW g, work'[s] = g,
           Taking(s)' =>
             /\ g.photo = work[s].photo /\ g.record = work[s].record
             /\ Owns(g)' /\ Stage(g)'
             /\ work[s].at \in {"mail", "mailing"}
                  => g.at \in {"mail", "mailing"}
    PROVE  PhotoInv'
<1>1. made \in Nat /\ uploads \in Nat /\ Ids \subseteq Nat /\ Null \notin Nat
  BY Numbers
<1>2. PhotoTyped'
  BY <1>1, PhotoTypedStays DEF PhotoInv, PhotoTyped
<1>3. \A i \in Ids : Fillable(i) => Fillable(i)'
  <2>1. \A i \in Ids : Shown(i)' => Shown(i) /\ records'[i].photo = records[i].photo
    BY DEF Shown, Held
  <2>2. QED
    BY <1>1, <2>1, FillsGoOn
<1>4. \A t \in Slots \ {s} : Taking(t) => \A i \in Ids :
        records'[i] # Null /\ records'[i].photo = work[t].photo
          => Of(i, work[t].photo)
  BY DEF Of
<1>5. Taking(s)' => \A t \in Slots \ {s} : Taking(t) =>
        /\ g.photo # work[t].photo
        /\ g.record # Null => g.record # work[t].record
  BY DEF PhotoInv, PhotoHandlers
<1>6. QED
  BY <1>1, <1>2, <1>3, <1>4, <1>5, PhotosGoOn

LEMMA PhotoGoes ==
    ASSUME NEW s \in Slots, NEW from, NEW at, Core, PhotoInv,
           Handling(s, "photo", from), Goes(s, at),
           at \in {"insert", "undo", "discard", "mail", "mailing"}
    PROVE  /\ Taking(s) /\ work[s] \in PhotoRequest /\ work[s].at = from
           /\ Owns(work[s]) /\ Stage(work[s])
           /\ \A t \in Slots \ {s} : work'[t] = work[t]
           /\ work'[s].at = at
           /\ work'[s].photo = work[s].photo
           /\ work'[s].record = work[s].record
           /\ work'[s].expires = work[s].expires
<1>1. Taking(s) /\ work[s].at = from
  BY DEF Handling, Taking
<1>2. work[s] \in PhotoRequest
  BY <1>1, Requested DEF Taking
<1>3. work'[s] = [work[s] EXCEPT !.at = at]
        /\ \A t \in Slots \ {s} : work'[t] = work[t]
  BY DEF Goes, Becomes, Core
<1>4. QED
  BY <1>1, <1>2, <1>3 DEF PhotoRequest, PhotoInv, PhotoHandlers

\* A photo that is refused before its marking is of none.
LEMMA RefusedBefore ==
    ASSUME NEW s \in Slots, NEW from \in {"check", "insert"}, Core, PhotoInv,
           Handling(s, "photo", from), Goes(s, "discard"), FaultsFall,
           UNCHANGED <<now, scene, records, made, files, uploads, evidence,
                       sweep>>
    PROVE  PhotoInv'
<1>1. PICK g : g = work'[s]
  OBVIOUS
<1>2. PICK h : h = work[s]
  OBVIOUS
<1>3. /\ Taking(s) /\ h.at = from /\ Owns(h) /\ Stage(h)
      /\ \A t \in Slots \ {s} : work'[t] = work[t]
      /\ g.at = "discard" /\ g.photo = h.photo /\ g.record = h.record
  BY <1>1, <1>2, PhotoGoes
<1>4. g.record = Null /\ \A i \in Ids : ~Of(i, g.photo)
  BY <1>3 DEF Owns
<1>5. \A i \in Ids : ~Of(i, g.photo)'
  BY <1>4 DEF Of
<1>6. Owns(g)'
  BY <1>3, <1>4, <1>5 DEF Owns
<1>7. Serialized' = Serialized /\ (Serialized => sweep' = Null)
  BY <1>3 DEF Serialized, Stage
<1>8. Stage(g)'
  BY <1>3, <1>5, <1>7 DEF Stage
<1>9. QED
  BY <1>1, <1>2, <1>3, <1>6, <1>8, PhotoMovesOn

LEMMA PhotoCheckKeeps ==
    ASSUME NEW s \in Slots, Core, PhotoInv, PhotoCheck(s)
    PROVE  PhotoInv'
<1>1. /\ Handling(s, "photo", "check") /\ FaultsFall
      /\ UNCHANGED <<now, scene, records, made, files, uploads, evidence, sweep>>
  BY DEF PhotoCheck, FaultsFall
<1>2. CASE Goes(s, "discard")
  BY <1>1, <1>2, RefusedBefore
<1>3. CASE Becomes(s, [work[s] EXCEPT !.at = "insert",
                                      !.expires = now + Retention])
  <2>1. PICK h : h = work[s]
    OBVIOUS
  <2>2. PICK g : g = work'[s]
    OBVIOUS
  <2>3. Taking(s) /\ h.at = "check"
    BY <1>1, <2>1 DEF Handling, Taking
  <2>4. h \in PhotoRequest /\ Owns(h) /\ Stage(h)
    BY <2>1, <2>3, Requested DEF Taking, PhotoInv, PhotoHandlers
  <2>5. g = [h EXCEPT !.at = "insert", !.expires = now + Retention]
          /\ \A t \in Slots \ {s} : work'[t] = work[t]
    BY <1>3, <2>1, <2>2 DEF Becomes, Core
  <2>6. /\ g.at = "insert" /\ g.photo = h.photo /\ g.record = h.record
        /\ g.expires = now + Retention
    BY <2>4, <2>5 DEF PhotoRequest
  <2>7. g.record = Null /\ \A i \in Ids : ~Of(i, g.photo)'
    BY <1>1, <2>3, <2>4, <2>6 DEF Owns, Of
  <2>8. Owns(g)'
    BY <1>1, <2>4, <2>6, <2>7 DEF Owns
  <2>9. Serialized' = Serialized /\ (Serialized => sweep' = Null)
    BY <1>1, <2>4 DEF Serialized, Stage
  <2>10. (g.expires - Retention \in Days)'
    <3>1. now \in Nat /\ Retention \in Nat /\ now \in Days /\ Days' = Days
      BY <1>1, Numbers, DaysStay DEF Core
    <3>2. g.expires - Retention = now
      BY <2>6, <3>1
    <3>3. QED
      BY <3>1, <3>2
  <2>11. g.photo \in files'
    BY <1>1, <2>3, <2>4, <2>6 DEF Stage
  <2>12. Stage(g)'
    BY <2>6, <2>9, <2>10, <2>11 DEF Stage
  <2>13. QED
    BY <1>1, <2>1, <2>2, <2>3, <2>5, <2>6, <2>8, <2>12, PhotoMovesOn
<1>4. QED
  BY <1>2, <1>3 DEF PhotoCheck

LEMMA PhotoMailKeeps ==
    ASSUME NEW s \in Slots, Core, PhotoInv, PhotoMail(s)
    PROVE  PhotoInv'
<1>1. UNCHANGED <<now, scene, records, made, files, uploads, evidence, sweep>>
  BY DEF PhotoMail
<1>2. CASE Handling(s, "photo", "mail") /\ Notifies(s)
  <2>1. PICK g : g = work'[s]
    OBVIOUS
  <2>2. PICK h : h = work[s]
    OBVIOUS
  <2>3. /\ Taking(s) /\ h.at = "mail" /\ Owns(h) /\ Stage(h)
        /\ \A t \in Slots \ {s} : work'[t] = work[t]
        /\ g.at = "mailing" /\ g.photo = h.photo /\ g.record = h.record
    BY <1>2, <2>1, <2>2, PhotoGoes DEF Notifies
  <2>4. \A i \in Ids : Of(i, g.photo)' <=> Of(i, h.photo)
    BY <1>1, <2>3 DEF Of
  <2>5. Owns(g)'
    BY <1>1, <2>3, <2>4 DEF Owns
  <2>6. Serialized' = Serialized /\ (Serialized => sweep' = Null)
    BY <1>1, <2>3 DEF Serialized, Stage
  <2>7. Stage(g)'
    BY <2>3, <2>6 DEF Stage
  <2>8. QED
    BY <1>1, <2>1, <2>2, <2>3, <2>5, <2>7, PhotoMovesOn
<1>3. CASE Handling(s, "photo", "mailing") /\ Answers(s)
  <2>1. Taking(s) /\ work'[s] = Null
          /\ \A t \in Slots \ {s} : work'[t] = work[t]
    BY <1>3 DEF Handling, Taking, Answers, Ends, Becomes, Core
  <2>2. ~Taking(s)'
    BY <2>1 DEF Taking
  <2>3. QED
    BY <1>1, <2>1, <2>2, PhotoMovesOn
<1>4. QED
  BY <1>2, <1>3 DEF PhotoMail

LEMMA PhotoFailsKeeps ==
    ASSUME NEW s \in Slots, Core, PhotoInv, PhotoFails(s)
    PROVE  PhotoInv'
<1>1. /\ Fault /\ FaultsFall
      /\ UNCHANGED <<now, scene, records, made, files, uploads, evidence, sweep>>
  BY DEF PhotoFails, FaultsFall
<1>2. /\ faults \in Nat /\ faults' = faults - 1 /\ faults > 0
      /\ Scenes[scene].faults \in Nat /\ faults <= Scenes[scene].faults
  BY <1>1, Numbers DEF Fault
<1>3. CASE \E at \in {"check", "insert"} :
             Handling(s, "photo", at) /\ Goes(s, "discard")
  BY <1>1, <1>3, RefusedBefore
<1>4. ASSUME NEW from \in {"prove", "undo"}, NEW at,
             at = IF from = "prove" THEN "undo" ELSE "discard",
             Handling(s, "photo", from), Goes(s, at)
      PROVE  PhotoInv'
  <2>1. PICK g : g = work'[s]
    OBVIOUS
  <2>2. PICK h : h = work[s]
    OBVIOUS
  <2>3. /\ Taking(s) /\ h.at = from /\ Owns(h) /\ Stage(h)
        /\ \A t \in Slots \ {s} : work'[t] = work[t]
        /\ g.at = at /\ g.photo = h.photo /\ g.record = h.record
    BY <1>4, <2>1, <2>2, PhotoGoes
  <2>4. \A i \in Ids : Of(i, g.photo)' <=> Of(i, h.photo)
    BY <1>1, <2>3 DEF Of
  <2>5. h.record # Null
    BY <1>4, <2>3 DEF Owns
  <2>6. Owns(g)'
    BY <1>1, <1>4, <2>3, <2>4, <2>5 DEF Owns
  <2>7. Serialized' = Serialized /\ (Serialized => sweep' = Null)
    BY <1>1, <2>3 DEF Serialized, Stage
  <2>8. Serialized =>
          /\ g.at = "undo" => /\ evidence'[g.record] = Null
                              /\ faults' < Scenes[scene].faults
          /\ g.at = "discard" => faults' + 1 < Scenes[scene].faults
    <3>1. CASE from = "prove"
      BY <1>1, <1>2, <1>4, <2>3, <3>1 DEF Stage
    <3>2. CASE from = "undo"
      BY <1>1, <1>2, <1>4, <2>3, <3>2 DEF Stage
    <3>3. QED
      BY <3>1, <3>2
  <2>9. Stage(g)'
    BY <1>1, <1>2, <1>4, <2>3, <2>7, <2>8 DEF Stage
  <2>10. QED
    BY <1>1, <1>4, <2>1, <2>2, <2>3, <2>6, <2>9, PhotoMovesOn
<1>5. CASE Handling(s, "photo", "mail") /\ Ends(s)
  <2>1. Taking(s) /\ work'[s] = Null
          /\ \A t \in Slots \ {s} : work'[t] = work[t]
    BY <1>5 DEF Handling, Taking, Ends, Becomes, Core
  <2>2. ~Taking(s)'
    BY <2>1 DEF Taking
  <2>3. QED
    BY <1>1, <2>1, <2>2, PhotoMovesOn
<1>6. QED
  BY <1>3, <1>4, <1>5 DEF PhotoFails

LEMMA PhotoArrivesKeeps ==
    ASSUME NEW s \in Slots, NEW u \in Staff, Core, PhotoInv, PhotoArrives(s, u)
    PROVE  PhotoInv'
<1>0. PICK g : g = [op |-> "photo", at |-> "check", user |-> u,
                    photo |-> uploads + 1, record |-> Null, expires |-> 0]
  OBVIOUS
<1>1. /\ Begins(s, "photo", g) /\ (Serialized => sweep = Null)
      /\ uploads' = uploads + 1 /\ files' = files \cup {uploads + 1}
      /\ UNCHANGED <<now, scene, records, made, evidence, sweep>>
  BY <1>0 DEF PhotoArrives
<1>2. /\ work[s] = Null /\ (Serialized => Idle)
      /\ work'[s] = g /\ \A t \in Slots \ {s} : work'[t] = work[t]
  BY <1>1 DEF Begins, Arrives, Core
<1>3. /\ g.photo = uploads + 1 /\ g.record = Null /\ g.at = "check"
  BY <1>0
<1>4. /\ made \in Nat /\ uploads \in Nat /\ Ids \subseteq Nat
      /\ Null \notin Nat
  BY Numbers
<1>5. /\ \A i \in Ids : records[i] # Null =>
           records[i].photo \in (1..uploads) \cup {Null}
      /\ files \subseteq 1..uploads
  BY DEF PhotoInv, PhotoTyped
<1>6. \A i \in Ids : records[i] # Null => records[i].photo # uploads + 1
  BY <1>4, <1>5
<1>7. PhotoTyped'
  <2>1. files' \subseteq 1..uploads'
    BY <1>1, <1>4, <1>5
  <2>2. QED
    BY <1>1, <1>4, <2>1, PhotoTypedStays DEF PhotoInv
<1>8. \A t \in Slots \ {s} : Taking(t) => g.photo # work[t].photo
  <2> SUFFICES ASSUME NEW t \in Slots \ {s}, Taking(t)
               PROVE  work[t].photo # uploads + 1
    BY <1>3
  <2>1. work[t].photo \in 1..uploads
    BY DEF PhotoInv, PhotoHandlers, Owns
  <2>2. QED
    BY <1>4, <2>1
<1>9. Owns(g)'
  <2>1. \A i \in Ids : ~Of(i, g.photo)'
    BY <1>1, <1>3, <1>6 DEF Of
  <2>2. g.photo \in 1..uploads'
    BY <1>1, <1>3, <1>4
  <2>3. QED
    BY <1>3, <2>1, <2>2 DEF Owns
<1>10. Stage(g)'
  <2>1. Serialized' = Serialized /\ (Serialized => sweep' = Null)
    BY <1>1 DEF Serialized
  <2>2. g.photo \in files'
    BY <1>1, <1>3
  <2>3. QED
    BY <1>3, <2>1, <2>2 DEF Stage
<1>11. \A i \in Ids : Fillable(i) => Fillable(i)'
  <2> SUFFICES ASSUME NEW i \in Ids, Fillable(i) PROVE Fillable(i)'
    OBVIOUS
  <2>1. Shown(i)' <=> Shown(i)
    BY <1>1 DEF Shown, Held
  <2>2. ASSUME Shown(i)
        PROVE  /\ records[i].photo \in files'
               /\ \A t \in Slots : Taking(t)' /\ work'[t].photo = records[i].photo
                                     => work'[t].at \in {"mail", "mailing"}
    <3>1. records[i].photo \in files /\ records[i] # Null
      BY <2>2 DEF Fillable, Shown
    <3>2. work'[s].photo # records[i].photo
      BY <1>2, <1>3, <1>6, <3>1
    <3>3. QED
      BY <1>1, <1>2, <2>2, <3>1, <3>2 DEF Fillable, Taking
  <2>3. QED
    BY <1>1, <2>1, <2>2 DEF Fillable
<1>12. \A p \in (1..uploads) \cup {Null} : p \notin files => p \notin files'
  BY <1>1, <1>4
<1>13. \A t \in Slots \ {s} : Taking(t) => \A i \in Ids :
        records'[i] # Null /\ records'[i].photo = work[t].photo
          => Of(i, work[t].photo)
  BY <1>1 DEF Of
<1>14. uploads' \in Nat /\ uploads <= uploads' /\ made' \in Nat /\ made <= made'
  BY <1>1, <1>4
<1>15. QED
  BY <1>1, <1>2, <1>3, <1>7, <1>8, <1>9, <1>10, <1>11, <1>12, <1>13, <1>14,
     PhotosGoOn

LEMMA PhotoDiscardKeeps ==
    ASSUME NEW s \in Slots, Core, PhotoInv, PhotoDiscard(s)
    PROVE  PhotoInv'
<1>1. PICK h : h = work[s]
  OBVIOUS
<1>2. /\ Taking(s) /\ h.at = "discard" /\ files' = files \ {h.photo}
      /\ UNCHANGED <<now, scene, records, made, uploads, evidence, sweep>>
  BY <1>1 DEF PhotoDiscard, Handling, Taking
<1>3. work'[s] = Null /\ \A t \in Slots \ {s} : work'[t] = work[t]
  BY DEF PhotoDiscard, Ends, Becomes, Core
<1>4. ~Taking(s)'
  BY <1>3 DEF Taking
<1>5. /\ made \in Nat /\ uploads \in Nat
  BY Numbers
<1>6. PhotoTyped'
  <2>1. files' \subseteq 1..uploads'
    BY <1>2 DEF PhotoInv, PhotoTyped
  <2>2. QED
    BY <1>2, <1>5, <2>1, PhotoTypedStays DEF PhotoInv
<1>7. \A t \in Slots \ {s} : Taking(t) => work[t].photo # h.photo
  BY <1>1, <1>2 DEF PhotoInv, PhotoHandlers
<1>8. \A i \in Ids : Fillable(i) => Fillable(i)'
  <2>1. \A i \in Ids : Shown(i)' => Shown(i) /\ records'[i].photo = records[i].photo
    BY <1>2 DEF Shown, Held
  <2>2. QED
    BY <1>1, <1>2, <1>3, <1>4, <1>5, <2>1, FillsGoOn
<1>9. \A t \in Slots \ {s} : Taking(t) =>
        /\ \A i \in Ids :
             records'[i] # Null /\ records'[i].photo = work[t].photo
               => Of(i, work[t].photo)
        /\ work[t].photo \in files => work[t].photo \in files'
  BY <1>2, <1>7 DEF Of
<1>10. QED
  BY <1>2, <1>3, <1>4, <1>5, <1>6, <1>8, <1>9, PhotosGoOn

LEMMA PhotoInsertKeeps ==
    ASSUME NEW s \in Slots, Core, PhotoInv, PhotoInsert(s)
    PROVE  PhotoInv'
<1>1. PICK h : h = work[s]
  OBVIOUS
<1>2. PICK g : g = work'[s]
  OBVIOUS
<1>3. /\ Taking(s) /\ h.at = "insert"
      /\ UNCHANGED <<now, scene, files, uploads, evidence, sweep>>
  BY <1>1 DEF PhotoInsert, Handling, Taking
<1>4. h \in PhotoRequest /\ Owns(h) /\ Stage(h)
  BY <1>1, <1>3, Requested DEF Taking, PhotoInv, PhotoHandlers
<1>5. g = [h EXCEPT !.at = "prove", !.record = made + 1]
        /\ \A t \in Slots \ {s} : work'[t] = work[t]
  BY <1>1, <1>2 DEF PhotoInsert, Becomes, Core
<1>6. /\ g.at = "prove" /\ g.photo = h.photo /\ g.record = made + 1
  BY <1>4, <1>5 DEF PhotoRequest
<1>7. /\ made \in Nat /\ uploads \in Nat /\ Ids \subseteq Nat
      /\ Null \notin Nat /\ now \in Nat /\ Retention \in Nat
  BY Numbers
<1> DEFINE row == [user |-> h.user, method |-> "web", photo |-> h.photo,
                   at |-> h.expires - Retention]
<1>8. Inserted(row)
  BY <1>1 DEF PhotoInsert
<1>9. row.photo = h.photo
  OBVIOUS
<1>10. row \in Record
  <2>1. h.user \in Users /\ h.photo \in Nat
    BY <1>4 DEF PhotoRequest
  <2>2. h.expires - Retention \in 0..MaxTime
    <3>1. h.expires - Retention \in Days
      BY <1>3, <1>4 DEF Stage
    <3>2. QED
      BY <3>1, EvidenceAssumption DEF Core, Days
  <2>3. QED
    BY <2>1, <2>2 DEF Record
<1> HIDE DEF row
<1>11. /\ made + 1 \in Ids /\ made' = made + 1
       /\ records' = [records EXCEPT ![made + 1] = row]
  BY <1>8, Inserting DEF Inserted
<1>12. /\ records \in [Ids -> Record \cup {Null}]
       /\ \A i \in Ids : records[i] # Null => i <= made
       /\ records[made + 1] = Null
  BY <1>7, <1>11 DEF PhotoInv, PhotoTyped
<1>13. /\ records' \in [Ids -> Record \cup {Null}]
       /\ records'[made + 1] = row
       /\ \A i \in Ids : i # made + 1 => records'[i] = records[i]
  BY <1>10, <1>11, <1>12
<1>14. evidence[made + 1] = Null
  BY <1>11, <1>12 DEF PhotoInv, PhotoTyped
<1>15. row # Null
  BY <1>10, NullIsNoRow
<1>16. h.photo \in 1..uploads /\ h.photo \in Nat /\ h.photo # Null
         /\ h.photo \in files
         /\ \A i \in Ids : ~Of(i, h.photo)
  <2>1. h.record = Null
    BY <1>3, <1>4 DEF Owns
  <2>2. QED
    BY <1>3, <1>4, <1>7, <2>1 DEF Owns, Stage
<1>17. PhotoTyped'
  <2>1. \A i \in Ids : evidence'[i] # Null => records'[i] # Null
    BY <1>3, <1>13, <1>14 DEF PhotoInv, PhotoTyped
  <2>2. \A i \in Ids : records'[i] # Null => i <= made'
    BY <1>7, <1>11, <1>12, <1>13
  <2>3. \A i \in Ids : records'[i] # Null =>
          records'[i].photo \in (1..uploads) \cup {Null}
    BY <1>9, <1>13, <1>16 DEF PhotoInv, PhotoTyped
  <2>4. ASSUME NEW i \in Ids, NEW j \in Ids, NEW p \in 1..uploads,
               Of(i, p)', Of(j, p)'
        PROVE  i = j
    <3>1. /\ i # made + 1 => Of(i, p)
          /\ j # made + 1 => Of(j, p)
          /\ i = made + 1 \/ j = made + 1 => p = h.photo
      BY <1>9, <1>13, <2>4 DEF Of
    <3>2. QED
      BY <1>16, <2>4, <3>1 DEF PhotoInv, PhotoTyped
  <2>5. QED
    BY <1>3, <1>13, <2>1, <2>2, <2>3, <2>4 DEF PhotoInv, PhotoTyped
<1>18. \A t \in Slots \ {s} : Taking(t) =>
         /\ work[t].photo # h.photo
         /\ work[t].record # Null => work[t].record \in Ids
                                     /\ work[t].record # made + 1
  <2> SUFFICES ASSUME NEW t \in Slots \ {s}, Taking(t)
               PROVE  /\ work[t].photo # h.photo
                      /\ work[t].record # Null => work[t].record \in Ids
                                                  /\ work[t].record # made + 1
    OBVIOUS
  <2>1. work[t].photo # h.photo
    BY <1>1, <1>3 DEF PhotoInv, PhotoHandlers
  <2>2. work[t].record # Null => work[t].record \in Ids /\ work[t].record <= made
    BY DEF PhotoInv, PhotoHandlers, Owns
  <2>3. QED
    BY <1>7, <2>1, <2>2
<1>19. Owns(g)'
  <2>1. \A i \in Ids : Of(i, g.photo)' => i = g.record
    BY <1>6, <1>13, <1>16 DEF Of
  <2>2. g.record \in Ids /\ g.record # Null /\ g.record <= made'
    BY <1>6, <1>7, <1>11
  <2>3. QED
    BY <1>3, <1>6, <1>16, <2>1, <2>2 DEF Owns
<1>20. Stage(g)'
  <2>1. Serialized' = Serialized /\ (Serialized => sweep' = Null)
    BY <1>3, <1>4 DEF Serialized, Stage
  <2>2. Of(g.record, g.photo)'
    BY <1>6, <1>9, <1>13, <1>15 DEF Of
  <2>3. QED
    BY <1>3, <1>6, <1>14, <1>16, <2>1, <2>2 DEF Stage
<1>21. \A i \in Ids : Fillable(i) => Fillable(i)'
  <2>1. \A i \in Ids : i <= made /\ Shown(i)' =>
          Shown(i) /\ records'[i].photo = records[i].photo
    BY <1>3, <1>7, <1>13 DEF Shown, Held
  <2>2. /\ made' \in Nat /\ made <= made'
        /\ work[s].at = "insert" /\ work'[s].photo = work[s].photo
    BY <1>1, <1>2, <1>3, <1>6, <1>7, <1>11
  <2>3. QED
    BY <1>3, <1>5, <2>1, <2>2, FillsGoOn
<1>22. \A t \in Slots \ {s} : Taking(t) =>
         /\ \A i \in Ids :
              records'[i] # Null /\ records'[i].photo = work[t].photo
                => Of(i, work[t].photo)
         /\ work[t].record # Null =>
              records'[work[t].record] = records[work[t].record]
  BY <1>9, <1>13, <1>18 DEF Of
<1>23. \A i \in Ids : evidence[i] # Null => records'[i] = records[i]
  BY <1>13, <1>14
<1>24. made' \in Nat /\ made <= made'
  BY <1>7, <1>11
<1>25. \A t \in Slots \ {s} : Taking(t) =>
         /\ g.photo # work[t].photo
         /\ g.record # Null => g.record # work[t].record
  BY <1>6, <1>7, <1>11, <1>18
<1>26. /\ work'[s] = g /\ UNCHANGED <<now, scene, sweep, files, evidence>>
       /\ uploads' \in Nat /\ uploads <= uploads'
  BY <1>2, <1>3, <1>7
<1>27. QED
  BY <1>3, <1>5, <1>17, <1>19, <1>20, <1>21, <1>22, <1>23, <1>24, <1>25,
     <1>26, PhotosGoOn

LEMMA PhotoProveKeeps ==
    ASSUME NEW s \in Slots, Core, PhotoInv, PhotoProve(s)
    PROVE  PhotoInv'
<1>1. PICK h : h = work[s]
  OBVIOUS
<1>2. PICK g : g = work'[s]
  OBVIOUS
<1>3. /\ made \in Nat /\ uploads \in Nat /\ Ids \subseteq Nat
      /\ Null \notin Nat /\ now \in Nat
  BY Numbers
<1>4. /\ Handling(s, "photo", "prove") /\ FaultsFall
      /\ UNCHANGED <<now, scene, records, made, files, uploads, sweep>>
  BY DEF PhotoProve, FaultsFall
<1>5. ASSUME NEW at \in {"mail", "undo"}, Goes(s, at)
      PROVE  /\ Taking(s) /\ h.at = "prove" /\ Owns(h) /\ Stage(h)
             /\ h \in PhotoRequest /\ h.record # Null /\ h.record \in Ids
             /\ \A t \in Slots \ {s} : work'[t] = work[t]
             /\ g.at = at /\ g.photo = h.photo /\ g.record = h.record
             /\ g.expires = h.expires
             /\ Owns(g)'
  <2>1. /\ Taking(s) /\ h.at = "prove" /\ Owns(h) /\ Stage(h)
        /\ h \in PhotoRequest
        /\ \A t \in Slots \ {s} : work'[t] = work[t]
        /\ g.at = at /\ g.photo = h.photo /\ g.record = h.record
        /\ g.expires = h.expires
    BY <1>1, <1>2, <1>4, <1>5, PhotoGoes
  <2>2. h.record # Null /\ h.record \in Ids
    BY <2>1 DEF Owns
  <2>3. \A i \in Ids : Of(i, g.photo)' <=> Of(i, h.photo)
    BY <1>4, <2>1 DEF Of
  <2>4. Owns(g)'
    BY <1>4, <1>5, <2>1, <2>2, <2>3 DEF Owns
  <2>5. QED
    BY <2>1, <2>2, <2>4
<1>6. CASE evidence[h.record] # Null
  <2>1. Goes(s, "undo") /\ evidence' = evidence
    BY <1>1, <1>6 DEF PhotoProve
  <2>2. ~Serialized /\ Serialized' = Serialized
    BY <1>4, <1>5, <1>6, <2>1 DEF Stage, Serialized
  <2>3. Stage(g)'
    BY <1>5, <2>1, <2>2 DEF Stage
  <2>4. QED
    BY <1>1, <1>2, <1>4, <1>5, <2>1, <2>3, PhotoMovesOn
<1>7. CASE evidence[h.record] = Null
  <2> DEFINE e == [data |-> TRUE, expires |-> h.expires]
             r == h.record
  <2>1. Goes(s, "mail") /\ evidence' = [evidence EXCEPT ![r] = e]
    BY <1>1, <1>7 DEF PhotoProve
  <2>2. /\ Taking(s) /\ h.at = "prove" /\ Owns(h) /\ Stage(h)
        /\ h \in PhotoRequest /\ r # Null /\ r \in Ids
        /\ \A t \in Slots \ {s} : work'[t] = work[t]
        /\ g.at = "mail" /\ g.photo = h.photo /\ g.record = r
        /\ g.expires = h.expires
        /\ Owns(g)'
    BY <1>5, <2>1
  <2>3. e \in Proof /\ e # Null /\ e.data /\ e.expires = h.expires
    <3>1. e \in Proof
      BY <2>2 DEF PhotoRequest, Proof
    <3>2. QED
      BY <3>1, NullIsNoRow
  <2> HIDE DEF e, r
  <2>4. evidence \in [Ids -> Proof \cup {Null}]
    BY DEF PhotoInv, PhotoTyped
  <2>5. /\ evidence' \in [Ids -> Proof \cup {Null}]
        /\ evidence'[r] = e
        /\ \A i \in Ids : i # r => evidence'[i] = evidence[i]
    BY <2>1, <2>2, <2>3, <2>4
  <2>6. evidence[r] = Null
    BY <1>7 DEF r
  <2>7. Of(r, h.photo) /\ h.photo \in files
    BY <2>2, <2>6 DEF Stage, r
  <2>8. records[r] # Null /\ records[r].photo = h.photo /\ h.photo # Null
          /\ h.photo \in Nat
    BY <1>3, <2>2, <2>7 DEF Of, PhotoRequest
  <2>9. PhotoTyped'
    <3>1. \A i \in Ids : evidence'[i] # Null => records'[i] # Null
      BY <1>4, <2>5, <2>8 DEF PhotoInv, PhotoTyped
    <3>2. \A i \in Ids : \A p : Of(i, p)' <=> Of(i, p)
      BY <1>4 DEF Of
    <3>3. QED
      BY <1>4, <2>5, <3>1, <3>2 DEF PhotoInv, PhotoTyped
  <2>10. \A t \in Slots \ {s} : Taking(t) =>
           /\ work[t].photo # h.photo
           /\ work[t].record # Null => work[t].record \in Ids
                                       /\ work[t].record # r
    BY <1>1, <2>2 DEF PhotoInv, PhotoHandlers, Owns, r
  <2>11. Stage(g)'
    <3>1. Serialized' = Serialized /\ (Serialized => sweep' = Null)
      BY <1>4, <2>2 DEF Serialized, Stage
    <3>2. evidence'[g.record] # Null /\ evidence'[g.record].expires = g.expires
      BY <2>2, <2>3, <2>5
    <3>3. Shown(g.record)'
      BY <1>4, <2>2, <2>3, <2>5, <2>8 DEF Shown, Held
    <3>4. QED
      BY <2>2, <3>1, <3>2, <3>3 DEF Stage
  <2>12. \A i \in Ids : Fillable(i) => Fillable(i)'
    <3> SUFFICES ASSUME NEW i \in Ids, Fillable(i) PROVE Fillable(i)'
      OBVIOUS
    <3>1. i <= made'
      BY <1>4 DEF Fillable
    <3>2. CASE i = r
      <4>1. records'[i].photo = h.photo /\ h.photo \in files'
        BY <1>4, <2>7, <2>8, <3>2
      <4>2. ASSUME NEW t \in Slots, Taking(t)', work'[t].photo = h.photo
            PROVE  work'[t].at \in {"mail", "mailing"}
        <5>1. t = s
          BY <2>2, <2>10, <4>2 DEF Taking
        <5>2. QED
          BY <1>2, <2>2, <5>1
      <4>3. QED
        BY <3>1, <4>1, <4>2 DEF Fillable
    <3>3. CASE i # r
      <4>1. Shown(i)' <=> Shown(i)
        BY <1>4, <2>5, <3>3 DEF Shown, Held
      <4>2. Shown(i) => records[i].photo # h.photo
        BY <2>2, <3>3 DEF Shown, Owns, Of, r
      <4>3. \A t \in Slots : Taking(t)' /\ Shown(i)
               /\ work'[t].photo = records[i].photo
                 => t # s /\ Taking(t) /\ work'[t] = work[t]
        BY <1>2, <2>2, <4>2 DEF Taking
      <4>4. QED
        BY <1>4, <3>1, <4>1, <4>3 DEF Fillable
    <3>4. QED
      BY <3>2, <3>3
  <2>13. \A t \in Slots \ {s} : Taking(t) =>
           /\ \A i \in Ids :
                records'[i] # Null /\ records'[i].photo = work[t].photo
                  => Of(i, work[t].photo)
           /\ work[t].photo \in files => work[t].photo \in files'
           /\ work[t].record # Null =>
                /\ evidence'[work[t].record] = evidence[work[t].record]
                /\ records'[work[t].record] = records[work[t].record]
    BY <1>4, <2>5, <2>10 DEF Of
  <2>14. \A i \in Ids : evidence[i] # Null =>
           records'[i] = records[i] /\ evidence'[i] = evidence[i]
    BY <1>4, <2>5, <2>6
  <2>15. \A t \in Slots \ {s} : Taking(t) =>
           /\ g.photo # work[t].photo
           /\ g.record # Null => g.record # work[t].record
    BY <2>2, <2>10
  <2>16. /\ work'[s] = g /\ UNCHANGED <<now, scene, sweep, files>>
         /\ made' \in Nat /\ made <= made'
         /\ uploads' \in Nat /\ uploads <= uploads'
    BY <1>2, <1>3, <1>4
  <2>17. QED
    BY <2>2, <2>9, <2>11, <2>12, <2>13, <2>14, <2>15, <2>16, PhotosGoOn
<1>8. QED
  BY <1>6, <1>7

LEMMA PhotoUndoKeeps ==
    ASSUME NEW s \in Slots, Core, PhotoInv, PhotoUndo(s)
    PROVE  PhotoInv'
<1>1. PICK h : h = work[s]
  OBVIOUS
<1>2. PICK g : g = work'[s]
  OBVIOUS
<1>3. /\ made \in Nat /\ uploads \in Nat /\ Ids \subseteq Nat
      /\ Null \notin Nat /\ now \in Nat
  BY Numbers
<1>4. /\ Handling(s, "photo", "undo") /\ Goes(s, "discard")
      /\ UNCHANGED <<now, scene, made, files, uploads, evidence, sweep>>
      /\ records' = IF evidence[h.record] # Null THEN records
                    ELSE [records EXCEPT ![h.record] = Null]
  BY <1>1 DEF PhotoUndo
<1>5. /\ Taking(s) /\ h.at = "undo" /\ Owns(h) /\ Stage(h)
      /\ h \in PhotoRequest
      /\ \A t \in Slots \ {s} : work'[t] = work[t]
      /\ g.at = "discard" /\ g.photo = h.photo /\ g.record = h.record
  BY <1>1, <1>2, <1>4, PhotoGoes
<1>6. h.record # Null /\ h.record \in Ids
  BY <1>5 DEF Owns
<1>7. records \in [Ids -> Record \cup {Null}]
  BY DEF PhotoInv, PhotoTyped
<1>8. /\ records' \in [Ids -> Record \cup {Null}]
      /\ evidence[h.record] = Null => records'[h.record] = Null
      /\ \A i \in Ids : i # h.record => records'[i] = records[i]
      /\ \A i \in Ids : records'[i] # Null => records'[i] = records[i]
      /\ \A i \in Ids : evidence[i] # Null => records'[i] = records[i]
  BY <1>4, <1>6, <1>7
<1>9. PhotoTyped'
  <2>1. \A i \in Ids : evidence'[i] # Null => records'[i] # Null
    BY <1>4, <1>8 DEF PhotoInv, PhotoTyped
  <2>2. \A i \in Ids : \A p : Of(i, p)' => Of(i, p)
    BY <1>8 DEF Of
  <2>3. \A i \in Ids : records'[i] # Null =>
          /\ i <= made
          /\ records'[i].photo \in (1..uploads) \cup {Null}
    BY <1>8 DEF PhotoInv, PhotoTyped
  <2>4. \A i, j \in Ids, p \in 1..uploads : Of(i, p)' /\ Of(j, p)' => i = j
    BY <2>2 DEF PhotoInv, PhotoTyped
  <2>5. QED
    BY <1>4, <1>8, <2>1, <2>3, <2>4 DEF PhotoInv, PhotoTyped
<1>10. \A t \in Slots \ {s} : Taking(t) =>
         /\ work[t].photo # h.photo
         /\ work[t].record # Null => work[t].record \in Ids
                                     /\ work[t].record # h.record
  BY <1>1, <1>5, <1>6 DEF PhotoInv, PhotoHandlers, Owns
<1>11. Owns(g)'
  <2>1. \A i \in Ids : Of(i, g.photo)' => i = g.record
    BY <1>5, <1>6, <1>8 DEF Of, Owns
  <2>2. g.photo \in 1..uploads' /\ g.record <= made'
    BY <1>4, <1>5, <1>6 DEF Owns
  <2>3. QED
    BY <1>5, <1>6, <2>1, <2>2 DEF Owns
<1>12. Stage(g)'
  <2>1. Serialized' = Serialized /\ (Serialized => sweep' = Null)
    BY <1>4, <1>5 DEF Serialized, Stage
  <2>2. Serialized => \A i \in Ids : ~Of(i, g.photo)'
    <3> SUFFICES ASSUME Serialized, NEW i \in Ids, Of(i, g.photo)'
                 PROVE  FALSE
      OBVIOUS
    <3>1. i = h.record
      BY <1>5, <1>6, <1>11 DEF Owns
    <3>2. evidence[h.record] = Null
      BY <1>5 DEF Stage
    <3>3. QED
      BY <1>8, <3>1, <3>2 DEF Of
  <2>3. QED
    BY <1>5, <2>1, <2>2 DEF Stage
<1>13. \A i \in Ids : Fillable(i) => Fillable(i)'
  <2>1. \A i \in Ids : Shown(i)' => Shown(i) /\ records'[i].photo = records[i].photo
    BY <1>4, <1>8 DEF Shown, Held
  <2>2. /\ work[s].at = "undo" /\ work'[s].photo = work[s].photo
        /\ made' \in Nat /\ made <= made'
    BY <1>1, <1>2, <1>3, <1>4, <1>5
  <2>3. QED
    BY <1>4, <1>5, <2>1, <2>2, FillsGoOn
<1>14. \A t \in Slots \ {s} : Taking(t) =>
         /\ \A i \in Ids :
              records'[i] # Null /\ records'[i].photo = work[t].photo
                => Of(i, work[t].photo)
         /\ work[t].record # Null =>
              records'[work[t].record] = records[work[t].record]
  BY <1>8, <1>10 DEF Of
<1>15. \A t \in Slots \ {s} : Taking(t) =>
         /\ g.photo # work[t].photo
         /\ g.record # Null => g.record # work[t].record
  BY <1>5, <1>6, <1>10
<1>16. /\ work'[s] = g /\ UNCHANGED <<now, scene, sweep, files, evidence>>
       /\ made' \in Nat /\ made <= made'
       /\ uploads' \in Nat /\ uploads <= uploads'
  BY <1>2, <1>3, <1>4
<1>17. QED
  BY <1>5, <1>8, <1>9, <1>11, <1>12, <1>13, <1>14, <1>15, <1>16, PhotosGoOn

\* No handler takes back what can be seen.
LEMMA PhotoStepKeeps ==
    ASSUME NEW s \in Slots, Core, PhotoInv, PhotoStep(s)
    PROVE  /\ PhotoInv'
           /\ \A i \in Ids : /\ Shown(i) => Shown(i)'
                             /\ Held(i) => Held(i)'
<1>1. PhotoInv'
  BY PhotoArrivesKeeps, PhotoCheckKeeps, PhotoInsertKeeps, PhotoProveKeeps,
     PhotoUndoKeeps, PhotoDiscardKeeps, PhotoMailKeeps, PhotoFailsKeeps
     DEF PhotoStep, PhotoProceeds
<1>2. \A i \in Ids : evidence[i] # Null =>
        records'[i] = records[i] /\ evidence'[i] = evidence[i]
  <2>1. CASE PhotoInsert(s)
    <3>1. made + 1 \in Ids /\ made \in Nat /\ Ids \subseteq Nat
      BY <2>1, Inserting, Numbers DEF PhotoInsert
    <3>2. \A i \in Ids : evidence[i] # Null => i <= made
      BY DEF PhotoInv, PhotoTyped
    <3>3. \A i \in Ids : i # made + 1 => records'[i] = records[i]
      BY <2>1, <3>1 DEF PhotoInsert, Inserted, PhotoInv, PhotoTyped
    <3>4. \A i \in Ids : evidence[i] # Null => records'[i] = records[i]
      BY <3>1, <3>2, <3>3
    <3>5. QED
      BY <2>1, <3>4 DEF PhotoInsert
  <2>2. CASE PhotoProve(s)
    BY <2>2 DEF PhotoProve, PhotoInv, PhotoTyped
  <2>3. CASE PhotoUndo(s)
    BY <2>3 DEF PhotoUndo, PhotoInv, PhotoTyped
  <2>4. CASE \/ PhotoCheck(s) \/ PhotoDiscard(s) \/ PhotoMail(s)
             \/ PhotoFails(s) \/ \E u \in Staff : PhotoArrives(s, u)
    BY <2>4 DEF PhotoCheck, PhotoDiscard, PhotoMail, PhotoFails, PhotoArrives
  <2>5. QED
    BY <2>1, <2>2, <2>3, <2>4 DEF PhotoStep, PhotoProceeds
<1>3. QED
  BY <1>1, <1>2 DEF Shown, Held
-----------------------------------------------------------------------------
\* The handlers, while the sweep goes on.
LEMMA HandlersStand ==
    ASSUME Core, PhotoTyped, PhotoHandlers, FaultsFall,
           UNCHANGED <<now, made, work, scene, uploads>>,
           Serialized => \A s \in Slots : ~Taking(s),
           files' \subseteq files,
           \A i \in Ids : \A p \in Nat :
             records'[i] # Null /\ records'[i].photo = p => Of(i, p),
           \A i \in Ids :
             /\ evidence[i] # Null =>
                  /\ evidence'[i] # Null
                  /\ evidence'[i].expires = evidence[i].expires
             /\ evidence'[i] = Null =>
                  \/ records'[i] = records[i]
                  \/ records[i].photo \notin files,
           \A p \in files \ files' :
             \E i \in Ids : Of(i, p) /\ evidence[i] # Null,
           \A i \in Ids : Shown(i) => Shown(i)' \/ evidence[i].expires <= now
    PROVE  PhotoHandlers'
<1>1. /\ made \in Nat /\ uploads \in Nat /\ Ids \subseteq Nat
      /\ Null \notin Nat
  BY Numbers
<1>2. ASSUME NEW s \in Slots, Taking(s)
      PROVE  Owns(work[s])' /\ Stage(work[s])'
  <2>1. PICK h : h = work[s]
    OBVIOUS
  <2>2. h \in PhotoRequest /\ Owns(h) /\ Stage(h) /\ work'[s] = h
    BY <1>2, <2>1, Requested DEF Taking, PhotoHandlers
  <2>3. h.photo \in Nat /\ h.photo \in 1..uploads
    BY <2>2 DEF PhotoRequest, Owns
  <2>4. \A i \in Ids : Of(i, h.photo)' => Of(i, h.photo)
    BY <2>3 DEF Of
  <2>5. Owns(h)'
    BY <2>2, <2>4 DEF Owns
  <2>6. ~Serialized /\ Serialized' = Serialized /\ Days' = Days
    BY <1>2, DaysStay
  <2>7. h.at \in {"check", "insert"} => h.photo \in files'
    <3> SUFFICES ASSUME h.at \in {"check", "insert"}, h.photo \notin files'
                 PROVE  FALSE
      OBVIOUS
    <3>1. h.photo \in files /\ \A i \in Ids : ~Of(i, h.photo)
      BY <2>2 DEF Owns, Stage
    <3>2. QED
      BY <3>1
  <2>8. h.at = "prove" /\ evidence'[h.record] = Null
          => Of(h.record, h.photo)' /\ h.photo \in files'
    <3> SUFFICES ASSUME h.at = "prove", evidence'[h.record] = Null
                 PROVE  Of(h.record, h.photo)' /\ h.photo \in files'
      OBVIOUS
    <3>1. h.record \in Ids /\ \A i \in Ids : Of(i, h.photo) => i = h.record
      BY <2>2 DEF Owns
    <3>2. evidence[h.record] = Null
      BY <3>1
    <3>3. Of(h.record, h.photo) /\ h.photo \in files
      BY <2>2, <3>2 DEF Stage
    <3>4. h.photo \in files'
      BY <3>1, <3>2, <3>3
    <3>5. records'[h.record] = records[h.record]
      BY <3>1, <3>3 DEF Of
    <3>6. QED
      BY <3>3, <3>4, <3>5 DEF Of
  <2>9. h.at = "mail" => /\ evidence'[h.record] # Null
                         /\ evidence'[h.record].expires = h.expires
                         /\ Shown(h.record)' \/ h.expires <= now'
    <3> SUFFICES ASSUME h.at = "mail"
                 PROVE  /\ evidence'[h.record] # Null
                        /\ evidence'[h.record].expires = h.expires
                        /\ Shown(h.record)' \/ h.expires <= now'
      OBVIOUS
    <3>1. h.record \in Ids
      BY <2>2 DEF Owns
    <3>2. /\ evidence[h.record] # Null
          /\ evidence[h.record].expires = h.expires
          /\ Shown(h.record) \/ h.expires <= now
      BY <2>2 DEF Stage
    <3>3. Shown(h.record)' \/ h.expires <= now
      BY <3>1, <3>2
    <3>4. QED
      BY <3>1, <3>2, <3>3
  <2>10. h.at = "insert" => (h.expires - Retention \in Days)'
    BY <2>2, <2>6 DEF Stage
  <2>11. Stage(h)'
    BY <2>6, <2>7, <2>8, <2>9, <2>10 DEF Stage
  <2>12. QED
    BY <2>2, <2>5, <2>11
<1>3. \A s \in Slots : Taking(s)' <=> Taking(s)
  BY DEF Taking
<1>4. QED
  BY <1>2, <1>3 DEF PhotoHandlers

\* Nobody handles a photo while the sweep runs, where requests are serialized.
LEMMA SweepIsAlone ==
    ASSUME PhotoHandlers, Serialized, sweep # Null \/ Idle
    PROVE  \A s \in Slots : ~Taking(s)
BY DEF PhotoHandlers, Stage, Idle, Taking

\* What a step of the sweep leaves as it should be: the photos, and the
\* reason why one is not seen any more.
SweepKeeps ==
    /\ PhotoInv'
    /\ \A i \in Ids :
         /\ Shown(i) => Shown(i)' \/ /\ evidence[i].expires <= now
                                     /\ records[i].photo \notin files
         /\ Held(i) => Held(i)' \/ ~Shown(i)

\* Only what the sweep has to do changes.
LEMMA SweepOnly ==
    ASSUME Core, PhotoInv, FaultsFall,
           UNCHANGED <<now, made, work, scene, uploads, records, files,
                       evidence>>,
           sweep # Null \/ (Serialized => Idle),
           sweep' \in Sweep \cup {Null},
           SweepKnows'
    PROVE  SweepKeeps
<1>1. PhotoTyped'
  BY DEF PhotoInv, PhotoTyped, Of
<1>2. Serialized => \A s \in Slots : ~Taking(s)
  BY SweepIsAlone DEF PhotoInv
<1>3. \A i \in Ids : (Shown(i)' <=> Shown(i)) /\ (Held(i)' <=> Held(i))
  BY DEF Shown, Held
<1>4. \A i \in Ids : \A p \in Nat :
        records'[i] # Null /\ records'[i].photo = p => Of(i, p)
  BY DEF Of
<1>5. PhotoHandlers'
  BY <1>2, <1>3, <1>4, HandlersStand DEF PhotoInv
<1>6. QED
  BY <1>1, <1>3, <1>5 DEF PhotoInv, SweepKeeps

\* It goes to the next one, or ends.
LEMMA NextIsKnown ==
    ASSUME Core, PhotoInv, sweep # Null, sweep.at \in {"unlink", "row", "data"},
           SweepNext, now' = now,
           \A i \in sweep.todo \ {First} : Expired(i)'
    PROVE  sweep' \in Sweep \cup {Null} /\ SweepKnows'
<1>1. sweep \in Sweep /\ sweep.todo \subseteq Ids
  BY SweepTypes DEF PhotoInv
<1> DEFINE left == sweep.todo \ {First}
<1>2. sweep' = IF left = {} THEN Null ELSE [at |-> "unlink", todo |-> left]
  BY DEF SweepNext
<1>3. left \subseteq Ids /\ \A i \in left : Expired(i)'
  BY <1>1
<1>4. PICK l : l = left
  OBVIOUS
<1>5. sweep' = Null \/ (/\ sweep' = [at |-> "unlink", todo |-> l] /\ l # {}
                        /\ l \subseteq Ids /\ \A i \in l : Expired(i)')
  BY <1>2, <1>3, <1>4
<1> HIDE DEF left
<1>6. sweep' \in Sweep \cup {Null}
  BY <1>5 DEF Sweep
<1>7. sweep' # Null => /\ sweep'.at = "unlink" /\ sweep'.todo # {}
                       /\ \A i \in sweep'.todo : Expired(i)'
  BY <1>5
<1>8. SweepKnows'
  BY <1>7 DEF SweepKnows
<1>9. QED
  BY <1>6, <1>8

LEMMA SweepLooksKeeps ==
    ASSUME Core, PhotoInv, SweepStarts \/ SweepLooks \/ SweepSelects
    PROVE  SweepKeeps
<1>1. /\ UNCHANGED <<now, made, work, scene, uploads, records, files, evidence>>
      /\ FaultsFall
      /\ sweep # Null \/ (Serialized => Idle)
  BY DEF SweepStarts, SweepLooks, SweepSelects, SweepStays, FaultsFall
<1>2. CASE SweepStarts
  <2>1. sweep' = [at |-> "look", todo |-> {}]
    BY <1>2 DEF SweepStarts
  <2>2. sweep' \in Sweep \cup {Null} /\ SweepKnows'
    BY <2>1 DEF Sweep, SweepKnows
  <2>3. QED
    BY <1>1, <2>2, SweepOnly
<1>3. CASE SweepLooks
  <2>1. PICK todo : todo = {i \in Ids : /\ records[i] # Null
                                        /\ records[i].photo # Null
                                        /\ evidence[i] = Null}
    OBVIOUS
  <2>2. sweep' = [at |-> "fill", todo |-> todo]
    BY <1>3, <2>1 DEF SweepLooks
  <2>3. sweep' \in Sweep
    BY <2>1, <2>2 DEF Sweep
  <2>4. \A i \in todo : Fillable(i)'
    <3> SUFFICES ASSUME NEW i \in todo PROVE Fillable(i)'
      OBVIOUS
    <3>1. i \in Ids /\ records[i] # Null /\ evidence[i] = Null
      BY <2>1
    <3>2. i <= made
      BY <3>1 DEF PhotoInv, PhotoTyped
    <3>3. ~Shown(i)'
      BY <1>1, <3>1 DEF Shown, Held
    <3>4. QED
      BY <1>1, <3>2, <3>3 DEF Fillable
  <2>5. SweepKnows'
    BY <2>2, <2>4 DEF SweepKnows
  <2>6. QED
    BY <1>1, <2>3, <2>5, SweepOnly
<1>4. CASE SweepSelects
  <2>1. PICK due : due = {i \in Ids : Expired(i) /\ records[i] # Null}
    OBVIOUS
  <2>2. \/ sweep' = Null
        \/ due # {} /\ sweep' = [at |-> "unlink", todo |-> due]
    BY <1>4, <2>1 DEF SweepSelects
  <2>3. sweep' \in Sweep \cup {Null}
    BY <2>1, <2>2 DEF Sweep
  <2>4. \A i \in due : Expired(i)'
    BY <1>1, <2>1 DEF Expired, Held
  <2>5. SweepKnows'
    BY <2>2, <2>4 DEF SweepKnows
  <2>6. QED
    BY <1>1, <1>4, <2>3, <2>5, SweepOnly
<1>5. QED
  BY <1>2, <1>3, <1>4

LEMMA SweepFillsKeeps ==
    ASSUME NEW i \in Ids, Core, PhotoInv, SweepFills(i)
    PROVE  SweepKeeps
<1>1. /\ UNCHANGED <<now, made, work, scene, uploads, files>> /\ FaultsFall
      /\ sweep # Null /\ sweep.at = "fill" /\ i \in sweep.todo
      /\ sweep' = [sweep EXCEPT !.todo = @ \ {i}]
  BY DEF SweepFills, SweepStays, FaultsFall
<1>2. /\ made \in Nat /\ uploads \in Nat /\ Ids \subseteq Nat
      /\ Null \notin Nat /\ now \in Nat /\ Retention \in Nat
  BY Numbers
<1>3. /\ PhotoTyped /\ PhotoHandlers /\ SweepKnows
      /\ sweep \in Sweep /\ sweep.todo \subseteq Ids
      /\ records \in [Ids -> Record \cup {Null}]
      /\ evidence \in [Ids -> Proof \cup {Null}]
  BY <1>1, SweepTypes DEF PhotoInv, PhotoTyped
<1>4. /\ sweep' \in Sweep /\ sweep'.at = "fill"
      /\ sweep'.todo = sweep.todo \ {i}
  BY <1>1, <1>3 DEF Sweep
<1>5. \A j \in sweep.todo : Fillable(j)
  BY <1>1, <1>3 DEF SweepKnows
<1>6. ASSUME \A j \in Ids \ {i} : records'[j] = records[j]
                                  /\ evidence'[j] = evidence[j]
      PROVE  SweepKnows'
  <2>1. \A j \in Ids \ {i} : Fillable(j) => Fillable(j)'
    <3> SUFFICES ASSUME NEW j \in Ids \ {i}, Fillable(j) PROVE Fillable(j)'
      OBVIOUS
    <3>1. Shown(j)' => Shown(j)
      BY <1>6 DEF Shown, Held
    <3>2. QED
      BY <1>1, <1>6, <3>1 DEF Fillable, Taking
  <2>2. \A j \in sweep'.todo : Fillable(j)'
    BY <1>3, <1>4, <1>5, <2>1
  <2>3. QED
    BY <1>4, <2>2 DEF SweepKnows
<1>7. CASE UNCHANGED <<records, evidence>>
  <2>1. SweepKnows'
    BY <1>6, <1>7
  <2>2. QED
    BY <1>1, <1>4, <1>7, <2>1, SweepOnly
<1>8. CASE /\ records[i] # Null /\ records[i].photo \in files
           /\ evidence' = [evidence EXCEPT ![i] = IF @ # Null THEN @ ELSE
                        [data |-> TRUE, expires |-> records[i].at + Retention]]
           /\ UNCHANGED records
  <2>1. CASE evidence[i] # Null
    <3>1. evidence' = evidence
      BY <1>3, <1>8, <2>1
    <3>2. QED
      BY <1>7, <1>8, <3>1
  <2>2. CASE evidence[i] = Null
    <3> DEFINE e == [data |-> TRUE, expires |-> records[i].at + Retention]
    <3>1. e \in Proof
      <4>1. records[i] \in Record
        BY <1>3, <1>8
      <4>2. records[i].at \in Nat
        BY <4>1, EvidenceAssumption DEF Record
      <4>3. records[i].at + Retention \in Nat
        BY <1>2, <4>2
      <4>4. QED
        BY <4>3 DEF Proof
    <3>2. evidence' = [evidence EXCEPT ![i] = e]
      BY <1>3, <1>8, <2>2
    <3> HIDE DEF e
    <3>3. /\ evidence' \in [Ids -> Proof \cup {Null}]
          /\ evidence'[i] # Null
          /\ \A j \in Ids \ {i} : evidence'[j] = evidence[j]
      BY <1>3, <3>1, <3>2, NullIsNoRow
    <3>4. PhotoTyped'
      <4>1. \A j \in Ids : evidence'[j] # Null => records'[j] # Null
        BY <1>3, <1>8, <3>3 DEF PhotoTyped
      <4>2. \A j \in Ids : \A p : Of(j, p)' <=> Of(j, p)
        BY <1>8 DEF Of
      <4>3. QED
        BY <1>1, <1>3, <1>4, <1>8, <3>3, <4>1, <4>2 DEF PhotoTyped
    <3>5. SweepKnows'
      BY <1>6, <1>8, <3>3
    <3>6. \A j \in Ids : evidence[j] # Null => evidence'[j] = evidence[j]
      BY <2>2, <3>3
    <3>7. \A j \in Ids : (Shown(j) => Shown(j)') /\ (Held(j) => Held(j)')
      BY <1>8, <3>6 DEF Shown, Held
    <3>8. \A j \in Ids : \A p \in Nat :
            records'[j] # Null /\ records'[j].photo = p => Of(j, p)
      BY <1>8 DEF Of
    <3>9. Serialized => \A s \in Slots : ~Taking(s)
      BY <1>1, <1>3, SweepIsAlone
    <3>10. PhotoHandlers'
      BY <1>1, <1>3, <1>8, <3>6, <3>7, <3>8, <3>9, HandlersStand
    <3>11. QED
      BY <3>4, <3>5, <3>7, <3>10 DEF SweepKeeps, PhotoInv
  <2>3. QED
    BY <2>1, <2>2
<1>9. CASE /\ records[i] # Null /\ records[i].photo \notin files
           /\ records' = [records EXCEPT ![i].photo = Null]
           /\ UNCHANGED evidence
  <2> DEFINE row == [records[i] EXCEPT !.photo = Null]
  <2>1. records[i] \in Record
    BY <1>3, <1>9
  <2>2. row \in Record /\ row.photo = Null
    BY <2>1 DEF Record
  <2>3. records' = [records EXCEPT ![i] = row]
    BY <1>9
  <2> HIDE DEF row
  <2>4. /\ records' \in [Ids -> Record \cup {Null}]
        /\ records'[i] = row
        /\ \A j \in Ids \ {i} : records'[j] = records[j]
    BY <1>3, <2>2, <2>3
  <2>5. \A j \in Ids : \A p \in Nat :
          records'[j] # Null /\ records'[j].photo = p => Of(j, p)
    BY <1>2, <2>2, <2>4 DEF Of
  <2>6. PhotoTyped'
    <3>1. \A j \in Ids : evidence'[j] # Null => records'[j] # Null
      BY <1>3, <1>9, <2>2, <2>4, NullIsNoRow DEF PhotoTyped
    <3>2. \A j \in Ids : records'[j] # Null =>
            /\ j <= made
            /\ records'[j].photo \in (1..uploads) \cup {Null}
      BY <1>3, <1>9, <2>2, <2>4 DEF PhotoTyped
    <3>3. \A j, k \in Ids, p \in 1..uploads : Of(j, p)' /\ Of(k, p)' => j = k
      <4>1. \A j \in Ids, p \in 1..uploads : Of(j, p)' => Of(j, p)
        BY <1>2, <2>5 DEF Of
      <4>2. QED
        BY <1>3, <4>1 DEF PhotoTyped
    <3>4. QED
      BY <1>1, <1>3, <1>4, <1>9, <2>4, <3>1, <3>2, <3>3 DEF PhotoTyped
  <2>7. SweepKnows'
    BY <1>6, <1>9, <2>4
  <2>8. ~Shown(i)
    BY <1>1, <1>5, <1>9 DEF Fillable
  <2>9. \A j \in Ids : (Shown(j) => Shown(j)') /\ (Held(j) => Held(j)')
    BY <1>9, <2>4, <2>8 DEF Shown, Held
  <2>10. \A j \in Ids : evidence'[j] = Null =>
           records'[j] = records[j] \/ records[j].photo \notin files
    BY <1>9, <2>4
  <2>11. Serialized => \A s \in Slots : ~Taking(s)
    BY <1>1, <1>3, SweepIsAlone
  <2>12. PhotoHandlers'
    BY <1>1, <1>3, <1>9, <2>5, <2>9, <2>10, <2>11, HandlersStand
  <2>13. QED
    BY <2>6, <2>7, <2>9, <2>12 DEF SweepKeeps, PhotoInv
<1>10. QED
  BY <1>7, <1>8, <1>9 DEF SweepFills

\* The sweep handles one photo, whose time has come.
LEMMA FirstIsExpired ==
    ASSUME Core, PhotoInv, sweep # Null, sweep.at \in {"unlink", "row", "data"}
    PROVE  /\ First \in sweep.todo /\ First \in Ids
           /\ sweep \in Sweep /\ sweep.todo \subseteq Ids
           /\ evidence[First] # Null /\ evidence[First] \in Proof
           /\ evidence[First].data /\ evidence[First].expires <= now
           /\ records[First] # Null /\ records[First] \in Record
           /\ \A i \in sweep.todo : Expired(i)
<1>1. sweep \in Sweep /\ sweep.todo \subseteq Ids
  BY SweepTypes DEF PhotoInv
<1>2. sweep.todo # {} /\ \A i \in sweep.todo : Expired(i)
  BY DEF PhotoInv, SweepKnows
<1>3. First \in sweep.todo
  BY <1>1, <1>2, FirstIsOne
<1>4. Expired(First) /\ First \in Ids
  BY <1>1, <1>2, <1>3
<1>5. QED
  BY <1>1, <1>2, <1>3, <1>4 DEF Expired, Held, PhotoInv, PhotoTyped

LEMMA SweepUnlinksKeeps ==
    ASSUME Core, PhotoInv, SweepUnlinks
    PROVE  SweepKeeps
<1>1. /\ UNCHANGED <<now, made, work, scene, uploads, records, evidence>>
      /\ FaultsFall /\ sweep # Null /\ sweep.at = "unlink"
      /\ files' = files \ {records[First].photo}
      /\ sweep' = [sweep EXCEPT !.at = "row"]
  BY DEF SweepUnlinks, SweepStays, FaultsFall
<1>2. /\ First \in sweep.todo /\ First \in Ids
      /\ sweep \in Sweep /\ sweep.todo \subseteq Ids
      /\ evidence[First] # Null /\ records[First] # Null
      /\ \A i \in sweep.todo : Expired(i)
  BY <1>1, FirstIsExpired
<1>3. sweep' \in Sweep /\ sweep'.at = "row" /\ sweep'.todo = sweep.todo
  BY <1>1, <1>2 DEF Sweep
<1>4. First' = First
  BY <1>3 DEF First
<1>5. \A i \in Ids : (Expired(i)' <=> Expired(i)) /\ (Shown(i)' <=> Shown(i))
                     /\ (Held(i)' <=> Held(i))
  BY <1>1 DEF Expired, Shown, Held
<1>6. SweepKnows'
  BY <1>1, <1>2, <1>3, <1>4, <1>5 DEF SweepKnows
<1>7. PhotoTyped'
  <2>1. \A i \in Ids : \A p : Of(i, p)' <=> Of(i, p)
    BY <1>1 DEF Of
  <2>2. QED
    BY <1>1, <1>3, <2>1 DEF PhotoInv, PhotoTyped
<1>8. \A p \in files \ files' : \E i \in Ids : Of(i, p) /\ evidence[i] # Null
  BY <1>1, <1>2 DEF Of
<1>9. \A i \in Ids : \A p \in Nat :
        records'[i] # Null /\ records'[i].photo = p => Of(i, p)
  BY <1>1 DEF Of
<1>10. Serialized => \A s \in Slots : ~Taking(s)
  BY <1>1, SweepIsAlone DEF PhotoInv
<1>11. files' \subseteq files
  BY <1>1
<1>12. PhotoHandlers'
  BY <1>1, <1>5, <1>8, <1>9, <1>10, <1>11, HandlersStand DEF PhotoInv
<1>13. QED
  BY <1>5, <1>6, <1>7, <1>12 DEF SweepKeeps, PhotoInv

LEMMA SweepClearsRowKeeps ==
    ASSUME Core, PhotoInv, SweepClearsRow
    PROVE  SweepKeeps
<1>1. /\ UNCHANGED <<now, made, work, scene, uploads, files, evidence>>
      /\ FaultsFall /\ sweep # Null /\ sweep.at = "row"
      /\ records' = [records EXCEPT ![First].photo = Null]
      /\ sweep' = [sweep EXCEPT !.at = "data"]
  BY DEF SweepClearsRow, SweepStays, FaultsFall
<1>2. /\ First \in sweep.todo /\ First \in Ids
      /\ sweep \in Sweep /\ sweep.todo \subseteq Ids
      /\ evidence[First] # Null /\ evidence[First].expires <= now
      /\ records[First] # Null /\ records[First] \in Record
      /\ \A i \in sweep.todo : Expired(i)
  BY <1>1, FirstIsExpired
<1>3. /\ Ids \subseteq Nat /\ Null \notin Nat /\ uploads \in Nat
      /\ records \in [Ids -> Record \cup {Null}]
      /\ files \subseteq 1..uploads
      /\ records[First].photo \notin files
  BY <1>1, Numbers DEF PhotoInv, PhotoTyped, SweepKnows
<1>4. sweep' \in Sweep /\ sweep'.at = "data" /\ sweep'.todo = sweep.todo
  BY <1>1, <1>2 DEF Sweep
<1>5. PICK f : f = First
  OBVIOUS
<1>6. First' = f
  BY <1>4, <1>5 DEF First
<1> DEFINE row == [records[f] EXCEPT !.photo = Null]
<1>7. row \in Record /\ row.photo = Null
  BY <1>2, <1>5 DEF Record
<1>8. records' = [records EXCEPT ![f] = row]
  BY <1>1, <1>5
<1> HIDE DEF row
<1>9. /\ records' \in [Ids -> Record \cup {Null}]
      /\ records'[f] = row
      /\ \A j \in Ids \ {f} : records'[j] = records[j]
  BY <1>2, <1>3, <1>5, <1>7, <1>8
<1>10. \A j \in Ids : \A p \in Nat :
         records'[j] # Null /\ records'[j].photo = p => Of(j, p)
  BY <1>3, <1>7, <1>9 DEF Of
<1>11. PhotoTyped'
  <2>1. \A j \in Ids : evidence'[j] # Null => records'[j] # Null
    BY <1>1, <1>7, <1>9, NullIsNoRow DEF PhotoInv, PhotoTyped
  <2>2. \A j \in Ids : records'[j] # Null =>
          /\ j <= made
          /\ records'[j].photo \in (1..uploads) \cup {Null}
    BY <1>2, <1>5, <1>7, <1>9 DEF PhotoInv, PhotoTyped
  <2>3. \A j, k \in Ids, p \in 1..uploads : Of(j, p)' /\ Of(k, p)' => j = k
    <3>1. \A j \in Ids, p \in 1..uploads : Of(j, p)' => Of(j, p)
      BY <1>3, <1>10 DEF Of
    <3>2. QED
      BY <3>1 DEF PhotoInv, PhotoTyped
  <2>4. QED
    BY <1>1, <1>4, <1>9, <2>1, <2>2, <2>3 DEF PhotoInv, PhotoTyped
<1>12. SweepKnows'
  <2>1. \A i \in Ids : Expired(i)' <=> Expired(i)
    BY <1>1 DEF Expired, Held
  <2>2. Null \notin files'
    BY <1>1, <1>3
  <2>3. QED
    BY <1>2, <1>4, <1>6, <1>7, <1>9, <2>1, <2>2 DEF SweepKnows
<1>13. \A j \in Ids : /\ j # f => (Shown(j) => Shown(j)')
                      /\ Held(j) => Held(j)'
  BY <1>1, <1>9 DEF Shown, Held
<1>14. \A j \in Ids : Shown(j) => Shown(j)' \/ (/\ evidence[j].expires <= now
                                                /\ records[j].photo \notin files)
  BY <1>2, <1>3, <1>5, <1>13
<1>15. Serialized => \A s \in Slots : ~Taking(s)
  BY <1>1, SweepIsAlone DEF PhotoInv
<1>16. \A j \in Ids : evidence'[j] = Null => records'[j] = records[j]
  BY <1>1, <1>2, <1>5, <1>9
<1>17. PhotoHandlers'
  BY <1>1, <1>10, <1>14, <1>15, <1>16, HandlersStand DEF PhotoInv
<1>18. QED
  BY <1>11, <1>12, <1>13, <1>14, <1>17 DEF SweepKeeps, PhotoInv

LEMMA SweepClearsDataKeeps ==
    ASSUME Core, PhotoInv, SweepClearsData
    PROVE  SweepKeeps
<1>1. /\ UNCHANGED <<now, made, work, scene, uploads, files, records>>
      /\ FaultsFall /\ sweep # Null /\ sweep.at = "data" /\ SweepNext
      /\ evidence' = [evidence EXCEPT ![First].data = FALSE]
  BY DEF SweepClearsData, SweepStays, FaultsFall
<1>2. /\ First \in sweep.todo /\ First \in Ids
      /\ sweep \in Sweep /\ sweep.todo \subseteq Ids
      /\ evidence[First] # Null /\ evidence[First].expires <= now
      /\ evidence[First] \in Proof
      /\ \A i \in sweep.todo : Expired(i)
  BY <1>1, FirstIsExpired
<1>3. PICK f : f = First
  OBVIOUS
<1>4. records[f].photo = Null /\ evidence \in [Ids -> Proof \cup {Null}]
  BY <1>1, <1>3 DEF PhotoInv, SweepKnows, PhotoTyped
<1> DEFINE e == [evidence[f] EXCEPT !.data = FALSE]
<1>5. e \in Proof /\ e # Null /\ e.expires = evidence[f].expires
  <2>1. e \in Proof /\ e.expires = evidence[f].expires
    BY <1>2, <1>3 DEF Proof
  <2>2. QED
    BY <2>1, NullIsNoRow
<1>6. evidence' = [evidence EXCEPT ![f] = e]
  BY <1>1, <1>3
<1> HIDE DEF e
<1>7. /\ evidence' \in [Ids -> Proof \cup {Null}]
      /\ evidence'[f] = e
      /\ \A j \in Ids \ {f} : evidence'[j] = evidence[j]
  BY <1>2, <1>3, <1>4, <1>5, <1>6
<1>8. \A i \in sweep.todo \ {First} : Expired(i)'
  BY <1>1, <1>2, <1>3, <1>7 DEF Expired, Held
<1>9. sweep' \in Sweep \cup {Null} /\ SweepKnows'
  BY <1>1, <1>8, NextIsKnown
<1>10. \A i \in Ids : \A p : Of(i, p)' <=> Of(i, p)
  BY <1>1 DEF Of
<1>11. PhotoTyped'
  <2>1. \A i \in Ids : evidence'[i] # Null => records'[i] # Null
    BY <1>1, <1>2, <1>3, <1>7 DEF PhotoInv, PhotoTyped
  <2>2. QED
    BY <1>1, <1>7, <1>9, <1>10, <2>1 DEF PhotoInv, PhotoTyped
<1>12. ~Shown(f)
  BY <1>4 DEF Shown
<1>13. \A i \in Ids : /\ Shown(i) => Shown(i)'
                      /\ Held(i) => Held(i)' \/ ~Shown(i)
  BY <1>1, <1>7, <1>12 DEF Shown, Held
<1>14. \A i \in Ids : /\ evidence[i] # Null =>
                           /\ evidence'[i] # Null
                           /\ evidence'[i].expires = evidence[i].expires
                      /\ evidence'[i] = Null => records'[i] = records[i]
  BY <1>1, <1>5, <1>7
<1>15. \A i \in Ids : \A p \in Nat :
         records'[i] # Null /\ records'[i].photo = p => Of(i, p)
  BY <1>1 DEF Of
<1>16. Serialized => \A s \in Slots : ~Taking(s)
  BY <1>1, SweepIsAlone DEF PhotoInv
<1>17. PhotoHandlers'
  BY <1>1, <1>13, <1>14, <1>15, <1>16, HandlersStand DEF PhotoInv
<1>18. QED
  BY <1>9, <1>11, <1>13, <1>17 DEF SweepKeeps, PhotoInv

LEMMA SweepFailsKeeps ==
    ASSUME Core, PhotoInv, SweepFails
    PROVE  SweepKeeps
<1>1. /\ UNCHANGED <<now, made, work, scene, uploads, files, records, evidence>>
      /\ FaultsFall /\ sweep # Null /\ SweepNext
      /\ sweep.at \in {"unlink", "row", "data"}
  BY DEF SweepFails, SweepStays, FaultsFall
<1>2. \A i \in sweep.todo \ {First} : Expired(i)'
  <2>1. \A i \in sweep.todo : Expired(i)
    BY <1>1, FirstIsExpired
  <2>2. QED
    BY <1>1, <2>1 DEF Expired, Held
<1>3. sweep' \in Sweep \cup {Null} /\ SweepKnows'
  BY <1>1, <1>2, NextIsKnown
<1>4. QED
  BY <1>1, <1>3, SweepOnly

LEMMA SweepStepKeeps ==
    ASSUME Core, PhotoInv, SweepStep
    PROVE  SweepKeeps
BY SweepLooksKeeps, SweepFillsKeeps, SweepUnlinksKeeps, SweepClearsRowKeeps,
   SweepClearsDataKeeps, SweepFailsKeeps DEF SweepStep, SweepProceeds
-----------------------------------------------------------------------------
LEMMA PhotosAtStart ==
    ASSUME Init, Core
    PROVE  PhotoInv /\ MailInv /\ Owned
<1>1. /\ evidence = [i \in Ids |-> Null] /\ sweep = Null
      /\ mails = [i \in Ids |-> Null]
      /\ \A s \in Slots : work[s] = Null
  BY DEF Init, PhotoInit, EvidenceInit
<1>2. /\ Null \notin Nat /\ Ids \subseteq Nat
  BY Numbers
<1>3. PhotoTyped
  <2>1. CASE /\ records = [i \in Ids |-> Null] /\ made = 0
             /\ files = {} /\ uploads = 0
    BY <1>1, <2>1 DEF PhotoTyped, Of
  <2>2. ASSUME MaxRecords > 0, NEW u \in Staff,
               records = [i \in Ids |-> IF i # 1 THEN Null ELSE
                            [user |-> u, method |-> "web", photo |-> 1, at |-> 0]],
               made = 1, uploads = 1, files \in {{}, {1}}
        PROVE  PhotoTyped
    <3> DEFINE row == [user |-> u, method |-> "web", photo |-> 1, at |-> 0]
    <3>1. row \in Record /\ row.photo = 1
      <4>1. u \in Users /\ 0 \in 0..MaxTime
        BY StaffAreUsers, EvidenceAssumption
      <4>2. QED
        BY <4>1 DEF Record
    <3> HIDE DEF row
    <3>2. records = [i \in Ids |-> IF i # 1 THEN Null ELSE row]
      BY <2>2 DEF row
    <3>3. records \in [Ids -> Record \cup {Null}]
      BY <3>1, <3>2
    <3>4. \A i \in Ids : records[i] # Null => i = 1 /\ records[i] = row
      BY <3>2
    <3>5. 1..uploads = {1} /\ made = 1
      BY <2>2
    <3>6. QED
      BY <1>1, <2>2, <3>1, <3>3, <3>4, <3>5 DEF PhotoTyped, Of
  <2>3. QED
    BY <2>1, <2>2 DEF Init, PhotoInit
<1>4. PhotoHandlers /\ SweepKnows
  BY <1>1 DEF PhotoHandlers, SweepKnows, Taking
<1>5. MailInv
  BY <1>1, HandlerAssumption DEF MailInv, Phases
<1>6. Owned
  BY <1>1 DEF Owned
<1>7. QED
  BY <1>3, <1>4, <1>5, <1>6 DEF PhotoInv
-----------------------------------------------------------------------------
\* What came of the attempts that end in a step is on their rows.
Logged ==
    \A i \in Ids : mails[i] # "done" /\ mails'[i] = "done" =>
      IF mails[i] = "sent" THEN NoFault' => <<i, "sent">> \in logs'
      ELSE /\ NoFault' => <<i, "failed">> \in logs' /\ i \in failures'
           /\ faults' + 1 >= Scenes[scene].faults =>
                <<i, "failed">> \in logs' \/ i \in failures'

\* No attempt ends.
LEMMA MailsGoOn ==
    ASSUME Core, MailInv, logs' = logs, scene' = scene, FaultsFall,
           mails' \in [Ids -> Phases \cup {Null}],
           \A i \in Ids : mails'[i] \in {"unnoted", "done"} => mails'[i] = mails[i]
    PROVE  MailInv' /\ Logged
<1>1. /\ faults \in Nat /\ Scenes[scene].faults \in Nat
      /\ faults' \in Nat /\ faults' <= faults
  BY Numbers, FaultsOnlyFall
<1>2. \A i \in Ids : mails'[i] = "unnoted" =>
        <<i, "failed">> \in logs' \/ faults' < Scenes[scene]'.faults
  BY <1>1 DEF MailInv
<1>3. QED
  BY <1>2 DEF MailInv, Logged

LEMMA MailsWaitOn ==
    ASSUME Core, MailInv, logs' = logs, scene' = scene, FaultsFall, MailsWait
    PROVE  MailInv' /\ Logged
<1>1. mails \in [Ids -> Phases \cup {Null}]
  BY DEF MailInv
<1>2. mails' \in [Ids -> Phases \cup {Null}]
  BY <1>1 DEF MailsWait, Phases
<1>3. \A i \in Ids : mails'[i] \in {"unnoted", "done"} => mails'[i] = mails[i]
  BY <1>1 DEF MailsWait
<1>4. QED
  BY <1>2, <1>3, MailsGoOn

LEMMA MailStepKeeps ==
    ASSUME NEW i \in Ids, Core, MailInv, MailStep(i)
    PROVE  MailInv' /\ Logged
<1>1. /\ mails \in [Ids -> Phases \cup {Null}]
      /\ \A j \in Ids : mails[j] = "unnoted" =>
           <<j, "failed">> \in logs \/ faults < Scenes[scene].faults
  BY DEF MailInv
<1>2. /\ faults \in Nat /\ Scenes[scene].faults \in Nat
      /\ faults <= Scenes[scene].faults
  BY Numbers
<1>3. ASSUME NEW from, NEW to \in Phases, MailGoes(i, from, to)
      PROVE  /\ mails' \in [Ids -> Phases \cup {Null}]
             /\ mails[i] = from /\ mails'[i] = to /\ scene' = scene
             /\ \A j \in Ids \ {i} : mails'[j] = mails[j]
  BY <1>1, <1>3 DEF MailGoes
<1>4. CASE MailStarts(i) \/ MailIsSent(i)
  <2>1. UNCHANGED <<faults, logs>>
    BY <1>4 DEF MailStarts, MailIsSent
  <2>2. PICK from \in {"due", "sending"}, to \in {"sending", "refused", "sent"} :
          MailGoes(i, from, to)
    BY <1>4 DEF MailStarts, MailIsSent
  <2>3. to \in Phases /\ to \notin {"unnoted", "done"}
    BY DEF Phases
  <2>4. \A j \in Ids : mails'[j] \in {"unnoted", "done"} => mails'[j] = mails[j]
    BY <1>3, <2>2, <2>3
  <2>5. QED
    BY <1>3, <2>1, <2>2, <2>3, <2>4, MailsGoOn DEF FaultsFall
<1>5. CASE MailIsLogged(i)
  <2>1. MailGoes(i, "sent", "done") /\ Kept(<<i, "sent">>, logs)
    BY <1>5 DEF MailIsLogged
  <2>2. /\ mails' \in [Ids -> Phases \cup {Null}]
        /\ mails[i] = "sent" /\ mails'[i] = "done" /\ scene' = scene
        /\ \A j \in Ids \ {i} : mails'[j] = mails[j]
    BY <1>3, <2>1 DEF Phases
  <2>3. \/ logs' = logs \cup {<<i, "sent">>} /\ faults' = faults
        \/ faults > 0 /\ faults' = faults - 1 /\ logs' = logs
    BY <2>1 DEF Kept, Fault
  <2>4. NoFault' => <<i, "sent">> \in logs'
    BY <1>2, <2>2, <2>3 DEF NoFault
  <2>5. \A j \in Ids : mails'[j] = "unnoted" =>
          <<j, "failed">> \in logs' \/ faults' < Scenes[scene].faults
    BY <1>1, <1>2, <2>2, <2>3
  <2>6. QED
    BY <2>2, <2>4, <2>5 DEF MailInv, Logged
<1>6. CASE FailureIsLogged(i)
  <2>1. MailGoes(i, "refused", "unnoted") /\ Kept(<<i, "failed">>, logs)
    BY <1>6 DEF FailureIsLogged
  <2>2. /\ mails' \in [Ids -> Phases \cup {Null}]
        /\ mails'[i] = "unnoted" /\ scene' = scene
        /\ \A j \in Ids \ {i} : mails'[j] = mails[j]
    BY <1>3, <2>1 DEF Phases
  <2>3. \/ logs' = logs \cup {<<i, "failed">>} /\ faults' = faults
        \/ faults > 0 /\ faults' = faults - 1 /\ logs' = logs
    BY <2>1 DEF Kept, Fault
  <2>4. \A j \in Ids : mails'[j] = "unnoted" =>
          <<j, "failed">> \in logs' \/ faults' < Scenes[scene].faults
    BY <1>1, <1>2, <2>2, <2>3
  <2>5. QED
    BY <2>2, <2>4 DEF MailInv, Logged
<1>7. CASE FailureIsKept(i)
  <2>1. MailGoes(i, "unnoted", "done") /\ Kept(i, failures) /\ logs' = logs
    BY <1>7 DEF FailureIsKept
  <2>2. /\ mails' \in [Ids -> Phases \cup {Null}]
        /\ mails[i] = "unnoted" /\ mails'[i] = "done" /\ scene' = scene
        /\ \A j \in Ids \ {i} : mails'[j] = mails[j]
    BY <1>3, <2>1 DEF Phases
  <2>3. \/ failures' = failures \cup {i} /\ faults' = faults
        \/ faults > 0 /\ faults' = faults - 1
    BY <2>1 DEF Kept, Fault
  <2>4. <<i, "failed">> \in logs' \/ faults < Scenes[scene].faults
    BY <1>1, <2>1, <2>2
  <2>5. /\ NoFault' => <<i, "failed">> \in logs' /\ i \in failures'
        /\ faults' + 1 >= Scenes[scene].faults =>
             <<i, "failed">> \in logs' \/ i \in failures'
    BY <1>2, <2>2, <2>3, <2>4 DEF NoFault
  <2>6. \A j \in Ids : mails'[j] = "unnoted" =>
          <<j, "failed">> \in logs' \/ faults' < Scenes[scene].faults
    BY <1>1, <1>2, <2>1, <2>2, <2>3
  <2>7. QED
    BY <2>2, <2>5, <2>6 DEF MailInv, Logged
<1>8. QED
  BY <1>4, <1>5, <1>6, <1>7 DEF MailStep
-----------------------------------------------------------------------------
\* No photo is lost in a step but an expired one.
NoPhotoLost ==
    \A i \in Ids :
      /\ Shown(i) /\ ~Shown(i)' => /\ evidence[i].expires <= now
                                   /\ records[i].photo \notin files
      /\ Held(i) /\ ~Held(i)' => ~Shown(i)

AftermathKept == Owned /\ PhotoInv /\ MailInv

\* A step of another component, and of time.
LEMMA OthersKeep ==
    ASSUME Core, PhotoInv, MailInv, MarksOnly, MailsWait, FaultsFall,
           scene' = scene, now' \in Nat, now <= now',
           UNCHANGED <<files, uploads, evidence, sweep, logs>>,
           SameHandling(PhotoOps)
    PROVE  /\ PhotoInv' /\ MailInv' /\ NoPhotoLost /\ Logged
<1>1. \A s \in Slots : Taking(s)' => work'[s] = work[s]
  BY DEF SameHandling, PhotoOps, Taking
<1>2. PhotoInv' /\ \A i \in Ids : Shown(i)' <=> Shown(i)
  BY <1>1, PhotosStand
<1>3. MailInv' /\ Logged
  BY MailsWaitOn
<1>4. \A i \in Ids : Held(i)' <=> Held(i)
  BY DEF Held
<1>5. QED
  BY <1>2, <1>3, <1>4 DEF NoPhotoLost

LEMMA StepsKeep ==
    ASSUME AftermathInv, AftermathKept, [Next]_vars
    PROVE  AftermathKept' /\ NoPhotoLost /\ Logged
<1>1. /\ Core /\ LockTyped /\ FaceTyped /\ HolidayInv
      /\ Owned /\ PhotoInv /\ MailInv /\ now \in Nat
  BY Numbers DEF AftermathInv, AftermathKept, LockInv, FaceInv
<1>2. ASSUME NEW s \in Slots, PinNext(s)
      PROVE  AftermathKept' /\ NoPhotoLost /\ Logged
  <2>1. /\ PinStep(s) /\ UNCHANGED <<files, uploads, evidence, sweep, logs>>
    BY <1>2 DEF PinNext, photoVars, mailVars
  <2>2. PinEffect(s) /\ MarksOnly /\ MailsWait /\ Owned'
    BY <1>1, <2>1, PinEffects, PinStepsMark, PinStepsOwn
  <2>3. /\ SameHandling(PhotoOps) /\ FaultsFall /\ scene' = scene
        /\ now' \in Nat /\ now <= now'
    BY <1>1, <2>2, OthersStay DEF PinEffect, Onward, PinOps, PhotoOps
  <2>4. QED
    BY <1>1, <2>1, <2>2, <2>3, OthersKeep DEF AftermathKept
<1>3. ASSUME NEW s \in Slots, FaceNext(s)
      PROVE  AftermathKept' /\ NoPhotoLost /\ Logged
  <2>1. /\ FaceStep(s) /\ UNCHANGED <<files, uploads, evidence, sweep, logs>>
    BY <1>3 DEF FaceNext, photoVars, mailVars
  <2>2. FaceEffect(s) /\ MarksOnly /\ MailsWait
    BY <1>1, <2>1, FaceEffects, FaceStepsMark DEF FaceInv
  <2>3. /\ SameHandling(PhotoOps) /\ SameHandling(PinOps)
        /\ FaultsFall /\ scene' = scene /\ now' \in Nat /\ now <= now'
    BY <1>1, <2>2, OthersStay DEF FaceEffect, Onward, FaceOps, PinOps, PhotoOps
  <2>4. QED
    BY <1>1, <2>1, <2>2, <2>3, OthersKeep, OwnedStands DEF AftermathKept
<1>4. ASSUME NEW s \in Slots, DayNext(s)
      PROVE  AftermathKept' /\ NoPhotoLost /\ Logged
  <2>1. /\ DayStep(s) /\ UNCHANGED <<files, uploads, evidence, sweep, logs>>
    BY <1>4 DEF DayNext, photoVars, mailVars
  <2>2. DayEffect(s) /\ MarksOnly /\ MailsWait
    BY <1>1, <2>1, DayStepsKeepHolidays, OthersMark DEF MailsWait
  <2>3. /\ SameHandling(PhotoOps) /\ SameHandling(PinOps)
        /\ FaultsFall /\ scene' = scene /\ now' \in Nat /\ now <= now'
    BY <1>1, <2>2, OthersStay DEF DayEffect, Onward, DayOps, PinOps, PhotoOps
  <2>4. QED
    BY <1>1, <2>1, <2>2, <2>3, OthersKeep, OwnedStands DEF AftermathKept
<1>5. ASSUME NEW s \in Slots, PhotoNext(s)
      PROVE  AftermathKept' /\ NoPhotoLost /\ Logged
  <2>1. PhotoStep(s) /\ logs' = logs
    BY <1>5 DEF PhotoNext, mailVars
  <2>2. PhotoInv' /\ NoPhotoLost
    BY <1>1, <2>1, PhotoStepKeeps DEF NoPhotoLost
  <2>3. PhotoEffect(s)
    BY <1>1, <2>1, PhotoEffects
  <2>4. SameHandling(PinOps) /\ FaultsFall /\ scene' = scene
    BY <2>3, OthersStay DEF PhotoEffect, Onward, PinOps, PhotoOps
  <2>5. MailsWait
    BY <2>1 DEF PhotoStep, PhotoProceeds, PhotoArrives, PhotoCheck,
       PhotoInsert, PhotoProve, PhotoUndo, PhotoDiscard, PhotoMail,
       PhotoFails, Notifies, MailsWait
  <2>6. MailInv' /\ Logged
    BY <1>1, <2>1, <2>4, <2>5, MailsWaitOn
  <2>7. QED
    BY <1>1, <2>2, <2>4, <2>6, OwnedStands DEF AftermathKept
<1>6. ASSUME UNCHANGED work
      PROVE  SameHandling(PhotoOps) /\ Owned'
  BY <1>1, <1>6 DEF SameHandling, Owned
<1>7. ASSUME NEW i \in Ids, MailNext(i)
      PROVE  AftermathKept' /\ NoPhotoLost /\ Logged
  <2>1. /\ MailStep(i) /\ UNCHANGED <<files, uploads, evidence, sweep>>
    BY <1>7 DEF MailNext, photoVars
  <2>2. StaysBehind /\ MarksOnly /\ MailInv' /\ Logged
    BY <1>1, <2>1, MailEffects, OthersMark, MailStepKeeps
  <2>3. /\ SameHandling(PhotoOps) /\ Owned' /\ FaultsFall /\ scene' = scene
        /\ now' \in Nat /\ now <= now'
    BY <1>1, <1>6, <2>2 DEF StaysBehind, Onward
  <2>4. \A s \in Slots : Taking(s)' => work'[s] = work[s]
    BY <2>3 DEF SameHandling, PhotoOps, Taking
  <2>5. PhotoInv' /\ \A j \in Ids : Shown(j)' <=> Shown(j)
    BY <1>1, <2>1, <2>2, <2>3, <2>4, PhotosStand
  <2>6. \A j \in Ids : Held(j)' <=> Held(j)
    BY <2>1 DEF Held
  <2>7. QED
    BY <2>2, <2>3, <2>5, <2>6 DEF AftermathKept, NoPhotoLost
<1>8. CASE PageNext
  <2>1. /\ PageStep /\ UNCHANGED <<files, uploads, evidence, sweep, logs>>
    BY <1>8 DEF PageNext, photoVars, mailVars
  <2>2. /\ UNCHANGED <<now, faults, scene, work>> /\ MarksOnly /\ MailsWait
    BY <2>1, PageSteps, OthersMark DEF MailsWait
  <2>3. SameHandling(PhotoOps) /\ Owned' /\ FaultsFall
          /\ now' \in Nat /\ now <= now'
    BY <1>1, <1>6, <2>2 DEF FaultsFall
  <2>4. QED
    BY <1>1, <2>1, <2>2, <2>3, OthersKeep DEF AftermathKept
<1>9. CASE SweepNow
  <2>1. SweepStep /\ UNCHANGED <<logs, mails>>
    BY <1>9 DEF SweepNow, SweepStep, SweepStarts, SweepProceeds, SweepLooks,
       SweepFills, SweepSelects, SweepUnlinks, SweepClearsRow,
       SweepClearsData, SweepFails, SweepStays, mailVars
  <2>2. SweepKeeps /\ StaysBehind
    BY <1>1, <2>1, SweepStepKeeps, SweepEffects
  <2>3. PhotoInv' /\ NoPhotoLost
    BY <2>2 DEF SweepKeeps, NoPhotoLost
  <2>4. Owned' /\ FaultsFall /\ scene' = scene
    BY <1>6, <2>2 DEF StaysBehind, Onward
  <2>5. MailInv' /\ Logged
    BY <1>1, <2>1, <2>4, MailsWaitOn DEF MailsWait
  <2>6. QED
    BY <2>3, <2>4, <2>5 DEF AftermathKept
<1>10. CASE TimePasses
  <2>1. /\ UNCHANGED <<files, uploads, evidence, sweep, logs, work, records,
                       made, mails>>
        /\ now' = now + 1
    BY <1>10 DEF TimePasses, Tick, photoVars, mailVars
  <2>2. FaultsFall /\ scene' = scene
    BY <1>1, <1>10, TimeGoesOn
  <2>3. MarksOnly /\ MailsWait
    BY <2>1 DEF MarksOnly, MailsWait
  <2>4. SameHandling(PhotoOps) /\ Owned' /\ now' \in Nat /\ now <= now'
    BY <1>1, <1>6, <2>1
  <2>5. QED
    BY <1>1, <2>1, <2>2, <2>3, <2>4, OthersKeep DEF AftermathKept
<1>11. CASE Restarts
  <2>1. /\ Fault /\ sweep' = Null /\ \A s \in Slots : work'[s] = Null
        /\ UNCHANGED <<now, records, made, scene, files, uploads, evidence,
                       logs>>
        /\ mails' = [i \in Ids |-> IF mails[i] \in {Null, "done"} THEN mails[i]
                                   ELSE "lost"]
    BY <1>11 DEF Restarts, mailVars
  <2>2. FaultsFall /\ MarksOnly /\ Owned'
    BY <2>1 DEF FaultsFall, MarksOnly, Owned
  <2>3. \A s \in Slots : Taking(s)' => work'[s] = work[s]
    BY <2>1 DEF Taking
  <2>4. PhotoInv' /\ \A i \in Ids : Shown(i)' <=> Shown(i)
    BY <1>1, <2>1, <2>2, <2>3, PhotosStand
  <2>5. \A i \in Ids : Held(i)' <=> Held(i)
    BY <2>1 DEF Held
  <2>6. mails' \in [Ids -> Phases \cup {Null}]
    <3>1. mails \in [Ids -> Phases \cup {Null}]
      BY <1>1 DEF MailInv
    <3>2. QED
      BY <2>1, <3>1 DEF Phases
  <2>7. \A i \in Ids : mails'[i] \in {"unnoted", "done"} => mails'[i] = mails[i]
    BY <2>1
  <2>8. MailInv' /\ Logged
    BY <1>1, <2>1, <2>2, <2>6, <2>7, MailsGoOn
  <2>9. QED
    BY <2>2, <2>4, <2>5, <2>8 DEF AftermathKept, NoPhotoLost
<1>12. CASE UNCHANGED vars
  <2>1. UNCHANGED <<files, uploads, evidence, sweep, logs, work, records,
                    made, mails, now, faults, scene>>
    BY <1>12 DEF vars, photoVars, mailVars
  <2>2. MarksOnly /\ MailsWait /\ FaultsFall
    BY <2>1 DEF MarksOnly, MailsWait, FaultsFall
  <2>3. SameHandling(PhotoOps) /\ Owned' /\ now' \in Nat /\ now <= now'
    BY <1>1, <1>6, <2>1
  <2>4. QED
    BY <1>1, <2>1, <2>2, <2>3, OthersKeep DEF AftermathKept
<1>13. QED
  BY <1>2, <1>3, <1>4, <1>5, <1>7, <1>8, <1>9, <1>10, <1>11, <1>12 DEF Next

LEMMA AlwaysKept == Spec => [](AftermathInv /\ AftermathKept)
<1>1. Init => AftermathInv /\ AftermathKept
  BY InvAtStart, PhotosAtStart DEF AftermathInv, AftermathKept
<1>2. AftermathInv /\ AftermathKept /\ [Next]_vars
        => (AftermathInv /\ AftermathKept)'
  BY InvSteps, StepsKeep
<1>3. QED
  BY <1>1, <1>2, PTL DEF Spec

\* Whatever handlers, sweeps, restarts and failed queries do and in whatever
\* order, the photo of a remote marking can be seen from its confirmation
\* until it expires (registerRemoteRecord, cleanupExpiredPhotos), and a
\* marking that is refused leaves neither photo nor row behind, though one
\* query failed. Where requests overlap the last does not hold, nor is it
\* claimed: the sweep may make the evidence first.
THEOREM PhotosKept == Spec => PhotosAreKept
<1>1. ASSUME AftermathInv, AftermathKept, NEW s \in Slots
      PROVE  /\ Handling(s, "photo", "mail") =>
                  Shown(work[s].record) \/ work[s].expires <= now
             /\ /\ Handling(s, "photo", "discard") /\ Serialized
                /\ faults + 1 >= Scenes[scene].faults
                => \A i \in Ids : records[i] # Null =>
                                   records[i].photo # work[s].photo
  BY <1>1 DEF AftermathKept, PhotoInv, PhotoHandlers, Handling, Taking, Stage,
              Of
<1>2. ASSUME AftermathInv, AftermathKept, [Next]_vars
      PROVE  [/\ \A i \in Ids :
                   /\ Shown(i) /\ ~Shown(i)' => /\ evidence[i].expires <= now
                                                /\ records[i].photo \notin files
                   /\ Held(i) /\ ~Held(i)' => ~Shown(i)
              /\ \A s \in Slots :
                   /\ Handling(s, "photo", "mail") =>
                        Shown(work[s].record) \/ work[s].expires <= now
                   /\ /\ Handling(s, "photo", "discard") /\ Serialized
                      /\ faults + 1 >= Scenes[scene].faults
                      => \A i \in Ids : records[i] # Null =>
                                         records[i].photo # work[s].photo]_vars
  <2>1. NoPhotoLost
    BY <1>2, StepsKeep
  <2>2. QED
    BY <1>1, <1>2, <2>1 DEF NoPhotoLost
<1>3. QED
  BY <1>2, AlwaysKept, PTL DEF Spec, PhotosAreKept

\* The attempt to confirm a marking by e-mail ends with the row of its
\* outcome: a failure with two, and one of them still if a query fails
\* (attemptTimeRecordEmail, persistFailure).
THEOREM OutcomesLogged == Spec => OutcomesAreLogged
<1>1. ASSUME AftermathInv, AftermathKept, [Next]_vars
      PROVE  [\A i \in Ids : mails[i] # "done" /\ mails'[i] = "done" =>
               IF mails[i] = "sent" THEN NoFault' => <<i, "sent">> \in logs'
               ELSE /\ NoFault' => <<i, "failed">> \in logs' /\ i \in failures'
                    /\ faults' + 1 >= Scenes[scene].faults =>
                         <<i, "failed">> \in logs' \/ i \in failures']_vars
  BY <1>1, StepsKeep DEF Logged
<1>2. QED
  BY <1>1, AlwaysKept, PTL DEF Spec, OutcomesAreLogged
-----------------------------------------------------------------------------
(***************************************************************************)
(* The types that no other result needs: how far the counters go, and what *)
(* the tables that are only written hold.                                  *)
(***************************************************************************)
\* A frame is looked at only while there may be a capture more.
CapturesBounded ==
    /\ captured \in 0..MaxCaptures
    /\ samples \in [Users -> SUBSET (1..captured)]
    /\ page # Null => /\ CapturesOf(page.got) \subseteq 1..captured
                      /\ page.frame # Null => captured < MaxCaptures
    /\ \A s \in Slots : work[s] # Null /\ work[s].op = "enrol" =>
         work[s].new \subseteq 1..captured

MissesTyped == misses \in [Terminals -> SUBSET Miss]

TablesTyped ==
    /\ uploads \in 0..MaxPhotos
    /\ logs \subseteq Ids \X {"sent", "failed"} /\ failures \subseteq Ids
    /\ holidays \subseteq Days

Bounded == CapturesBounded /\ MissesTyped /\ TablesTyped

LEMMA MissIsTyped ==
    ASSUME NEW t \in Terminals, Core, LockTyped
    PROVE  Missed(t) \in Miss
<1>1. {m \in misses[t] : m.at = now} \subseteq misses[t]
        /\ IsFiniteSet(misses[t])
  BY DEF LockTyped
<1>2. Cardinality({m \in misses[t] : m.at = now}) \in Nat
  BY <1>1, FS_Subset, FS_CardinalityType
<1>3. QED
  BY <1>2, ClockIsNat DEF Missed, Miss

LEMMA MissesGoOn ==
    ASSUME Core, LockTyped, MissesTyped, [Next]_vars
    PROVE  MissesTyped'
<1>1. ASSUME NEW s \in Slots, PinNext(s)
      PROVE  MissesTyped'
  <2>1. PinStep(s)
    BY <1>1 DEF PinNext
  <2>2. ASSUME NEW t, NEW set \in SUBSET Miss,
               misses' = [misses EXCEPT ![t] = set]
        PROVE  MissesTyped'
    BY <2>2 DEF MissesTyped
  <2>3. CASE PinMiss(s)
    <3> DEFINE t == work[s].terminal
    <3>1. t \in Terminals
      <4>1. work[s] # Null /\ work[s].op = "pin"
        BY <2>3 DEF PinMiss, Handling
      <4>2. work[s] \in PinRequest
        BY <4>1, Requested
      <4>3. QED
        BY <4>2 DEF PinRequest
    <3>2. misses' = [misses EXCEPT ![t] = Recent(t) \cup {Missed(t)}]
      BY <2>3 DEF PinMiss
    <3> HIDE DEF t
    <3>3. Recent(t) \subseteq misses[t] /\ misses[t] \in SUBSET Miss
      BY <3>1, RecentIsFinite DEF MissesTyped
    <3>4. Recent(t) \cup {Missed(t)} \in SUBSET Miss
      BY <3>1, <3>3, MissIsTyped
    <3>5. QED
      BY <2>2, <3>2, <3>4
  <2>4. CASE PinMatch(s)
    BY <2>2, <2>4 DEF PinMatch
  <2>5. CASE \/ PinSearch(s) \/ PinMark(s) \/ PinMail(s) \/ PinEditSave(s)
             \/ PinRefused(s) \/ PinFails(s)
             \/ \E t \in Terminals, pin \in Pins : PinArrives(s, t, pin)
             \/ \E u \in Staff : \/ SetStatus(s, u)
                                 \/ \E pin \in Pins \cup {Null} :
                                      PinEditStart(s, u, pin)
    BY <2>5 DEF PinSearch, PinMark, PinMail, PinEditSave, PinRefused, PinFails,
                PinArrives, SetStatus, PinEditStart, MissesTyped
  <2>6. QED
    BY <2>1, <2>3, <2>4, <2>5 DEF PinStep, PinProceeds
<1>2. CASE Restarts
  BY <1>2 DEF Restarts, MissesTyped
<1>3. CASE \/ \E s \in Slots : FaceNext(s) \/ PhotoNext(s) \/ DayNext(s)
           \/ \E i \in Ids : MailNext(i)
           \/ PageNext \/ SweepNow \/ TimePasses \/ UNCHANGED vars
  BY <1>3 DEF FaceNext, PhotoNext, DayNext, MailNext, PageNext, SweepNow,
              TimePasses, vars, pinVars, MissesTyped
<1>4. QED
  BY <1>1, <1>2, <1>3 DEF Next

LEMMA SceneStays ==
    /\ \A s \in Slots : PinNext(s) \/ FaceNext(s) => scene' = scene
    /\ PageNext \/ SweepNow \/ TimePasses \/ Restarts \/ UNCHANGED vars
         => scene' = scene
<1>1. ASSUME NEW s \in Slots, PinStep(s)
      PROVE  scene' = scene
  BY <1>1 DEF PinStep, PinProceeds, PinArrives, PinSearch, PinMiss, PinMatch,
     PinMark, PinMail, PinEditSave, PinRefused, PinFails, SetStatus,
     PinEditStart
<1>2. ASSUME NEW s \in Slots, FaceStep(s)
      PROVE  scene' = scene
  BY <1>2 DEF FaceStep, FaceProceeds, EnrolLoad, EnrolClear, EnrolRead,
     EnrolCreate, EnrolSave, ResetClear, ResetSave, FaceRefused, FaceCompares,
     FaceMark, FaceFails, Save, PageStays, ResetStart, FaceArrives
<1>3. SweepStep => scene' = scene
  BY DEF SweepStep, SweepStarts, SweepProceeds, SweepLooks, SweepFills,
     SweepSelects, SweepUnlinks, SweepClearsRow, SweepClearsData, SweepFails,
     SweepStays
<1>4. QED
  BY <1>1, <1>2, <1>3, PageSteps
     DEF PinNext, FaceNext, PageNext, SweepNow, TimePasses, Tick, Restarts,
         vars

LEMMA TablesGoOn ==
    ASSUME Core, TablesTyped, [Next]_vars
    PROVE  TablesTyped'
<1>0. MaxPhotos \in Nat /\ uploads \in 0..MaxPhotos
  BY PhotoAssumption DEF TablesTyped
<1>1. ASSUME NEW s \in Slots, PhotoNext(s)
      PROVE  TablesTyped'
  <2>1. /\ PhotoStep(s) /\ UNCHANGED <<scene, logs, failures, holidays>>
    BY <1>1 DEF PhotoNext, mailVars, dayVars, PhotoStep, PhotoProceeds,
       PhotoArrives, PhotoCheck, PhotoInsert, PhotoProve, PhotoUndo,
       PhotoDiscard, PhotoMail, PhotoFails
  <2>2. \/ uploads' = uploads
        \/ uploads < MaxPhotos /\ uploads' = uploads + 1
    BY <2>1 DEF PhotoStep, PhotoProceeds, PhotoArrives, PhotoCheck,
       PhotoInsert, PhotoProve, PhotoUndo, PhotoDiscard, PhotoMail, PhotoFails
  <2>3. QED
    BY <1>0, <2>1, <2>2 DEF TablesTyped, Days
<1>2. ASSUME NEW i \in Ids, MailNext(i)
      PROVE  TablesTyped'
  <2>1. /\ MailStep(i) /\ UNCHANGED <<uploads, holidays>>
    BY <1>2 DEF MailNext, photoVars, dayVars
  <2>2. scene' = scene
    BY <2>1 DEF MailStep, MailStarts, MailIsSent, MailIsLogged,
       FailureIsLogged, FailureIsKept, MailGoes
  <2>3. /\ logs' \in {logs, logs \cup {<<i, "sent">>}, logs \cup {<<i, "failed">>}}
        /\ failures' \in {failures, failures \cup {i}}
    BY <2>1 DEF MailStep, MailStarts, MailIsSent, MailIsLogged,
       FailureIsLogged, FailureIsKept, Kept
  <2>4. QED
    BY <2>1, <2>2, <2>3 DEF TablesTyped, Days
<1>3. ASSUME NEW s \in Slots, DayNext(s)
      PROVE  TablesTyped'
  <2>1. /\ DayStep(s) /\ UNCHANGED <<uploads, logs, failures>>
    BY <1>3 DEF DayNext, photoVars, mailVars
  <2>2. /\ scene' = scene
        /\ \/ holidays' = holidays
           \/ \E d \in Days : holidays' \in {holidays \ {d}, holidays \cup {d}}
    BY <2>1 DEF DayStep, DayProceeds, HolidayChanges, HolidayLists,
       HolidayReads, HolidayWrites, HolidaySkips, SyncStart, SyncWrite, DayStays
  <2>3. QED
    BY <2>1, <2>2 DEF TablesTyped, Days
<1>4. CASE \/ \E s \in Slots : PinNext(s) \/ FaceNext(s)
           \/ PageNext \/ SweepNow \/ TimePasses \/ Restarts \/ UNCHANGED vars
  <2>1. UNCHANGED <<uploads, logs, failures, holidays>>
    BY <1>4 DEF PinNext, FaceNext, PageNext, SweepNow, SweepStep, SweepStarts,
       SweepProceeds, SweepLooks, SweepFills, SweepSelects, SweepUnlinks,
       SweepClearsRow, SweepClearsData, SweepFails, SweepStays,
       TimePasses, Restarts, vars, photoVars, mailVars, dayVars
  <2>2. scene' = scene
    BY <1>4, SceneStays
  <2>3. QED
    BY <2>1, <2>2 DEF TablesTyped, Days
<1>5. QED
  BY <1>1, <1>2, <1>3, <1>4 DEF Next

\* Captures are added, and nothing else of the page's handlers is new.
LEMMA CapturesGoOn ==
    ASSUME CapturesBounded, captured' = captured, samples' = samples,
           SameHandling({"enrol", "reset"}),
           \/ page' = page \/ page' = Null
           \/ page # Null /\ page'.got = page.got
                          /\ page'.frame \in {page.frame, Null}
    PROVE  CapturesBounded'
<1>1. \A s \in Slots : work'[s] # Null /\ work'[s].op = "enrol" =>
        work'[s].new \subseteq 1..captured'
  BY DEF CapturesBounded, SameHandling
<1>2. page' # Null => /\ CapturesOf(page'.got) \subseteq 1..captured'
                      /\ page'.frame # Null => captured' < MaxCaptures
  BY DEF CapturesBounded
<1>3. QED
  BY <1>1, <1>2 DEF CapturesBounded

\* What an enrolment adds is what its page had captured.
LEMMA FaceStepsKeepNew ==
    ASSUME NEW s \in Slots, Core, FaceTyped, CapturesBounded, FaceStep(s),
           uploads' = uploads
    PROVE  \A t \in Slots : work'[t] # Null /\ work'[t].op = "enrol" =>
             work'[t].new \subseteq 1..captured
<1>1. \A t \in Slots \ {s} : work'[t] = work[t]
  BY FaceEffects DEF FaceEffect, Moves
<1>2. work \in [Slots -> Handlers \cup {Null}]
  BY DEF Core
<1>3. ASSUME work'[s] # Null, work'[s].op = "enrol"
      PROVE  work'[s].new \subseteq 1..captured
  <2>1. CASE EnrolLoad(s) \/ EnrolClear(s) \/ EnrolRead(s) \/ EnrolCreate(s)
    <3>1. work[s] # Null /\ work[s].op = "enrol"
      BY <2>1 DEF EnrolLoad, EnrolClear, EnrolRead, EnrolCreate, Handling
    <3>2. work[s] \in EnrolRequest
      BY <3>1, Requested
    <3>3. ASSUME NEW h \in EnrolRequest, h.new = work[s].new, Becomes(s, h)
          PROVE  work'[s].new = work[s].new
      BY <1>2, <3>3 DEF Becomes
    <3>4. work'[s].new = work[s].new
      <4>1. CASE EnrolLoad(s)
        <5> DEFINE h == [work[s] EXCEPT
                           !.loaded = users[work[s].user].face,
                           !.at = IF work[s].replace THEN "clear" ELSE "read"]
        <5>1. users[work[s].user].face \in (SUBSET Nat) \cup {Null}
          BY <3>2 DEF Core, User, EnrolRequest
        <5>2. h \in EnrolRequest /\ h.new = work[s].new
          BY <3>2, <5>1 DEF EnrolRequest
        <5>3. Becomes(s, h)
          BY <4>1 DEF EnrolLoad
        <5> HIDE DEF h
        <5>4. QED
          BY <3>3, <5>2, <5>3
      <4>2. CASE EnrolRead(s)
        <5> DEFINE h == [work[s] EXCEPT !.existing = samples[work[s].user],
                                        !.at = "create"]
        <5>1. samples[work[s].user] \in SUBSET Nat
          BY <3>2 DEF FaceTyped, EnrolRequest
        <5>2. h \in EnrolRequest /\ h.new = work[s].new
          BY <3>2, <5>1 DEF EnrolRequest
        <5>3. Becomes(s, h)
          BY <4>2 DEF EnrolRead
        <5> HIDE DEF h
        <5>4. QED
          BY <3>3, <5>2, <5>3
      <4>3. ASSUME NEW at \in {"create", "save"}, Goes(s, at)
            PROVE  work'[s].new = work[s].new
        <5>1. /\ [work[s] EXCEPT !.at = at] \in EnrolRequest
              /\ [work[s] EXCEPT !.at = at].new = work[s].new
          BY <3>2 DEF EnrolRequest
        <5>2. QED
          BY <3>3, <4>3, <5>1 DEF Goes
      <4>4. QED
        BY <2>1, <4>1, <4>2, <4>3 DEF EnrolClear, EnrolCreate
    <3>5. QED
      BY <3>1, <3>4 DEF CapturesBounded
  <2>2. CASE Save(s)
    <3>1. page # Null /\ work'[s].new = CapturesOf(page.got)
      BY <1>2, <2>2 DEF Save, Begins
    <3>2. QED
      BY <3>1 DEF CapturesBounded
  <2>3. CASE \/ FaceFails(s) \/ EnrolSave(s) \/ ResetSave(s)
             \/ FaceRefused(s) \/ FaceMark(s)
    <3>1. work'[s] = Null
      BY <1>2, <2>3 DEF FaceFails, EnrolSave, ResetSave, FaceRefused, FaceMark,
         Ends, Becomes
    <3>2. QED
      BY <1>3, <3>1
  <2>4. CASE \/ \E u \in Staff : ResetStart(s, u)
             \/ \E u, p \in Staff : FaceArrives(s, u, p)
    <3>1. work'[s].op \in {"reset", "face"}
      BY <1>2, <2>4 DEF ResetStart, FaceArrives, Begins
    <3>2. QED
      BY <1>3, <3>1
  <2>5. CASE ResetClear(s) \/ FaceCompares(s)
    <3>1. work[s] # Null /\ work[s].op \in {"reset", "face"}
      BY <2>5 DEF ResetClear, FaceCompares, Handling
    <3>2. work[s] \in ResetRequest \cup FaceRequest
      BY <3>1, Requested
    <3>3. work'[s] = Null \/ \E at : work'[s] = [work[s] EXCEPT !.at = at]
      BY <1>2, <2>5 DEF ResetClear, FaceCompares, Goes, Ends, Becomes
    <3>4. work'[s] = Null \/ work'[s].op = work[s].op
      BY <3>2, <3>3 DEF ResetRequest, FaceRequest
    <3>5. QED
      BY <1>3, <3>1, <3>4
  <2>6. QED
    BY <2>1, <2>2, <2>3, <2>4, <2>5 DEF FaceStep, FaceProceeds
<1>4. QED
  BY <1>1, <1>3 DEF CapturesBounded

LEMMA FaceStepsKeepCaptures ==
    ASSUME NEW s \in Slots, Core, FaceTyped, CapturesBounded, FaceStep(s),
           uploads' = uploads
    PROVE  CapturesBounded'
<1>1. \A t \in Slots : work'[t] # Null /\ work'[t].op = "enrol" =>
        work'[t].new \subseteq 1..captured
  BY FaceStepsKeepNew
<1>2. captured' = captured
  BY FaceStepsPage
<1>3. page' # Null => /\ CapturesOf(page'.got) \subseteq 1..captured
                      /\ page'.frame # Null => captured < MaxCaptures
  <2>1. CASE page' = page \/ page' = Null
    BY <2>1 DEF CapturesBounded
  <2>2. ASSUME NEW saving \in Slots \cup {Null}, page # Null,
               page' = [page EXCEPT !.saving = saving]
        PROVE  page'.got = page.got /\ page'.frame = page.frame
    BY <2>2, PageKeepsCaptures DEF FaceTyped
  <2>3. QED
    BY <2>1, <2>2, FaceStepsPage DEF CapturesBounded
<1>4. samples' \in [Users -> SUBSET (1..captured)]
  <2>0. samples \in [Users -> SUBSET (1..captured)]
    BY DEF CapturesBounded
  <2>1. CASE EnrolCreate(s)
    <3>1. work[s] # Null /\ work[s].op = "enrol"
      BY <2>1 DEF EnrolCreate, Handling
    <3>2. work[s].user \in Users /\ work[s].new \subseteq 1..captured
      BY <3>1, Requested DEF EnrolRequest, CapturesBounded
    <3>3. samples' = [samples EXCEPT ![work[s].user] =
                        samples[work[s].user] \cup work[s].new]
      BY <2>1 DEF EnrolCreate
    <3>4. QED
      BY <2>0, <3>2, <3>3
  <2>2. CASE EnrolClear(s) \/ ResetClear(s)
    BY <2>0, <2>2 DEF EnrolClear, ResetClear
  <2>3. CASE \/ Save(s) \/ FaceFails(s) \/ EnrolSave(s) \/ EnrolLoad(s)
             \/ EnrolRead(s) \/ ResetSave(s)
             \/ FaceRefused(s) \/ FaceCompares(s) \/ FaceMark(s)
             \/ \E u \in Staff : ResetStart(s, u)
             \/ \E u, p \in Staff : FaceArrives(s, u, p)
    BY <2>0, <2>3 DEF Save, PageStays, FaceFails, EnrolSave, EnrolLoad,
       EnrolRead, ResetSave, FaceRefused, FaceCompares, FaceMark, ResetStart,
       FaceArrives
  <2>4. QED
    BY <2>1, <2>2, <2>3 DEF FaceStep, FaceProceeds
<1>5. QED
  BY <1>1, <1>2, <1>3, <1>4 DEF CapturesBounded

\* The page adds a capture, which is the last one so far.
LEMMA FrameKeepsCaptures ==
    ASSUME Core, FaceTyped, CapturesBounded, FrameTaken, samples' = samples,
           work' = work
    PROVE  CapturesBounded'
<1> PICK p : p = page
  OBVIOUS
<1> DEFINE c == [position |-> p.frame, id |-> captured + 1]
<1>1. /\ page # Null /\ p.frame # Null /\ captured' = captured + 1
      /\ page' = [p EXCEPT !.frame = Null, !.got = Append(p.got, c)]
  BY DEF FrameTaken
<1>2. p \in Page /\ p.got \in Seq(Capture) /\ p.frame \in 1..Positions
  BY <1>1, PageTypes DEF FaceTyped
<1>3. captured \in Nat /\ MaxCaptures \in Nat /\ captured < MaxCaptures
  BY <1>1, FaceAssumption DEF CapturesBounded
<1>4. captured' \in 0..MaxCaptures /\ 1..captured \subseteq 1..captured'
  BY <1>1, <1>3
<1>5. c \in Capture /\ c.id \in 1..captured'
  BY <1>1, <1>2, <1>3 DEF Capture
<1> HIDE DEF c
<1>6. /\ DOMAIN Append(p.got, c) = 1..(Len(p.got) + 1)
      /\ \A i \in 1..Len(p.got) : Append(p.got, c)[i] = p.got[i]
      /\ Append(p.got, c)[Len(p.got) + 1] = c
      /\ DOMAIN p.got = 1..Len(p.got) /\ Len(p.got) \in Nat
  BY <1>2, <1>5
<1>7. \A i \in DOMAIN Append(p.got, c) : Append(p.got, c)[i].id \in 1..captured'
  <2>1. \A i \in 1..Len(p.got) : p.got[i].id \in 1..captured
    BY <1>1, <1>6 DEF CapturesBounded, CapturesOf
  <2>2. \A i \in 1..(Len(p.got) + 1) : i \in 1..Len(p.got) \/ i = Len(p.got) + 1
    BY <1>6
  <2>3. QED
    BY <1>4, <1>5, <1>6, <2>1, <2>2
<1>8. page'.got = Append(p.got, c) /\ page'.frame = Null
  BY <1>1, <1>2 DEF Page
<1>9. CapturesOf(page'.got) \subseteq 1..captured'
  BY <1>7, <1>8 DEF CapturesOf
<1>10. samples' \in [Users -> SUBSET (1..captured')]
  BY <1>4 DEF CapturesBounded
<1>11. \A t \in Slots : work'[t] # Null /\ work'[t].op = "enrol" =>
         work'[t].new \subseteq 1..captured'
  BY <1>4 DEF CapturesBounded
<1>12. QED
  BY <1>4, <1>8, <1>9, <1>10, <1>11 DEF CapturesBounded

LEMMA PageStepsKeepCaptures ==
    ASSUME Core, FaceTyped, CapturesBounded, PageStep
    PROVE  CapturesBounded'
<1>1. samples' = samples /\ work' = work
  BY PageSteps
<1>2. SameHandling({"enrol", "reset"})
  BY <1>1 DEF SameHandling
<1>3. page # Null => page \in Page
  BY DEF FaceTyped
<1>4. ASSUME NEW u \in Staff, OpenPage(u)
      PROVE  CapturesBounded'
  <2>1. /\ page'.got = <<>> /\ page'.frame = Null /\ captured' = captured
    BY <1>4 DEF OpenPage, PageOnly
  <2>2. CapturesOf(<<>>) = {}
    BY DEF CapturesOf
  <2>3. QED
    BY <1>1, <2>1, <2>2 DEF CapturesBounded
<1>5. CASE FrameTaken
  BY <1>1, <1>5, FrameKeepsCaptures
<1>6. CASE FrameStart
  <2>1. /\ page # Null /\ captured < MaxCaptures /\ captured' = captured
        /\ page' = [page EXCEPT !.frame = Len(page.got) + 1]
    BY <1>6 DEF FrameStart, PageOnly
  <2>2. page'.got = page.got
    BY <1>3, <2>1 DEF Page
  <2>3. QED
    BY <1>1, <2>1, <2>2 DEF CapturesBounded
<1>7. CASE Restart
  <2> PICK none : none = <<>>
    OBVIOUS
  <2>1. /\ page # Null /\ captured' = captured
        /\ page' = [page EXCEPT !.got = none]
    BY <1>7 DEF Restart, PageOnly
  <2>2. page'.got = none /\ page'.frame = page.frame
    BY <1>3, <2>1 DEF Page
  <2>3. CapturesOf(none) = {}
    BY DEF CapturesOf
  <2>4. QED
    BY <1>1, <2>1, <2>2, <2>3 DEF CapturesBounded
<1>8. CASE ToggleAppend \/ FrameMissed \/ ClosePage
  <2>1. /\ captured' = captured
        /\ \/ page' = Null
           \/ page # Null /\ \E on : page' = [page EXCEPT !.append = on]
           \/ page # Null /\ page' = [page EXCEPT !.frame = Null]
    BY <1>8 DEF ToggleAppend, FrameMissed, ClosePage, PageOnly
  <2>2. \/ page' = Null
        \/ page # Null /\ page'.got = page.got
                       /\ page'.frame \in {page.frame, Null}
    BY <1>3, <2>1 DEF Page
  <2>3. QED
    BY <1>1, <1>2, <2>1, <2>2, CapturesGoOn
<1>9. QED
  BY <1>4, <1>5, <1>6, <1>7, <1>8 DEF PageStep

LEMMA CapturesAlwaysGoOn ==
    ASSUME AftermathInv, CapturesBounded, [Next]_vars
    PROVE  CapturesBounded'
<1>0. Core /\ LockTyped /\ FaceTyped /\ HolidayInv
  BY DEF AftermathInv, LockInv, FaceInv
<1>1. ASSUME NEW s \in Slots, PinNext(s) \/ PhotoNext(s) \/ DayNext(s)
      PROVE  CapturesBounded'
  <2>1. UNCHANGED <<samples, captured, page>>
    BY <1>1 DEF PinNext, PhotoNext, DayNext, faceVars
  <2>2. CASE PinNext(s)
    <3>1. SameHandling({"enrol", "reset"})
      BY <1>0, <2>2, PinEffects, OthersStay
         DEF PinNext, photoVars, PinEffect, PinOps
    <3>2. QED
      BY <2>1, <3>1, CapturesGoOn
  <2>3. CASE PhotoNext(s)
    <3>1. SameHandling({"enrol", "reset"})
      BY <1>0, <2>3, PhotoEffects, OthersStay DEF PhotoNext, PhotoEffect,
         PhotoOps
    <3>2. QED
      BY <2>1, <3>1, CapturesGoOn
  <2>4. CASE DayNext(s)
    <3>1. DayEffect(s)
      BY <1>0, <2>4, DayStepsKeepHolidays DEF DayNext, photoVars
    <3>2. SameHandling({"enrol", "reset"})
      BY <3>1, OthersStay DEF DayEffect, DayOps
    <3>3. QED
      BY <2>1, <3>2, CapturesGoOn
  <2>5. QED
    BY <1>1, <2>2, <2>3, <2>4
<1>2. ASSUME NEW s \in Slots, FaceNext(s)
      PROVE  CapturesBounded'
  BY <1>0, <1>2, FaceStepsKeepCaptures DEF FaceNext, photoVars
<1>3. CASE PageNext
  BY <1>0, <1>3, PageStepsKeepCaptures DEF PageNext
<1>4. ASSUME UNCHANGED <<samples, captured, page, work>>
      PROVE  CapturesBounded'
  BY <1>4, CapturesGoOn DEF SameHandling
<1>5. ASSUME NEW i \in Ids, MailNext(i)
      PROVE  CapturesBounded'
  BY <1>4, <1>5 DEF MailNext, faceVars, MailStep, MailStarts, MailIsSent,
     MailIsLogged, FailureIsLogged, FailureIsKept, MailGoes
<1>6. CASE SweepNow
  BY <1>0, <1>4, <1>6, SweepEffects DEF SweepNow, faceVars, StaysBehind
<1>7. CASE TimePasses \/ UNCHANGED vars
  BY <1>4, <1>7 DEF TimePasses, Tick, vars, faceVars
<1>8. CASE Restarts
  <2>1. /\ \A s \in Slots : work'[s] = Null
        /\ UNCHANGED <<samples, captured>>
        /\ page' = IF page = Null THEN Null ELSE [page EXCEPT !.saving = Null]
    BY <1>8 DEF Restarts
  <2>2. page # Null => page'.got = page.got /\ page'.frame = page.frame
    BY <1>0, <2>1, PageKeepsCaptures DEF FaceTyped
  <2>3. QED
    BY <2>1, <2>2 DEF CapturesBounded
<1>9. QED
  BY <1>1, <1>2, <1>3, <1>5, <1>6, <1>7, <1>8 DEF Next

LEMMA BoundedAtStart ==
    ASSUME Init
    PROVE  Bounded
<1>1. CapturesBounded
  <2>1. 0 \in 0..MaxCaptures
    BY FaceAssumption
  <2>2. QED
    BY <2>1 DEF Init, FaceInit, EvidenceInit, CapturesBounded
<1>2. MissesTyped
  BY DEF Init, PinInit, MissesTyped
<1>3. TablesTyped
  <2>1. uploads \in 0..MaxPhotos
    BY PhotoAssumption DEF Init, PhotoInit
  <2>2. QED
    BY <2>1 DEF Init, MailInit, DayInit, TablesTyped
<1>4. QED
  BY <1>1, <1>2, <1>3 DEF Bounded

\* Whatever requests of every kind, sweeps, e-mails, failed queries and
\* restarts do, tables, files, counters and the page of a manager have their
\* types, and no counter passes its bound.
THEOREM AftermathTypeCorrect == Spec => []TypeOK
<1>1. Init => AftermathInv /\ AftermathKept /\ Bounded
  BY InvAtStart, PhotosAtStart, BoundedAtStart DEF AftermathInv, AftermathKept
<1>2. AftermathInv /\ AftermathKept /\ Bounded /\ [Next]_vars
        => (AftermathInv /\ AftermathKept /\ Bounded)'
  <2> SUFFICES ASSUME AftermathInv, AftermathKept, Bounded, [Next]_vars
               PROVE  AftermathInv' /\ AftermathKept' /\ Bounded'
    OBVIOUS
  <2>1. AftermathInv' /\ AftermathKept'
    BY InvSteps, StepsKeep
  <2>2. Core /\ LockTyped
    BY DEF AftermathInv, LockInv
  <2>3. CapturesBounded' /\ MissesTyped' /\ TablesTyped'
    BY <2>2, CapturesAlwaysGoOn, MissesGoOn, TablesGoOn DEF Bounded
  <2>4. QED
    BY <2>1, <2>3 DEF Bounded
<1>3. ASSUME AftermathInv, AftermathKept, Bounded
      PROVE  TypeOK
  <2>1. /\ Core /\ LockTyped /\ FaceTyped /\ DayTyped /\ PhotoTyped /\ MailInv
        /\ CapturesBounded /\ MissesTyped /\ TablesTyped
    BY <1>3 DEF AftermathInv, LockInv, FaceInv, HolidayInv, AftermathKept,
                PhotoInv, Bounded
  <2>2. EvidenceTypeOK
    <3>1. users \in [Users -> [active : BOOLEAN, pin : Pins \cup {Null},
                               face : {users[u].face : u \in Users}]]
      <4>1. users \in [Users -> User]
        BY <2>1 DEF Core
      <4>2. ASSUME NEW u \in Users
            PROVE  users[u] \in [active : BOOLEAN, pin : Pins \cup {Null},
                                 face : {users[v].face : v \in Users}]
        BY <4>1 DEF User
      <4>3. QED
        BY <4>1, <4>2
    <3>2. \A i \in Ids : records[i] = Null \/
            /\ DOMAIN records[i] = {"user", "method", "photo", "at"}
            /\ records[i].user \in Users
            /\ records[i].photo \in Nat \cup {Null}
      BY <2>1 DEF PhotoTyped, Record
    <3>3. QED
      BY <2>1, <3>1, <3>2, ClockIsNat DEF Core, MailInv, EvidenceTypeOK
  <2>3. PinTypeOK
    BY <2>1 DEF LockTyped, MissesTyped, PinTypeOK
  <2>4. FaceTypeOK
    BY <2>1, PageTypes DEF FaceTyped, CapturesBounded, FaceTypeOK
  <2>5. PhotoTypeOK
    BY <2>1 DEF PhotoTyped, TablesTyped, PhotoTypeOK
  <2>6. MailTypeOK /\ DayTypeOK
    BY <2>1 DEF TablesTyped, DayTyped, MailTypeOK, DayTypeOK
  <2>7. QED
    BY <2>2, <2>3, <2>4, <2>5, <2>6 DEF TypeOK
<1>4. QED
  BY <1>1, <1>2, <1>3, PTL DEF Spec
=============================================================================
