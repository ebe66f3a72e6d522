------------------------------ MODULE Evidence ------------------------------
(***************************************************************************)
(* The rows shared by what surrounds a marking: who made it (PinPad,       *)
(* Biometrics), the photo that proves it (PhotoKeeping), the e-mail that   *)
(* confirms it (RecordMail) and the holidays its day is read with          *)
(* (HolidayDesk). Aftermath puts them together.                            *)
(*                                                                         *)
(* Whether a marking is allowed is TimeClock's subject: here               *)
(* createValidatedRecord is a step that inserts it, or refuses.            *)
(*                                                                         *)
(* scene is an assumption on the requests, and never changes: which kinds  *)
(* there are and about whom, how many markings, how far the clock runs,    *)
(* how many queries fail or restarts happen, and whether requests are      *)
(* serialized, one handled at a time, or may overlap.                      *)
(***************************************************************************)
EXTENDS Naturals, FiniteSets, Sequences, Rows

CONSTANTS
    Users,
    Pins,
    Slots,          \* bound: requests handled at once
    MaxTime,        \* bound of the clock
    MaxRecords,     \* bound: markings ever inserted
    Scenes,
    Null

VARIABLES
    now,
    users,          \* status, PIN and facial_descriptor of each
    records,        \* time_records by id, Null before and after
    made,           \* the last id
    mails,          \* the e-mail attempt about each record
    work,           \* the request each slot is handling
    faults,         \* failed queries and restarts still to come
    scene

Ids == 1..MaxRecords

ASSUME EvidenceAssumption ==
    /\ MaxTime \in Nat /\ MaxRecords \in Nat
    /\ \A n \in DOMAIN Scenes : /\ Scenes[n].serialized \in BOOLEAN
                                /\ Scenes[n].faults \in Nat
                                /\ Scenes[n].time \in 0..MaxTime
                                /\ Scenes[n].marks \in 0..MaxRecords
                                /\ Scenes[n].staff \subseteq Users
    /\ Null \notin Users \cup Pins \cup Nat

Requests == Scenes[scene].kinds
Staff == Scenes[scene].staff
Serialized == Scenes[scene].serialized

\* An average of face descriptors is represented by what it averages: the
\* set of the captures.
User == [active : BOOLEAN, pin : Pins \cup {Null},
         face : (SUBSET Nat) \cup {Null}]
Record == [user : Users, method : {"pin", "facial", "web"},
           photo : Nat \cup {Null}, at : 0..MaxTime]

Phases == {"due", "sending", "sent", "refused", "unnoted", "done", "lost"}

EvidenceTypeOK ==
    /\ now \in 0..MaxTime
    /\ users \in [Users -> [active : BOOLEAN, pin : Pins \cup {Null},
                            face : {users[u].face : u \in Users}]]
    /\ \A i \in Ids : records[i] = Null \/
         /\ DOMAIN records[i] = {"user", "method", "photo", "at"}
         /\ records[i].user \in Users
         /\ records[i].photo \in Nat \cup {Null}
    /\ made \in 0..MaxRecords
    /\ mails \in [Ids -> Phases \cup {Null}]
    /\ faults \in 0..Scenes[scene].faults
    /\ scene \in DOMAIN Scenes

EvidenceInit ==
    /\ now = 0
    /\ scene \in DOMAIN Scenes
    /\ faults = Scenes[scene].faults
    /\ users \in [Users -> [active : BOOLEAN, pin : {Null}, face : {Null}]]
    /\ \A u \in Users : "day" \in Requests \/ users[u].active
    /\ mails = [i \in Ids |-> Null]
    /\ work = [s \in Slots |-> Null]

-----------------------------------------------------------------------------
Idle == \A s \in Slots : work[s] = Null

\* A request of a kind arrives at a free slot.
Arrives(s, kind) ==
    /\ kind \in Requests
    /\ work[s] = Null
    /\ Serialized => Idle /\ s = CHOOSE t \in Slots : TRUE

Begins(s, kind, h) == Arrives(s, kind) /\ work' = [work EXCEPT ![s] = h]

Handling(s, op, at) ==
    work[s] # Null /\ work[s].op = op /\ work[s].at = at

Becomes(s, h) == work' = [work EXCEPT ![s] = h]
Goes(s, at) == Becomes(s, [work[s] EXCEPT !.at = at])
Ends(s) == Becomes(s, Null)

\* A query fails, or the process restarts.
Fault == faults > 0 /\ faults' = faults - 1

NoFault == faults = Scenes[scene].faults

Tick ==
    /\ now < Scenes[scene].time /\ now' = now + 1
    /\ UNCHANGED <<users, records, made, mails, work, faults, scene>>

Inserted(row) ==
    /\ made < Scenes[scene].marks
    /\ made' = made + 1
    /\ records' = [records EXCEPT ![made + 1] = row]

\* The marking is in: its e-mail is next.
Notifies(s) ==
    /\ mails' = [mails EXCEPT ![work[s].record] = "due"]
    /\ Goes(s, "mailing")

\* Handlers that wait for the attempt answer after it.
Answers(s) == /\ work[s] # Null /\ work[s].at = "mailing"
              /\ mails[work[s].record] = "done"
              /\ Ends(s)
=============================================================================
