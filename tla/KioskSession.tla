----------------------------- MODULE KioskSession -----------------------------
(***************************************************************************)
(* The kiosk terminal of one company: who may open a session with the      *)
(* company's key, and how an administrator ends the sessions that are      *)
(* open. A session is a signed token; it is never stored, so ending it     *)
(* means advancing session_version in kiosk_controls.                      *)
(*                                                                         *)
(* regime is an assumption on the environment, not on the code. It never   *)
(* changes: "free" lets everything overlap, "one_admin" lets one           *)
(* administrative operation run at a time, "serialized" lets no login      *)
(* overlap one either.                                                     *)
(***************************************************************************)
EXTENDS Naturals, Rows

CONSTANTS
    Keys,           \* access keys
    Terminals,      \* bound: logins in flight at once
    Admins,         \* bound: administrative requests in flight at once
    MaxVersion,     \* bound: values of session_version
    Null,
    Regimes,        \* those an instance looks at
    Faults          \* queries may be rejected and the process restarted

VARIABLES
    company,        \* the company's row: its status and the key's hash
    control,        \* its row of kiosk_controls
    sessions,       \* the tokens that were signed
    login, admin,   \* requests in flight
    regime

vars == <<company, control, sessions, login, admin, regime>>

Versions == 1..MaxVersion
Company == [active : BOOLEAN, key : Keys]
Control == [version : Versions, enabled : BOOLEAN]
Session == [key : Keys, version : Versions]

\* copy: the row as it was loaded; key: the key to rotate to.
Operations == {"release", "revoke", "rotate", "suspend"}
Operation == [op : Operations, copy : Control, key : Keys]

ASSUME KioskAssumption ==
    /\ MaxVersion \in Nat \ {0}
    /\ Keys # {}
    /\ Regimes \subseteq {"free", "one_admin", "serialized"}
    /\ Faults \in BOOLEAN
    /\ Null \notin Keys /\ Null \notin Operation

TypeOK ==
    /\ company \in Company
    /\ control \in Control
    /\ sessions \subseteq Session
    /\ login \in [Terminals -> Keys \cup {Null}]
    /\ admin \in [Admins -> Operation \cup {Null}]
    /\ regime \in Regimes

\* provisionCompany and the seed both create the row, blocked. (That
\* getKioskControl would create it is left out.)
Blocked == [version |-> 1, enabled |-> FALSE]

Init ==
    /\ company \in {[active |-> TRUE, key |-> k] : k \in Keys}
    /\ control = Blocked
    /\ sessions = {}
    /\ login = [t \in Terminals |-> Null]
    /\ admin = [s \in Admins |-> Null]
    /\ regime \in Regimes

LoginEnds(t) == login' = [login EXCEPT ![t] = Null]

AdminAt(s, op) == admin[s] # Null /\ admin[s].op = op
AdminEnds(s) == admin' = [admin EXCEPT ![s] = Null]

NoAdmin == \A s \in Admins : admin[s] = Null
NoLogin == \A t \in Terminals : login[t] = Null
MayLogin == regime = "serialized" => NoAdmin
MayAdmin == /\ regime # "free" => NoAdmin
            /\ regime = "serialized" => NoLogin

-----------------------------------------------------------------------------
(***************************************************************************)
(* kioskLogin. The company is found by the fingerprint of the key and the  *)
(* key compared with the hash loaded with it; comparing takes a while.     *)
(***************************************************************************)
LoginFind(t, k) ==
    /\ login[t] = Null
    /\ MayLogin
    /\ company.active
    /\ company.key = k
    /\ login' = [login EXCEPT ![t] = k]
    /\ UNCHANGED <<company, control, sessions, admin, regime>>

\* getKioskControl, and the token is signed with the version it read.
LoginSign(t) ==
    /\ login[t] # Null
    /\ sessions' = IF control.enabled
                     THEN sessions \cup {[key |-> login[t],
                                          version |-> control.version]}
                     ELSE sessions
    /\ LoginEnds(t)
    /\ UNCHANGED <<company, control, admin, regime>>

-----------------------------------------------------------------------------
\* The write of a loaded row: only the columns that differ.
Saved(copy, next) ==
    [version |-> Column(control.version, copy.version, next.version),
     enabled |-> Column(control.enabled, copy.enabled, next.enabled)]

\* Mutant of Ended: the terminal is blocked, its version kept.
EndedByBlocking(copy) == [version |-> copy.version, enabled |-> FALSE]

\* Every session ends: the version advances and the terminal is blocked.
Ended(copy) == [version |-> copy.version + 1, enabled |-> FALSE]

Released(copy) == [version |-> copy.version, enabled |-> TRUE]

MayAdvance(copy) == copy.version < MaxVersion

\* An updateCompanyStatus transaction holds the lock of the company's row.
Locked == \E s \in Admins : AdminAt(s, "suspend")

\* releaseKioskSession and revokeKioskSession load the row...
AdminFind(s, op) ==
    /\ admin[s] = Null
    /\ MayAdmin
    /\ company.active
    /\ admin' = [admin EXCEPT ![s] =
                   [op |-> op, copy |-> control, key |-> company.key]]
    /\ UNCHANGED <<company, control, sessions, login, regime>>

\* ... and save it.
ReleaseSave(s) ==
    /\ AdminAt(s, "release")
    /\ control' = Saved(admin[s].copy, Released(admin[s].copy))
    /\ AdminEnds(s)
    /\ UNCHANGED <<company, sessions, login, regime>>

RevokeSave(s) ==
    /\ AdminAt(s, "revoke")
    /\ MayAdvance(admin[s].copy)
    /\ control' = Saved(admin[s].copy, Ended(admin[s].copy))
    /\ AdminEnds(s)
    /\ UNCHANGED <<company, sessions, login, regime>>

-----------------------------------------------------------------------------
(***************************************************************************)
(* rotateKioskAccessKey. Its transaction reads the company first, which    *)
(* fixes the snapshot it later reads the control row from; hashing the new *)
(* key takes a while in between.                                           *)
(***************************************************************************)
RotateFind(s, k) ==
    /\ admin[s] = Null
    /\ MayAdmin
    /\ company.active
    /\ admin' = [admin EXCEPT ![s] =
                   [op |-> "rotate", copy |-> control, key |-> k]]
    /\ UNCHANGED <<company, control, sessions, login, regime>>

\* Mutant of RotateCommit: the sessions are left alone.
RotateKeyOnly(s) ==
    /\ AdminAt(s, "rotate")
    /\ ~Locked
    /\ company' = [active |-> company.active, key |-> admin[s].key]
    /\ AdminEnds(s)
    /\ UNCHANGED <<control, sessions, login, regime>>

RotateCommit(s) ==
    LET copy == admin[s].copy IN
    /\ AdminAt(s, "rotate")
    /\ ~Locked
    /\ MayAdvance(copy)
    /\ company' = [active |-> company.active, key |-> admin[s].key]
    /\ control' = Saved(copy, Ended(copy))
    /\ AdminEnds(s)
    /\ UNCHANGED <<sessions, login, regime>>

-----------------------------------------------------------------------------
(***************************************************************************)
(* updateCompanyStatus, by the platform's administrator. A suspension (or   *)
(* inactivation, also of a company that is suspended already) locks the    *)
(* company's row, reads the control row and writes both.                   *)
(***************************************************************************)
SuspendFind(s) ==
    /\ admin[s] = Null
    /\ MayAdmin
    /\ ~Locked
    /\ admin' = [admin EXCEPT ![s] =
                   [op |-> "suspend", copy |-> control, key |-> company.key]]
    /\ UNCHANGED <<company, control, sessions, login, regime>>

SuspendCommit(s) ==
    LET copy == admin[s].copy IN
    /\ AdminAt(s, "suspend")
    /\ MayAdvance(copy)
    /\ company' = [active |-> FALSE, key |-> company.key]
    /\ control' = Saved(copy, Ended(copy))
    /\ AdminEnds(s)
    /\ UNCHANGED <<sessions, login, regime>>

\* A company made active again keeps its terminal blocked.
Reactivate ==
    /\ MayAdmin
    /\ ~company.active
    /\ ~Locked
    /\ company' = [active |-> TRUE, key |-> company.key]
    /\ UNCHANGED <<control, sessions, login, admin, regime>>

-----------------------------------------------------------------------------
\* A query is rejected; a transaction is rolled back.
Fails ==
    /\ Faults
    /\ \/ \E t \in Terminals : login[t] # Null /\ LoginEnds(t)
                               /\ UNCHANGED admin
       \/ \E s \in Admins : admin[s] # Null /\ AdminEnds(s)
                            /\ UNCHANGED login
    /\ UNCHANGED <<company, control, sessions, regime>>

Crash ==
    /\ Faults
    /\ login' = [t \in Terminals |-> Null]
    /\ admin' = [s \in Admins |-> Null]
    /\ UNCHANGED <<company, control, sessions, regime>>

Next ==
    \/ \E t \in Terminals :
         \/ \E k \in Keys : LoginFind(t, k)
         \/ LoginSign(t)
    \/ \E s \in Admins :
         \/ \E op \in {"release", "revoke"} : AdminFind(s, op)
         \/ ReleaseSave(s) \/ RevokeSave(s)
         \/ \E k \in Keys : RotateFind(s, k)
         \/ RotateCommit(s) \/ SuspendFind(s) \/ SuspendCommit(s)
    \/ Reactivate
    \/ Fails \/ Crash

Spec == Init /\ [][Next]_vars

-----------------------------------------------------------------------------
\* authenticate lets a request with this token through.
Accepted(x) ==
    /\ company.active
    /\ control.enabled
    /\ control.version = x.version

\* A session that has stopped being accepted is never accepted again:
\* neither a release nor the end of a suspension brings it back. Not when
\* administrative operations overlap: two of them may count as one.
EndedForGood ==
    [][regime # "free" =>
         \A x \in sessions : ~Accepted(x) => ~Accepted(x)']_vars

\* Once a rotation has committed no session opened before it is accepted ("a
\* rotação revoga todas as sessões de terminal existentes"). Not when a
\* revocation, a release and a login fit between its reads and its write.
RotationEndsAll ==
    [][\A s \in Admins :
         regime # "free" /\ RotateCommit(s)
           => \A x \in sessions : ~Accepted(x)']_vars

\* A session opened with a key is accepted only while that is the company's
\* key: rotating the key takes the terminals that know the old one away. Not
\* the terminal whose login compared the old key before the rotation and
\* signs after the release that follows it.
CurrentKeyOnly ==
    regime = "serialized" =>
      \A x \in sessions : Accepted(x) => x.key = company.key
=============================================================================
