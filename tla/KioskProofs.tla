----------------------------- MODULE KioskProofs -----------------------------
(***************************************************************************)
(* Type correctness of KioskSession in any regime; that sessions which     *)
(* have ended stay ended, and that a rotation ends them all, when one      *)
(* administrative operation runs at a time; that only sessions of the      *)
(* present key are accepted when logins do not overlap those operations    *)
(* either.                                                                 *)
(***************************************************************************)
EXTENDS KioskSession, TLAPS

\* No session is ahead of the terminal, those of a blocked terminal are
\* behind it, and the terminal of a company that is not active is blocked.
Ordered ==
    /\ \A x \in sessions : x.version <= control.version
    /\ control.enabled \/ \A x \in sessions : x.version < control.version
    /\ company.active \/ ~control.enabled

\* One administrative operation at a time, working on a fresh copy.
Alone ==
    /\ \A r, s \in Admins : admin[r] # Null /\ admin[s] # Null => r = s
    /\ \A s \in Admins : admin[s] # Null =>
         /\ admin[s].copy = control
         /\ admin[s].op = "suspend" \/ company.active

\* A login in flight compared the present key, and so did every login that
\* signed the present version.
KeyKnown ==
    /\ \A t \in Terminals : login[t] # Null => NoAdmin /\ login[t] = company.key
    /\ \A x \in sessions :
         x.version = control.version => x.key = company.key

Inv ==
    /\ regime # "free" => Ordered /\ Alone
    /\ regime = "serialized" => KeyKnown

LEMMA SavedType ==
    ASSUME control \in Control, NEW copy \in Control, NEW next \in Control
    PROVE  Saved(copy, next) \in Control
BY DEF Saved, Column, Control

LEMMA NextRowsType ==
    ASSUME NEW copy \in Control
    PROVE  /\ Released(copy) \in Control
           /\ MayAdvance(copy) => Ended(copy) \in Control
BY KioskAssumption DEF Released, Ended, MayAdvance, Control, Versions

LEMMA AdminEndsType ==
    ASSUME admin \in [Admins -> Operation \cup {Null}], NEW s \in Admins,
           AdminEnds(s)
    PROVE  admin' \in [Admins -> Operation \cup {Null}]
BY DEF AdminEnds

LEMMA AdminStartsType ==
    ASSUME TypeOK, NEW s \in Admins, NEW op \in Operations, NEW k \in Keys,
           admin' = [admin EXCEPT ![s] =
                       [op |-> op, copy |-> control, key |-> k]]
    PROVE  admin' \in [Admins -> Operation \cup {Null}]
<1>1. [op |-> op, copy |-> control, key |-> k] \in Operation
  BY DEF Operation, TypeOK
<1>2. QED
  BY <1>1 DEF TypeOK

LEMMA AdminType ==
    ASSUME TypeOK, NEW s \in Admins, admin[s] # Null
    PROVE  /\ admin[s].op \in Operations
           /\ admin[s].copy \in Control
           /\ admin[s].key \in Keys
BY DEF TypeOK, Operation

\* Every step keeps the types.
LEMMA KioskTypeStep ==
    ASSUME TypeOK, [Next]_vars
    PROVE  TypeOK'
<1>1. ASSUME NEW t \in Terminals, NEW k \in Keys, LoginFind(t, k)
      PROVE  TypeOK'
  BY <1>1 DEF LoginFind, TypeOK
<1>2. ASSUME NEW t \in Terminals, LoginSign(t)
      PROVE  TypeOK'
  <2>1. [key |-> login[t], version |-> control.version] \in Session
    BY <1>2 DEF LoginSign, TypeOK, Session, Control
  <2>2. sessions' \subseteq Session
    BY <1>2, <2>1 DEF LoginSign, TypeOK
  <2>3. QED
    BY <1>2, <2>2 DEF LoginSign, LoginEnds, TypeOK
<1>3. ASSUME NEW s \in Admins, NEW op \in {"release", "revoke"},
             AdminFind(s, op)
      PROVE  TypeOK'
  <2>1. company.key \in Keys
    BY DEF TypeOK, Company
  <2>2. QED
    BY <1>3, <2>1, AdminStartsType DEF AdminFind, TypeOK, Operations
<1>4. ASSUME NEW s \in Admins, ReleaseSave(s)
      PROVE  TypeOK'
  <2>1. control' \in Control
    BY <1>4, AdminType, NextRowsType, SavedType
    DEF ReleaseSave, AdminAt, TypeOK
  <2>2. QED
    BY <1>4, <2>1, AdminEndsType DEF ReleaseSave, TypeOK
<1>5. ASSUME NEW s \in Admins, RevokeSave(s)
      PROVE  TypeOK'
  <2>1. control' \in Control
    BY <1>5, AdminType, NextRowsType, SavedType
    DEF RevokeSave, AdminAt, TypeOK
  <2>2. QED
    BY <1>5, <2>1, AdminEndsType DEF RevokeSave, TypeOK
<1>6. ASSUME NEW s \in Admins, NEW k \in Keys, RotateFind(s, k)
      PROVE  TypeOK'
  BY <1>6, AdminStartsType DEF RotateFind, TypeOK, Operations
<1>7. ASSUME NEW s \in Admins, RotateCommit(s)
      PROVE  TypeOK'
  <2>1. control' \in Control
    BY <1>7, AdminType, NextRowsType, SavedType
    DEF RotateCommit, AdminAt, TypeOK
  <2>2. company' \in Company
    BY <1>7, AdminType DEF RotateCommit, AdminAt, TypeOK, Company
  <2>3. QED
    BY <1>7, <2>1, <2>2, AdminEndsType DEF RotateCommit, TypeOK
<1>8. ASSUME NEW s \in Admins, SuspendFind(s)
      PROVE  TypeOK'
  <2>1. company.key \in Keys
    BY DEF TypeOK, Company
  <2>2. QED
    BY <1>8, <2>1, AdminStartsType DEF SuspendFind, TypeOK, Operations
<1>9. ASSUME NEW s \in Admins, SuspendCommit(s)
      PROVE  TypeOK'
  <2>1. control' \in Control
    BY <1>9, AdminType, NextRowsType, SavedType
    DEF SuspendCommit, AdminAt, TypeOK
  <2>2. company' \in Company
    BY <1>9 DEF SuspendCommit, TypeOK, Company
  <2>3. QED
    BY <1>9, <2>1, <2>2, AdminEndsType DEF SuspendCommit, TypeOK
<1>10. ASSUME Reactivate
       PROVE  TypeOK'
  BY <1>10 DEF Reactivate, TypeOK, Company
<1>11. ASSUME Fails
       PROVE  TypeOK'
  BY <1>11, AdminEndsType DEF Fails, LoginEnds, TypeOK
<1>12. ASSUME Crash
       PROVE  TypeOK'
  BY <1>12 DEF Crash, TypeOK
<1>13. CASE UNCHANGED vars
  BY <1>13 DEF vars, TypeOK
<1>14. QED
  BY <1>1, <1>2, <1>3, <1>4, <1>5, <1>6, <1>7, <1>8, <1>9, <1>10, <1>11,
     <1>12, <1>13 DEF Next

\* Every row, token and handler has its type.
THEOREM KioskTypeCorrect == Spec => []TypeOK
<1>1. Init => TypeOK
  <2> SUFFICES ASSUME Init PROVE TypeOK
    OBVIOUS
  <2>1. company \in Company
    <3>1. PICK k \in Keys : company = [active |-> TRUE, key |-> k]
      BY DEF Init
    <3>2. QED
      BY <3>1, Zenon DEF Company
  <2>2. control \in Control
    BY KioskAssumption DEF Init, Control, Blocked, Versions
  <2>3. QED
    BY <2>1, <2>2 DEF Init, TypeOK
<1>2. QED
  BY <1>1, KioskTypeStep, PTL DEF Spec

-----------------------------------------------------------------------------
\* A row saved from a fresh copy is the row that was meant.
LEMMA SavedFresh ==
    ASSUME TypeOK, NEW copy \in Control, NEW next \in Control,
           copy = control
    PROVE  Saved(copy, next) = next
BY DEF TypeOK, Saved, Column, Control

\* Where one operation runs at a time, ending it leaves none.
LEMMA AloneEnds ==
    ASSUME TypeOK, Alone, NEW s \in Admins, admin[s] # Null, AdminEnds(s)
    PROVE  /\ Alone'
           /\ NoAdmin'
BY DEF TypeOK, Alone, AdminEnds, NoAdmin

\* An operation that starts when there is none, on the row as it is, is alone.
LEMMA AloneStarts ==
    ASSUME TypeOK, NoAdmin, NEW s \in Admins, NEW op \in Operations,
           NEW k \in Keys,
           admin' = [admin EXCEPT ![s] =
                       [op |-> op, copy |-> control, key |-> k]],
           op = "suspend" \/ company.active,
           UNCHANGED <<company, control>>
    PROVE  Alone'
BY DEF TypeOK, NoAdmin, Alone

\* Ending every session is an advance of the version and a block.
LEMMA EndedRow ==
    ASSUME TypeOK, NEW copy \in Control, MayAdvance(copy), copy = control,
           control' = Saved(copy, Ended(copy))
    PROVE  /\ control'.version = control.version + 1
           /\ ~control'.enabled
<1>1. Ended(copy) \in Control
  BY NextRowsType
<1>2. control' = Ended(copy)
  BY <1>1, SavedFresh
<1>3. /\ Ended(copy).version = copy.version + 1
      /\ Ended(copy).enabled = FALSE
  BY Zenon DEF Ended
<1>4. QED
  BY <1>2, <1>3, Zenon

LEMMA EndedOrdered ==
    ASSUME TypeOK, Ordered, control'.version = control.version + 1,
           ~control'.enabled, UNCHANGED sessions
    PROVE  /\ Ordered'
           /\ \A x \in sessions : x.version # control'.version
<1>1. control.version \in Nat /\ \A x \in sessions : x.version \in Nat
  BY KioskAssumption DEF TypeOK, Control, Session, Versions
<1>2. \A x \in sessions : x.version <= control.version
  BY DEF Ordered
<1>3. \A x \in sessions : x.version < control'.version
  BY <1>1, <1>2
<1>4. QED
  BY <1>1, <1>3 DEF Ordered

LEMMA ReleasedRow ==
    ASSUME TypeOK, NEW copy \in Control, copy = control,
           control' = Saved(copy, Released(copy))
    PROVE  /\ control'.version = control.version
           /\ control'.enabled
<1>1. Released(copy) \in Control
  BY NextRowsType
<1>2. control' = Released(copy)
  BY <1>1, SavedFresh
<1>3. /\ Released(copy).version = copy.version
      /\ Released(copy).enabled = TRUE
  BY Zenon DEF Released
<1>4. QED
  BY <1>2, <1>3, Zenon

\* The shape of RevokeSave, RotateCommit and SuspendCommit.
LEMMA EndingStep ==
    ASSUME TypeOK, Ordered, Alone, NEW s \in Admins, admin[s] # Null,
           MayAdvance(admin[s].copy),
           control' = Saved(admin[s].copy, Ended(admin[s].copy)),
           AdminEnds(s), UNCHANGED sessions
    PROVE  /\ Ordered' /\ Alone'
           /\ \A x \in sessions : x.version # control'.version
           /\ ~control'.enabled
<1>1. admin[s].copy \in Control /\ admin[s].copy = control
  BY AdminType DEF Alone
<1>2. control'.version = control.version + 1 /\ ~control'.enabled
  BY <1>1, EndedRow
<1>3. QED
  BY <1>2, EndedOrdered, AloneEnds

\* A step that leaves the rows and the operations alone.
LEMMA AloneKept ==
    ASSUME Ordered, Alone, UNCHANGED <<company, control, sessions, admin>>
    PROVE  Ordered' /\ Alone'
BY DEF Ordered, Alone

\* When administrative operations do not overlap, sessions stay ordered.
LEMMA OrderedStep ==
    ASSUME TypeOK, Ordered, Alone, regime # "free", [Next]_vars
    PROVE  Ordered' /\ Alone'
<1>1. ASSUME NEW t \in Terminals, NEW k \in Keys, LoginFind(t, k)
      PROVE  Ordered' /\ Alone'
  BY <1>1, AloneKept DEF LoginFind
<1>2. ASSUME NEW t \in Terminals, LoginSign(t)
      PROVE  Ordered' /\ Alone'
  <2>1. control.version \in Nat
    BY KioskAssumption DEF TypeOK, Control, Versions
  <2>2. ASSUME control.enabled, NEW x \in sessions'
        PROVE  x.version <= control.version
    BY <1>2, <2>1, <2>2 DEF LoginSign, Ordered
  <2>3. ASSUME ~control.enabled
        PROVE  sessions' = sessions
    BY <1>2, <2>3 DEF LoginSign
  <2>4. Ordered'
    BY <1>2, <2>2, <2>3 DEF LoginSign, Ordered
  <2>5. QED
    BY <1>2, <2>4 DEF LoginSign, Alone
<1>3. ASSUME NEW s \in Admins, NEW op \in {"release", "revoke"},
             AdminFind(s, op)
      PROVE  Ordered' /\ Alone'
  <2>1. company.key \in Keys
    BY DEF TypeOK, Company
  <2>2. Alone'
    BY <1>3, <2>1, AloneStarts DEF AdminFind, MayAdmin, Operations
  <2>3. QED
    BY <1>3, <2>2 DEF AdminFind, Ordered
<1>4. ASSUME NEW s \in Admins, ReleaseSave(s)
      PROVE  Ordered' /\ Alone'
  <2>1. admin[s].copy \in Control /\ admin[s].copy = control /\ company.active
    BY <1>4, AdminType DEF ReleaseSave, AdminAt, Alone
  <2>2. control'.version = control.version /\ control'.enabled
    BY <1>4, <2>1, ReleasedRow DEF ReleaseSave
  <2>3. Ordered'
    BY <1>4, <2>1, <2>2 DEF ReleaseSave, Ordered
  <2>4. QED
    BY <1>4, <2>3, AloneEnds DEF ReleaseSave, AdminAt
<1>5. ASSUME NEW s \in Admins, RevokeSave(s)
      PROVE  Ordered' /\ Alone'
  BY <1>5, EndingStep DEF RevokeSave, AdminAt
<1>6. ASSUME NEW s \in Admins, NEW k \in Keys, RotateFind(s, k)
      PROVE  Ordered' /\ Alone'
  <2>1. Alone'
    BY <1>6, AloneStarts DEF RotateFind, MayAdmin, Operations
  <2>2. QED
    BY <1>6, <2>1 DEF RotateFind, Ordered
<1>7. ASSUME NEW s \in Admins, RotateCommit(s)
      PROVE  Ordered' /\ Alone'
  BY <1>7, EndingStep DEF RotateCommit, AdminAt
<1>8. ASSUME NEW s \in Admins, SuspendFind(s)
      PROVE  Ordered' /\ Alone'
  <2>1. company.key \in Keys
    BY DEF TypeOK, Company
  <2>2. Alone'
    BY <1>8, <2>1, AloneStarts DEF SuspendFind, MayAdmin, Operations
  <2>3. QED
    BY <1>8, <2>2 DEF SuspendFind, Ordered
<1>9. ASSUME NEW s \in Admins, SuspendCommit(s)
      PROVE  Ordered' /\ Alone'
  BY <1>9, EndingStep DEF SuspendCommit, AdminAt
<1>10. ASSUME Reactivate
       PROVE  Ordered' /\ Alone'
  <2>1. company'.active
    BY <1>10 DEF Reactivate
  <2>2. QED
    BY <1>10, <2>1 DEF Reactivate, MayAdmin, NoAdmin, Ordered, Alone
<1>11. ASSUME Fails
       PROVE  Ordered' /\ Alone'
  <2>1. CASE UNCHANGED admin
    BY <1>11, <2>1, AloneKept DEF Fails
  <2>2. CASE \E s \in Admins : admin[s] # Null /\ AdminEnds(s)
    BY <1>11, <2>2, AloneEnds DEF Fails, Ordered
  <2>3. QED
    BY <1>11, <2>1, <2>2 DEF Fails
<1>12. ASSUME Crash
       PROVE  Ordered' /\ Alone'
  BY <1>12 DEF Crash, Ordered, Alone
<1>13. CASE UNCHANGED vars
  BY <1>13, AloneKept DEF vars
<1>14. QED
  BY <1>1, <1>2, <1>3, <1>4, <1>5, <1>6, <1>7, <1>8, <1>9, <1>10, <1>11,
     <1>12, <1>13 DEF Next

-----------------------------------------------------------------------------
\* A step that leaves the key alone, and the sessions and logins too.
LEMMA KeyKept ==
    ASSUME KeyKnown, UNCHANGED <<company, control, sessions, login>>,
           NoAdmin' \/ \A t \in Terminals : login[t] = Null
    PROVE  KeyKnown'
BY DEF KeyKnown, NoAdmin

\* The steps that end every session, whatever they do to the key.
LEMMA KeyEnded ==
    ASSUME NoLogin, UNCHANGED <<sessions, login>>,
           \A x \in sessions : x.version # control'.version
    PROVE  KeyKnown'
BY DEF KeyKnown, NoLogin

\* When logins do not overlap administrative operations either, the accepted
\* sessions know the present key.
LEMMA KeyStep ==
    ASSUME TypeOK, Ordered, Alone, KeyKnown, regime = "serialized",
           [Next]_vars
    PROVE  KeyKnown'
<1>a. ASSUME NEW s \in Admins, admin[s] # Null
      PROVE  NoLogin
  BY <1>a DEF KeyKnown, NoAdmin, NoLogin
<1>1. ASSUME NEW t \in Terminals, NEW k \in Keys, LoginFind(t, k)
      PROVE  KeyKnown'
  BY <1>1 DEF LoginFind, MayLogin, NoAdmin, KeyKnown, TypeOK
<1>2. ASSUME NEW t \in Terminals, LoginSign(t)
      PROVE  KeyKnown'
  <2>1. login[t] = company.key
    BY <1>2 DEF LoginSign, KeyKnown
  <2>2. ASSUME NEW x \in sessions', x.version = control.version
        PROVE  x.key = company.key
    BY <1>2, <2>1, <2>2 DEF LoginSign, KeyKnown
  <2>3. ASSUME NEW r \in Terminals, login'[r] # Null
        PROVE  NoAdmin' /\ login'[r] = company.key
    BY <1>2, <2>3 DEF LoginSign, LoginEnds, KeyKnown, NoAdmin, TypeOK
  <2>4. QED
    BY <1>2, <2>2, <2>3 DEF LoginSign, KeyKnown
<1>3. ASSUME NEW s \in Admins, NEW op \in {"release", "revoke"},
             AdminFind(s, op)
      PROVE  KeyKnown'
  BY <1>3, KeyKept DEF AdminFind, MayAdmin, NoLogin
<1>4. ASSUME NEW s \in Admins, ReleaseSave(s)
      PROVE  KeyKnown'
  <2>1. admin[s].copy \in Control /\ admin[s].copy = control
    BY <1>4, AdminType DEF ReleaseSave, AdminAt, Alone
  <2>2. control'.version = control.version
    BY <1>4, <2>1, ReleasedRow DEF ReleaseSave
  <2>3. NoLogin
    BY <1>4, <1>a DEF ReleaseSave, AdminAt
  <2>4. QED
    BY <1>4, <2>2, <2>3 DEF ReleaseSave, KeyKnown, NoLogin
<1>5. ASSUME NEW s \in Admins, RevokeSave(s)
      PROVE  KeyKnown'
  BY <1>5, <1>a, EndingStep, KeyEnded DEF RevokeSave, AdminAt
<1>6. ASSUME NEW s \in Admins, NEW k \in Keys, RotateFind(s, k)
      PROVE  KeyKnown'
  BY <1>6, KeyKept DEF RotateFind, MayAdmin, NoLogin
<1>7. ASSUME NEW s \in Admins, RotateCommit(s)
      PROVE  KeyKnown'
  BY <1>7, <1>a, EndingStep, KeyEnded DEF RotateCommit, AdminAt
<1>8. ASSUME NEW s \in Admins, SuspendFind(s)
      PROVE  KeyKnown'
  BY <1>8, KeyKept DEF SuspendFind, MayAdmin, NoLogin
<1>9. ASSUME NEW s \in Admins, SuspendCommit(s)
      PROVE  KeyKnown'
  BY <1>9, <1>a, EndingStep, KeyEnded DEF SuspendCommit, AdminAt
<1>10. ASSUME Reactivate
       PROVE  KeyKnown'
  <2>1. company'.key = company.key
    BY <1>10 DEF Reactivate
  <2>2. QED
    BY <1>10, <2>1 DEF Reactivate, KeyKnown, NoAdmin
<1>11. ASSUME Fails
       PROVE  KeyKnown'
  <2>1. CASE UNCHANGED login /\ \E s \in Admins : admin[s] # Null
    BY <1>11, <2>1, <1>a DEF Fails, KeyKnown, NoLogin
  <2>2. CASE UNCHANGED admin /\ \E t \in Terminals : LoginEnds(t)
    BY <1>11, <2>2 DEF Fails, LoginEnds, KeyKnown, NoAdmin, TypeOK
  <2>3. QED
    BY <1>11, <2>1, <2>2 DEF Fails
<1>12. ASSUME Crash
       PROVE  KeyKnown'
  BY <1>12 DEF Crash, KeyKnown
<1>13. CASE UNCHANGED vars
  BY <1>13 DEF vars, KeyKnown, NoAdmin
<1>14. QED
  BY <1>1, <1>2, <1>3, <1>4, <1>5, <1>6, <1>7, <1>8, <1>9, <1>10, <1>11,
     <1>12, <1>13 DEF Next

\* The regime never changes.
LEMMA RegimeStep ==
    ASSUME [Next]_vars
    PROVE  regime' = regime
BY DEF Next, vars, LoginFind, LoginSign, AdminFind, ReleaseSave, RevokeSave,
       RotateFind, RotateCommit, SuspendFind, SuspendCommit, Reactivate,
       Fails, Crash

\* The inductive invariant.
THEOREM SessionsOrdered == Spec => []Inv
<1>1. Init => Inv
  <2> SUFFICES ASSUME Init PROVE Inv
    OBVIOUS
  <2>1. control.enabled = FALSE
    BY DEF Init, Blocked
  <2>2. QED
    BY <2>1 DEF Init, Inv, Ordered, Alone, KeyKnown, NoAdmin
<1>2. TypeOK /\ Inv /\ [Next]_vars => Inv'
  <2> SUFFICES ASSUME TypeOK, Inv, [Next]_vars PROVE Inv'
    OBVIOUS
  <2>1. regime' = regime
    BY RegimeStep
  <2>2. ASSUME regime # "free" PROVE Ordered' /\ Alone'
    BY <2>2, OrderedStep DEF Inv
  <2>3. ASSUME regime = "serialized" PROVE KeyKnown'
    BY <2>3, KeyStep DEF Inv
  <2>4. QED
    BY <2>1, <2>2, <2>3 DEF Inv
<1>3. QED
  BY <1>1, <1>2, KioskTypeCorrect, PTL DEF Spec

\* Under an ordered terminal a session that is not accepted is behind.
LEMMA NotAcceptedBehind ==
    ASSUME TypeOK, Ordered, NEW x \in sessions, ~Accepted(x)
    PROVE  x.version < control.version
BY KioskAssumption
DEF Accepted, Ordered, TypeOK, Control, Session, Versions

\* An accepted session was opened with the company's present key.
THEOREM PresentKeyOnly == Spec => []CurrentKeyOnly
<1>1. Inv => CurrentKeyOnly
  BY DEF Inv, KeyKnown, CurrentKeyOnly, Accepted
<1>2. QED
  BY <1>1, SessionsOrdered, PTL

\* While operations do not overlap, no step moves the version back.
LEMMA VersionStep ==
    ASSUME TypeOK, Ordered, Alone, regime # "free", [Next]_vars
    PROVE  control'.version >= control.version
<1>1. control.version \in Nat
  BY KioskAssumption DEF TypeOK, Control, Versions
<1>2. ASSUME NEW s \in Admins, admin[s] # Null,
             control' = Saved(admin[s].copy, Ended(admin[s].copy)),
             MayAdvance(admin[s].copy)
      PROVE  control'.version = control.version + 1
  BY <1>2, AdminType, EndedRow DEF Alone
<1>3. ASSUME NEW s \in Admins, ReleaseSave(s)
      PROVE  control'.version = control.version
  <2>1. admin[s].copy \in Control /\ admin[s].copy = control
    BY <1>3, AdminType DEF ReleaseSave, AdminAt, Alone
  <2>2. QED
    BY <1>3, <2>1, ReleasedRow DEF ReleaseSave
<1>4. \/ UNCHANGED control
      \/ \E s \in Admins : ReleaseSave(s)
      \/ \E s \in Admins : /\ admin[s] # Null
                           /\ control' = Saved(admin[s].copy, Ended(admin[s].copy))
                           /\ MayAdvance(admin[s].copy)
  BY DEF Next, vars, LoginFind, LoginSign, AdminFind, RevokeSave, RotateFind,
         RotateCommit, SuspendFind, SuspendCommit, Reactivate, Fails, Crash,
         AdminAt
<1>5. QED
  BY <1>1, <1>2, <1>3, <1>4

\* A session that has ended is behind the terminal, and stays behind.
THEOREM EndedSessionsStayEnded == Spec => EndedForGood
<1>1. TypeOK /\ Inv /\ [Next]_vars =>
        [regime # "free" =>
           \A x \in sessions : ~Accepted(x) => ~Accepted(x)']_vars
  <2> SUFFICES ASSUME TypeOK, Inv, [Next]_vars, regime # "free",
                      NEW x \in sessions, ~Accepted(x)
               PROVE  ~Accepted(x)'
    OBVIOUS
  <2>1. Ordered /\ Alone
    BY DEF Inv
  <2>2. x.version < control.version
    BY <2>1, NotAcceptedBehind
  <2>3. control'.version >= control.version
    BY <2>1, VersionStep
  <2>4. x.version \in Nat /\ control.version \in Nat
    BY KioskAssumption DEF TypeOK, Control, Session, Versions
  <2>5. TypeOK'
    BY KioskTypeStep
  <2>6. control'.version \in Nat
    BY <2>5, KioskAssumption DEF TypeOK, Control, Versions
  <2>7. control'.version # x.version
    BY <2>2, <2>3, <2>4, <2>6
  <2>8. QED
    BY <2>7 DEF Accepted
<1>2. QED
  BY <1>1, SessionsOrdered, KioskTypeCorrect, PTL DEF Spec, EndedForGood

\* A rotation leaves every session behind.
THEOREM RotationsEndAll == Spec => RotationEndsAll
<1>1. TypeOK /\ Inv /\ [Next]_vars =>
        [\A s \in Admins :
           regime # "free" /\ RotateCommit(s)
             => \A x \in sessions : ~Accepted(x)']_vars
  <2> SUFFICES ASSUME TypeOK, Inv, regime # "free",
                      NEW s \in Admins, RotateCommit(s), NEW x \in sessions
               PROVE  ~Accepted(x)'
    OBVIOUS
  <2>1. x.version # control'.version
    BY EndingStep DEF Inv, RotateCommit, AdminAt
  <2>2. QED
    BY <2>1 DEF Accepted
<1>2. QED
  BY <1>1, SessionsOrdered, KioskTypeCorrect, PTL DEF Spec, RotationEndsAll

=============================================================================
