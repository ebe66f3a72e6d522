--------------------------- MODULE LeadershipProofs ---------------------------
(***************************************************************************)
(* That the administrators' handlers keep the hierarchy in order, however  *)
(* they overlap and wherever they fail; and, when they do not overlap,     *)
(* that a user leads one level of a department at most, that the last link *)
(* decides the role, and that no deletion takes an active user's           *)
(* department away. The inductive invariant says what a request in flight  *)
(* still knows of the rows it read.                                        *)
(***************************************************************************)
EXTENDS Leadership, FiniteSetTheorems, WellFoundedInduction, TLAPS

(***************************************************************************)
(* The list of the users a leader manages and the test of one user agree   *)
(* on any well-typed rows: the agreement does not rest on how the          *)
(* hierarchy was built.                                                    *)
(***************************************************************************)
\* What the agreement needs to know of the rows.
LinksHaveDepartment == \A a \in links : a.dept \in Departments

\* Permissions are granted in departments only, never in "no department".
LEMMA GrantedSomewhere ==
    ASSUME LinksHaveDepartment, NEW m, NEW d, NEW p, Granted(m, d, p) # {}
    PROVE  d \in Departments
BY DEF Granted, LinksIn, LinksHaveDepartment

\* A user in a department that is led is judged by its levels; any other user
\* by its direct manager, and both answers make that distinction, whatever the
\* permission.
LEMMA ListIsTest ==
    ASSUME LinksHaveDepartment, NEW m \in Users, NEW e \in Users, NEW p,
           m # e
    PROVE  e \in Managed(m, p) <=>
             users[e].status # "inactive" /\ Responsible(m, e, p)
<1> DEFINE led == {d \in Departments : Granted(m, d, p) # {}}
<1> DEFINE direct == {x \in Users : users[x].manager = m}
<1> DEFINE present == {x \in Users : users[x].status # "inactive"}
<1> DEFINE reached == {x \in Users : users[x].dept \in led} \cup direct
<1>1. Managed(m, p) =
        IF led # {}
          THEN {x \in (reached \cap present) \ {m} : Responsible(m, x, p)}
          ELSE IF Leads(m) THEN {} ELSE direct \cap present
  BY DEF Managed
<1>2. Granted(m, users[e].dept, p) # {} => users[e].dept \in led
  BY GrantedSomewhere
<1>3. Granted(m, users[e].dept, p) = {} =>
        (Responsible(m, e, p) <=> ~Leads(m) /\ users[e].manager = m)
  BY DEF Responsible, ResponsibleFor
<1>4. CASE led # {}
  <2>1. Responsible(m, e, p) => e \in reached
    BY <1>2, <1>3
  <2>2. QED
    BY <1>1, <1>4, <2>1
<1>5. CASE led = {}
  <2>1. Responsible(m, e, p) <=> ~Leads(m) /\ users[e].manager = m
    BY <1>2, <1>3, <1>5
  <2>2. QED
    BY <1>1, <1>5, <2>1
<1>6. QED
  BY <1>4, <1>5

\* The other screens ask the same two questions with permissions of their own.
LEMMA ScopesAgreeOnRows ==
    ASSUME LinksHaveDepartment
    PROVE  ScopesAgree
<1> SUFFICES ASSUME NEW m \in Users, NEW e \in Users, m # e
             PROVE  /\ \A p \in Permissions :
                         e \in Managed(m, p) <=>
                           users[e].status # "inactive" /\ Responsible(m, e, p)
                    /\ e \in ScopedUsers(m) <=> ScopedUser(m, e)
                    /\ e \in RemoteOf(m) <=> ScopedUser(m, e)
                    /\ e \in TeamOf(m) <=>
                         /\ users[e].status # "inactive"
                         /\ Allowed(m, e, "view_team")
                    /\ e \in RecordsOf(m) => MayOpenFile(m, e)
                    /\ e \in FacesOf(m) => MayEnrol(m, e)
                    /\ e \in RequestsOf(m) <=> MayDecide(m, e)
  BY DEF ScopesAgree
<1>1. \A p \in Permissions :
         e \in Managed(m, p) <=>
           users[e].status # "inactive" /\ Responsible(m, e, p)
  BY ListIsTest
<1>2. e \in ScopedUsers(m) <=> ScopedUser(m, e)
  BY ListIsTest DEF ScopedUsers, ScopedUser, Listed, Allowed
<1>3. /\ e \in RemoteOf(m) <=> ScopedUser(m, e)
      /\ e \in TeamOf(m) <=>
           users[e].status # "inactive" /\ Allowed(m, e, "view_team")
  BY ListIsTest DEF RemoteOf, ScopedUser, TeamOf, Listed, Allowed
<1>4. /\ e \in RecordsOf(m) => MayOpenFile(m, e)
      /\ e \in FacesOf(m) => MayEnrol(m, e)
  BY ListIsTest
     DEF RecordsOf, MayOpenFile, FacesOf, MayEnrol, Listed, Allowed
<1>5. e \in RequestsOf(m) <=> MayDecide(m, e)
  BY DEF RequestsOf, MayDecide
<1>6. QED
  BY <1>1, <1>2, <1>3, <1>4, <1>5

\* The screens that list the users of a leader and the routes that test one
\* user never disagree, for any company, departments, levels, permissions
\* and direct managers.
THEOREM ScopesAlwaysAgree == RowsTypeOK => ScopesAgree
<1>1. RowsTypeOK => LinksHaveDepartment
  BY DEF RowsTypeOK, Link, LinksHaveDepartment
<1>2. QED
  BY <1>1, ScopesAgreeOnRows

-----------------------------------------------------------------------------
(***************************************************************************)
(* The inductive invariant of the administrators' handlers.                *)
(***************************************************************************)
\* Level ids are given once; two levels of a department are at two positions;
\* every link is to a level of its department, every level of a department
\* that exists.
IdsFresh == \A l \in levels : l.id < nextLevel
LevelsDistinct ==
    \A l, m \in levels : l # m => /\ l.id # m.id
                                  /\ l.dept = m.dept => l.position # m.position
LinksLevelled == \A a \in links : \E l \in levels : l.id = a.level /\ l.dept = a.dept
LevelsLive == \A l \in levels : departments[l.dept] = "live"

\* No level is named twice in a form, and nobody leads two of its levels.
FormDistinct(form) ==
    \A i, j \in DOMAIN form :
      i # j => /\ form[i].id # Null => form[i].id # form[j].id
               /\ form[i].leaders \cap form[j].leaders = {}

\* What an update's snapshot is worth once others have written: the levels it
\* knows are the department's own, if they are still there, and no level that
\* is created later will be taken for one of them.
KnownHold(h) ==
    /\ \A k \in h.known : k < nextLevel
    /\ \A l \in levels : l.id \in h.known => l.dept = h.dept
FormsHold ==
    \A s \in Admins :
      admin[s] # Null /\ admin[s].op = "update" => FormDistinct(admin[s].form)
SnapshotsHold ==
    \A s \in Admins : At(s, "update", "commit") => KnownHold(admin[s])

RowsInv ==
    /\ TypeOK
    /\ IdsFresh
    /\ LevelsDistinct
    /\ LinksLevelled
    /\ LevelsLive
    /\ FormsHold
    /\ SnapshotsHold

\* When requests do not overlap: one at a time; an update's snapshot is
\* current; nobody leads two levels of a department; past the count, the
\* department being deleted has no active user; who is about to be demoted
\* leads nothing.
OneAtATime == \A s, t \in Admins : s # t => admin[s] = Null \/ admin[t] = Null
SnapshotsCurrent ==
    \A s \in Admins :
      At(s, "update", "commit") =>
        /\ admin[s].seen = links
        /\ admin[s].known = Ids(LevelsOf(admin[s].dept))
OneLink ==
    \A a, b \in links : a.user = b.user /\ a.dept = b.dept => a = b
DepartmentsEmptied ==
    \A s \in Admins :
      admin[s] # Null /\ admin[s].op = "delete" /\ admin[s].pc # "count" =>
        \A u \in Users :
          ~(users[u].dept = admin[s].dept /\ users[u].status = "active")
DemotedLeadNothing ==
    \A s \in Admins : At(s, "delete", "demote") => ~Leads(admin[s].leader)

AloneInv ==
    scene.serialized =>
      /\ OneAtATime
      /\ SnapshotsCurrent
      /\ OneLink
      /\ DepartmentsEmptied
      /\ DemotedLeadNothing

HierarchyInv == RowsInv /\ AloneInv

-----------------------------------------------------------------------------
\* What the steps of the proofs need of the types of requests.
Requests == Updating \cup Deleting \cup Editing \cup {Null}

LEMMA SceneTyped ==
    ASSUME TypeOK
    PROVE  /\ scene \in Scene
           /\ scene.admins \subseteq Admins
           /\ scene.users \subseteq Users
           /\ SceneForms[scene] \subseteq Forms
<1>1. scene \in Scene /\ scene \in Scenes
  BY LeadershipAssumption DEF TypeOK
<1>2. /\ scene.admins \subseteq Admins
      /\ scene.users \subseteq Users
      /\ scene.grants \subseteq SUBSET Permissions
      /\ scene.depth \in 0..MaxDepth
  BY <1>1 DEF Scene
<1>3. ASSUME NEW form \in SceneForms[scene]
      PROVE  form \in Forms
  <2>1. PICK n \in 0..scene.depth :
           form \in [1..n -> [id : LevelIds \cup {Null},
                              leaders : SUBSET scene.users,
                              can : scene.grants]]
    BY <1>1, <1>3 DEF SceneForms
  <2>2. form \in [1..n -> FormLevel]
    BY <1>2, <2>1 DEF FormLevel
  <2>3. n \in 0..MaxDepth
    BY <1>2, HierarchyAssumption
  <2>4. QED
    BY <2>2, <2>3 DEF Forms
<1>4. QED
  BY <1>1, <1>2, <1>3

LEMMA RequestTyped ==
    ASSUME TypeOK, NEW s \in Admins, admin[s] # Null
    PROVE  /\ admin[s].op = "update" => admin[s] \in Updating
           /\ admin[s].op = "delete" => admin[s] \in Deleting
           /\ admin[s].op = "edit" => admin[s] \in Editing
<1>1. admin[s] \in Updating \cup Deleting \cup Editing
  BY DEF TypeOK
<1>2. /\ admin[s] \in Updating => admin[s].op = "update"
      /\ admin[s] \in Deleting => admin[s].op = "delete"
      /\ admin[s] \in Editing => admin[s].op = "edit"
  BY DEF Updating, Deleting, Editing
<1>3. QED
  BY <1>1, <1>2

\* A step of a request changes its own record only.
LEMMA GoesTyped ==
    ASSUME TypeOK, NEW s \in Admins, NEW h \in Requests, Goes(s, h)
    PROVE  /\ admin' \in [Admins -> Requests]
           /\ admin'[s] = h
           /\ \A t \in Admins : t # s => admin'[t] = admin[t]
BY DEF TypeOK, Goes, Requests

LEMMA EndsTyped ==
    ASSUME TypeOK, NEW s \in Admins, Ends(s)
    PROVE  /\ admin' \in [Admins -> Requests]
           /\ admin'[s] = Null
           /\ \A t \in Admins : t # s => admin'[t] = admin[t]
<1>1. Null \in Requests
  BY DEF Requests
<1>2. QED
  BY <1>1, GoesTyped DEF Ends

-----------------------------------------------------------------------------
\* The numbers of the new levels of a form: each its own, from nextLevel on.
LEMMA FormTyped ==
    ASSUME NEW form \in Forms
    PROVE  /\ \E n \in Nat : n <= MaxDepth /\ DOMAIN form = 1..n
           /\ DOMAIN form \subseteq 1..MaxDepth
           /\ \A i \in DOMAIN form : form[i] \in FormLevel
           /\ IsFiniteSet(NewIn(form))
<1>1. PICK n \in 0..MaxDepth : form \in [1..n -> FormLevel]
  BY DEF Forms
<1>2. n \in Nat /\ n <= MaxDepth /\ DOMAIN form = 1..n
  BY <1>1, HierarchyAssumption
<1>3. IsFiniteSet(1..n)
  BY <1>2, FS_Interval
<1>4. IsFiniteSet(NewIn(form))
  BY <1>2, <1>3, FS_Subset DEF NewIn
<1>5. QED
  BY <1>1, <1>2, <1>4, HierarchyAssumption

Before(form, i) == {j \in NewIn(form) : j < i}

LEMMA BeforeGrows ==
    ASSUME NEW form \in Forms, NEW i \in NewIn(form)
    PROVE  /\ Cardinality(Before(form, i)) \in Nat
           /\ Cardinality(NewIn(form)) \in Nat
           /\ Cardinality(Before(form, i)) < Cardinality(NewIn(form))
           /\ \A j \in NewIn(form) :
                i < j => Cardinality(Before(form, i)) < Cardinality(Before(form, j))
<1>1. IsFiniteSet(NewIn(form)) /\ NewIn(form) \subseteq Nat
  <2>1. DOMAIN form \subseteq 1..MaxDepth
    BY FormTyped
  <2>2. QED
    BY <2>1, FormTyped, HierarchyAssumption DEF NewIn
<1>2. \A j \in NewIn(form) : /\ IsFiniteSet(Before(form, j))
                             /\ Cardinality(Before(form, j)) \in Nat
  <2>1. SUFFICES ASSUME NEW j \in NewIn(form)
                 PROVE  /\ IsFiniteSet(Before(form, j))
                        /\ Cardinality(Before(form, j)) \in Nat
    OBVIOUS
  <2>2. Before(form, j) \in SUBSET NewIn(form)
    BY DEF Before
  <2>3. QED
    BY <1>1, <2>2, FS_Subset, FS_CardinalityType
<1>3. Cardinality(NewIn(form)) \in Nat
  BY <1>1, FS_CardinalityType
<1>4. Cardinality(Before(form, i)) < Cardinality(NewIn(form))
  <2>1. Before(form, i) \in SUBSET NewIn(form) /\ Before(form, i) # NewIn(form)
    BY <1>1 DEF Before
  <2>2. QED
    BY <1>1, <1>2, <1>3, <2>1, FS_Subset
<1>5. ASSUME NEW j \in NewIn(form), i < j
      PROVE  Cardinality(Before(form, i)) < Cardinality(Before(form, j))
  <2>1. Before(form, i) \in SUBSET Before(form, j)
    BY <1>1, <1>5 DEF Before
  <2>2. i \in Before(form, j) /\ i \notin Before(form, i)
    BY <1>1, <1>5 DEF Before
  <2>3. QED
    BY <1>2, <2>1, <2>2, FS_Subset
<1>6. QED
  BY <1>2, <1>3, <1>4, <1>5

LEMMA NewIds ==
    ASSUME NEW form \in Forms, nextLevel \in Nat, NEW i \in NewIn(form)
    PROVE  /\ IdOf(form, i) \in Nat
           /\ nextLevel <= IdOf(form, i)
           /\ IdOf(form, i) < nextLevel + Cardinality(NewIn(form))
           /\ \A j \in NewIn(form) : i # j => IdOf(form, i) # IdOf(form, j)
<1>1. NewIn(form) \subseteq Nat
  <2>1. DOMAIN form \subseteq 1..MaxDepth
    BY FormTyped
  <2>2. QED
    BY <2>1, HierarchyAssumption DEF NewIn
<1>2. \A j \in NewIn(form) :
         IdOf(form, j) = nextLevel + Cardinality(Before(form, j))
  BY DEF IdOf, Before, NewIn
<1>3. \A j \in NewIn(form) : Cardinality(Before(form, j)) \in Nat
  BY BeforeGrows
<1>4. ASSUME NEW j \in NewIn(form), i # j
      PROVE  Cardinality(Before(form, i)) # Cardinality(Before(form, j))
  <2>1. i < j \/ j < i
    BY <1>1, <1>4
  <2>2. QED
    BY <1>3, <2>1, BeforeGrows
<1>5. QED
  BY <1>2, <1>3, <1>4, BeforeGrows

-----------------------------------------------------------------------------
\* The ids a form's levels end up with: those it names, which the snapshot
\* knew, and new ones. No two are the same.
Fits(h) ==
    /\ h \in Updating
    /\ FormDistinct(h.form)
    /\ KnownHold(h)
    /\ ~Conflict(h)

LEMMA FormIds ==
    ASSUME TypeOK, NEW h, Fits(h)
    PROVE  /\ \A i \in DOMAIN h.form :
                /\ IdOf(h.form, i) \in Nat
                /\ IdOf(h.form, i) < nextLevel + Cardinality(NewIn(h.form))
                /\ h.form[i].id # Null => IdOf(h.form, i) = h.form[i].id
                /\ h.form[i].id # Null => h.form[i].id \in h.known
                /\ h.form[i].id = Null => nextLevel <= IdOf(h.form, i)
           /\ \A i, j \in DOMAIN h.form :
                i # j => IdOf(h.form, i) # IdOf(h.form, j)
           /\ nextLevel \in Nat
           /\ Cardinality(NewIn(h.form)) \in Nat
<1> DEFINE form == h.form
<1>1. nextLevel \in Nat
  BY HierarchyAssumption DEF TypeOK
<1>2. form \in Forms /\ h.known \in SUBSET LevelIds
  BY DEF Fits, Updating
<1>3. h.known \subseteq Nat /\ \A k \in h.known : k < nextLevel
  BY <1>2, HierarchyAssumption DEF LevelIds, Fits, KnownHold
<1>4. Cardinality(NewIn(form)) \in Nat
  BY <1>2, FormTyped, FS_CardinalityType
<1>5. ASSUME NEW i \in DOMAIN form, form[i].id # Null
      PROVE  IdOf(form, i) = form[i].id /\ form[i].id \in h.known
  BY <1>5 DEF IdOf, Fits, Conflict
<1>6. ASSUME NEW i \in DOMAIN form, form[i].id = Null
      PROVE  /\ i \in NewIn(form)
             /\ IdOf(form, i) \in Nat
             /\ nextLevel <= IdOf(form, i)
             /\ IdOf(form, i) < nextLevel + Cardinality(NewIn(form))
  <2>1. i \in NewIn(form)
    BY <1>6 DEF NewIn
  <2>2. QED
    BY <1>1, <1>2, <2>1, NewIds
<1>7. ASSUME NEW i \in DOMAIN form, NEW j \in DOMAIN form, i # j
      PROVE  IdOf(form, i) # IdOf(form, j)
  <2>1. CASE form[i].id = Null /\ form[j].id = Null
    BY <1>1, <1>2, <1>6, <1>7, <2>1, NewIds
  <2>2. CASE form[i].id # Null /\ form[j].id # Null
    <3>1. form[i].id # form[j].id
      BY <1>7, <2>2 DEF Fits, FormDistinct
    <3>2. QED
      BY <1>5, <2>2, <3>1
  <2>3. CASE form[i].id = Null /\ form[j].id # Null
    BY <1>1, <1>3, <1>5, <1>6, <2>3
  <2>4. CASE form[i].id # Null /\ form[j].id = Null
    BY <1>1, <1>3, <1>5, <1>6, <2>4
  <2>5. QED
    BY <2>1, <2>2, <2>3, <2>4
<1>8. ASSUME NEW i \in DOMAIN form
      PROVE  /\ IdOf(form, i) \in Nat
             /\ IdOf(form, i) < nextLevel + Cardinality(NewIn(form))
  <2>1. CASE form[i].id = Null
    BY <1>6, <2>1
  <2>2. CASE form[i].id # Null
    BY <1>1, <1>3, <1>4, <1>5, <2>2
  <2>3. QED
    BY <2>1, <2>2
<1>9. QED
  BY <1>1, <1>4, <1>5, <1>6, <1>7, <1>8

\* The levels an update writes.
LEMMA NewLevelsFit ==
    ASSUME TypeOK, LevelsLive, NEW h, Fits(h),
           nextLevel + Cardinality(NewIn(h.form)) <= MaxLevels + 1
    PROVE  \A l \in NewLevels(h) :
             /\ \E i \in DOMAIN h.form :
                  l = [id |-> IdOf(h.form, i), dept |-> h.dept, position |-> i]
             /\ l \in Level
             /\ l.dept = h.dept
             /\ l.position \in DOMAIN h.form
             /\ l.id < nextLevel + Cardinality(NewIn(h.form))
             /\ \/ l.id \in h.known /\ l.id \in Ids(levels)
                \/ nextLevel <= l.id
             /\ departments[l.dept] = "live"
<1> SUFFICES ASSUME NEW i \in DOMAIN h.form,
                    h.form[i].id = Null \/ h.form[i].id \in Ids(levels),
                    NEW l, l = [id |-> IdOf(h.form, i), dept |-> h.dept,
                                position |-> i]
             PROVE  /\ l \in Level
                    /\ l.dept = h.dept
                    /\ l.position \in DOMAIN h.form
                    /\ l.id < nextLevel + Cardinality(NewIn(h.form))
                    /\ \/ l.id \in h.known /\ l.id \in Ids(levels)
                       \/ nextLevel <= l.id
                    /\ departments[l.dept] = "live"
  BY DEF NewLevels
<1>1. h.form \in Forms /\ h.dept \in Departments /\ h.known \in SUBSET LevelIds
  BY DEF Fits, Updating
<1>2. l.id = IdOf(h.form, i) /\ l.dept = h.dept /\ l.position = i
  OBVIOUS
<1>3. /\ IdOf(h.form, i) \in Nat
      /\ IdOf(h.form, i) < nextLevel + Cardinality(NewIn(h.form))
      /\ h.form[i].id # Null =>
           IdOf(h.form, i) = h.form[i].id /\ h.form[i].id \in h.known
      /\ h.form[i].id = Null => nextLevel <= IdOf(h.form, i)
      /\ nextLevel \in Nat
      /\ Cardinality(NewIn(h.form)) \in Nat
  BY FormIds
<1>4. IdOf(h.form, i) \in LevelIds
  <2>1. CASE h.form[i].id # Null
    BY <1>1, <1>3, <2>1
  <2>2. CASE h.form[i].id = Null
    BY <1>3, <2>2, HierarchyAssumption DEF LevelIds, TypeOK
  <2>3. QED
    BY <2>1, <2>2
<1>5. i \in 1..MaxDepth
  BY <1>1, FormTyped
<1>6. l \in Level
  BY <1>1, <1>4, <1>5 DEF Level
<1>7. departments[h.dept] = "live"
  <2>1. CASE h.form[i].id = Null
    <3>1. i \in NewIn(h.form)
      BY <2>1 DEF NewIn
    <3>2. QED
      BY <3>1 DEF Fits, Conflict
  <2>2. CASE h.form[i].id \in Ids(levels) /\ h.form[i].id # Null
    <3>1. PICK m \in levels : m.id = h.form[i].id
      BY <2>2 DEF Ids
    <3>2. m.dept = h.dept
      BY <1>3, <2>2, <3>1 DEF Fits, KnownHold
    <3>3. QED
      BY <3>1, <3>2 DEF LevelsLive
  <2>3. QED
    BY <2>1, <2>2
<1>8. \/ l.id \in h.known /\ l.id \in Ids(levels)
      \/ nextLevel <= l.id
  BY <1>2, <1>3
<1>9. QED
  BY <1>2, <1>3, <1>6, <1>7, <1>8

-----------------------------------------------------------------------------
\* The commit of an update, which writes to the current rows what its snapshot
\* suggests.
LEMMA CommitFits ==
    ASSUME RowsInv, NEW s \in Admins, NEW h, h = admin[s], UpdateCommit(s)
    PROVE  /\ Fits(h)
           /\ nextLevel + Cardinality(NewIn(h.form)) <= MaxLevels + 1
<1>1. h # Null /\ h.op = "update" /\ At(s, "update", "commit") /\ ~Conflict(h)
  BY DEF UpdateCommit, At
<1>2. h \in Updating
  BY <1>1, RequestTyped DEF RowsInv
<1>3. FormDistinct(h.form)
  BY <1>1 DEF RowsInv, FormsHold
<1>4. KnownHold(h)
  BY <1>1 DEF RowsInv, SnapshotsHold
<1>5. QED
  BY <1>1, <1>2, <1>3, <1>4 DEF Fits, UpdateCommit

LEMMA CommitTyped ==
    ASSUME RowsInv, NEW s \in Admins, NEW h, h = admin[s], UpdateCommit(s)
    PROVE  TypeOK'
<1>1. TypeOK
  BY DEF RowsInv
<1>2. /\ levels' = {l \in levels : l.id \notin h.known} \cup NewLevels(h)
      /\ links' = {a \in links : a.level \notin h.known} \cup NewLinks(h)
      /\ nextLevel' = nextLevel + Cardinality(NewIn(h.form))
      /\ users' = [u \in Users |-> DemotedRow(u, LeadersOf(h.form), Demoted(h))]
      /\ Ends(s)
      /\ departments' = departments /\ scene' = scene
  BY DEF UpdateCommit
<1>3. Fits(h) /\ nextLevel + Cardinality(NewIn(h.form)) <= MaxLevels + 1
  BY CommitFits
<1>4. h.form \in Forms /\ h.dept \in Departments
  BY <1>3 DEF Fits, Updating
<1>5. users' \in [Users -> User]
  <2>1. ASSUME NEW u \in Users
        PROVE  DemotedRow(u, LeadersOf(h.form), Demoted(h)) \in User
    <3>1. users[u] \in User
      BY <1>1 DEF TypeOK, RowsTypeOK
    <3>2. QED
      BY <3>1 DEF DemotedRow, User, Roles
  <2>2. QED
    BY <1>2, <2>1
<1>6. levels' \subseteq Level
  <2>1. NewLevels(h) \subseteq Level
    BY <1>1, <1>3, NewLevelsFit DEF RowsInv
  <2>2. QED
    BY <1>1, <1>2, <2>1 DEF TypeOK, RowsTypeOK
<1>7. links' \subseteq Link
  <2>1. ASSUME NEW i \in DOMAIN h.form, NEW u \in h.form[i].leaders,
               NEW a, a = [dept |-> h.dept, level |-> IdOf(h.form, i),
                           user |-> u, can |-> h.form[i].can]
        PROVE  a \in Link
    <3>1. h.form[i] \in FormLevel
      BY <1>4, FormTyped
    <3>2. h.form[i].leaders \subseteq Users /\ h.form[i].can \subseteq Permissions
      BY <3>1 DEF FormLevel
    <3>3. IdOf(h.form, i) \in LevelIds
      <4>1. CASE h.form[i].id = Null
        <5>1. IdOf(h.form, i) \in Nat /\ nextLevel <= IdOf(h.form, i)
              /\ IdOf(h.form, i) < nextLevel + Cardinality(NewIn(h.form))
              /\ Cardinality(NewIn(h.form)) \in Nat
          BY <1>1, <1>3, <4>1, FormIds
        <5>2. QED
          BY <1>1, <1>3, <5>1, HierarchyAssumption DEF LevelIds, TypeOK
      <4>2. CASE h.form[i].id # Null
        <5>1. IdOf(h.form, i) \in h.known
          BY <1>1, <1>3, <4>2, FormIds
        <5>2. QED
          BY <1>3, <5>1 DEF Fits, Updating
      <4>3. QED
        BY <4>1, <4>2
    <3>4. QED
      BY <1>4, <2>1, <3>2, <3>3 DEF Link
  <2>2. NewLinks(h) \subseteq Link
    BY <2>1 DEF NewLinks
  <2>3. QED
    BY <1>1, <1>2, <2>2 DEF TypeOK, RowsTypeOK
<1>8. nextLevel' \in 1..MaxLevels + 1
  BY <1>1, <1>2, <1>3, FormIds, HierarchyAssumption DEF TypeOK
<1>9. admin' \in [Admins -> Requests]
  BY <1>1, <1>2, EndsTyped
<1>10. QED
  BY <1>1, <1>2, <1>5, <1>6, <1>7, <1>8, <1>9 DEF TypeOK, RowsTypeOK, Requests

LEMMA CommitRows ==
    ASSUME RowsInv, NEW s \in Admins, NEW h, h = admin[s], UpdateCommit(s)
    PROVE  RowsInv'
<1> DEFINE kept == {l \in levels : l.id \notin h.known}
<1> DEFINE next == nextLevel + Cardinality(NewIn(h.form))
<1>1. TypeOK /\ IdsFresh /\ LevelsDistinct /\ LinksLevelled /\ LevelsLive
      /\ FormsHold /\ SnapshotsHold
  BY DEF RowsInv
<1>2. /\ levels' = kept \cup NewLevels(h)
      /\ links' = {a \in links : a.level \notin h.known} \cup NewLinks(h)
      /\ nextLevel' = next
      /\ Ends(s)
      /\ departments' = departments
  BY DEF UpdateCommit
<1>3. Fits(h) /\ next <= MaxLevels + 1
  BY CommitFits
<1>4. \A l \in NewLevels(h) :
        /\ \E i \in DOMAIN h.form :
             l = [id |-> IdOf(h.form, i), dept |-> h.dept, position |-> i]
        /\ l \in Level
        /\ l.dept = h.dept
        /\ l.position \in DOMAIN h.form
        /\ l.id < next
        /\ \/ l.id \in h.known /\ l.id \in Ids(levels)
           \/ nextLevel <= l.id
        /\ departments[l.dept] = "live"
  BY <1>1, <1>3, NewLevelsFit
<1>5. /\ nextLevel \in Nat /\ next \in Nat /\ nextLevel <= next
      /\ \A k \in h.known : k \in Nat /\ k < nextLevel
      /\ \A l \in levels : l.id \in Nat /\ l.id < nextLevel
  <2>1. nextLevel \in Nat /\ Cardinality(NewIn(h.form)) \in Nat
    BY <1>1, <1>3, FormIds
  <2>2. h.known \subseteq Nat /\ \A k \in h.known : k < nextLevel
    BY <1>3, HierarchyAssumption DEF Fits, KnownHold, Updating, LevelIds
  <2>3. \A l \in levels : l.id \in Nat /\ l.id < nextLevel
    BY <1>1, HierarchyAssumption DEF TypeOK, RowsTypeOK, Level, LevelIds, IdsFresh
  <2>4. QED
    BY <2>1, <2>2, <2>3
<1>6. TypeOK'
  BY CommitTyped
<1>7. IdsFresh'
  BY <1>2, <1>4, <1>5 DEF IdsFresh
<1>8. LevelsDistinct'
  <2>1. ASSUME NEW l \in kept, NEW m \in NewLevels(h)
        PROVE  /\ l.id # m.id
               /\ l.dept = m.dept => l.position # m.position
    <3>1. l.id # m.id
      BY <1>4, <1>5 DEF Level
    <3>2. l.dept = h.dept => l.position \notin DOMAIN h.form
      BY <1>3 DEF Fits, Conflict, LevelsOf
    <3>3. QED
      BY <1>4, <3>1, <3>2
  <2>2. ASSUME NEW l \in NewLevels(h), NEW m \in NewLevels(h), l # m
        PROVE  l.id # m.id /\ l.position # m.position
    <3>1. PICK i \in DOMAIN h.form :
            l = [id |-> IdOf(h.form, i), dept |-> h.dept, position |-> i]
      BY <1>4
    <3>2. PICK j \in DOMAIN h.form :
            m = [id |-> IdOf(h.form, j), dept |-> h.dept, position |-> j]
      BY <1>4
    <3>3. i # j
      BY <2>2, <3>1, <3>2
    <3>4. IdOf(h.form, i) # IdOf(h.form, j)
      BY <1>1, <1>3, <3>3, FormIds
    <3>5. QED
      BY <3>1, <3>2, <3>3, <3>4
  <2>3. \A l, m \in kept : l # m => /\ l.id # m.id
                                    /\ l.dept = m.dept => l.position # m.position
    BY <1>1 DEF LevelsDistinct
  <2>4. \A l, m \in kept \cup NewLevels(h) :
           l # m => /\ l.id # m.id
                    /\ l.dept = m.dept => l.position # m.position
    BY <2>1, <2>2, <2>3
  <2>5. QED
    BY <1>2, <2>4 DEF LevelsDistinct
<1>9. LinksLevelled'
  <2>1. ASSUME NEW a \in links, a.level \notin h.known
        PROVE  \E l \in levels' : l.id = a.level /\ l.dept = a.dept
    BY <1>1, <1>2, <2>1 DEF LinksLevelled
  <2>2. ASSUME NEW a \in NewLinks(h)
        PROVE  \E l \in levels' : l.id = a.level /\ l.dept = a.dept
    <3>1. PICK i \in DOMAIN h.form : \E u \in h.form[i].leaders :
             a = [dept |-> h.dept, level |-> IdOf(h.form, i), user |-> u,
                  can |-> h.form[i].can]
      BY DEF NewLinks
    <3>2. h.form[i].id = Null \/ h.form[i].id \in Ids(levels)
      BY <1>3, <3>1 DEF Fits, Conflict
    <3>3. PICK l : l = [id |-> IdOf(h.form, i), dept |-> h.dept, position |-> i]
      OBVIOUS
    <3>4. l \in NewLevels(h)
      BY <3>2, <3>3 DEF NewLevels
    <3>5. l.id = a.level /\ l.dept = a.dept
      BY <3>1, <3>3
    <3>6. QED
      BY <1>2, <3>4, <3>5
  <2>3. QED
    BY <1>2, <2>1, <2>2 DEF LinksLevelled
<1>10. LevelsLive'
  BY <1>1, <1>2, <1>4 DEF LevelsLive
<1>11. /\ admin'[s] = Null
       /\ \A t \in Admins : t # s => admin'[t] = admin[t]
  BY <1>1, <1>2, EndsTyped
<1>12. FormsHold'
  BY <1>1, <1>11 DEF FormsHold
<1>13. SnapshotsHold'
  <2>1. SUFFICES ASSUME NEW t \in Admins, At(t, "update", "commit")'
                 PROVE  KnownHold(admin[t])'
    BY DEF SnapshotsHold
  <2>2. t # s /\ admin'[t] = admin[t] /\ At(t, "update", "commit")
    BY <1>11, <2>1 DEF At
  <2>3. PICK g : g = admin[t]
    OBVIOUS
  <2>4. KnownHold(g) /\ g \in Updating
    BY <1>1, <2>2, <2>3, RequestTyped DEF SnapshotsHold, At
  <2>5. \A k \in g.known : k \in Nat /\ k < nextLevel
    BY <2>4, HierarchyAssumption DEF KnownHold, Updating, LevelIds
  <2>6. ASSUME NEW l \in NewLevels(h), l.id \in g.known
        PROVE  l.dept = g.dept
    <3>1. l.id \in h.known /\ l.id \in Ids(levels)
      BY <1>4, <1>5, <2>5, <2>6 DEF Level, LevelIds
    <3>2. PICK m \in levels : m.id = l.id
      BY <3>1 DEF Ids
    <3>3. m.dept = g.dept /\ m.dept = h.dept
      BY <1>3, <2>4, <2>6, <3>1, <3>2 DEF KnownHold, Fits
    <3>4. QED
      BY <1>4, <3>3
  <2>7. \A l \in levels' : l.id \in g.known => l.dept = g.dept
    BY <1>2, <2>4, <2>6 DEF KnownHold
  <2>8. \A k \in g.known : k < nextLevel'
    BY <1>2, <1>5, <2>5
  <2>9. QED
    BY <2>2, <2>3, <2>7, <2>8 DEF KnownHold
<1>14. QED
  BY <1>6, <1>7, <1>8, <1>9, <1>10, <1>12, <1>13 DEF RowsInv

-----------------------------------------------------------------------------
\* Every other step adds no level and no link, takes no level from a link that
\* stays and no department from a level that stays.
RowsShrink ==
    /\ users' \in [Users -> User]
    /\ levels' \subseteq levels
    /\ links' \subseteq links
    /\ \A a \in links', l \in levels :
         l.id = a.level /\ l.dept = a.dept => l \in levels'
    /\ departments' \in [Departments -> {"none", "live", "gone"}]
    /\ \A l \in levels' : departments[l.dept] = "live"
                            => departments'[l.dept] = "live"
    /\ nextLevel' = nextLevel
    /\ scene' = scene

\* And a request that is not left alone ends, or is no update, or has a form
\* whose levels and leaders are distinct and, past its snapshot, knows the
\* levels that its department has.
RequestHolds(t) ==
    \/ admin'[t] = admin[t]
    \/ admin'[t] = Null
    \/ admin'[t].op # "update"
    \/ /\ FormDistinct(admin'[t].form)
       /\ admin'[t].pc = "commit" =>
            admin'[t].known = Ids(LevelsOf(admin'[t].dept))

LEMMA RowsUnchanged ==
    ASSUME RowsInv,
           UNCHANGED <<users, levels, links, departments, nextLevel, scene>>
    PROVE  RowsShrink
BY DEF RowsInv, RowsShrink, TypeOK, RowsTypeOK

LEMMA ShrinkKeepsRows ==
    ASSUME RowsInv, RowsShrink, admin' \in [Admins -> Requests],
           \A t \in Admins : RequestHolds(t)
    PROVE  RowsInv'
<1>1. TypeOK /\ IdsFresh /\ LevelsDistinct /\ LinksLevelled /\ LevelsLive
      /\ FormsHold /\ SnapshotsHold
  BY DEF RowsInv
<1>2. TypeOK'
  BY <1>1 DEF TypeOK, RowsTypeOK, RowsShrink, Requests
<1>3. IdsFresh' /\ LevelsDistinct' /\ LevelsLive'
  BY <1>1 DEF RowsShrink, IdsFresh, LevelsDistinct, LevelsLive
<1>4. LinksLevelled'
  <2>1. SUFFICES ASSUME NEW a \in links'
                 PROVE  \E l \in levels' : l.id = a.level /\ l.dept = a.dept
    BY DEF LinksLevelled
  <2>2. PICK l \in levels : l.id = a.level /\ l.dept = a.dept
    BY <1>1 DEF RowsShrink, LinksLevelled
  <2>3. l \in levels'
    BY <2>2 DEF RowsShrink
  <2>4. QED
    BY <2>2, <2>3
<1>5. FormsHold'
  <2>1. SUFFICES ASSUME NEW t \in Admins,
                        admin'[t] # Null, admin'[t].op = "update"
                 PROVE  FormDistinct(admin'[t].form)
    BY DEF FormsHold, FormDistinct
  <2>2. RequestHolds(t)
    OBVIOUS
  <2>3. CASE admin'[t] = admin[t]
    BY <1>1, <2>1, <2>3 DEF FormsHold
  <2>4. CASE admin'[t] # admin[t]
    BY <2>1, <2>2, <2>4 DEF RequestHolds
  <2>5. QED
    BY <2>3, <2>4
<1>6. SnapshotsHold'
  <2>1. SUFFICES ASSUME NEW t \in Admins, At(t, "update", "commit")'
                 PROVE  KnownHold(admin[t])'
    BY DEF SnapshotsHold
  <2>2. PICK g : g = admin'[t]
    OBVIOUS
  <2>3. g # Null /\ g.op = "update" /\ g.pc = "commit"
    BY <2>1, <2>2 DEF At
  <2>4. KnownHold(g)
    <3>1. CASE g = admin[t]
      <4>1. At(t, "update", "commit")
        BY <2>3, <3>1 DEF At
      <4>2. QED
        BY <1>1, <3>1, <4>1 DEF SnapshotsHold
    <3>2. CASE g # admin[t]
      <4>1. g.known = Ids(LevelsOf(g.dept))
        BY <2>2, <2>3, <3>2 DEF RequestHolds
      <4>2. \A k \in g.known : k < nextLevel
        BY <1>1, <4>1 DEF Ids, LevelsOf, IdsFresh
      <4>3. ASSUME NEW l \in levels, l.id \in g.known
            PROVE  l.dept = g.dept
        <5>1. PICK m \in levels : m.id = l.id /\ m.dept = g.dept
          BY <4>1, <4>3 DEF Ids, LevelsOf
        <5>2. QED
          BY <1>1, <5>1 DEF LevelsDistinct
      <4>4. QED
        BY <4>2, <4>3 DEF KnownHold
    <3>3. QED
      BY <3>1, <3>2
  <2>5. KnownHold(g)'
    BY <2>4 DEF KnownHold, RowsShrink
  <2>6. QED
    BY <2>2, <2>5 DEF KnownHold
<1>7. QED
  BY <1>2, <1>3, <1>4, <1>5, <1>6 DEF RowsInv

\* A step of one request.
LEMMA OneShrinks ==
    ASSUME RowsInv, RowsShrink, NEW s \in Admins, NEW h \in Requests, Goes(s, h),
           h = Null \/ h.op # "update"
    PROVE  RowsInv'
<1>1. /\ admin' \in [Admins -> Requests]
      /\ admin'[s] = h
      /\ \A t \in Admins : t # s => admin'[t] = admin[t]
  BY GoesTyped DEF RowsInv
<1>2. \A t \in Admins : RequestHolds(t)
  BY <1>1 DEF RequestHolds
<1>3. QED
  BY <1>1, <1>2, ShrinkKeepsRows

LEMMA EndShrinks ==
    ASSUME RowsInv, RowsShrink, NEW s \in Admins, Ends(s)
    PROVE  RowsInv'
<1>1. Null \in Requests
  BY DEF Requests
<1>2. QED
  BY <1>1, OneShrinks DEF Ends

-----------------------------------------------------------------------------
\* The moves of a deletion keep its record a deletion of the same department.
LEMMA DeletingTyped ==
    ASSUME TypeOK, NEW s \in Admins, NEW pc, At(s, "delete", pc)
    PROVE  /\ admin[s] \in Deleting
           /\ admin[s].dept \in Departments
           /\ admin[s].leaders \subseteq Users
           /\ admin[s].leader \in Users \cup {Null}
<1>1. admin[s] \in Deleting
  BY RequestTyped DEF At
<1>2. QED
  BY <1>1 DEF Deleting

LEMMA DeleteMoves ==
    ASSUME NEW g \in Deleting, NEW pc \in DeletePCs
    PROVE  LET h == [g EXCEPT !.pc = pc] IN
           /\ h \in Requests
           /\ h.op = "delete" /\ h.pc = pc /\ h.dept = g.dept
           /\ h.leader = g.leader /\ h.leaders = g.leaders
BY DEF Deleting, Requests

LEMMA NextLeaderGoes ==
    ASSUME TypeOK, NEW s \in Admins, admin[s] \in Deleting,
           NEW leaders \in SUBSET Users, NextLeader(s, leaders)
    PROVE  \E h \in Requests :
             /\ Goes(s, h)
             /\ h.op = "delete" /\ h.dept = admin[s].dept
             /\ h.pc \in {"destroy", "leader"}
<1> PICK g : g = admin[s]
  OBVIOUS
<1>1. CASE leaders = {}
  <2>1. PICK h : h = [g EXCEPT !.pc = "destroy", !.leaders = {}, !.leader = Null]
    OBVIOUS
  <2>2. /\ h \in Deleting
        /\ h.op = "delete" /\ h.dept = g.dept /\ h.pc = "destroy"
    BY <2>1 DEF Deleting, DeletePCs
  <2>3. Goes(s, h)
    BY <1>1, <2>1 DEF NextLeader
  <2>4. QED
    BY <2>2, <2>3 DEF Requests
<1>2. CASE leaders # {}
  <2>1. PICK u \in leaders :
          Goes(s, [admin[s] EXCEPT !.pc = "leader", !.leader = u,
                                   !.leaders = leaders \ {u}])
    BY <1>2 DEF NextLeader
  <2>2. PICK h : h = [g EXCEPT !.pc = "leader", !.leader = u,
                               !.leaders = leaders \ {u}]
    OBVIOUS
  <2>3. /\ h \in Deleting
        /\ h.op = "delete" /\ h.dept = g.dept /\ h.pc = "leader"
    BY <2>2 DEF Deleting, DeletePCs
  <2>4. Goes(s, h)
    BY <2>1, <2>2
  <2>5. QED
    BY <2>3, <2>4 DEF Requests
<1>3. QED
  BY <1>1, <1>2

LEMMA CreateRows ==
    ASSUME RowsInv, NEW d \in Departments, CreateDepartment(d)
    PROVE  RowsInv'
<1>1. RowsShrink
  BY DEF CreateDepartment, RowsInv, RowsShrink, TypeOK, RowsTypeOK, LevelsLive
<1>2. admin' \in [Admins -> Requests] /\ \A t \in Admins : RequestHolds(t)
  BY DEF CreateDepartment, RowsInv, TypeOK, RequestHolds, Requests
<1>3. QED
  BY <1>1, <1>2, ShrinkKeepsRows

LEMMA UpdateStartRows ==
    ASSUME RowsInv, NEW s \in Admins, NEW d \in Departments, NEW form \in Forms,
           UpdateStart(s, d, form)
    PROVE  RowsInv'
<1>1. RowsShrink
  BY RowsUnchanged DEF UpdateStart
<1>2. PICK h : h = [op |-> "update", pc |-> "eligible", dept |-> d,
                    form |-> form, known |-> {}, seen |-> {}]
  OBVIOUS
<1>3. h \in Requests /\ h.op = "update" /\ h.pc = "eligible" /\ h.form = form
  BY <1>2 DEF Requests, Updating
<1>4. FormDistinct(form)
  BY DEF UpdateStart, Submitted, FormDistinct
<1>5. /\ admin' \in [Admins -> Requests]
      /\ admin'[s] = h
      /\ \A t \in Admins : t # s => admin'[t] = admin[t]
  BY <1>2, <1>3, GoesTyped DEF UpdateStart, RowsInv
<1>6. \A t \in Admins : RequestHolds(t)
  BY <1>3, <1>4, <1>5 DEF RequestHolds
<1>7. QED
  BY <1>1, <1>5, <1>6, ShrinkKeepsRows

LEMMA UpdateEligibleRows ==
    ASSUME RowsInv, NEW s \in Admins, UpdateEligible(s)
    PROVE  RowsInv'
<1>1. RowsShrink
  BY RowsUnchanged DEF UpdateEligible
<1>2. PICK g : g = admin[s]
  OBVIOUS
<1>3. g \in Updating /\ FormDistinct(g.form)
  BY <1>2, RequestTyped DEF UpdateEligible, At, RowsInv, FormsHold
<1>4. CASE Ends(s)
  BY <1>1, <1>4, EndShrinks
<1>5. CASE Goes(s, [admin[s] EXCEPT !.pc = "begin"])
  <2>1. PICK h : h = [g EXCEPT !.pc = "begin"]
    OBVIOUS
  <2>2. h \in Requests /\ h.op = "update" /\ h.pc = "begin" /\ h.form = g.form
    BY <1>3, <2>1 DEF Requests, Updating
  <2>3. /\ admin' \in [Admins -> Requests]
        /\ admin'[s] = h
        /\ \A t \in Admins : t # s => admin'[t] = admin[t]
    BY <1>2, <1>5, <2>1, <2>2, GoesTyped DEF RowsInv
  <2>4. \A t \in Admins : RequestHolds(t)
    BY <1>3, <2>2, <2>3 DEF RequestHolds
  <2>5. QED
    BY <1>1, <2>3, <2>4, ShrinkKeepsRows
<1>6. QED
  BY <1>4, <1>5 DEF UpdateEligible

LEMMA UpdateBeginRows ==
    ASSUME RowsInv, NEW s \in Admins, UpdateBegin(s)
    PROVE  RowsInv'
<1>1. RowsShrink
  BY RowsUnchanged DEF UpdateBegin
<1>2. PICK g : g = admin[s]
  OBVIOUS
<1>3. g \in Updating /\ FormDistinct(g.form) /\ TypeOK
  BY <1>2, RequestTyped DEF UpdateBegin, At, RowsInv, FormsHold
<1>4. PICK known : known = Ids(LevelsOf(g.dept))
  OBVIOUS
<1>5. PICK seen : seen = links
  OBVIOUS
<1>6. known \in SUBSET LevelIds /\ seen \in SUBSET Link
  BY <1>3, <1>4, <1>5 DEF Ids, LevelsOf, TypeOK, RowsTypeOK, Level
<1>7. PICK h : h = [g EXCEPT !.pc = "commit", !.seen = seen, !.known = known]
  OBVIOUS
<1>8. /\ h \in Requests /\ h.op = "update" /\ h.form = g.form
      /\ h.known = known /\ h.dept = g.dept
  BY <1>3, <1>6, <1>7 DEF Requests, Updating
<1>9. /\ admin' \in [Admins -> Requests]
      /\ admin'[s] = h
      /\ \A t \in Admins : t # s => admin'[t] = admin[t]
  BY <1>2, <1>3, <1>4, <1>5, <1>7, <1>8, GoesTyped DEF UpdateBegin
<1>10. \A t \in Admins : RequestHolds(t)
  BY <1>3, <1>4, <1>8, <1>9 DEF RequestHolds
<1>11. QED
  BY <1>1, <1>9, <1>10, ShrinkKeepsRows

LEMMA EndingRows ==
    ASSUME RowsInv, NEW s \in Admins,
           UpdateRefused(s) \/ DeleteRefused(s) \/ Fails(s)
    PROVE  RowsInv'
<1>1. Ends(s) /\ UNCHANGED <<users, levels, links, departments, nextLevel, scene>>
  BY DEF UpdateRefused, DeleteRefused, Fails
<1>2. QED
  BY <1>1, RowsUnchanged, EndShrinks

LEMMA CrashRows ==
    ASSUME RowsInv, Crash
    PROVE  RowsInv'
<1>1. RowsShrink
  BY RowsUnchanged DEF Crash
<1>2. admin' \in [Admins -> Requests] /\ \A t \in Admins : RequestHolds(t)
  BY DEF Crash, RequestHolds, Requests
<1>3. QED
  BY <1>1, <1>2, ShrinkKeepsRows

-----------------------------------------------------------------------------
\* The steps of a deletion.
LEMMA DeleteMovesRows ==
    ASSUME RowsInv, RowsShrink, NEW s \in Admins, admin[s] \in Deleting,
           NEW pc \in DeletePCs, DeleteGoes(s, pc)
    PROVE  RowsInv'
<1> PICK g : g = admin[s]
  OBVIOUS
<1>1. PICK h : h = [g EXCEPT !.pc = pc]
  OBVIOUS
<1>2. h \in Requests /\ h.op = "delete"
  BY <1>1, DeleteMoves
<1>3. Goes(s, h)
  BY <1>1 DEF DeleteGoes
<1>4. QED
  BY <1>2, <1>3, OneShrinks

LEMMA NextLeaderRows ==
    ASSUME RowsInv, RowsShrink, NEW s \in Admins, admin[s] \in Deleting,
           NEW leaders \in SUBSET Users, NextLeader(s, leaders)
    PROVE  RowsInv'
<1>1. PICK h \in Requests : Goes(s, h) /\ h.op = "delete"
  BY NextLeaderGoes DEF RowsInv
<1>2. QED
  BY <1>1, OneShrinks

LEMMA DeleteStartRows ==
    ASSUME RowsInv, NEW s \in Admins, NEW d \in Departments, DeleteStart(s, d)
    PROVE  RowsInv'
<1>1. RowsShrink
  BY RowsUnchanged DEF DeleteStart
<1>2. PICK h : h = [op |-> "delete", pc |-> "count", dept |-> d, known |-> {},
                    leaders |-> {}, leader |-> Null]
  OBVIOUS
<1>3. h \in Requests /\ h.op = "delete"
  BY <1>2 DEF Requests, Deleting, DeletePCs
<1>4. QED
  BY <1>1, <1>2, <1>3, OneShrinks DEF DeleteStart

LEMMA DeleteCountRows ==
    ASSUME RowsInv, NEW s \in Admins, DeleteCount(s)
    PROVE  RowsInv'
<1>1. RowsShrink
  BY RowsUnchanged DEF DeleteCount
<1>2. admin[s] \in Deleting
  BY DeletingTyped DEF DeleteCount, DeleteAt, RowsInv
<1>3. CASE Ends(s)
  BY <1>1, <1>3, EndShrinks
<1>4. CASE DeleteGoes(s, "levels")
  BY <1>1, <1>2, <1>4, DeleteMovesRows DEF DeletePCs
<1>5. QED
  BY <1>3, <1>4 DEF DeleteCount

LEMMA DeleteReadLevelsRows ==
    ASSUME RowsInv, NEW s \in Admins, DeleteReadLevels(s)
    PROVE  RowsInv'
<1>1. RowsShrink
  BY RowsUnchanged DEF DeleteReadLevels
<1>2. PICK g : g = admin[s]
  OBVIOUS
<1>3. g \in Deleting
  BY <1>2, DeletingTyped DEF DeleteReadLevels, DeleteAt, RowsInv
<1>4. PICK known : known = Ids(LevelsOf(g.dept))
  OBVIOUS
<1>5. known \in SUBSET LevelIds
  BY <1>4 DEF Ids, LevelsOf, RowsInv, TypeOK, RowsTypeOK, Level
<1>6. PICK h : h = [g EXCEPT !.known = known,
                             !.pc = IF known = {} THEN "clear" ELSE "links"]
  OBVIOUS
<1>7. h \in Requests /\ h.op = "delete"
  BY <1>3, <1>5, <1>6 DEF Requests, Deleting, DeletePCs
<1>8. Goes(s, h)
  BY <1>2, <1>4, <1>6 DEF DeleteReadLevels
<1>9. QED
  BY <1>1, <1>7, <1>8, OneShrinks

LEMMA DeleteReadLinksRows ==
    ASSUME RowsInv, NEW s \in Admins, DeleteReadLinks(s)
    PROVE  RowsInv'
<1>1. RowsShrink
  BY RowsUnchanged DEF DeleteReadLinks
<1>2. PICK g : g = admin[s]
  OBVIOUS
<1>3. g \in Deleting
  BY <1>2, DeletingTyped DEF DeleteReadLinks, DeleteAt, RowsInv
<1>4. PICK led : led = {a.user : a \in {a \in links : a.level \in g.known}}
  OBVIOUS
<1>5. led \in SUBSET Users
  BY <1>4 DEF RowsInv, TypeOK, RowsTypeOK, Link
<1>6. PICK h : h = [g EXCEPT !.pc = "unlink", !.leaders = led]
  OBVIOUS
<1>7. h \in Requests /\ h.op = "delete"
  BY <1>3, <1>5, <1>6 DEF Requests, Deleting, DeletePCs
<1>8. Goes(s, h)
  BY <1>2, <1>4, <1>6 DEF DeleteReadLinks
<1>9. QED
  BY <1>1, <1>7, <1>8, OneShrinks

LEMMA DeleteLinksRows ==
    ASSUME RowsInv, NEW s \in Admins, DeleteLinks(s)
    PROVE  RowsInv'
<1>1. RowsShrink
  BY DEF DeleteLinks, RowsInv, RowsShrink, TypeOK, RowsTypeOK
<1>2. admin[s] \in Deleting
  BY DeletingTyped DEF DeleteLinks, DeleteAt, RowsInv
<1>3. QED
  BY <1>1, <1>2, DeleteMovesRows DEF DeleteLinks, DeletePCs

\* Level ids are the levels' own, so that taking the links of a department's
\* levels leaves no link to one of them.
LEMMA DeleteLevelsRows ==
    ASSUME RowsInv, NEW s \in Admins, DeleteLevels(s)
    PROVE  RowsInv'
<1>1. admin[s] \in Deleting /\ admin[s].leaders \in SUBSET Users
  BY DeletingTyped DEF DeleteLevels, DeleteAt, RowsInv
<1>2. /\ levels' = levels \ LevelsOf(admin[s].dept)
      /\ links' = {a \in links : a.level \notin Ids(LevelsOf(admin[s].dept))}
      /\ NextLeader(s, admin[s].leaders)
      /\ UNCHANGED <<users, departments, nextLevel, scene>>
  BY DEF DeleteLevels
<1>3. \A a \in links', l \in levels :
        l.id = a.level /\ l.dept = a.dept => l \in levels'
  BY <1>2 DEF Ids, LevelsOf
<1>4. RowsShrink
  BY <1>2, <1>3 DEF RowsInv, RowsShrink, TypeOK, RowsTypeOK
<1>5. QED
  BY <1>1, <1>2, <1>4, NextLeaderRows

LEMMA DeleteLeaderRows ==
    ASSUME RowsInv, NEW s \in Admins, DeleteLeader(s)
    PROVE  RowsInv'
<1>1. RowsShrink
  BY RowsUnchanged DEF DeleteLeader
<1>2. admin[s] \in Deleting /\ admin[s].leaders \in SUBSET Users
  BY DeletingTyped DEF DeleteLeader, DeleteAt, RowsInv
<1>3. CASE NextLeader(s, admin[s].leaders)
  BY <1>1, <1>2, <1>3, NextLeaderRows
<1>4. CASE DeleteGoes(s, "demote")
  BY <1>1, <1>2, <1>4, DeleteMovesRows DEF DeletePCs
<1>5. QED
  BY <1>3, <1>4 DEF DeleteLeader

LEMMA DeleteDemoteRows ==
    ASSUME RowsInv, NEW s \in Admins, DeleteDemote(s)
    PROVE  RowsInv'
<1>1. admin[s] \in Deleting
  BY DeletingTyped DEF DeleteDemote, DeleteAt, RowsInv
<1>2. PICK u : u = admin[s].leader
  OBVIOUS
<1>3. users' = [users EXCEPT ![u].role = "employee"]
  BY <1>2 DEF DeleteDemote
<1>4. users' \in [Users -> User]
  BY <1>3 DEF RowsInv, TypeOK, RowsTypeOK, User, Roles
<1>5. RowsShrink
  BY <1>4 DEF DeleteDemote, RowsInv, RowsShrink, TypeOK, RowsTypeOK
<1>6. QED
  BY <1>1, <1>5, DeleteMovesRows DEF DeleteDemote, DeletePCs

LEMMA DeleteOrphanRows ==
    ASSUME RowsInv, NEW s \in Admins, DeleteOrphan(s)
    PROVE  RowsInv'
<1>1. admin[s] \in Deleting /\ admin[s].leaders \in SUBSET Users
  BY DeletingTyped DEF DeleteOrphan, DeleteAt, RowsInv
<1>2. users' \in [Users -> User]
  BY DEF DeleteOrphan, RowsInv, TypeOK, RowsTypeOK, User
<1>3. RowsShrink
  BY <1>2 DEF DeleteOrphan, RowsInv, RowsShrink, TypeOK, RowsTypeOK
<1>4. QED
  BY <1>1, <1>3, NextLeaderRows DEF DeleteOrphan

LEMMA DeleteDestroyRows ==
    ASSUME RowsInv, NEW s \in Admins, DeleteDestroy(s)
    PROVE  RowsInv'
<1>1. admin[s].dept \in Departments
  BY DeletingTyped DEF DeleteDestroy, DeleteAt, RowsInv
<1>2. PICK d : d = admin[s].dept
  OBVIOUS
<1>3. /\ departments' = [departments EXCEPT ![d] = "gone"]
      /\ users' = [u \in Users |-> IF users[u].dept = d
                                     THEN [users[u] EXCEPT !.dept = Null]
                                     ELSE users[u]]
      /\ levels' = levels \ LevelsOf(d)
      /\ links' = {a \in links : a.dept # d}
      /\ Ends(s)
      /\ UNCHANGED <<nextLevel, scene>>
  BY <1>2 DEF DeleteDestroy
<1>4. users' \in [Users -> User]
  BY <1>3 DEF RowsInv, TypeOK, RowsTypeOK, User
<1>5. \A a \in links', l \in levels :
        l.id = a.level /\ l.dept = a.dept => l \in levels'
  BY <1>3 DEF LevelsOf
<1>6. \A l \in levels' : departments[l.dept] = "live"
                           => departments'[l.dept] = "live"
  BY <1>3 DEF LevelsOf, RowsInv, TypeOK, RowsTypeOK, Level
<1>7. departments' \in [Departments -> {"none", "live", "gone"}]
  BY <1>3 DEF RowsInv, TypeOK
<1>8. RowsShrink
  BY <1>3, <1>4, <1>5, <1>6, <1>7 DEF RowsShrink
<1>9. QED
  BY <1>3, <1>8, EndShrinks

-----------------------------------------------------------------------------
\* An edition of a user.
LEMMA EditionTyped ==
    ASSUME TypeOK, NEW row \in User, NEW column, NEW next \in Edition(column, row),
           column \in {"role", "status", "dept", "manager"}
    PROVE  next \in User
<1>1. scene.users \subseteq Users
  BY SceneTyped
<1>2. CASE column = "role"
  BY <1>2 DEF Edition, User
<1>3. CASE column = "status"
  BY <1>3 DEF Edition, User, Statuses
<1>4. CASE column = "dept"
  BY <1>4 DEF Edition, User
<1>5. CASE column = "manager"
  BY <1>1, <1>5 DEF Edition, User
<1>6. QED
  BY <1>2, <1>3, <1>4, <1>5

LEMMA EditStartRows ==
    ASSUME RowsInv, NEW s \in Admins, NEW u \in Users, EditStart(s, u)
    PROVE  RowsInv'
<1>1. RowsShrink
  BY RowsUnchanged DEF EditStart
<1>2. PICK row : row = users[u]
  OBVIOUS
<1>3. row \in User /\ TypeOK
  BY <1>2 DEF RowsInv, TypeOK, RowsTypeOK
<1>4. PICK next \in Editions(users[u]) :
        Goes(s, [op |-> "edit", pc |-> "save", user |-> u,
                 copy |-> users[u], next |-> next])
  BY DEF EditStart
<1>5. PICK column \in scene.edited : next \in Edition(column, row)
  BY <1>2, <1>4 DEF Editions
<1>6. column \in {"role", "status", "dept", "manager"}
  BY <1>3, <1>5, SceneTyped DEF Scene
<1>7. next \in User
  BY <1>3, <1>5, <1>6, EditionTyped
<1>8. PICK h : h = [op |-> "edit", pc |-> "save", user |-> u, copy |-> row,
                    next |-> next]
  OBVIOUS
<1>9. h \in Requests /\ h.op = "edit"
  BY <1>3, <1>7, <1>8 DEF Requests, Editing
<1>10. QED
  BY <1>1, <1>2, <1>4, <1>8, <1>9, OneShrinks

LEMMA EditSaveRows ==
    ASSUME RowsInv, NEW s \in Admins, EditSave(s)
    PROVE  RowsInv'
<1>1. PICK h : h = admin[s]
  OBVIOUS
<1>2. h \in Editing /\ TypeOK
  BY <1>1, RequestTyped DEF EditSave, At, RowsInv
<1>3. h.user \in Users /\ h.copy \in User /\ h.next \in User
  BY <1>2 DEF Editing
<1>4. PICK row : row = Saved(users[h.user], h.copy, h.next)
  OBVIOUS
<1>5. row \in User
  BY <1>2, <1>3, <1>4 DEF Saved, Column, User, TypeOK, RowsTypeOK
<1>6. users' = users \/ users' = [users EXCEPT ![h.user] = row]
  BY <1>1, <1>4 DEF EditSave
<1>7. users' \in [Users -> User]
  BY <1>2, <1>5, <1>6 DEF TypeOK, RowsTypeOK
<1>8. Ends(s) /\ UNCHANGED <<levels, links, departments, nextLevel, scene>>
  BY DEF EditSave
<1>9. RowsShrink
  BY <1>2, <1>7, <1>8 DEF RowsShrink, TypeOK, RowsTypeOK
<1>10. QED
  BY <1>8, <1>9, EndShrinks

LEMMA RowsInit == Init => RowsInv
<1> SUFFICES ASSUME Init PROVE RowsInv
  OBVIOUS
<1>1. RowsTypeOK
  BY DEF Init, RowsTypeOK, User, Roles, Statuses
<1>2. TypeOK
  BY <1>1, HierarchyAssumption DEF Init, TypeOK
<1>3. QED
  BY <1>2 DEF Init, RowsInv, IdsFresh, LevelsDistinct, LinksLevelled, LevelsLive,
              FormsHold, SnapshotsHold, At

LEMMA RowsStep == RowsInv /\ [Next]_vars => RowsInv'
<1> SUFFICES ASSUME RowsInv, [Next]_vars PROVE RowsInv'
  OBVIOUS
<1>1. CASE UNCHANGED vars
  <2>1. RowsShrink
    BY <1>1, RowsUnchanged DEF vars
  <2>2. admin' \in [Admins -> Requests] /\ \A t \in Admins : RequestHolds(t)
    BY <1>1 DEF vars, RowsInv, TypeOK, RequestHolds, Requests
  <2>3. QED
    BY <2>1, <2>2, ShrinkKeepsRows
<1>2. CASE \E d \in Departments : CreateDepartment(d)
  BY <1>2, CreateRows
<1>3. CASE Crash
  BY <1>3, CrashRows
<1>4. ASSUME NEW s \in Admins,
             NEW d \in Departments, NEW form \in SceneForms[scene],
             UpdateStart(s, d, form)
      PROVE  RowsInv'
  <2>1. form \in Forms
    BY SceneTyped DEF RowsInv
  <2>2. QED
    BY <1>4, <2>1, UpdateStartRows
<1>5. ASSUME NEW s \in Admins,
             \/ UpdateEligible(s) \/ UpdateBegin(s)
             \/ UpdateCommit(s) \/ UpdateRefused(s)
             \/ \E d \in Departments : DeleteStart(s, d)
      PROVE  RowsInv'
  BY <1>5, UpdateEligibleRows, UpdateBeginRows, CommitRows, EndingRows,
     DeleteStartRows
<1>6. ASSUME NEW s \in Admins,
             \/ DeleteCount(s) \/ DeleteReadLevels(s) \/ DeleteReadLinks(s)
             \/ DeleteLinks(s) \/ DeleteLevels(s) \/ DeleteLeader(s)
      PROVE  RowsInv'
  BY <1>6, DeleteCountRows, DeleteReadLevelsRows, DeleteReadLinksRows,
     DeleteLinksRows, DeleteLevelsRows, DeleteLeaderRows
<1>7. ASSUME NEW s \in Admins,
             \/ DeleteDemote(s) \/ DeleteOrphan(s)
             \/ DeleteDestroy(s) \/ DeleteRefused(s)
             \/ \E u \in scene.users : EditStart(s, u)
             \/ EditSave(s) \/ Fails(s)
      PROVE  RowsInv'
  <2>1. scene.users \subseteq Users
    BY SceneTyped DEF RowsInv
  <2>2. QED
    BY <1>7, <2>1, DeleteDemoteRows, DeleteOrphanRows, DeleteDestroyRows,
       EndingRows, EditStartRows, EditSaveRows
<1>8. scene.admins \subseteq Admins
  BY SceneTyped DEF RowsInv
<1>9. QED
  BY <1>1, <1>2, <1>3, <1>4, <1>5, <1>6, <1>7, <1>8 DEF Next

-----------------------------------------------------------------------------
\* While requests do not overlap.
AloneNow == /\ OneAtATime
            /\ SnapshotsCurrent
            /\ OneLink
            /\ DepartmentsEmptied
            /\ DemotedLeadNothing

\* What a request, one step later, must know of the rows as they are by then.
UpToDate(h) ==
    /\ h.op = "update" /\ h.pc = "commit" =>
         /\ h.seen = links'
         /\ h.known = Ids(LevelsOf(h.dept))'
    /\ h.op = "delete" /\ h.pc # "count" =>
         \A u \in Users : ~(users'[u].dept = h.dept /\ users'[u].status = "active")
    /\ h.op = "delete" /\ h.pc = "demote" => ~\E a \in links' : a.user = h.leader

LEMMA AloneGoes ==
    ASSUME TypeOK, OneAtATime, NEW s \in Admins, NEW h \in Requests, Goes(s, h),
           admin[s] # Null \/ \A t \in Admins : admin[t] = Null,
           OneLink', h # Null => UpToDate(h)
    PROVE  AloneNow'
<1>1. admin'[s] = h /\ \A t \in Admins : t # s => admin'[t] = admin[t]
  BY GoesTyped
<1>2. \A t \in Admins : t # s => admin'[t] = Null
  BY <1>1 DEF OneAtATime
<1>3. OneAtATime'
  BY <1>2 DEF OneAtATime
<1>4. SnapshotsCurrent'
  <2>1. SUFFICES ASSUME NEW t \in Admins, At(t, "update", "commit")'
                 PROVE  /\ admin'[t].seen = links'
                        /\ admin'[t].known = Ids(LevelsOf(admin[t].dept))'
    BY DEF SnapshotsCurrent
  <2>2. t = s
    BY <1>2, <2>1 DEF At
  <2>3. h # Null /\ h.op = "update" /\ h.pc = "commit"
    BY <1>1, <2>1, <2>2 DEF At
  <2>4. h.seen = links' /\ h.known = Ids(LevelsOf(h.dept))'
    BY <2>3 DEF UpToDate
  <2>5. QED
    BY <1>1, <2>2, <2>4 DEF Ids, LevelsOf
<1>5. DepartmentsEmptied'
  BY <1>1, <1>2 DEF DepartmentsEmptied, UpToDate
<1>6. DemotedLeadNothing'
  BY <1>1, <1>2 DEF DemotedLeadNothing, UpToDate, At, Leads
<1>7. QED
  BY <1>3, <1>4, <1>5, <1>6 DEF AloneNow

LEMMA AloneEnds ==
    ASSUME TypeOK, AloneNow, NEW s \in Admins, Ends(s), OneLink',
           admin[s] # Null
    PROVE  AloneNow'
<1>1. Null \in Requests
  BY DEF Requests
<1>2. QED
  BY <1>1, AloneGoes DEF Ends, AloneNow

\* The steps of an update.
LEMMA StartsAlone ==
    ASSUME TypeOK, AloneNow, scene.serialized, NEW s \in Admins,
           \/ \E d \in Departments, form \in Forms : UpdateStart(s, d, form)
           \/ \E d \in Departments : DeleteStart(s, d)
    PROVE  AloneNow'
<1>1. OneLink' /\ \A t \in Admins : admin[t] = Null
  BY DEF UpdateStart, DeleteStart, MayStart, AloneNow, OneLink
<1>2. ASSUME NEW d \in Departments, NEW form \in Forms, UpdateStart(s, d, form)
      PROVE  AloneNow'
  <2>1. PICK h : h = [op |-> "update", pc |-> "eligible", dept |-> d,
                      form |-> form, known |-> {}, seen |-> {}]
    OBVIOUS
  <2>2. h \in Requests /\ h.op = "update" /\ h.pc = "eligible"
    BY <2>1 DEF Requests, Updating
  <2>3. UpToDate(h)
    BY <2>2 DEF UpToDate
  <2>4. Goes(s, h)
    BY <1>2, <2>1 DEF UpdateStart
  <2>5. QED
    BY <1>1, <2>2, <2>3, <2>4, AloneGoes DEF AloneNow
<1>3. ASSUME NEW d \in Departments, DeleteStart(s, d)
      PROVE  AloneNow'
  <2>1. PICK h : h = [op |-> "delete", pc |-> "count", dept |-> d, known |-> {},
                      leaders |-> {}, leader |-> Null]
    OBVIOUS
  <2>2. h \in Requests /\ h.op = "delete" /\ h.pc = "count"
    BY <2>1 DEF Requests, Deleting, DeletePCs
  <2>3. UpToDate(h)
    BY <2>2 DEF UpToDate
  <2>4. Goes(s, h)
    BY <1>3, <2>1 DEF DeleteStart
  <2>5. QED
    BY <1>1, <2>2, <2>3, <2>4, AloneGoes DEF AloneNow
<1>4. QED
  BY <1>2, <1>3

LEMMA UpdateAlone ==
    ASSUME TypeOK, AloneNow, NEW s \in Admins,
           UpdateEligible(s) \/ UpdateBegin(s)
    PROVE  AloneNow'
<1>1. PICK g : g = admin[s]
  OBVIOUS
<1>2. g \in Updating /\ admin[s] # Null
  BY <1>1, RequestTyped DEF UpdateEligible, UpdateBegin, At
<1>3. OneLink'
  BY DEF UpdateEligible, UpdateBegin, AloneNow, OneLink
<1>4. CASE Ends(s)
  BY <1>2, <1>3, <1>4, AloneEnds
<1>5. CASE Goes(s, [admin[s] EXCEPT !.pc = "begin"])
  <2>1. PICK h : h = [g EXCEPT !.pc = "begin"]
    OBVIOUS
  <2>2. h \in Requests /\ h.op = "update" /\ h.pc = "begin"
    BY <1>2, <2>1 DEF Requests, Updating
  <2>3. UpToDate(h)
    BY <2>2 DEF UpToDate
  <2>4. QED
    BY <1>1, <1>2, <1>3, <1>5, <2>1, <2>2, <2>3, AloneGoes DEF AloneNow
<1>6. CASE UpdateBegin(s)
  <2>1. PICK known : known = Ids(LevelsOf(g.dept))
    OBVIOUS
  <2>2. PICK seen : seen = links
    OBVIOUS
  <2>3. known \in SUBSET LevelIds /\ seen \in SUBSET Link
    BY <2>1, <2>2 DEF Ids, LevelsOf, TypeOK, RowsTypeOK, Level
  <2>4. PICK h : h = [g EXCEPT !.pc = "commit", !.seen = seen, !.known = known]
    OBVIOUS
  <2>5. /\ h \in Requests /\ h.op = "update"
        /\ h.seen = seen /\ h.known = known /\ h.dept = g.dept
    BY <1>2, <2>3, <2>4 DEF Requests, Updating
  <2>6. levels' = levels /\ links' = links
    BY <1>6 DEF UpdateBegin
  <2>7. UpToDate(h)
    BY <2>1, <2>2, <2>5, <2>6 DEF UpToDate, Ids, LevelsOf
  <2>8. Goes(s, h)
    BY <1>1, <1>6, <2>1, <2>2, <2>4 DEF UpdateBegin
  <2>9. QED
    BY <1>2, <1>3, <2>5, <2>7, <2>8, AloneGoes DEF AloneNow
<1>7. QED
  BY <1>4, <1>5, <1>6 DEF UpdateEligible

\* A user whose links go with a commit had them in the department of the form,
\* in levels the snapshot knew; the others are in other departments.
LEMMA KeptLinks ==
    ASSUME RowsInv, AloneNow, NEW s \in Admins, NEW h, h = admin[s],
           At(s, "update", "commit"), NEW a \in links
    PROVE  a.level \notin h.known <=> a.dept # h.dept
<1>1. h.known = Ids(LevelsOf(h.dept))
  BY DEF AloneNow, SnapshotsCurrent
<1>2. PICK l \in levels : l.id = a.level /\ l.dept = a.dept
  BY DEF RowsInv, LinksLevelled
<1>3. a.dept = h.dept => a.level \in h.known
  BY <1>1, <1>2 DEF Ids, LevelsOf
<1>4. ASSUME a.level \in h.known PROVE a.dept = h.dept
  <2>1. PICK m \in levels : m.id = a.level /\ m.dept = h.dept
    BY <1>1, <1>4 DEF Ids, LevelsOf
  <2>2. QED
    BY <1>2, <2>1 DEF RowsInv, LevelsDistinct
<1>5. QED
  BY <1>3, <1>4

LEMMA NewLinkOf ==
    ASSUME NEW h, NEW a \in NewLinks(h)
    PROVE  /\ a.dept = h.dept
           /\ \E i \in DOMAIN h.form :
                /\ a.user \in h.form[i].leaders
                /\ a = [dept |-> h.dept, level |-> IdOf(h.form, i),
                        user |-> a.user, can |-> h.form[i].can]
BY DEF NewLinks

LEMMA CommitAlone ==
    ASSUME RowsInv, AloneNow, NEW s \in Admins, UpdateCommit(s)
    PROVE  AloneNow'
<1>1. PICK h : h = admin[s]
  OBVIOUS
<1>2. Fits(h)
  BY <1>1, CommitFits
<1>3. /\ links' = {a \in links : a.level \notin h.known} \cup NewLinks(h)
      /\ At(s, "update", "commit") /\ Ends(s)
  BY <1>1 DEF UpdateCommit
<1>4. OneLink'
  <2>1. SUFFICES ASSUME NEW a \in links', NEW b \in links',
                        a.user = b.user, a.dept = b.dept
                 PROVE  a = b
    BY DEF OneLink
  <2>2. CASE a \in links /\ b \in links
    BY <2>1, <2>2 DEF AloneNow, OneLink
  <2>3. CASE a \in NewLinks(h) /\ b \in NewLinks(h)
    <3>1. PICK i \in DOMAIN h.form :
            /\ a.user \in h.form[i].leaders
            /\ a = [dept |-> h.dept, level |-> IdOf(h.form, i),
                    user |-> a.user, can |-> h.form[i].can]
      BY <2>3, NewLinkOf
    <3>2. PICK j \in DOMAIN h.form :
            /\ b.user \in h.form[j].leaders
            /\ b = [dept |-> h.dept, level |-> IdOf(h.form, j),
                    user |-> b.user, can |-> h.form[j].can]
      BY <2>3, NewLinkOf
    <3>3. a.user \in h.form[i].leaders \cap h.form[j].leaders
      BY <2>1, <3>1, <3>2
    <3>4. i = j
      BY <1>2, <3>3 DEF Fits, FormDistinct
    <3>5. QED
      BY <2>1, <3>1, <3>2, <3>4
  <2>4. CASE a \in NewLinks(h) /\ b \in links /\ b.level \notin h.known
    <3>1. a.dept = h.dept /\ b.dept # h.dept
      BY <1>1, <1>3, <2>4, NewLinkOf, KeptLinks
    <3>2. QED
      BY <2>1, <3>1
  <2>5. CASE b \in NewLinks(h) /\ a \in links /\ a.level \notin h.known
    <3>1. b.dept = h.dept /\ a.dept # h.dept
      BY <1>1, <1>3, <2>5, NewLinkOf, KeptLinks
    <3>2. QED
      BY <2>1, <3>1
  <2>6. QED
    BY <1>3, <2>2, <2>3, <2>4, <2>5
<1>5. QED
  BY <1>3, <1>4, AloneEnds DEF At, RowsInv

-----------------------------------------------------------------------------
\* The steps of a deletion past its count: the users of the department and
\* whether they are active stay.
LEMMA DeletionAlone ==
    ASSUME TypeOK, AloneNow, NEW s \in Admins,
           admin[s] \in Deleting, admin[s] # Null, admin[s].pc # "count",
           NEW h \in Requests, Goes(s, h),
           h.op = "delete", h.dept = admin[s].dept,
           links' \subseteq links,
           \A u \in Users : /\ users'[u].dept = users[u].dept
                            /\ users'[u].status = users[u].status,
           h.pc = "demote" => ~\E a \in links' : a.user = h.leader
    PROVE  AloneNow'
<1>1. OneLink'
  BY DEF AloneNow, OneLink
<1>2. \A u \in Users :
        ~(users'[u].dept = h.dept /\ users'[u].status = "active")
  BY DEF AloneNow, DepartmentsEmptied, Deleting
<1>3. UpToDate(h)
  BY <1>2 DEF UpToDate
<1>4. QED
  BY <1>1, <1>3, AloneGoes DEF AloneNow

LEMMA DeletionMovesAlone ==
    ASSUME TypeOK, AloneNow, NEW s \in Admins,
           admin[s] \in Deleting, admin[s] # Null, admin[s].pc # "count",
           links' \subseteq links,
           \A u \in Users : /\ users'[u].dept = users[u].dept
                            /\ users'[u].status = users[u].status,
           \/ \E pc \in DeletePCs \ {"demote"} : DeleteGoes(s, pc)
           \/ \E leaders \in SUBSET Users : NextLeader(s, leaders)
    PROVE  AloneNow'
<1>1. PICK g : g = admin[s]
  OBVIOUS
<1>2. ASSUME NEW pc \in DeletePCs \ {"demote"}, DeleteGoes(s, pc)
      PROVE  AloneNow'
  <2>1. PICK h : h = [g EXCEPT !.pc = pc]
    OBVIOUS
  <2>2. h \in Requests /\ h.op = "delete" /\ h.dept = g.dept /\ h.pc = pc
    BY <1>1, <2>1, DeleteMoves
  <2>3. Goes(s, h)
    BY <1>1, <1>2, <2>1 DEF DeleteGoes
  <2>4. QED
    BY <1>1, <1>2, <2>2, <2>3, DeletionAlone
<1>3. ASSUME NEW leaders \in SUBSET Users, NextLeader(s, leaders)
      PROVE  AloneNow'
  <2>1. PICK h \in Requests :
          /\ Goes(s, h)
          /\ h.op = "delete" /\ h.dept = admin[s].dept
          /\ h.pc \in {"destroy", "leader"}
    BY <1>3, NextLeaderGoes
  <2>2. QED
    BY <2>1, DeletionAlone
<1>4. QED
  BY <1>2, <1>3

LEMMA DeleteReadsAlone ==
    ASSUME TypeOK, AloneNow, NEW s \in Admins,
           DeleteReadLevels(s) \/ DeleteReadLinks(s)
    PROVE  AloneNow'
<1>1. PICK g : g = admin[s]
  OBVIOUS
<1>2. g \in Deleting /\ g # Null /\ g.pc # "count"
  BY <1>1, DeletingTyped DEF DeleteReadLevels, DeleteReadLinks, DeleteAt, At
<1>3. links' = links /\ users' = users
  BY DEF DeleteReadLevels, DeleteReadLinks
<1>4. CASE DeleteReadLevels(s)
  <2>1. PICK known : known = Ids(LevelsOf(g.dept))
    OBVIOUS
  <2>2. known \in SUBSET LevelIds
    BY <2>1 DEF Ids, LevelsOf, TypeOK, RowsTypeOK, Level
  <2>3. PICK h : h = [g EXCEPT !.known = known,
                               !.pc = IF known = {} THEN "clear" ELSE "links"]
    OBVIOUS
  <2>4. /\ h \in Requests /\ h.op = "delete" /\ h.dept = g.dept
        /\ h.pc \in {"clear", "links"}
    BY <1>2, <2>2, <2>3 DEF Requests, Deleting, DeletePCs
  <2>5. Goes(s, h)
    BY <1>1, <1>4, <2>1, <2>3 DEF DeleteReadLevels
  <2>6. QED
    BY <1>1, <1>2, <1>3, <2>4, <2>5, DeletionAlone
<1>5. CASE DeleteReadLinks(s)
  <2>1. PICK led : led = {a.user : a \in {a \in links : a.level \in g.known}}
    OBVIOUS
  <2>2. led \in SUBSET Users
    BY <2>1 DEF TypeOK, RowsTypeOK, Link
  <2>3. PICK h : h = [g EXCEPT !.pc = "unlink", !.leaders = led]
    OBVIOUS
  <2>4. /\ h \in Requests /\ h.op = "delete" /\ h.dept = g.dept
        /\ h.pc = "unlink"
    BY <1>2, <2>2, <2>3 DEF Requests, Deleting, DeletePCs
  <2>5. Goes(s, h)
    BY <1>1, <1>5, <2>1, <2>3 DEF DeleteReadLinks
  <2>6. QED
    BY <1>1, <1>2, <1>3, <2>4, <2>5, DeletionAlone
<1>6. QED
  BY <1>4, <1>5

LEMMA DeleteCountAlone ==
    ASSUME TypeOK, AloneNow, NEW s \in Admins, DeleteCount(s)
    PROVE  AloneNow'
<1>1. PICK g : g = admin[s]
  OBVIOUS
<1>2. g \in Deleting /\ g # Null
  BY <1>1, DeletingTyped DEF DeleteCount, DeleteAt, At
<1>3. OneLink' /\ links' = links /\ users' = users
  BY DEF DeleteCount, AloneNow, OneLink
<1>4. CASE Ends(s)
  BY <1>1, <1>2, <1>3, <1>4, AloneEnds
<1>5. CASE /\ DeleteGoes(s, "levels")
           /\ ~\E u \in Users : users[u].dept = g.dept /\ users[u].status = "active"
  <2>1. PICK h : h = [g EXCEPT !.pc = "levels"]
    OBVIOUS
  <2>2. h \in Requests /\ h.op = "delete" /\ h.dept = g.dept /\ h.pc = "levels"
    BY <1>2, <2>1, DeleteMoves DEF DeletePCs
  <2>3. UpToDate(h)
    BY <1>3, <1>5, <2>2 DEF UpToDate
  <2>4. Goes(s, h)
    BY <1>1, <1>5, <2>1 DEF DeleteGoes
  <2>5. QED
    BY <1>1, <1>2, <1>3, <2>2, <2>3, <2>4, AloneGoes DEF AloneNow
<1>6. QED
  BY <1>1, <1>4, <1>5 DEF DeleteCount

LEMMA DeleteWritesAlone ==
    ASSUME TypeOK, AloneNow, NEW s \in Admins,
           \/ DeleteLinks(s) \/ DeleteLevels(s)
           \/ DeleteDemote(s) \/ DeleteOrphan(s)
    PROVE  AloneNow'
<1>1. /\ admin[s] \in Deleting /\ admin[s] # Null /\ admin[s].pc # "count"
      /\ admin[s].leaders \in SUBSET Users
  BY DeletingTyped DEF DeleteLinks, DeleteLevels, DeleteDemote, DeleteOrphan,
                       DeleteAt, At
<1>2. links' \subseteq links
  BY DEF DeleteLinks, DeleteLevels, DeleteDemote, DeleteOrphan
<1>3. \A u \in Users : /\ users'[u].dept = users[u].dept
                       /\ users'[u].status = users[u].status
  <2>1. CASE DeleteDemote(s)
    <3>1. PICK x : x = admin[s].leader
      OBVIOUS
    <3>2. users' = [users EXCEPT ![x].role = "employee"]
      BY <2>1, <3>1 DEF DeleteDemote
    <3>3. QED
      BY <3>2 DEF TypeOK, RowsTypeOK, User
  <2>2. CASE DeleteOrphan(s)
    BY <2>2 DEF DeleteOrphan, TypeOK, RowsTypeOK, User
  <2>3. CASE DeleteLinks(s) \/ DeleteLevels(s)
    BY <2>3 DEF DeleteLinks, DeleteLevels
  <2>4. QED
    BY <2>1, <2>2, <2>3
<1>4. \/ DeleteGoes(s, "clear") \/ DeleteGoes(s, "orphan")
      \/ NextLeader(s, admin[s].leaders)
  BY DEF DeleteLinks, DeleteLevels, DeleteDemote, DeleteOrphan
<1>5. {"clear", "orphan"} \subseteq DeletePCs \ {"demote"}
  BY DEF DeletePCs
<1>6. QED
  BY <1>1, <1>2, <1>3, <1>4, <1>5, DeletionMovesAlone

\* Who goes on to be demoted leads nothing.
LEMMA DeleteLeaderAlone ==
    ASSUME TypeOK, AloneNow, NEW s \in Admins, DeleteLeader(s)
    PROVE  AloneNow'
<1>1. PICK g : g = admin[s]
  OBVIOUS
<1>2. /\ g \in Deleting /\ g # Null /\ g.pc # "count"
      /\ g.leaders \in SUBSET Users
  BY <1>1, DeletingTyped DEF DeleteLeader, DeleteAt, At
<1>3. links' = links /\ users' = users
  BY DEF DeleteLeader
<1>4. CASE NextLeader(s, g.leaders)
  BY <1>1, <1>2, <1>3, <1>4, DeletionMovesAlone
<1>5. CASE DeleteGoes(s, "demote") /\ ~Leads(g.leader)
  <2>1. PICK h : h = [g EXCEPT !.pc = "demote"]
    OBVIOUS
  <2>2. /\ h \in Requests /\ h.op = "delete" /\ h.dept = g.dept
        /\ h.leader = g.leader
    BY <1>2, <2>1, DeleteMoves DEF DeletePCs
  <2>3. Goes(s, h)
    BY <1>1, <1>5, <2>1 DEF DeleteGoes
  <2>4. ~\E a \in links' : a.user = h.leader
    BY <1>3, <1>5, <2>2 DEF Leads
  <2>5. QED
    BY <1>1, <1>2, <1>3, <2>2, <2>3, <2>4, DeletionAlone
<1>6. QED
  BY <1>1, <1>4, <1>5 DEF DeleteLeader

LEMMA EndingsAlone ==
    ASSUME TypeOK, AloneNow, NEW s \in Admins,
           \/ UpdateRefused(s) \/ DeleteDestroy(s) \/ DeleteRefused(s)
           \/ EditSave(s) \/ Fails(s)
    PROVE  AloneNow'
<1>1. links' \subseteq links /\ Ends(s) /\ admin[s] # Null
  BY DEF UpdateRefused, DeleteDestroy, DeleteRefused, EditSave, Fails, At, DeleteAt
<1>2. OneLink'
  BY <1>1 DEF AloneNow, OneLink
<1>3. QED
  BY <1>1, <1>2, AloneEnds

LEMMA EditStartAlone ==
    ASSUME TypeOK, AloneNow, scene.serialized, NEW s \in Admins, NEW u \in Users,
           EditStart(s, u)
    PROVE  AloneNow'
<1>1. OneLink' /\ \A t \in Admins : admin[t] = Null
  BY DEF EditStart, MayStart, AloneNow, OneLink
<1>2. PICK row : row = users[u]
  OBVIOUS
<1>3. row \in User
  BY <1>2 DEF TypeOK, RowsTypeOK
<1>4. PICK next \in Editions(users[u]) :
        Goes(s, [op |-> "edit", pc |-> "save", user |-> u,
                 copy |-> users[u], next |-> next])
  BY DEF EditStart
<1>5. PICK column \in scene.edited : next \in Edition(column, row)
  BY <1>2, <1>4 DEF Editions
<1>6. column \in {"role", "status", "dept", "manager"}
  BY <1>5, SceneTyped DEF Scene
<1>7. next \in User
  BY <1>3, <1>5, <1>6, EditionTyped
<1>8. PICK h : h = [op |-> "edit", pc |-> "save", user |-> u, copy |-> row,
                    next |-> next]
  OBVIOUS
<1>9. h \in Requests /\ h.op = "edit"
  BY <1>3, <1>7, <1>8 DEF Requests, Editing
<1>10. UpToDate(h)
  BY <1>9 DEF UpToDate
<1>11. QED
  BY <1>1, <1>2, <1>4, <1>8, <1>9, <1>10, AloneGoes DEF AloneNow

LEMMA CreateAlone ==
    ASSUME AloneNow, NEW d \in Departments, CreateDepartment(d)
    PROVE  AloneNow'
BY DEF CreateDepartment, AloneNow, OneAtATime, SnapshotsCurrent, OneLink,
       DepartmentsEmptied, DemotedLeadNothing, At, Ids, LevelsOf, Leads

LEMMA CrashAlone ==
    ASSUME AloneNow, Crash
    PROVE  AloneNow'
BY DEF Crash, AloneNow, OneAtATime, SnapshotsCurrent, OneLink,
       DepartmentsEmptied, DemotedLeadNothing, At

LEMMA HierarchyInit == Init => HierarchyInv
<1> SUFFICES ASSUME Init PROVE HierarchyInv
  OBVIOUS
<1>1. AloneInv
  BY DEF Init, AloneInv, OneAtATime, SnapshotsCurrent, OneLink,
         DepartmentsEmptied, DemotedLeadNothing, At
<1>2. QED
  BY <1>1, RowsInit DEF HierarchyInv

LEMMA HierarchyStep == HierarchyInv /\ [Next]_vars => HierarchyInv'
<1> SUFFICES ASSUME HierarchyInv, [Next]_vars PROVE HierarchyInv'
  OBVIOUS
<1>1. RowsInv /\ RowsInv' /\ TypeOK
  BY RowsStep DEF HierarchyInv, RowsInv
<1>2. ASSUME scene.serialized, AloneNow PROVE AloneNow'
  <2>1. CASE UNCHANGED vars
    BY <1>2, <2>1 DEF vars, AloneNow, OneAtATime, SnapshotsCurrent, OneLink,
         DepartmentsEmptied, DemotedLeadNothing, At, Ids, LevelsOf, Leads
  <2>2. CASE \E d \in Departments : CreateDepartment(d)
    BY <1>2, <2>2, CreateAlone
  <2>3. CASE Crash
    BY <1>2, <2>3, CrashAlone
  <2>4. ASSUME NEW s \in Admins,
               \/ \E d \in Departments, form \in SceneForms[scene] :
                    UpdateStart(s, d, form)
               \/ \E d \in Departments : DeleteStart(s, d)
               \/ \E u \in scene.users : EditStart(s, u)
        PROVE  AloneNow'
    <3>1. SceneForms[scene] \subseteq Forms /\ scene.users \subseteq Users
      BY <1>1, SceneTyped
    <3>2. QED
      BY <1>1, <1>2, <2>4, <3>1, StartsAlone, EditStartAlone
  <2>5. ASSUME NEW s \in Admins,
               \/ UpdateEligible(s) \/ UpdateBegin(s)
               \/ UpdateCommit(s) \/ UpdateRefused(s)
        PROVE  AloneNow'
    BY <1>1, <1>2, <2>5, UpdateAlone, CommitAlone, EndingsAlone
  <2>6. ASSUME NEW s \in Admins,
               \/ DeleteCount(s) \/ DeleteReadLevels(s) \/ DeleteReadLinks(s)
               \/ DeleteLinks(s) \/ DeleteLevels(s) \/ DeleteLeader(s)
               \/ DeleteDemote(s) \/ DeleteOrphan(s)
               \/ DeleteDestroy(s) \/ DeleteRefused(s)
               \/ EditSave(s) \/ Fails(s)
        PROVE  AloneNow'
    BY <1>1, <1>2, <2>6, DeleteCountAlone, DeleteReadsAlone, DeleteWritesAlone,
       DeleteLeaderAlone, EndingsAlone
  <2>7. scene.admins \subseteq Admins
    BY <1>1, SceneTyped
  <2>8. QED
    BY <2>1, <2>2, <2>3, <2>4, <2>5, <2>6, <2>7 DEF Next
<1>3. scene' = scene
  BY DEF Next, vars, CreateDepartment, UpdateStart, UpdateEligible, UpdateBegin,
     UpdateCommit, UpdateRefused, DeleteStart, DeleteCount, DeleteReadLevels,
     DeleteReadLinks, DeleteLinks, DeleteLevels, DeleteLeader, DeleteDemote,
     DeleteOrphan, DeleteDestroy, DeleteRefused, EditStart, EditSave, Fails, Crash
<1>4. AloneInv'
  BY <1>2, <1>3 DEF HierarchyInv, AloneInv, AloneNow
<1>5. QED
  BY <1>1, <1>4 DEF HierarchyInv

LEMMA HierarchyAlways == Spec => []HierarchyInv
<1>1. Init => HierarchyInv
  BY HierarchyInit
<1>2. HierarchyInv /\ [Next]_vars => HierarchyInv'
  BY HierarchyStep
<1>3. QED
  BY <1>1, <1>2, PTL DEF Spec

-----------------------------------------------------------------------------
LEMMA InvIsSound == HierarchyInv => HierarchySound
<1> SUFFICES ASSUME HierarchyInv PROVE HierarchySound
  OBVIOUS
<1>1. /\ LevelsDistinct /\ LinksLevelled /\ LevelsLive
      /\ scene.serialized => OneLink
  BY DEF HierarchyInv, RowsInv, AloneInv
<1>2. ASSUME OneLink, NEW u \in Users, NEW d \in Departments
      PROVE  Cardinality(LinksIn(u, d)) <= 1
  <2>1. \A a, b \in LinksIn(u, d) : a = b
    BY <1>2 DEF OneLink, LinksIn
  <2>2. CASE LinksIn(u, d) = {}
    <3>1. Cardinality(LinksIn(u, d)) = 0
      BY <2>2, FS_EmptySet
    <3>2. QED
      BY <3>1
  <2>3. CASE LinksIn(u, d) # {}
    <3>1. PICK a \in LinksIn(u, d) : LinksIn(u, d) = {a}
      BY <2>1, <2>3
    <3>2. Cardinality(LinksIn(u, d)) = 1
      BY <3>1, FS_Singleton
    <3>3. QED
      BY <3>2
  <2>4. QED
    BY <2>2, <2>3
<1>3. QED
  BY <1>1, <1>2 DEF HierarchySound, LevelsDistinct, LinksLevelled, LevelsLive

\* Departments, levels, links, users and the requests on them have their
\* types, whatever overlaps and wherever it fails, and ids of levels do not
\* run past their bound (DepartmentHierarchyLevel,
\* DepartmentLeaderAssignment).
THEOREM LeadershipTypeCorrect == Spec => []TypeOK
<1>1. HierarchyInv => TypeOK
  BY DEF HierarchyInv, RowsInv
<1>2. QED
  BY <1>1, HierarchyAlways, PTL

\* The hierarchies stay in order, however updates, deletions and editions of
\* users overlap and wherever they fail; without overlaps a user has one level
\* in a hierarchy (updateDepartmentHierarchy, deleteDepartment).
THEOREM HierarchiesSound == Spec => []HierarchySound
<1>1. HierarchyInv => HierarchySound
  BY InvIsSound
<1>2. QED
  BY <1>1, HierarchyAlways, PTL

\* On every reachable hierarchy, the list of the users a leader manages and
\* the test of one user agree, for each permission and each screen.
THEOREM ListsAlwaysMatchTests == Spec => []ScopesAgree
<1>1. HierarchyInv => ScopesAgree
  BY ScopesAlwaysAgree DEF HierarchyInv, RowsInv, TypeOK
<1>2. QED
  BY <1>1, HierarchyAlways, PTL

-----------------------------------------------------------------------------
\* The nearest of the approvers of a department exists: of positions, which
\* are natural numbers, one is the greatest.
LEMMA SomeSmallest ==
    ASSUME NEW T \in SUBSET Nat, T # {}
    PROVE  \E x \in T : \A y \in T : x <= y
<1> DEFINE R == OpToRel(<, Nat)
<1>1. IsWellFoundedOn(R, Nat)
  BY NatLessThanWellFounded
<1>2. \A x, y \in Nat : x < y => <<x, y>> \in R
  BY DEF OpToRel
<1> HIDE DEF R
<1>3. PICK x \in T : \A y \in T : <<y, x>> \notin R
  BY <1>1, WFMin
<1>4. ASSUME NEW y \in T PROVE x <= y
  <2>1. x \in Nat /\ y \in Nat
    OBVIOUS
  <2>2. ~(y < x)
    BY <1>2, <1>3, <2>1, Zenon
  <2>3. QED
    BY <2>1, <2>2
<1>5. QED
  BY <1>4

LEMMA PositionTyped ==
    ASSUME RowsInv, NEW a \in links
    PROVE  PositionOf(a) \in 1..MaxDepth
<1>1. \E l \in levels : l.id = a.level
  BY DEF RowsInv, LinksLevelled
<1>2. (CHOOSE l \in levels : l.id = a.level) \in levels
  BY <1>1
<1>3. QED
  BY <1>2 DEF PositionOf, RowsInv, TypeOK, RowsTypeOK, Level

LEMMA SomeNearest ==
    ASSUME RowsInv, NEW d, Approvers(d) # {}
    PROVE  Nearest(d) # {}
<1> DEFINE T == {MaxDepth - PositionOf(a) : a \in Approvers(d)}
<1>1. \A a \in Approvers(d) : PositionOf(a) \in 1..MaxDepth
  BY PositionTyped DEF Approvers
<1>2. MaxDepth \in Nat
  BY HierarchyAssumption
<1>3. T \in SUBSET Nat /\ T # {}
  BY <1>1, <1>2
<1>4. PICK x \in T : \A y \in T : x <= y
  BY <1>3, SomeSmallest
<1>5. PICK a \in Approvers(d) : x = MaxDepth - PositionOf(a)
  OBVIOUS
<1>6. ASSUME NEW b \in Approvers(d) PROVE ~Above(a, b)
  <2>1. x <= MaxDepth - PositionOf(b)
    BY <1>4
  <2>2. PositionOf(a) \in 1..MaxDepth /\ PositionOf(b) \in 1..MaxDepth
    BY <1>1
  <2>3. QED
    BY <1>2, <1>5, <2>1, <2>2 DEF Above
<1>7. QED
  BY <1>6 DEF Nearest

\* A commit takes a leader's last link exactly when it demotes them.
LEMMA CommitDecides ==
    ASSUME HierarchyInv, scene.serialized, NEW s \in Admins, UpdateCommit(s),
           NEW u \in Users, users[u].role = "manager", Leads(u)
    PROVE  users'[u].role = "employee" <=> ~\E a \in links' : a.user = u
<1>1. PICK h : h = admin[s]
  OBVIOUS
<1>2. RowsInv /\ AloneNow
  BY DEF HierarchyInv, AloneInv, AloneNow
<1>3. /\ links' = {a \in links : a.level \notin h.known} \cup NewLinks(h)
      /\ users' = [x \in Users |-> DemotedRow(x, LeadersOf(h.form), Demoted(h))]
      /\ At(s, "update", "commit")
  BY <1>1 DEF UpdateCommit
<1>4. h.seen = links
  BY <1>1, <1>2, <1>3 DEF AloneNow, SnapshotsCurrent
<1>5. \A a \in links : a.level \notin h.known <=> a.dept # h.dept
  BY <1>1, <1>2, <1>3, KeptLinks
<1>6. users'[u].role = "employee" <=> u \in Demoted(h)
  <2>1. users[u] \in User
    BY <1>2 DEF RowsInv, TypeOK, RowsTypeOK
  <2>2. users'[u] = DemotedRow(u, LeadersOf(h.form), Demoted(h))
    BY <1>3
  <2>3. DemotedRow(u, LeadersOf(h.form), Demoted(h)).role =
          IF u \in Demoted(h) THEN "employee"
          ELSE IF u \in LeadersOf(h.form) THEN "manager" ELSE users[u].role
    BY <2>1 DEF DemotedRow, User
  <2>4. QED
    BY <2>2, <2>3
<1>7. CASE u \in LeadersOf(h.form)
  <2>1. u \notin Demoted(h)
    BY <1>7 DEF Demoted
  <2>2. PICK i \in DOMAIN h.form : u \in h.form[i].leaders
    BY <1>7 DEF LeadersOf
  <2>3. PICK a : a = [dept |-> h.dept, level |-> IdOf(h.form, i), user |-> u,
                      can |-> h.form[i].can]
    OBVIOUS
  <2>4. a \in NewLinks(h) /\ a.user = u
    BY <2>2, <2>3 DEF NewLinks
  <2>5. QED
    BY <1>3, <1>6, <2>1, <2>4
<1>8. CASE u \notin LeadersOf(h.form)
  <2>1. \A a \in NewLinks(h) : a.user # u
    BY <1>8, NewLinkOf DEF LeadersOf
  <2>2. (\E a \in links' : a.user = u) <=> \E a \in links : a.user = u /\ a.dept # h.dept
    BY <1>3, <1>5, <2>1
  <2>3. u \in Demoted(h) <=> ~\E a \in links : a.user = u /\ a.dept # h.dept
    BY <1>4, <1>8 DEF Demoted, Leads
  <2>4. QED
    BY <1>6, <2>2, <2>3
<1>9. QED
  BY <1>7, <1>8

\* No other step but an edition takes a leader's role while they lead.
LEMMA RolesStay ==
    ASSUME HierarchyInv, [Next]_vars, scene.serialized,
           NEW u \in Users, users[u].role = "manager", Leads(u),
           users'[u].role = "employee", \E a \in links' : a.user = u
    PROVE  \E s \in Admins : EditSave(s)
<1>1. RowsInv /\ TypeOK /\ DemotedLeadNothing /\ users[u] \in User
  BY DEF HierarchyInv, AloneInv, RowsInv, TypeOK, RowsTypeOK
<1>2. users' # users
  OBVIOUS
<1>3. CASE \E s \in Admins : UpdateCommit(s)
  BY <1>3, CommitDecides
<1>4. ASSUME NEW s \in Admins, DeleteDemote(s)
      PROVE  FALSE
  <2>1. PICK x : x = admin[s].leader
    OBVIOUS
  <2>2. users' = [users EXCEPT ![x].role = "employee"] /\ links' = links
        /\ At(s, "delete", "demote")
    BY <1>4, <2>1 DEF DeleteDemote, DeleteAt
  <2>3. ~Leads(x)
    BY <1>1, <2>1, <2>2 DEF DemotedLeadNothing
  <2>4. x # u
    BY <2>3
  <2>5. QED
    BY <1>1, <2>2, <2>4 DEF TypeOK, RowsTypeOK
<1>5. ASSUME NEW s \in Admins, DeleteOrphan(s) \/ DeleteDestroy(s)
      PROVE  FALSE
  <2>1. users'[u].role = users[u].role
    BY <1>1, <1>5 DEF DeleteOrphan, DeleteDestroy, User
  <2>2. QED
    BY <2>1
<1>6. ASSUME NEW s \in Admins,
             \/ UpdateEligible(s) \/ UpdateBegin(s) \/ UpdateRefused(s)
             \/ \E d \in Departments : DeleteStart(s, d)
             \/ \E d \in Departments, form \in SceneForms[scene] :
                  UpdateStart(s, d, form)
             \/ DeleteCount(s) \/ DeleteReadLevels(s) \/ DeleteReadLinks(s)
             \/ DeleteLinks(s) \/ DeleteLevels(s) \/ DeleteLeader(s)
             \/ DeleteRefused(s) \/ Fails(s)
             \/ \E x \in scene.users : EditStart(s, x)
      PROVE  FALSE
  BY <1>2, <1>6 DEF UpdateEligible, UpdateBegin, UpdateRefused, DeleteStart,
     UpdateStart, DeleteCount, DeleteReadLevels, DeleteReadLinks, DeleteLinks,
     DeleteLevels, DeleteLeader, DeleteRefused, Fails, EditStart
<1>7. ~UNCHANGED vars /\ ~Crash /\ ~\E d \in Departments : CreateDepartment(d)
  BY <1>2 DEF vars, Crash, CreateDepartment
<1>8. scene.admins \subseteq Admins
  BY <1>1, SceneTyped
<1>9. QED
  BY <1>3, <1>4, <1>5, <1>6, <1>7, <1>8 DEF Next

\* A leader goes back to being an employee when, and only when, the last link
\* goes, an edition aside, as long as requests do not overlap: neither another
\* department's links nor a deletion that stops halfway make an exception
\* (updateDepartmentHierarchy, deleteDepartment).
THEOREM LastLinksDecide == Spec => LastLinkDecides
<1>1. HierarchyInv /\ [Next]_vars =>
        [\A u \in Users :
           scene.serialized /\ users[u].role = "manager" /\ Leads(u) =>
             /\ \A s \in Admins :
                  UpdateCommit(s) => (users'[u].role = "employee" <=> ~Leads(u)')
             /\ users'[u].role = "employee" /\ Leads(u)'
                  => \E s \in Admins : EditSave(s)]_vars
  <2> SUFFICES ASSUME HierarchyInv, [Next]_vars, NEW u \in Users,
                      scene.serialized, users[u].role = "manager", Leads(u)
               PROVE  /\ \A s \in Admins :
                           UpdateCommit(s) =>
                             (users'[u].role = "employee" <=> ~Leads(u)')
                      /\ users'[u].role = "employee" /\ Leads(u)'
                           => \E s \in Admins : EditSave(s)
    OBVIOUS
  <2>1. Leads(u)' <=> \E a \in links' : a.user = u
    BY DEF Leads
  <2>2. QED
    BY <2>1, CommitDecides, RolesStay
<1>2. QED
  BY <1>1, HierarchyAlways, PTL DEF Spec, LastLinkDecides

-----------------------------------------------------------------------------
\* The leaders of a form that is past its check are active, as long as
\* requests do not overlap.
LeadersEligible ==
    scene.serialized =>
      \A s \in Admins :
        At(s, "update", "begin") \/ At(s, "update", "commit") =>
          \A u \in LeadersOf(admin[s].form) : users[u].status = "active"

LEMMA SceneStays ==
    ASSUME [Next]_vars
    PROVE  scene' = scene
BY DEF Next, vars, CreateDepartment, UpdateStart, UpdateEligible, UpdateBegin,
     UpdateCommit, UpdateRefused, DeleteStart, DeleteCount, DeleteReadLevels,
     DeleteReadLinks, DeleteLinks, DeleteLevels, DeleteLeader, DeleteDemote,
     DeleteOrphan, DeleteDestroy, DeleteRefused, EditStart, EditSave, Fails, Crash

LEMMA EligibleStep ==
    ASSUME HierarchyInv, LeadersEligible, [Next]_vars
    PROVE  LeadersEligible'
<1> SUFFICES ASSUME scene.serialized, NEW s \in Admins,
                    At(s, "update", "begin")' \/ At(s, "update", "commit")',
                    NEW u \in LeadersOf(admin'[s].form)
             PROVE  users'[u].status = "active"
  BY SceneStays DEF LeadersEligible, LeadersOf
<1>1. /\ TypeOK /\ OneAtATime
      /\ At(s, "update", "begin") \/ At(s, "update", "commit") =>
           \A x \in LeadersOf(admin[s].form) : users[x].status = "active"
  BY DEF HierarchyInv, RowsInv, AloneInv, LeadersEligible
<1>2. admin'[s] # Null /\ admin'[s].op = "update"
      /\ (admin'[s].pc = "begin" \/ admin'[s].pc = "commit")
  BY DEF At
<1>3. CASE UNCHANGED <<users, admin>>
  BY <1>1, <1>2, <1>3 DEF At
\* A step of another request finds this one under way.
<1>4. ASSUME NEW t \in Admins, NEW h, Goes(t, h),
             admin[t] # Null \/ \A x \in Admins : admin[x] = Null
      PROVE  t = s /\ admin'[s] = h
  BY <1>1, <1>2, <1>4 DEF Goes, OneAtATime, TypeOK
<1>5. ASSUME NEW t \in Admins, Ends(t), admin[t] # Null
      PROVE  FALSE
  BY <1>2, <1>4, <1>5 DEF Ends
<1>6. ASSUME NEW t \in Admins, NEW pc, DeleteGoes(t, pc),
             admin[t] # Null, admin[t].op = "delete"
      PROVE  FALSE
  <2>1. admin[t] \in Deleting
    BY <1>1, <1>6, RequestTyped
  <2>2. PICK h : h = [admin[t] EXCEPT !.pc = pc]
    OBVIOUS
  <2>3. h.op = "delete"
    BY <2>1, <2>2 DEF Deleting
  <2>4. QED
    BY <1>2, <1>4, <1>6, <2>2, <2>3 DEF DeleteGoes
<1>7. ASSUME NEW t \in Admins, NEW leaders, NextLeader(t, leaders),
             admin[t] # Null, admin[t].op = "delete"
      PROVE  FALSE
  <2>1. admin[t] \in Deleting
    BY <1>1, <1>7, RequestTyped
  <2>2. CASE leaders = {}
    <3>1. PICK h : h = [admin[t] EXCEPT !.pc = "destroy", !.leaders = {},
                                        !.leader = Null]
      OBVIOUS
    <3>2. h.op = "delete"
      BY <2>1, <3>1 DEF Deleting
    <3>3. QED
      BY <1>2, <1>4, <1>7, <2>2, <3>1, <3>2 DEF NextLeader
  <2>3. CASE leaders # {}
    <3>1. PICK x \in leaders :
            Goes(t, [admin[t] EXCEPT !.pc = "leader", !.leader = x,
                                     !.leaders = leaders \ {x}])
      BY <1>7, <2>3 DEF NextLeader
    <3>2. PICK h : h = [admin[t] EXCEPT !.pc = "leader", !.leader = x,
                                        !.leaders = leaders \ {x}]
      OBVIOUS
    <3>3. h.op = "delete"
      BY <2>1, <3>2 DEF Deleting
    <3>4. QED
      BY <1>2, <1>4, <1>7, <3>1, <3>2, <3>3
  <2>4. QED
    BY <2>2, <2>3
<1>8. ASSUME NEW t \in Admins,
             \/ \E d \in Departments, form \in SceneForms[scene] :
                  UpdateStart(t, d, form)
             \/ \E d \in Departments : DeleteStart(t, d)
             \/ \E x \in scene.users : EditStart(t, x)
      PROVE  FALSE
  <2>1. \A x \in Admins : admin[x] = Null
    BY <1>8 DEF UpdateStart, DeleteStart, EditStart, MayStart
  <2>2. ASSUME NEW h, Goes(t, h), h.op = "update" => h.pc = "eligible"
        PROVE  FALSE
    BY <1>2, <1>4, <2>1, <2>2
  <2>3. ASSUME NEW d, NEW form, UpdateStart(t, d, form)
        PROVE  FALSE
    <3>1. PICK h : h = [op |-> "update", pc |-> "eligible", dept |-> d,
                        form |-> form, known |-> {}, seen |-> {}]
      OBVIOUS
    <3>2. QED
      BY <2>2, <2>3, <3>1 DEF UpdateStart
  <2>4. ASSUME NEW d, DeleteStart(t, d)
        PROVE  FALSE
    <3>1. PICK h : h = [op |-> "delete", pc |-> "count", dept |-> d,
                        known |-> {}, leaders |-> {}, leader |-> Null]
      OBVIOUS
    <3>2. QED
      BY <2>2, <2>4, <3>1 DEF DeleteStart
  <2>5. ASSUME NEW x, EditStart(t, x)
        PROVE  FALSE
    <3>1. PICK next : Goes(t, [op |-> "edit", pc |-> "save", user |-> x,
                               copy |-> users[x], next |-> next])
      BY <2>5 DEF EditStart
    <3>2. PICK h : h = [op |-> "edit", pc |-> "save", user |-> x,
                        copy |-> users[x], next |-> next]
      OBVIOUS
    <3>3. QED
      BY <2>2, <3>1, <3>2
  <2>6. QED
    BY <1>8, <2>3, <2>4, <2>5
<1>9. ASSUME NEW t \in Admins, UpdateEligible(t)
      PROVE  users'[u].status = "active"
  <2>1. admin[t] # Null /\ admin[t] \in Updating
    BY <1>1, <1>9, RequestTyped DEF UpdateEligible, At
  <2>2. /\ Goes(t, [admin[t] EXCEPT !.pc = "begin"]) /\ users' = users
        /\ \A x \in LeadersOf(admin[t].form) : users[x].status = "active"
    BY <1>5, <1>9, <2>1 DEF UpdateEligible
  <2>3. PICK h : h = [admin[t] EXCEPT !.pc = "begin"]
    OBVIOUS
  <2>4. h.form = admin[t].form
    BY <2>1, <2>3 DEF Updating
  <2>5. t = s /\ admin'[s] = h
    BY <1>4, <2>1, <2>2, <2>3
  <2>6. QED
    BY <2>2, <2>4, <2>5
<1>10. ASSUME NEW t \in Admins, UpdateBegin(t)
       PROVE  users'[u].status = "active"
  <2>1. admin[t] # Null /\ admin[t] \in Updating
    BY <1>1, <1>10, RequestTyped DEF UpdateBegin, At
  <2>2. PICK h : h = [admin[t] EXCEPT !.pc = "commit", !.seen = links,
                                      !.known = Ids(LevelsOf(admin[t].dept))]
    OBVIOUS
  <2>3. h.form = admin[t].form
    BY <2>1, <2>2 DEF Updating
  <2>4. t = s /\ admin'[s] = h
    BY <1>4, <1>10, <2>1, <2>2 DEF UpdateBegin
  <2>5. users' = users /\ At(t, "update", "begin")
    BY <1>10 DEF UpdateBegin
  <2>6. QED
    BY <1>1, <2>3, <2>4, <2>5
<1>11. ASSUME NEW t \in Admins,
              \/ UpdateCommit(t) \/ UpdateRefused(t) \/ DeleteDestroy(t)
              \/ DeleteRefused(t) \/ EditSave(t) \/ Fails(t)
       PROVE  FALSE
  BY <1>5, <1>11 DEF UpdateCommit, UpdateRefused, DeleteDestroy, DeleteRefused,
     EditSave, Fails, DeleteAt, At
<1>12. ASSUME NEW t \in Admins,
              \/ DeleteCount(t) \/ DeleteLinks(t) \/ DeleteDemote(t)
              \/ DeleteLeader(t) \/ DeleteLevels(t) \/ DeleteOrphan(t)
       PROVE  FALSE
  <2>1. admin[t] # Null /\ admin[t].op = "delete"
    BY <1>12 DEF DeleteCount, DeleteLinks, DeleteDemote, DeleteLeader,
       DeleteLevels, DeleteOrphan, DeleteAt, At
  <2>2. \/ Ends(t) \/ \E pc : DeleteGoes(t, pc)
        \/ \E leaders : NextLeader(t, leaders)
    BY <1>12 DEF DeleteCount, DeleteLinks, DeleteDemote, DeleteLeader,
       DeleteLevels, DeleteOrphan
  <2>3. QED
    BY <1>5, <1>6, <1>7, <2>1, <2>2
<1>13. ASSUME NEW t \in Admins, DeleteReadLevels(t) \/ DeleteReadLinks(t)
       PROVE  FALSE
  <2>1. admin[t] # Null /\ admin[t] \in Deleting
    BY <1>1, <1>13, RequestTyped
       DEF DeleteReadLevels, DeleteReadLinks, DeleteAt, At
  <2>2. ASSUME NEW known, NEW pc,
               Goes(t, [admin[t] EXCEPT !.known = known, !.pc = pc])
        PROVE  FALSE
    <3>1. PICK h : h = [admin[t] EXCEPT !.known = known, !.pc = pc]
      OBVIOUS
    <3>2. h.op = "delete"
      BY <2>1, <3>1 DEF Deleting
    <3>3. QED
      BY <1>2, <1>4, <2>1, <2>2, <3>1, <3>2
  <2>3. ASSUME NEW pc, NEW leaders,
               Goes(t, [admin[t] EXCEPT !.pc = pc, !.leaders = leaders])
        PROVE  FALSE
    <3>1. PICK h : h = [admin[t] EXCEPT !.pc = pc, !.leaders = leaders]
      OBVIOUS
    <3>2. h.op = "delete"
      BY <2>1, <3>1 DEF Deleting
    <3>3. QED
      BY <1>2, <1>4, <2>1, <2>3, <3>1, <3>2
  <2>4. QED
    BY <1>13, <2>2, <2>3 DEF DeleteReadLevels, DeleteReadLinks
<1>14. ~Crash
  BY <1>2 DEF Crash
<1>15. (\E d \in Departments : CreateDepartment(d)) \/ UNCHANGED vars
         => UNCHANGED <<users, admin>>
  BY DEF CreateDepartment, vars
<1>16. scene.admins \subseteq Admins
  BY <1>1, SceneTyped
<1>17. QED
  BY <1>3, <1>8, <1>9, <1>10, <1>11, <1>12, <1>13, <1>14, <1>15, <1>16 DEF Next

\* A commit leaves no leader, of its form or of another department, refused.
LEMMA CommitLeads ==
    ASSUME HierarchyInv, LeadersEligible, scene.serialized,
           NEW s \in Admins, UpdateCommit(s),
           NEW u \in Users, ~Lapsed(u), \E a \in links' : a.user = u
    PROVE  users'[u].role = "manager" /\ users'[u].status = "active"
<1>1. PICK h : h = admin[s]
  OBVIOUS
<1>2. RowsInv /\ AloneNow
  BY DEF HierarchyInv, AloneInv, AloneNow
<1>3. /\ links' = {a \in links : a.level \notin h.known} \cup NewLinks(h)
      /\ users' = [x \in Users |-> DemotedRow(x, LeadersOf(h.form), Demoted(h))]
      /\ At(s, "update", "commit")
  BY <1>1 DEF UpdateCommit
<1>4. h.seen = links
  BY <1>1, <1>2, <1>3 DEF AloneNow, SnapshotsCurrent
<1>5. \A a \in links : a.level \notin h.known <=> a.dept # h.dept
  BY <1>1, <1>2, <1>3, KeptLinks
<1>6. /\ users'[u].role = IF u \in Demoted(h) THEN "employee"
                          ELSE IF u \in LeadersOf(h.form) THEN "manager"
                          ELSE users[u].role
      /\ users'[u].status = users[u].status
  <2>1. users[u] \in User
    BY <1>2 DEF RowsInv, TypeOK, RowsTypeOK
  <2>2. users'[u] = DemotedRow(u, LeadersOf(h.form), Demoted(h))
    BY <1>3
  <2>3. QED
    BY <2>1, <2>2 DEF DemotedRow, User
<1>7. CASE u \in LeadersOf(h.form)
  <2>1. u \notin Demoted(h)
    BY <1>7 DEF Demoted
  <2>2. users[u].status = "active"
    BY <1>1, <1>3, <1>7 DEF LeadersEligible
  <2>3. QED
    BY <1>6, <1>7, <2>1, <2>2
<1>8. CASE u \notin LeadersOf(h.form)
  <2>1. \A a \in NewLinks(h) : a.user # u
    BY <1>8, NewLinkOf DEF LeadersOf
  <2>2. PICK a \in links : a.user = u /\ a.dept # h.dept
    BY <1>3, <1>5, <2>1
  <2>3. u \notin Demoted(h)
    BY <1>4, <2>2 DEF Demoted
  <2>4. users[u].role = "manager" /\ users[u].status = "active"
    BY <2>2 DEF Lapsed, Leads, IsManager
  <2>5. QED
    BY <1>6, <1>8, <2>3, <2>4
<1>9. QED
  BY <1>7, <1>8

\* Nor does any other step but an edition of the leader.
LEMMA LeadersStay ==
    ASSUME HierarchyInv, LeadersEligible, [Next]_vars, scene.serialized,
           NEW u \in Users, Lapsed(u)', ~Lapsed(u)
    PROVE  \E s \in Admins : EditSave(s) /\ admin[s].user = u
<1>1. RowsInv /\ TypeOK /\ DemotedLeadNothing /\ users[u] \in User
      /\ users \in [Users -> User]
  BY DEF HierarchyInv, AloneInv, RowsInv, TypeOK, RowsTypeOK
<1>2. /\ \E a \in links' : a.user = u
      /\ ~(users'[u].role = "manager" /\ users'[u].status = "active")
  BY DEF Lapsed, Leads, IsManager
<1>3. (\E a \in links : a.user = u) =>
        users[u].role = "manager" /\ users[u].status = "active"
  BY DEF Lapsed, Leads, IsManager
<1>4. links' \subseteq links =>
        ~(users'[u].role = users[u].role /\ users'[u].status = users[u].status)
  BY <1>2, <1>3
<1>5. ~\E s \in Admins : UpdateCommit(s)
  BY <1>2, CommitLeads
<1>6. ASSUME NEW s \in Admins, DeleteDemote(s)
      PROVE  FALSE
  <2>1. PICK x : x = admin[s].leader
    OBVIOUS
  <2>2. users' = [users EXCEPT ![x].role = "employee"] /\ links' = links
        /\ At(s, "delete", "demote")
    BY <1>6, <2>1 DEF DeleteDemote, DeleteAt
  <2>3. ~Leads(x)
    BY <1>1, <2>1, <2>2 DEF DemotedLeadNothing
  <2>4. x # u
    BY <1>2, <2>2, <2>3 DEF Leads
  <2>5. QED
    BY <1>1, <1>4, <2>2, <2>4
<1>7. ASSUME NEW s \in Admins, DeleteOrphan(s) \/ DeleteDestroy(s)
      PROVE  FALSE
  <2>1. /\ users'[u].role = users[u].role
        /\ users'[u].status = users[u].status
    BY <1>1, <1>7 DEF DeleteOrphan, DeleteDestroy, User
  <2>2. links' \subseteq links
    BY <1>7 DEF DeleteOrphan, DeleteDestroy
  <2>3. QED
    BY <1>4, <2>1, <2>2
<1>8. ASSUME NEW s \in Admins, EditSave(s)
      PROVE  admin[s].user = u
  BY <1>1, <1>4, <1>8 DEF EditSave
<1>9. ASSUME NEW s \in Admins,
             \/ UpdateEligible(s) \/ UpdateBegin(s) \/ UpdateRefused(s)
             \/ \E d \in Departments : DeleteStart(s, d)
             \/ \E d \in Departments, form \in SceneForms[scene] :
                  UpdateStart(s, d, form)
             \/ DeleteCount(s) \/ DeleteReadLevels(s) \/ DeleteReadLinks(s)
             \/ DeleteLinks(s) \/ DeleteLevels(s) \/ DeleteLeader(s)
             \/ DeleteRefused(s) \/ Fails(s)
             \/ \E x \in scene.users : EditStart(s, x)
      PROVE  FALSE
  <2>1. users' = users /\ links' \subseteq links
    BY <1>9 DEF UpdateEligible, UpdateBegin, UpdateRefused, DeleteStart,
     UpdateStart, DeleteCount, DeleteReadLevels, DeleteReadLinks, DeleteLinks,
     DeleteLevels, DeleteLeader, DeleteRefused, Fails, EditStart
  <2>2. QED
    BY <1>4, <2>1
<1>10. ~UNCHANGED vars /\ ~Crash /\ ~\E d \in Departments : CreateDepartment(d)
  BY <1>4 DEF vars, Crash, CreateDepartment
<1>11. scene.admins \subseteq Admins
  BY <1>1, SceneTyped
<1>12. QED
  BY <1>5, <1>6, <1>7, <1>8, <1>9, <1>10, <1>11 DEF Next

\* The nearest approver of the employee's department leads it with the right
\* to approve: the API lets them decide, unless it refuses them altogether.
LEMMA RoutedLeads ==
    ASSUME RowsInv, NEW e \in Users, NEW d, d = users[e].dept,
           Approvers(d) # {}, LinksIn(e, d) = {}
    PROVE  MayDecide(Routed(e), e) \/ Lapsed(Routed(e))
<1>1. PICK a : a = CHOOSE x \in Nearest(d) : TRUE
  OBVIOUS
<1>2. a \in Nearest(d)
  BY <1>1, SomeNearest
<1>3. a \in links /\ a.dept = d /\ "approve_requests" \in a.can
  BY <1>2 DEF Nearest, Approvers
<1>4. Routed(e) = a.user
  BY <1>1 DEF Routed
<1>5. a \in Granted(a.user, d, "approve_requests")
  BY <1>3 DEF Granted, LinksIn
<1>6. a.user # e
  BY <1>3 DEF LinksIn
<1>7. Responsible(Routed(e), e, "approve_requests")
  BY <1>4, <1>5, <1>6 DEF Responsible, ResponsibleFor
<1>8. QED
  BY <1>3, <1>4, <1>7 DEF MayDecide, Allowed, Lapsed, Leads

\* On every reachable hierarchy a request goes to a leader whom the API lets
\* decide it, but for those whose own role or status an administrator edited
\* while they lead; and as long as requests do not overlap, neither updates
\* nor deletions, whole or cut short, leave a leader refused
\* (resolveRequestRouting, getScopedRequest, updateDepartmentHierarchy,
\* deleteDepartment, updateUser).
THEOREM RoutedAlwaysMayDecide == Spec => RoutedMayDecide
<1>1. HierarchyInv =>
        \A e \in Users :
          LET d == users[e].dept IN
          Approvers(d) # {} /\ LinksIn(e, d) = {}
            => MayDecide(Routed(e), e) \/ Lapsed(Routed(e))
  BY RoutedLeads DEF HierarchyInv
<1>2. Init => LeadersEligible
  BY DEF Init, LeadersEligible, At
<1>3. HierarchyInv /\ LeadersEligible /\ [Next]_vars => LeadersEligible'
  BY EligibleStep
<1>4. HierarchyInv /\ LeadersEligible /\ [Next]_vars =>
        [scene.serialized =>
           \A u \in Users :
             Lapsed(u)' /\ ~Lapsed(u)
               => \E s \in Admins : EditSave(s) /\ admin[s].user = u]_vars
  BY LeadersStay
<1>5. QED
  BY <1>1, <1>2, <1>3, <1>4, HierarchyAlways, PTL DEF Spec, RoutedMayDecide

\* The deletion of a department takes no active user's department away, as
\* long as nobody is moved into it between the count and the deletion
\* (deleteDepartment).
THEOREM ActivesKeepDepartment == Spec => ActiveKeepDepartment
<1>1. HierarchyInv /\ [Next]_vars =>
        [\A s \in Admins, u \in Users :
           scene.serialized /\ DeleteDestroy(s) /\ users[u].status = "active"
             => users'[u].dept = users[u].dept]_vars
  <2> SUFFICES ASSUME HierarchyInv, NEW s \in Admins, NEW u \in Users,
                      scene.serialized, DeleteDestroy(s),
                      users[u].status = "active"
               PROVE  users'[u].dept = users[u].dept
    OBVIOUS
  <2>1. DepartmentsEmptied
    BY DEF HierarchyInv, AloneInv
  <2>2. users[u].dept # admin[s].dept
    BY <2>1 DEF DepartmentsEmptied, DeleteDestroy, DeleteAt, At
  <2>3. QED
    BY <2>2 DEF DeleteDestroy
<1>2. QED
  BY <1>1, HierarchyAlways, PTL DEF Spec, ActiveKeepDepartment
=============================================================================
