------------------------------ MODULE Leadership ------------------------------
(***************************************************************************)
(* The handlers that change the hierarchy of departments: the update of a  *)
(* hierarchy (a transaction, under MySQL's repeatable read: it reads from  *)
(* a snapshot and writes to the current rows), the deletion of a           *)
(* department (several queries and no transaction), and the edition of a   *)
(* user. All are an administrator's.                                       *)
(*                                                                         *)
(* scene never changes: it says what a behaviour is about (an instance     *)
(* looks at several). Its users, departments, permissions granted and      *)
(* columns edited are bounds; serialized (these requests do not overlap)   *)
(* and faults (queries fail, the process is restarted) are assumptions on  *)
(* the environment, not on the code.                                       *)
(***************************************************************************)
EXTENDS Hierarchy, Sequences, Rows

CONSTANTS
    Admins,         \* bound: requests in flight at once
    Scenes          \* bound: those an instance looks at

VARIABLES
    departments,
    nextLevel,      \* the id of the next level
    admin,          \* requests in flight
    scene

vars == <<users, levels, links, departments, nextLevel, admin, scene>>

Scene == [serialized : BOOLEAN, faults : BOOLEAN, admins : SUBSET Admins,
          users : SUBSET Users,
          departments : SUBSET Departments,
          grants : SUBSET SUBSET Permissions,
          edited : SUBSET {"role", "status", "dept", "manager"},
          depth : 0..MaxDepth]

\* The levels of a submitted hierarchy, from the highest. A level without
\* id is new. (The leaders of one level get the same permissions.)
FormLevel == [id : LevelIds \cup {Null}, leaders : SUBSET Users,
              can : SUBSET Permissions]
Forms == UNION {[1..n -> FormLevel] : n \in 0..MaxDepth}

\* Those of a scene.
SceneForms ==
    [x \in Scenes |->
       UNION {[1..n -> [id : LevelIds \cup {Null}, leaders : SUBSET x.users,
                        can : x.grants]] : n \in 0..x.depth}]

\* known and seen: the department's levels and all the links, in the snapshot.
Updating == [op : {"update"}, pc : {"eligible", "begin", "commit"},
             dept : Departments, form : Forms,
             known : SUBSET LevelIds, seen : SUBSET Link]
DeletePCs == {"count", "levels", "links", "unlink", "clear", "leader",
              "demote", "orphan", "destroy"}
\* leaders: those left to look at.
Deleting == [op : {"delete"}, pc : DeletePCs, dept : Departments,
             known : SUBSET LevelIds, leaders : SUBSET Users,
             leader : Users \cup {Null}]
Editing == [op : {"edit"}, pc : {"save"}, user : Users, copy : User,
            next : User]

ASSUME LeadershipAssumption ==
    /\ Scenes \subseteq Scene
    /\ Null \notin Admins

TypeOK ==
    /\ RowsTypeOK
    /\ departments \in [Departments -> {"none", "live", "gone"}]
    /\ nextLevel \in 1..MaxLevels + 1
    /\ admin \in [Admins -> Updating \cup Deleting \cup Editing \cup {Null}]
    /\ scene \in Scenes

Init ==
    /\ users = [u \in Users |-> [role |-> "employee", status |-> "active",
                                 dept |-> Null, manager |-> Null]]
    /\ levels = {}
    /\ links = {}
    /\ departments = [d \in Departments |-> "none"]
    /\ nextLevel = 1
    /\ admin = [s \in Admins |-> Null]
    /\ scene \in Scenes

At(s, op, pc) == admin[s] # Null /\ admin[s].op = op /\ admin[s].pc = pc
Goes(s, h) == admin' = [admin EXCEPT ![s] = h]
Ends(s) == Goes(s, Null)
MayStart(s) == /\ admin[s] = Null
               /\ scene.serialized => \A t \in Admins : admin[t] = Null

LevelsOf(d) == {l \in levels : l.dept = d}
Ids(rows) == {l.id : l \in rows}

CreateDepartment(d) ==
    /\ d \in scene.departments
    /\ departments[d] = "none"
    /\ departments' = [departments EXCEPT ![d] = "live"]
    /\ UNCHANGED <<users, levels, links, nextLevel, admin, scene>>

-----------------------------------------------------------------------------
LeadersOf(form) == UNION {form[i].leaders : i \in DOMAIN form}

\* Mutant of Submitted: a leader may be repeated.
SubmittedAny(form, d) == {form[i].id : i \in DOMAIN form} \ {Null}
                           \subseteq Ids(LevelsOf(d))

\* What an administrator submits for a hierarchy they are looking at, once
\* the API has refused the leaders who are repeated.
Submitted(form, d) ==
    /\ {form[i].id : i \in DOMAIN form} \ {Null} \subseteq Ids(LevelsOf(d))
    /\ \A i, j \in DOMAIN form :
         i # j => /\ form[i].id # Null => form[i].id # form[j].id
                  /\ form[i].leaders \cap form[j].leaders = {}

UpdateStart(s, d, form) ==
    /\ MayStart(s)
    /\ departments[d] = "live"
    /\ Submitted(form, d)
    /\ Goes(s, [op |-> "update", pc |-> "eligible", dept |-> d, form |-> form,
                known |-> {}, seen |-> {}])
    /\ UNCHANGED <<users, levels, links, departments, nextLevel, scene>>

UpdateEligible(s) ==
    /\ At(s, "update", "eligible")
    /\ IF \A u \in LeadersOf(admin[s].form) : users[u].status = "active"
         THEN Goes(s, [admin[s] EXCEPT !.pc = "begin"])
         ELSE Ends(s)
    /\ UNCHANGED <<users, levels, links, departments, nextLevel, scene>>

\* The transaction's first read fixes what its reads see.
UpdateBegin(s) ==
    /\ At(s, "update", "begin")
    /\ Goes(s, [admin[s] EXCEPT !.pc = "commit", !.seen = links,
                                !.known = Ids(LevelsOf(admin[s].dept))])
    /\ UNCHANGED <<users, levels, links, departments, nextLevel, scene>>

\* New levels are numbered in the order of the form.
NewIn(form) == {i \in DOMAIN form : form[i].id = Null}
IdOf(form, i) ==
    IF form[i].id # Null
      THEN form[i].id
      ELSE nextLevel + Cardinality({j \in NewIn(form) : j < i})

\* Mutant of Conflict: a position is taken twice.
ConflictIds(h) ==
    \/ \E i \in DOMAIN h.form :
         LET id == h.form[i].id IN
         /\ id # Null
         /\ \/ id \notin h.known
            \/ id \notin Ids(levels) /\ h.form[i].leaders # {}
    \/ departments[h.dept] # "live" /\ NewIn(h.form) # {}

\* The form names a level that is not in the snapshot or a position that
\* another transaction has taken; a level to link to, or the department of a
\* level to create, is gone.
Conflict(h) ==
    \/ \E i \in DOMAIN h.form :
         LET id == h.form[i].id IN
         /\ id # Null
         /\ \/ id \notin h.known
            \/ id \notin Ids(levels) /\ h.form[i].leaders # {}
    \/ \E l \in LevelsOf(h.dept) :
         l.id \notin h.known /\ l.position \in DOMAIN h.form
    \/ departments[h.dept] # "live" /\ NewIn(h.form) # {}

NewLevels(h) ==
    {[id |-> IdOf(h.form, i), dept |-> h.dept, position |-> i] :
       i \in {i \in DOMAIN h.form :
                h.form[i].id = Null \/ h.form[i].id \in Ids(levels)}}

NewLinks(h) ==
    UNION {{[dept |-> h.dept, level |-> IdOf(h.form, i), user |-> u,
             can |-> h.form[i].can] : u \in h.form[i].leaders} :
           i \in DOMAIN h.form}

\* Mutant of Demoted: other departments are not looked at.
DemotedAll(h) ==
    {u \in Users \ LeadersOf(h.form) :
       \E a \in h.seen : a.user = u /\ a.dept = h.dept}

\* The leaders of the snapshot who are not in the form and have, in the
\* snapshot, no other link.
Demoted(h) ==
    {u \in Users \ LeadersOf(h.form) :
       /\ \E a \in h.seen : a.user = u /\ a.dept = h.dept
       /\ ~\E a \in h.seen : a.user = u /\ a.dept # h.dept}

DemotedRow(u, promoted, demoted) ==
    [users[u] EXCEPT
       !.role = IF u \in demoted THEN "employee"
                ELSE IF u \in promoted THEN "manager" ELSE @,
       !.manager = IF @ \in demoted THEN Null ELSE @]

UpdateCommit(s) ==
    LET h == admin[s] IN
    /\ At(s, "update", "commit")
    /\ ~Conflict(h)
    /\ nextLevel + Cardinality(NewIn(h.form)) <= MaxLevels + 1
    /\ levels' = {l \in levels : l.id \notin h.known} \cup NewLevels(h)
    /\ links' = {a \in links : a.level \notin h.known} \cup NewLinks(h)
    /\ nextLevel' = nextLevel + Cardinality(NewIn(h.form))
    /\ users' = [u \in Users |-> DemotedRow(u, LeadersOf(h.form), Demoted(h))]
    /\ Ends(s)
    /\ UNCHANGED <<departments, scene>>

\* Rolled back.
UpdateRefused(s) ==
    /\ At(s, "update", "commit")
    /\ Conflict(admin[s])
    /\ Ends(s)
    /\ UNCHANGED <<users, levels, links, departments, nextLevel, scene>>

-----------------------------------------------------------------------------
DeleteAt(s, pc) == At(s, "delete", pc)
DeleteGoes(s, pc) == Goes(s, [admin[s] EXCEPT !.pc = pc])

DeleteStart(s, d) ==
    /\ MayStart(s)
    /\ departments[d] = "live"
    /\ Goes(s, [op |-> "delete", pc |-> "count", dept |-> d, known |-> {},
                leaders |-> {}, leader |-> Null])
    /\ UNCHANGED <<users, levels, links, departments, nextLevel, scene>>

\* Mutant of DeleteCount: nobody is counted.
DeleteCountSkipped(s) ==
    /\ DeleteAt(s, "count")
    /\ DeleteGoes(s, "levels")
    /\ UNCHANGED <<users, levels, links, departments, nextLevel, scene>>

DeleteCount(s) ==
    /\ DeleteAt(s, "count")
    /\ IF \E u \in Users : /\ users[u].dept = admin[s].dept
                           /\ users[u].status = "active"
         THEN Ends(s)
         ELSE DeleteGoes(s, "levels")
    /\ UNCHANGED <<users, levels, links, departments, nextLevel, scene>>

DeleteReadLevels(s) ==
    LET known == Ids(LevelsOf(admin[s].dept)) IN
    /\ DeleteAt(s, "levels")
    /\ Goes(s, [admin[s] EXCEPT !.known = known,
                 !.pc = IF known = {} THEN "clear" ELSE "links"])
    /\ UNCHANGED <<users, levels, links, departments, nextLevel, scene>>

DeleteReadLinks(s) ==
    LET led == {a \in links : a.level \in admin[s].known} IN
    /\ DeleteAt(s, "links")
    /\ Goes(s, [admin[s] EXCEPT !.pc = "unlink",
                                !.leaders = {a.user : a \in led}])
    /\ UNCHANGED <<users, levels, links, departments, nextLevel, scene>>

DeleteLinks(s) ==
    /\ DeleteAt(s, "unlink")
    /\ links' = {a \in links : a.level \notin admin[s].known}
    /\ DeleteGoes(s, "clear")
    /\ UNCHANGED <<users, levels, departments, nextLevel, scene>>

\* Where the loop over the leaders goes next.
NextLeader(s, leaders) ==
    IF leaders = {}
      THEN Goes(s, [admin[s] EXCEPT !.pc = "destroy", !.leaders = {},
                                    !.leader = Null])
      ELSE \E u \in leaders :
             Goes(s, [admin[s] EXCEPT !.pc = "leader", !.leader = u,
                                      !.leaders = leaders \ {u}])

\* The links of a level go with it.
DeleteLevels(s) ==
    LET gone == Ids(LevelsOf(admin[s].dept)) IN
    /\ DeleteAt(s, "clear")
    /\ levels' = levels \ LevelsOf(admin[s].dept)
    /\ links' = {a \in links : a.level \notin gone}
    /\ NextLeader(s, admin[s].leaders)
    /\ UNCHANGED <<users, departments, nextLevel, scene>>

DeleteLeader(s) ==
    /\ DeleteAt(s, "leader")
    /\ IF Leads(admin[s].leader)
         THEN NextLeader(s, admin[s].leaders)
         ELSE DeleteGoes(s, "demote")
    /\ UNCHANGED <<users, levels, links, departments, nextLevel, scene>>

DeleteDemote(s) ==
    /\ DeleteAt(s, "demote")
    /\ users' = [users EXCEPT ![admin[s].leader].role = "employee"]
    /\ DeleteGoes(s, "orphan")
    /\ UNCHANGED <<levels, links, departments, nextLevel, scene>>

DeleteOrphan(s) ==
    /\ DeleteAt(s, "orphan")
    /\ users' = [u \in Users |->
                  IF users[u].manager = admin[s].leader
                    THEN [users[u] EXCEPT !.manager = Null] ELSE users[u]]
    /\ NextLeader(s, admin[s].leaders)
    /\ UNCHANGED <<levels, links, departments, nextLevel, scene>>

\* The users of the department are left without one; levels that were
\* created meanwhile go with it, and their links.
DeleteDestroy(s) ==
    LET d == admin[s].dept IN
    /\ DeleteAt(s, "destroy")
    /\ departments' = [departments EXCEPT ![d] = "gone"]
    /\ users' = [u \in Users |-> IF users[u].dept = d
                                   THEN [users[u] EXCEPT !.dept = Null]
                                   ELSE users[u]]
    /\ levels' = levels \ LevelsOf(d)
    /\ links' = {a \in links : a.dept # d}
    /\ Ends(s)
    /\ UNCHANGED <<nextLevel, scene>>

\* Or the database refuses it, for the links.
DeleteRefused(s) ==
    /\ DeleteAt(s, "destroy")
    /\ \E a \in links : a.dept = admin[s].dept
    /\ Ends(s)
    /\ UNCHANGED <<users, levels, links, departments, nextLevel, scene>>

-----------------------------------------------------------------------------
\* What updateUser, changeUserStatus and deleteUser make of a user's row, one
\* column at a time (bound).
Edition(column, row) ==
    CASE column = "role" -> {[row EXCEPT !.role = r] : r \in Roles}
      [] column = "status" ->
           {[row EXCEPT !.status = x] :
              x \in IF row.status = "inactive" THEN {"active", "inactive"}
                                               ELSE Statuses}
      [] column = "dept" ->
           {[row EXCEPT !.dept = d] :
              d \in {d \in Departments : departments[d] = "live"}
                      \cup {Null}}
      [] column = "manager" ->
           {[row EXCEPT !.manager = m] : m \in scene.users \cup {Null}}

Editions(row) == UNION {Edition(column, row) : column \in scene.edited} \ {row}

EditStart(s, u) ==
    /\ MayStart(s)
    /\ \E next \in Editions(users[u]) :
         Goes(s, [op |-> "edit", pc |-> "save", user |-> u,
                  copy |-> users[u], next |-> next])
    /\ UNCHANGED <<users, levels, links, departments, nextLevel, scene>>

Saved(row, copy, next) ==
    [role    |-> Column(row.role, copy.role, next.role),
     status  |-> Column(row.status, copy.status, next.status),
     dept    |-> Column(row.dept, copy.dept, next.dept),
     manager |-> Column(row.manager, copy.manager, next.manager)]

\* The database refuses a department that is gone meanwhile.
EditSave(s) ==
    LET h == admin[s]
        row == Saved(users[h.user], h.copy, h.next)
        refused == row.dept # Null /\ departments[row.dept] # "live"
    IN /\ At(s, "edit", "save")
       /\ users' = IF refused THEN users ELSE [users EXCEPT ![h.user] = row]
       /\ Ends(s)
       /\ UNCHANGED <<levels, links, departments, nextLevel, scene>>

-----------------------------------------------------------------------------
\* A query is rejected; a transaction is rolled back, the rest stays.
Fails(s) ==
    /\ scene.faults
    /\ admin[s] # Null
    /\ Ends(s)
    /\ UNCHANGED <<users, levels, links, departments, nextLevel, scene>>

Crash ==
    /\ scene.faults
    /\ admin' = [s \in Admins |-> Null]
    /\ UNCHANGED <<users, levels, links, departments, nextLevel, scene>>

Next ==
    \/ \E d \in Departments : CreateDepartment(d)
    \/ \E s \in scene.admins :
         \/ \E d \in Departments, form \in SceneForms[scene] : UpdateStart(s, d, form)
         \/ UpdateEligible(s) \/ UpdateBegin(s)
         \/ UpdateCommit(s) \/ UpdateRefused(s)
         \/ \E d \in Departments : DeleteStart(s, d)
         \/ DeleteCount(s) \/ DeleteReadLevels(s) \/ DeleteReadLinks(s)
         \/ DeleteLinks(s) \/ DeleteLevels(s) \/ DeleteLeader(s)
         \/ DeleteDemote(s) \/ DeleteOrphan(s)
         \/ DeleteDestroy(s) \/ DeleteRefused(s)
         \/ \E u \in scene.users : EditStart(s, u)
         \/ EditSave(s) \/ Fails(s)
    \/ Crash

Spec == Init /\ [][Next]_vars

-----------------------------------------------------------------------------
\* However updates and deletions overlap, a hierarchy keeps its order and its
\* links: no two levels of a department share a position, every link is to a
\* level of its own department, every level is of a department that exists.
\* Unless two updates overlap, each replacing the levels its own snapshot
\* shows, a user has one level in a hierarchy ("Mantida a proibição de
\* repetir o mesmo usuário em dois níveis da mesma hierarquia").
HierarchySound ==
    /\ \A l, m \in levels : l # m => /\ l.id # m.id
                                     /\ l.dept = m.dept => l.position # m.position
    /\ \A a \in links : \E l \in levels : l.id = a.level /\ l.dept = a.dept
    /\ \A l \in levels : departments[l.dept] = "live"
    /\ scene.serialized =>
         \A u \in Users, d \in Departments : Cardinality(LinksIn(u, d)) <= 1

\* A leader goes back to being an employee when, and only when, the last link
\* goes; an administrator's edition of the user aside ("O usuário só retorna
\* ao papel de colaborador quando perde seu último vínculo de liderança").
\* Not when two updates overlap: each counts links in its own snapshot.
LastLinkDecides ==
    [][\A u \in Users :
         scene.serialized /\ users[u].role = "manager" /\ Leads(u) =>
           /\ \A s \in Admins :
                UpdateCommit(s) => (users'[u].role = "employee" <=> ~Leads(u)')
           /\ users'[u].role = "employee" /\ Leads(u)'
                => \E s \in Admins : EditSave(s)]_vars

\* The deletion of a department takes no active user's department away. Not
\* that of a user who is moved into it between the count and the deletion.
ActiveKeepDepartment ==
    [][\A s \in Admins, u \in Users :
         scene.serialized /\ DeleteDestroy(s) /\ users[u].status = "active"
           => users'[u].dept = users[u].dept]_vars

\* A leader who is still linked but is an employee again, or not active: they
\* are refused everything.
Lapsed(u) == Leads(u) /\ ~IsManager(u)

\* A request of an employee whose department has leaders to approve it goes to
\* one who may decide it, unless an administrator's edition of that very
\* leader's role or status has left them linked and refused (the routing looks
\* at neither). No other handler does so, if the handlers do not overlap: not
\* an update or a deletion, not one that stops halfway.
RoutedMayDecide ==
    /\ [](\A e \in Users :
            LET d == users[e].dept IN
            Approvers(d) # {} /\ LinksIn(e, d) = {}
              => MayDecide(Routed(e), e) \/ Lapsed(Routed(e)))
    /\ [][scene.serialized =>
            \A u \in Users :
              Lapsed(u)' /\ ~Lapsed(u)
                => \E s \in Admins : EditSave(s) /\ admin[s].user = u]_vars
=============================================================================
