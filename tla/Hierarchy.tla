------------------------------- MODULE Hierarchy -------------------------------
(***************************************************************************)
(* Who leads whom: the ordered levels of each department, the links of the *)
(* leaders to them, and the three questions the API asks of them (may this *)
(* leader act on that user, which users may they act on, who is a request  *)
(* routed to).                                                             *)
(***************************************************************************)
EXTENDS Naturals, FiniteSets

CONSTANTS
    Users,          \* the employees and leaders of a company
    Departments,
    Permissions,
    MaxLevels,      \* bound: levels ever created
    MaxDepth,       \* bound: levels of one hierarchy
    Null

VARIABLES
    users,          \* role, status, department and direct manager
    levels,         \* department_hierarchy_levels; position 1 is the highest
    links           \* department_leader_assignments

ASSUME HierarchyAssumption ==
    /\ MaxLevels \in Nat /\ MaxDepth \in Nat
    /\ {"view_team", "view_reports", "view_time_records", "approve_requests",
        "manage_biometrics"} \subseteq Permissions
    /\ Null \notin Users /\ Null \notin Departments /\ Null \notin 1..MaxLevels

Roles == {"employee", "manager"}
Statuses == {"active", "suspended", "inactive"}
User == [role : Roles, status : Statuses, dept : Departments \cup {Null},
         manager : Users \cup {Null}]
LevelIds == 1..MaxLevels
Level == [id : LevelIds, dept : Departments, position : 1..MaxDepth]
Link == [dept : Departments, level : LevelIds, user : Users,
         can : SUBSET Permissions]

RowsTypeOK ==
    /\ users \in [Users -> User]
    /\ levels \subseteq Level
    /\ links \subseteq Link

-----------------------------------------------------------------------------
Leads(u) == \E a \in links : a.user = u
LinksIn(u, d) == {a \in links : a.user = u /\ a.dept = d}

PositionOf(a) == (CHOOSE l \in levels : l.id = a.level).position
Above(a, b) == PositionOf(a) < PositionOf(b)

\* getLeadershipAssignments, in one department.
Granted(u, d, p) == {a \in LinksIn(u, d) : p \in a.can}

\* Mutant of ResponsibleFor: the direct manager is responsible in any case.
ResponsibleForLegacy(m, e, dept, manager, p) ==
    /\ e # m
    /\ IF Granted(m, dept, p) # {}
         THEN LET own == CHOOSE a \in Granted(m, dept, p) : TRUE
              IN \A b \in LinksIn(e, dept) : Above(own, b)
         ELSE manager = m

(***************************************************************************)
(* isManagerResponsibleForUser. In a department that m leads, everybody    *)
(* but the leaders of its level and above; elsewhere, while m leads no     *)
(* department at all, the users it is the direct manager of. e is Null     *)
(* when the caller does not say which user it asks about.                  *)
(***************************************************************************)
ResponsibleFor(m, e, dept, manager, p) ==
    /\ e # m
    /\ IF Granted(m, dept, p) # {}
         THEN LET own == CHOOSE a \in Granted(m, dept, p) : TRUE
              IN \A b \in LinksIn(e, dept) : Above(own, b)
         ELSE ~Leads(m) /\ manager = m

Responsible(m, e, p) ==
    ResponsibleFor(m, e, users[e].dept, users[e].manager, p)

\* getManagedUserIds.
Managed(m, p) ==
    LET led == {d \in Departments : Granted(m, d, p) # {}}
        direct == {e \in Users : users[e].manager = m}
        present == {e \in Users : users[e].status # "inactive"}
        reached == {e \in Users : users[e].dept \in led} \cup direct
    IN IF led # {}
         THEN {e \in (reached \cap present) \ {m} : Responsible(m, e, p)}
         ELSE IF Leads(m) THEN {} ELSE direct \cap present

(***************************************************************************)
(* What the handlers make of these: authenticate answers active users      *)
(* only, and a handler asks about leadership for the role manager. A       *)
(* leader whose links remain but who is an employee again, suspended or    *)
(* inactive is refused everything.                                         *)
(***************************************************************************)
IsManager(u) == users[u].role = "manager" /\ users[u].status = "active"
Listed(m, p) == IF IsManager(m) THEN Managed(m, p) ELSE {}
Allowed(m, e, p) == IsManager(m) /\ Responsible(m, e, p)

\* getScopedUsers and getScopedUser of the reports, for a manager: whom they
\* list, and whose daily sheet they open.
ScopedUsers(m) ==
    {e \in Listed(m, "view_reports") : users[e].status # "inactive"}
ScopedUser(m, e) ==
    users[e].status # "inactive" /\ Allowed(m, e, "view_reports")

\* What other screens list for a leader: the users of the team (listTeam), the
\* faces to enrol (getFaces), whose markings are shown (getRecentRecords,
\* getRemoteRecords) and whose requests wait (listReviewRequests).
TeamOf(m) == {e \in Listed(m, "view_team") : users[e].status # "inactive"}
FacesOf(m) == {e \in Listed(m, "manage_biometrics") : users[e].status = "active"}
RecordsOf(m) == Listed(m, "view_time_records")
RemoteOf(m) == Listed(m, "view_reports")
RequestsOf(m) == {e \in Users : Allowed(m, e, "approve_requests")}

\* What a leader may then do with one of them: see their photos
\* (canAccessUserFile), enrol their face (registerFace, resetFace), decide
\* their requests (getScopedRequest).
MayOpenFile(m, e) == Allowed(m, e, "view_time_records")
MayEnrol(m, e) == Allowed(m, e, "manage_biometrics")
MayDecide(m, e) == Allowed(m, e, "approve_requests")

\* Mutant of Approvers: permissions are not looked at.
ApproversAny(d) == {a \in links : a.dept = d}

\* resolveRequestRouting: the nearest leader of the user's department who
\* approves requests, whatever their role and status are, else the direct
\* manager, else a manager of the department (the first one; which one is left
\* open).
Approvers(d) ==
    {a \in links : a.dept = d /\ "approve_requests" \in a.can}
Nearest(d) == {a \in Approvers(d) : \A b \in Approvers(d) : ~Above(a, b)}
ManagersIn(d) == {u \in Users : IsManager(u) /\ users[u].dept = d}

Routed(e) ==
    LET d == users[e].dept
        direct == users[e].manager
    IN CASE Approvers(d) # {} -> (CHOOSE a \in Nearest(d) : TRUE).user
         [] Approvers(d) = {} /\ direct # Null /\ IsManager(direct) -> direct
         [] OTHER -> IF d = Null \/ ManagersIn(d) = {} THEN Null
                       ELSE CHOOSE u \in ManagersIn(d) : TRUE

\* assignAbsence asks for the target's manager and department only, and for
\* no permission in particular.
MayAssignAbsence(m, e) ==
    /\ IsManager(m)
    /\ ResponsibleFor(m, Null, users[e].dept, users[e].manager, "view_team")

-----------------------------------------------------------------------------
\* The list of the users a leader manages (what screens show) and the test of
\* one user (what the API lets through) agree: the reports and the remote
\* markings list those whose daily sheet opens, and what a screen lists its
\* buttons may act on. Not for a user who was made their own direct manager,
\* whom the list holds and the test refuses.
ScopesAgree ==
    \A m, e \in Users :
      m # e =>
        /\ \A p \in Permissions :
             e \in Managed(m, p) <=>
               users[e].status # "inactive" /\ Responsible(m, e, p)
        /\ e \in ScopedUsers(m) <=> ScopedUser(m, e)
        /\ e \in RemoteOf(m) <=> ScopedUser(m, e)
        /\ e \in TeamOf(m) <=>
             users[e].status # "inactive" /\ Allowed(m, e, "view_team")
        /\ e \in RecordsOf(m) => MayOpenFile(m, e)
        /\ e \in FacesOf(m) => MayEnrol(m, e)
        /\ e \in RequestsOf(m) <=> MayDecide(m, e)

\* A leader assigns no absence to a leader of the same or a higher level of
\* the department ("Usuários do mesmo nível não administram uns aos outros").
AbsencesGoDown ==
    \A m, e \in Users :
      m # e /\ MayAssignAbsence(m, e) =>
        \A a \in LinksIn(m, users[e].dept), b \in LinksIn(e, users[e].dept) :
          Above(a, b)
=============================================================================
