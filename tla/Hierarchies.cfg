\* Every scene; two levels are ever created.
CONSTANTS
  u1 = u1
  u2 = u2
  d1 = d1
  d2 = d2
  s1 = s1
  s2 = s2
  Null = Null
  Users = {u1, u2}
  Departments = {d1, d2}
  Permissions = {"view_team", "view_reports", "view_time_records",
                 "approve_requests", "manage_biometrics"}
  MaxLevels = 2
  MaxDepth = 2
  Admins = {s1, s2}
  Scenes <- MCScenes
SPECIFICATION Spec
INVARIANT HierarchySound
INVARIANT ScopesAgree
PROPERTY RoutedMayDecide
PROPERTY LastLinkDecides
PROPERTY ActiveKeepDepartment
\* When every level has been created there may be nothing left to do.
CHECK_DEADLOCK FALSE
