----------------------------- MODULE MCLeadership -----------------------------
(***************************************************************************)
(* Scenes of Leadership. Together they cover every handler; each is small  *)
(* where another one is large.                                             *)
(***************************************************************************)
EXTENDS Leadership

CONSTANTS u1, u2, d1, d2, s1, s2

See == {"view_team", "view_reports", "view_time_records", "manage_biometrics"}
Both == See \cup {"approve_requests"}

\* Two departments, two users who lead in one or both, failing queries.
Hierarchies ==
    [serialized |-> TRUE, admins |-> {s1}, faults |-> TRUE,
     users |-> {u1, u2},
     departments |-> {d1, d2}, grants |-> {Both}, edited |-> {"role"},
     depth |-> 2]

\* Departments that are deleted with users in them.
Deletions ==
    [serialized |-> TRUE, admins |-> {s1}, faults |-> FALSE,
     users |-> {u1, u2},
     departments |-> {d1, d2}, grants |-> {Both},
     edited |-> {"status", "dept"}, depth |-> 1]

\* One department, leaders with and without the right to approve.
Approvals ==
    [serialized |-> TRUE, admins |-> {s1}, faults |-> FALSE,
     users |-> {u1, u2},
     departments |-> {d1}, grants |-> {See, Both},
     edited |-> {"dept"}, depth |-> 2]

\* One department, users who move and change their direct manager, and
\* leaders who lead without the right to approve.
Teams ==
    [serialized |-> TRUE, admins |-> {s1}, faults |-> FALSE,
     users |-> {u1, u2},
     departments |-> {d1}, grants |-> {See},
     edited |-> {"dept", "manager"}, depth |-> 2]

\* Two requests at once on one hierarchy.
Overlaps ==
    [serialized |-> FALSE, admins |-> {s1, s2}, faults |-> TRUE,
     users |-> {u1},
     departments |-> {d1}, grants |-> {Both}, edited |-> {}, depth |-> 2]

MCScenes == {Hierarchies, Deletions, Approvals, Teams, Overlaps}
OneScene == {Approvals}
=============================================================================
