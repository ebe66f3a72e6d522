--------------------------- MODULE UserAccessProofs ---------------------------
(***************************************************************************)
(* That a user's row says one thing, and the membership the same, when the *)
(* handlers of a user do not overlap: each handler saves a copy of the row *)
(* that is the row as long as it is alone, so that the columns it leaves   *)
(* out and those it writes fit together.                                   *)
(***************************************************************************)
EXTENDS UserAccess, TLAPS

\* A restriction has a type, and an end only if it is a leave.
RowFits(row) ==
    /\ row.kind # Null <=> row.status = "suspended"
    /\ row.until # Null => row.kind = "leave"

\* What handlers in flight carry, in any regime.
AdminFits(h) ==
    /\ h.pc = "member" => ~h.keep
    /\ ~h.keep => h.next.status \in Members
    /\ h.keep => h.next.status # "inactive"

AccessTyped ==
    /\ TypeOK
    /\ \A s \in Admins : admin[s] # Null => AdminFits(admin[s])

\* One handler at a time for each user.
OneHandler ==
    /\ \A s, t \in Admins :
         s # t /\ admin[s] # Null /\ admin[t] # Null => admin[s].user # admin[t].user
    /\ \A r, q \in Requests :
         r # q /\ request[r] # Null /\ request[q] # Null
           => request[r].user # request[q].user
    /\ \A s \in Admins, r \in Requests :
         admin[s] # Null /\ request[r] # Null => admin[s].user # request[r].user
    /\ \A s \in Admins : admin[s] # Null => job[admin[s].user] = Null
    /\ \A r \in Requests : request[r] # Null => job[request[r].user] = Null

RowsFit == \A u \in Staff : RowFits(users[u])

\* Its copy is the row, until it has saved; what it saves fits; what it
\* releases has expired.
AdminCurrent(h) ==
    /\ RowFits(h.next)
    /\ h.pc = "save" => /\ users[h.user] = h.copy
                        /\ h.keep => h.copy.status # "inactive"
    /\ h.pc = "member" => users[h.user] = h.next
ReleaseCurrent(u, copy) == users[u] = copy /\ Expired(copy)

HandlersCurrent ==
    /\ \A s \in Admins : admin[s] # Null => AdminCurrent(admin[s])
    /\ \A r \in Requests :
         request[r] # Null => ReleaseCurrent(request[r].user, request[r].copy)
    /\ \A u \in Staff : job[u] # Null => ReleaseCurrent(u, job[u])

\* When nothing fails, the membership disagrees with the row only between the
\* two writes of a handler.
MembersAgree ==
    \A u \in Staff :
      (\A s \in Admins : admin[s] # Null /\ admin[s].user = u
                           => admin[s].pc # "member")
        => (membership[u] = "inactive" <=> users[u].status = "inactive")

AccessInv ==
    /\ AccessTyped
    /\ regime # "free" => OneHandler /\ RowsFit /\ HandlersCurrent
    /\ regime = "serialized" => MembersAgree

-----------------------------------------------------------------------------
\* What an administrator's handler is about to save, when it has loaded the row.
Loadable(u, next, keep) ==
    /\ ~keep => next.status \in Members
    /\ keep => next.status # "inactive" /\ users[u].status # "inactive"
    /\ RowFits(users[u]) => RowFits(next)

LEMMA RowTyped ==
    ASSUME NEW row \in User
    PROVE  /\ row.status \in Statuses
           /\ row.kind \in Kinds \cup {Null}
           /\ row.until \in Times \cup {Null}
BY DEF User

LEMMA UnrestrictedFits ==
    ASSUME NEW status \in Members
    PROVE  /\ Unrestricted(status) \in User
           /\ RowFits(Unrestricted(status))
           /\ Unrestricted(status).status = status
BY DEF Unrestricted, User, RowFits, Members, Statuses

LEMMA OpensLoads ==
    ASSUME TypeOK, NEW s \in Admins, AdminOpens(s)
    PROVE  \E u \in Staff, next \in User, keep \in BOOLEAN :
             AdminLoads(s, u, next, keep) /\ Loadable(u, next, keep)
<1>1. ASSUME NEW u \in Staff, NEW kind \in Kinds,
             NEW until \in Times \cup {Null}, Restrict(s, u, kind, until)
      PROVE  \E next \in User, keep \in BOOLEAN :
               AdminLoads(s, u, next, keep) /\ Loadable(u, next, keep)
  <2>1. PICK next : next = [status |-> "suspended", kind |-> kind, until |-> until]
    OBVIOUS
  <2>2. next \in User /\ next.status = "suspended" /\ next.kind = kind
        /\ next.until = until
    BY <2>1 DEF User, Statuses
  <2>3. AdminLoads(s, u, next, TRUE)
    BY <1>1, <2>1 DEF Restrict
  <2>4. RowFits(next)
    BY <1>1, <2>2, AccessAssumption DEF RowFits, Restrict, Kinds
  <2>5. Loadable(u, next, TRUE)
    BY <1>1, <2>2, <2>4 DEF Loadable, Restrict
  <2>6. QED
    BY <2>2, <2>3, <2>5
<1>2. ASSUME NEW u \in Staff, Lift(s, u)
      PROVE  \E next \in User, keep \in BOOLEAN :
               AdminLoads(s, u, next, keep) /\ Loadable(u, next, keep)
  <2>1. PICK next : next = Unrestricted("active")
    OBVIOUS
  <2>2. next \in User /\ RowFits(next) /\ next.status = "active"
    BY <2>1, UnrestrictedFits DEF Members
  <2>3. AdminLoads(s, u, next, TRUE) /\ Loadable(u, next, TRUE)
    BY <1>2, <2>1, <2>2 DEF Lift, Loadable
  <2>4. QED
    BY <2>2, <2>3
<1>3. ASSUME NEW u \in Staff, Remove(s, u)
      PROVE  \E next \in User, keep \in BOOLEAN :
               AdminLoads(s, u, next, keep) /\ Loadable(u, next, keep)
  <2>1. PICK next : next = Unrestricted("inactive")
    OBVIOUS
  <2>2. next \in User /\ RowFits(next) /\ next.status = "inactive"
    BY <2>1, UnrestrictedFits DEF Members
  <2>3. AdminLoads(s, u, next, FALSE) /\ Loadable(u, next, FALSE)
    BY <1>3, <2>1, <2>2 DEF Remove, Loadable, Members
  <2>4. QED
    BY <2>2, <2>3
<1>4. ASSUME NEW u \in Staff, NEW status \in Members, EditStatus(s, u, status)
      PROVE  \E next \in User, keep \in BOOLEAN :
               AdminLoads(s, u, next, keep) /\ Loadable(u, next, keep)
  <2>1. PICK row : row = users[u]
    OBVIOUS
  <2>2. PICK next : next = [row EXCEPT !.status = status]
    OBVIOUS
  <2>3. row \in User /\ row.status # "suspended"
    BY <1>4, <2>1 DEF TypeOK, EditStatus
  <2>4. /\ next \in User /\ next.status = status
        /\ next.kind = row.kind /\ next.until = row.until
    BY <2>2, <2>3 DEF User, Members, Statuses
  <2>5. RowFits(row) => RowFits(next)
    BY <2>3, <2>4 DEF RowFits, Members
  <2>6. AdminLoads(s, u, next, FALSE)
    BY <1>4, <2>1, <2>2 DEF EditStatus
  <2>7. Loadable(u, next, FALSE)
    BY <2>1, <2>4, <2>5 DEF Loadable
  <2>8. QED
    BY <2>4, <2>6, <2>7
<1>5. QED
  BY <1>1, <1>2, <1>3, <1>4 DEF AdminOpens

LEMMA SavedTyped ==
    ASSUME NEW row \in User, NEW copy \in User, NEW next \in User
    PROVE  /\ Saved(row, copy, next) \in User
           /\ row = copy => Saved(row, copy, next) = next
<1>1. Saved(row, copy, next) \in User
  BY DEF Saved, Column, User
<1>2. next = [status |-> next.status, kind |-> next.kind, until |-> next.until]
  BY DEF User
<1>3. QED
  BY <1>1, <1>2 DEF Saved, Column

\* The record a load leaves.
LEMMA LoadTyped ==
    ASSUME TypeOK, NEW s \in Admins, NEW u \in Staff, NEW next \in User,
           NEW keep \in BOOLEAN, AdminLoads(s, u, next, keep)
    PROVE  \E h \in Operation :
             /\ admin' = [admin EXCEPT ![s] = h]
             /\ h.pc = "save" /\ h.user = u /\ h.copy = users[u]
             /\ h.next = next /\ h.keep = keep
<1>1. PICK row : row = users[u]
  OBVIOUS
<1>2. PICK h : h = [pc |-> "save", user |-> u, copy |-> row, next |-> next,
                    keep |-> keep]
  OBVIOUS
<1>3. row \in User
  BY <1>1 DEF TypeOK
<1>4. /\ h \in Operation
      /\ h.pc = "save" /\ h.user = u /\ h.copy = row /\ h.next = next
      /\ h.keep = keep
  BY <1>2, <1>3 DEF Operation
<1>5. admin' = [admin EXCEPT ![s] = h]
  BY <1>1, <1>2 DEF AdminLoads
<1>6. QED
  BY <1>1, <1>4, <1>5

LEMMA OperationTyped ==
    ASSUME TypeOK, NEW s \in Admins, admin[s] # Null
    PROVE  /\ admin[s] \in Operation
           /\ admin[s].user \in Staff
           /\ admin[s].copy \in User /\ admin[s].next \in User
           /\ admin[s].keep \in BOOLEAN /\ admin[s].pc \in {"save", "member"}
<1>1. admin[s] \in Operation
  BY DEF TypeOK
<1>2. QED
  BY <1>1 DEF Operation

LEMMA ReleaseTyped ==
    ASSUME TypeOK, NEW r \in Requests, request[r] # Null
    PROVE  /\ request[r] \in Release
           /\ request[r].user \in Staff /\ request[r].copy \in User
<1>1. request[r] \in Release
  BY DEF TypeOK
<1>2. QED
  BY <1>1 DEF Release

-----------------------------------------------------------------------------
\* The effects of the writes, in the terms the proofs use.
LEMMA AdminSaveEffect ==
    ASSUME AccessTyped, NEW s \in Admins, NEW h, h = admin[s], AdminSave(s)
    PROVE  /\ h \in Operation /\ h # Null /\ h.pc = "save"
           /\ users' = [users EXCEPT ![h.user] =
                          Saved(users[h.user], h.copy, h.next)]
           /\ \/ h.keep /\ admin' = [admin EXCEPT ![s] = Null]
              \/ \E g \in Operation :
                   /\ ~h.keep
                   /\ admin' = [admin EXCEPT ![s] = g]
                   /\ g.pc = "member" /\ g.user = h.user /\ g.copy = h.copy
                   /\ g.next = h.next /\ g.keep = h.keep
<1>1. h \in Operation /\ h # Null /\ h.pc = "save"
  BY OperationTyped DEF AdminSave, AdminAt, AccessTyped
<1>2. users' = [users EXCEPT ![h.user] = Saved(users[h.user], h.copy, h.next)]
  BY DEF AdminSave
<1>3. CASE h.keep
  BY <1>1, <1>2, <1>3 DEF AdminSave, AdminEnds
<1>4. CASE ~h.keep
  <2>1. PICK g : g = [h EXCEPT !.pc = "member"]
    OBVIOUS
  <2>2. /\ g \in Operation
        /\ g.pc = "member" /\ g.user = h.user /\ g.copy = h.copy
        /\ g.next = h.next /\ g.keep = h.keep
    BY <1>1, <2>1 DEF Operation
  <2>3. admin' = [admin EXCEPT ![s].pc = "member"]
    BY <1>4 DEF AdminSave
  <2>4. admin' = [admin EXCEPT ![s] = g]
    BY <2>1, <2>3
  <2>5. QED
    BY <1>1, <1>2, <1>4, <2>2, <2>4
<1>5. QED
  BY <1>3, <1>4

-----------------------------------------------------------------------------
\* What handlers carry, in any regime.
LEMMA AdminStepTyped ==
    ASSUME AccessTyped, NEW s \in Admins,
           NEW h \in Operation \cup {Null}, admin' = [admin EXCEPT ![s] = h],
           h # Null => AdminFits(h),
           users' \in [Staff -> User], membership' \in [Staff -> Members],
           UNCHANGED <<now, request, job, regime>>
    PROVE  AccessTyped'
<1>1. TypeOK'
  BY DEF AccessTyped, TypeOK
<1>2. \A t \in Admins : admin'[t] = IF t = s THEN h ELSE admin[t]
  BY DEF AccessTyped, TypeOK
<1>3. \A t \in Admins : admin'[t] # Null => AdminFits(admin'[t])
  BY <1>2 DEF AccessTyped
<1>4. QED
  BY <1>1, <1>3 DEF AccessTyped, AdminFits

LEMMA SameAdminTyped ==
    ASSUME AccessTyped, TypeOK', admin' = admin
    PROVE  AccessTyped'
BY DEF AccessTyped, AdminFits

LEMMA AccessTypedStep ==
    ASSUME AccessTyped, [Next]_vars
    PROVE  AccessTyped'
<1>1. TypeOK
  BY DEF AccessTyped
<1>2. ASSUME NEW s \in Admins, AdminOpens(s) PROVE AccessTyped'
  <2>1. PICK u \in Staff, next \in User, keep \in BOOLEAN :
          AdminLoads(s, u, next, keep) /\ Loadable(u, next, keep)
    BY <1>1, <1>2, OpensLoads
  <2>2. PICK h \in Operation :
          /\ admin' = [admin EXCEPT ![s] = h]
          /\ h.pc = "save" /\ h.user = u /\ h.copy = users[u]
          /\ h.next = next /\ h.keep = keep
    BY <1>1, <2>1, LoadTyped
  <2>3. AdminFits(h)
    BY <2>1, <2>2 DEF AdminFits, Loadable
  <2>4. UNCHANGED <<now, users, membership, request, job, regime>>
    BY <2>1 DEF AdminLoads
  <2>5. QED
    BY <1>1, <2>2, <2>3, <2>4, AdminStepTyped DEF TypeOK
<1>3. ASSUME NEW s \in Admins, AdminSave(s) PROVE AccessTyped'
  <2>1. PICK h : h = admin[s]
    OBVIOUS
  <2>2. /\ h \in Operation /\ h # Null /\ h.pc = "save"
        /\ users' = [users EXCEPT ![h.user] =
                       Saved(users[h.user], h.copy, h.next)]
        /\ \/ h.keep /\ admin' = [admin EXCEPT ![s] = Null]
           \/ \E g \in Operation :
                /\ ~h.keep
                /\ admin' = [admin EXCEPT ![s] = g]
                /\ g.pc = "member" /\ g.user = h.user /\ g.copy = h.copy
                /\ g.next = h.next /\ g.keep = h.keep
    BY <1>3, <2>1, AdminSaveEffect
  <2>3. h.user \in Staff /\ h.copy \in User /\ h.next \in User
    BY <2>2 DEF Operation
  <2>4. users' \in [Staff -> User]
    BY <1>1, <2>2, <2>3, SavedTyped DEF TypeOK
  <2>5. AdminFits(h)
    BY <2>1, <2>2 DEF AccessTyped
  <2>6. UNCHANGED <<now, membership, request, job, regime>>
    BY <1>3 DEF AdminSave
  <2>7. CASE admin' = [admin EXCEPT ![s] = Null]
    BY <1>1, <2>4, <2>6, <2>7, AdminStepTyped DEF TypeOK
  <2>8. ASSUME NEW g \in Operation, ~h.keep,
               admin' = [admin EXCEPT ![s] = g],
               g.pc = "member", g.next = h.next, g.keep = h.keep
        PROVE  AccessTyped'
    <3>1. AdminFits(g)
      BY <2>5, <2>8 DEF AdminFits
    <3>2. QED
      BY <1>1, <2>4, <2>6, <2>8, <3>1, AdminStepTyped DEF TypeOK
  <2>9. QED
    BY <2>2, <2>7, <2>8
<1>4. ASSUME NEW s \in Admins, AdminMember(s) PROVE AccessTyped'
  <2>1. PICK h : h = admin[s]
    OBVIOUS
  <2>2. h \in Operation /\ h # Null /\ h.pc = "member" /\ AdminFits(h)
    BY <1>1, <1>4, <2>1, OperationTyped DEF AdminMember, AdminAt, AccessTyped
  <2>3. membership' = [membership EXCEPT ![h.user] = h.next.status]
    BY <1>4, <2>1 DEF AdminMember
  <2>4. membership' \in [Staff -> Members]
    BY <1>1, <2>2, <2>3 DEF TypeOK, AdminFits
  <2>5. /\ admin' = [admin EXCEPT ![s] = Null]
        /\ UNCHANGED <<now, users, request, job, regime>>
    BY <1>4 DEF AdminMember, AdminEnds
  <2>6. QED
    BY <1>1, <2>4, <2>5, AdminStepTyped DEF TypeOK
<1>5. ASSUME NEW r \in Requests, RequestReleases(r) PROVE AccessTyped'
  <2>1. PICK h : h = request[r]
    OBVIOUS
  <2>2. h.user \in Staff /\ h.copy \in User
    BY <1>1, <1>5, <2>1, ReleaseTyped DEF RequestReleases
  <2>3. users' = [users EXCEPT ![h.user] =
                    Saved(users[h.user], h.copy, Unrestricted("active"))]
    BY <1>5, <2>1 DEF RequestReleases
  <2>4. users' \in [Staff -> User]
    BY <1>1, <2>2, <2>3, SavedTyped, UnrestrictedFits DEF TypeOK, Members
  <2>5. /\ request' = [request EXCEPT ![r] = Null]
        /\ UNCHANGED <<now, membership, admin, job, regime>>
    BY <1>5 DEF RequestReleases
  <2>6. TypeOK'
    BY <1>1, <2>4, <2>5 DEF TypeOK
  <2>7. QED
    BY <2>5, <2>6, SameAdminTyped
<1>6. ASSUME NEW r \in Requests, NEW u \in Staff, RequestLoads(r, u)
      PROVE  AccessTyped'
  <2>1. PICK row : row = users[u]
    OBVIOUS
  <2>2. PICK h : h = [user |-> u, copy |-> row]
    OBVIOUS
  <2>3. h \in Release
    BY <1>1, <2>1, <2>2 DEF Release, TypeOK
  <2>4. /\ request' = [request EXCEPT ![r] = h]
        /\ UNCHANGED <<now, users, membership, admin, job, regime>>
    BY <1>6, <2>1, <2>2 DEF RequestLoads
  <2>5. TypeOK'
    BY <1>1, <2>3, <2>4 DEF TypeOK
  <2>6. QED
    BY <2>4, <2>5, SameAdminTyped
<1>7. CASE JobScan
  <2>1. /\ job' = [u \in Staff |-> IF Expired(users[u]) THEN users[u] ELSE Null]
        /\ UNCHANGED <<now, users, membership, admin, request, regime>>
    BY <1>7 DEF JobScan
  <2>2. TypeOK'
    BY <1>1, <2>1 DEF TypeOK
  <2>3. QED
    BY <2>1, <2>2, SameAdminTyped
<1>8. ASSUME NEW u \in Staff, JobReleases(u) PROVE AccessTyped'
  <2>1. PICK copy : copy = job[u]
    OBVIOUS
  <2>2. copy \in User
    BY <1>1, <1>8, <2>1 DEF JobReleases, TypeOK
  <2>3. /\ users' = [users EXCEPT ![u] =
                       Saved(users[u], copy, Unrestricted("active"))]
        /\ job' = [job EXCEPT ![u] = Null]
        /\ UNCHANGED <<now, membership, admin, request, regime>>
    BY <1>8, <2>1 DEF JobReleases
  <2>4. users' \in [Staff -> User]
    BY <1>1, <2>2, <2>3, SavedTyped, UnrestrictedFits DEF TypeOK, Members
  <2>5. TypeOK'
    BY <1>1, <2>3, <2>4 DEF TypeOK
  <2>6. QED
    BY <2>3, <2>5, SameAdminTyped
<1>9. CASE Tick
  <2>1. TypeOK' /\ admin' = admin
    BY <1>1, <1>9, AccessAssumption DEF Tick, TypeOK, Times
  <2>2. QED
    BY <2>1, SameAdminTyped
<1>10. CASE Fails
  <2>1. ASSUME NEW s \in Admins, AdminEnds(s), UNCHANGED <<request, job>>
        PROVE  AccessTyped'
    BY <1>1, <1>10, <2>1, AdminStepTyped DEF AdminEnds, Fails, TypeOK
  <2>2. ASSUME NEW r \in Requests, request' = [request EXCEPT ![r] = Null],
               UNCHANGED <<admin, job>>
        PROVE  AccessTyped'
    <3>1. TypeOK'
      BY <1>1, <1>10, <2>2 DEF Fails, TypeOK
    <3>2. QED
      BY <2>2, <3>1, SameAdminTyped
  <2>3. QED
    BY <1>10, <2>1, <2>2 DEF Fails
<1>11. CASE Crash
  BY <1>1, <1>11 DEF Crash, AccessTyped, TypeOK
<1>12. CASE UNCHANGED vars
  <2>1. TypeOK' /\ admin' = admin
    BY <1>1, <1>12 DEF vars, TypeOK
  <2>2. QED
    BY <2>1, SameAdminTyped
<1>13. QED
  BY <1>2, <1>3, <1>4, <1>5, <1>6, <1>7, <1>8, <1>9, <1>10, <1>11, <1>12 DEF Next

-----------------------------------------------------------------------------
\* When the handlers of a user do not overlap.
AloneNow == OneHandler /\ RowsFit /\ HandlersCurrent

LEMMA OpensAlone ==
    ASSUME AccessTyped, AloneNow, Serialized, NEW s \in Admins, AdminOpens(s)
    PROVE  AloneNow' /\ (MembersAgree => MembersAgree')
<1>1. TypeOK
  BY DEF AccessTyped
<1>2. PICK u \in Staff, next \in User, keep \in BOOLEAN :
        AdminLoads(s, u, next, keep) /\ Loadable(u, next, keep)
  BY <1>1, OpensLoads
<1>3. PICK h \in Operation :
        /\ admin' = [admin EXCEPT ![s] = h]
        /\ h.pc = "save" /\ h.user = u /\ h.copy = users[u]
        /\ h.next = next /\ h.keep = keep
  BY <1>1, <1>2, LoadTyped
<1>4. UNCHANGED <<now, users, membership, request, job, regime>> /\ Quiet(u)
      /\ admin[s] = Null
  BY <1>2 DEF AdminLoads, MayStart
<1>5. \A t \in Admins : admin'[t] = IF t = s THEN h ELSE admin[t]
  BY <1>1, <1>3 DEF TypeOK
<1>6. OneHandler'
  BY <1>3, <1>4, <1>5 DEF AloneNow, OneHandler, Quiet
<1>7. RowsFit'
  BY <1>4 DEF AloneNow, RowsFit, RowFits
<1>8. AdminCurrent(h)
  BY <1>2, <1>3 DEF AdminCurrent, Loadable, AloneNow, RowsFit
<1>9. \A t \in Admins : admin'[t] # Null => AdminCurrent(admin'[t])
  BY <1>5, <1>8 DEF AloneNow, HandlersCurrent
<1>10. HandlersCurrent'
  BY <1>4, <1>9 DEF AloneNow, HandlersCurrent, AdminCurrent, ReleaseCurrent,
                    Expired, RowFits
<1>11. ASSUME MembersAgree PROVE MembersAgree'
  <2>1. SUFFICES ASSUME NEW v \in Staff,
                        \A t \in Admins : admin'[t] # Null /\ admin'[t].user = v
                                            => admin'[t].pc # "member"
                 PROVE  membership[v] = "inactive" <=> users[v].status = "inactive"
    BY <1>4 DEF MembersAgree
  <2>2. \A t \in Admins : admin[t] # Null /\ admin[t].user = v
                            => admin[t].pc # "member"
    BY <1>4, <1>5, <2>1
  <2>3. QED
    BY <1>11, <2>2 DEF MembersAgree
<1>12. QED
  BY <1>6, <1>7, <1>10, <1>11 DEF AloneNow

LEMMA SaveAlone ==
    ASSUME AccessTyped, AloneNow, NEW s \in Admins, AdminSave(s)
    PROVE  AloneNow' /\ (MembersAgree => MembersAgree')
<1>1. TypeOK
  BY DEF AccessTyped
<1>2. PICK h : h = admin[s]
  OBVIOUS
<1>3. /\ h \in Operation /\ h # Null /\ h.pc = "save"
      /\ users' = [users EXCEPT ![h.user] = Saved(users[h.user], h.copy, h.next)]
      /\ \/ h.keep /\ admin' = [admin EXCEPT ![s] = Null]
         \/ \E g \in Operation :
              /\ ~h.keep
              /\ admin' = [admin EXCEPT ![s] = g]
              /\ g.pc = "member" /\ g.user = h.user /\ g.copy = h.copy
              /\ g.next = h.next /\ g.keep = h.keep
  BY <1>2, AdminSaveEffect
<1>4. h.user \in Staff /\ h.copy \in User /\ h.next \in User
  BY <1>3 DEF Operation
<1>5. AdminCurrent(h) /\ AdminFits(h)
  BY <1>2, <1>3 DEF AloneNow, HandlersCurrent, AccessTyped
<1>6. Saved(users[h.user], h.copy, h.next) = h.next
  BY <1>3, <1>4, <1>5, SavedTyped DEF AdminCurrent
<1>7. \A v \in Staff : users'[v] = IF v = h.user THEN h.next ELSE users[v]
  BY <1>1, <1>3, <1>4, <1>6 DEF TypeOK
<1>8. UNCHANGED <<now, membership, request, job, regime>>
  BY DEF AdminSave
<1>9. RowsFit'
  BY <1>5, <1>7 DEF AloneNow, RowsFit, RowFits, AdminCurrent
<1>10. /\ \A t \in Admins : t # s /\ admin[t] # Null => admin[t].user # h.user
       /\ \A r \in Requests : request[r] # Null => request[r].user # h.user
       /\ job[h.user] = Null
  BY <1>2, <1>3 DEF AloneNow, OneHandler
<1>11. /\ \A r \in Requests :
            request[r] # Null => users'[request[r].user] = users[request[r].user]
       /\ \A v \in Staff : job[v] # Null => users'[v] = users[v]
       /\ \A t \in Admins :
            t # s /\ admin[t] # Null => users'[admin[t].user] = users[admin[t].user]
  BY <1>1, <1>7, <1>10, ReleaseTyped, OperationTyped
<1>12. /\ \A r \in Requests :
            request'[r] # Null
              => ReleaseCurrent(request[r].user, request[r].copy)'
       /\ \A v \in Staff : job'[v] # Null => ReleaseCurrent(v, job[v])'
  BY <1>8, <1>11 DEF AloneNow, HandlersCurrent, ReleaseCurrent, Expired
<1>13. ASSUME NEW t \in Admins, t # s, admin[t] # Null
       PROVE  AdminCurrent(admin[t]) /\ users'[admin[t].user] = users[admin[t].user]
  BY <1>11, <1>13 DEF AloneNow, HandlersCurrent
<1>14. CASE h.keep /\ admin' = [admin EXCEPT ![s] = Null]
  <2>1. \A t \in Admins : admin'[t] = IF t = s THEN Null ELSE admin[t]
    BY <1>1, <1>14 DEF TypeOK
  <2>2. OneHandler'
    BY <1>8, <2>1 DEF AloneNow, OneHandler
  <2>3. \A t \in Admins : admin'[t] # Null => AdminCurrent(admin[t])'
    BY <1>13, <2>1 DEF AdminCurrent, RowFits
  <2>5. ASSUME MembersAgree PROVE MembersAgree'
    <3>1. SUFFICES ASSUME NEW v \in Staff,
                          \A t \in Admins : admin'[t] # Null /\ admin'[t].user = v
                                              => admin'[t].pc # "member"
                   PROVE  membership[v] = "inactive" <=> users'[v].status = "inactive"
      BY <1>8 DEF MembersAgree
    <3>2. \A t \in Admins : admin[t] # Null /\ admin[t].user = v
                              => admin[t].pc # "member"
      BY <1>2, <1>3, <2>1, <3>1
    <3>3. membership[v] = "inactive" <=> users[v].status = "inactive"
      BY <2>5, <3>2 DEF MembersAgree
    <3>4. users[h.user].status # "inactive" /\ h.next.status # "inactive"
      BY <1>3, <1>5, <1>14 DEF AdminCurrent, AdminFits
    <3>5. QED
      BY <1>7, <3>3, <3>4
  <2>6. QED
    BY <1>9, <1>12, <2>2, <2>3, <2>5 DEF AloneNow, HandlersCurrent
<1>15. ASSUME NEW g \in Operation, ~h.keep,
              admin' = [admin EXCEPT ![s] = g],
              g.pc = "member", g.user = h.user, g.next = h.next
       PROVE  AloneNow' /\ (MembersAgree => MembersAgree')
  <2>1. \A t \in Admins : admin'[t] = IF t = s THEN g ELSE admin[t]
    BY <1>1, <1>15 DEF TypeOK
  <2>2. g # Null
    BY AccessAssumption
  <2>3. OneHandler'
    BY <1>2, <1>3, <1>8, <1>15, <2>1 DEF AloneNow, OneHandler
  <2>4. \A t \in Admins : t # s /\ admin'[t] # Null => AdminCurrent(admin[t])'
    BY <1>13, <2>1 DEF AdminCurrent, RowFits
  <2>5. AdminCurrent(g)'
    BY <1>4, <1>5, <1>7, <1>15 DEF AdminCurrent, RowFits
  <2>6. AdminCurrent(admin[s])'
    BY <2>1, <2>5 DEF AdminCurrent, RowFits
  <2>7. ASSUME MembersAgree PROVE MembersAgree'
    <3>1. SUFFICES ASSUME NEW v \in Staff,
                          \A t \in Admins : admin'[t] # Null /\ admin'[t].user = v
                                              => admin'[t].pc # "member"
                   PROVE  membership[v] = "inactive" <=> users'[v].status = "inactive"
      BY <1>8 DEF MembersAgree
    <3>2. v # h.user
      BY <1>15, <2>1, <2>2, <3>1
    <3>3. \A t \in Admins : admin[t] # Null /\ admin[t].user = v
                              => admin[t].pc # "member"
      BY <1>2, <2>1, <3>1, <3>2
    <3>4. QED
      BY <1>7, <2>7, <3>2, <3>3 DEF MembersAgree
  <2>8. QED
    BY <1>9, <1>12, <2>3, <2>4, <2>6, <2>7 DEF AloneNow, HandlersCurrent
<1>16. QED
  BY <1>3, <1>14, <1>15

LEMMA MemberAlone ==
    ASSUME AccessTyped, AloneNow, NEW s \in Admins, AdminMember(s)
    PROVE  AloneNow' /\ (MembersAgree => MembersAgree')
<1>1. TypeOK
  BY DEF AccessTyped
<1>2. PICK h : h = admin[s]
  OBVIOUS
<1>3. /\ h \in Operation /\ h # Null /\ h.pc = "member" /\ h.user \in Staff
      /\ AdminCurrent(h)
  BY <1>1, <1>2, OperationTyped
     DEF AdminMember, AdminAt, AloneNow, HandlersCurrent
<1>4. /\ membership' = [membership EXCEPT ![h.user] = h.next.status]
      /\ admin' = [admin EXCEPT ![s] = Null]
      /\ UNCHANGED <<now, users, request, job, regime>>
  BY <1>2 DEF AdminMember, AdminEnds
<1>5. \A t \in Admins : admin'[t] = IF t = s THEN Null ELSE admin[t]
  BY <1>1, <1>4 DEF TypeOK
<1>6. \A v \in Staff :
        membership'[v] = IF v = h.user THEN h.next.status ELSE membership[v]
  BY <1>1, <1>4 DEF TypeOK
<1>7. OneHandler' /\ RowsFit'
  BY <1>4, <1>5 DEF AloneNow, OneHandler, RowsFit, RowFits
<1>8. HandlersCurrent'
  BY <1>4, <1>5 DEF AloneNow, HandlersCurrent, AdminCurrent, ReleaseCurrent,
                    Expired, RowFits
<1>9. ASSUME MembersAgree PROVE MembersAgree'
  <2>1. SUFFICES ASSUME NEW v \in Staff,
                        \A t \in Admins : admin'[t] # Null /\ admin'[t].user = v
                                            => admin'[t].pc # "member"
                 PROVE  membership'[v] = "inactive" <=> users[v].status = "inactive"
    BY <1>4 DEF MembersAgree
  <2>2. CASE v = h.user
    BY <1>3, <1>6, <2>2 DEF AdminCurrent
  <2>3. CASE v # h.user
    <3>1. \A t \in Admins : admin[t] # Null /\ admin[t].user = v
                              => admin[t].pc # "member"
      BY <1>2, <1>5, <2>1, <2>3
    <3>2. QED
      BY <1>6, <1>9, <2>3, <3>1 DEF MembersAgree
  <2>4. QED
    BY <2>2, <2>3
<1>10. QED
  BY <1>7, <1>8, <1>9 DEF AloneNow

\* A release writes a row that has expired and that nobody else is writing.
LEMMA ReleaseAlone ==
    ASSUME AccessTyped, AloneNow, NEW u \in Staff, NEW copy \in User,
           ReleaseCurrent(u, copy),
           \A s \in Admins : admin[s] # Null => admin[s].user # u,
           \A r \in Requests : request'[r] # Null => /\ request'[r] = request[r]
                                                     /\ request[r].user # u,
           \A v \in Staff : job'[v] # Null => job'[v] = job[v] /\ v # u,
           users' = [users EXCEPT ![u] =
                       Saved(users[u], copy, Unrestricted("active"))],
           UNCHANGED <<now, membership, admin, regime>>
    PROVE  AloneNow' /\ (MembersAgree => MembersAgree')
<1>1. TypeOK
  BY DEF AccessTyped
<1>2. PICK row : row = Unrestricted("active")
  OBVIOUS
<1>3. row \in User /\ RowFits(row) /\ row.status = "active"
  BY <1>2, UnrestrictedFits DEF Members
<1>4. \A v \in Staff : users'[v] = IF v = u THEN row ELSE users[v]
  BY <1>1, <1>2, <1>3, SavedTyped DEF TypeOK, ReleaseCurrent
<1>5. OneHandler'
  <2>1. /\ \A s \in Admins : admin[s] # Null => admin[s].user \in Staff
        /\ \A r \in Requests : request[r] # Null => request[r].user \in Staff
    BY <1>1, OperationTyped, ReleaseTyped
  <2>2. OneHandler
    BY DEF AloneNow
  <2>3. /\ \A s \in Admins : admin[s] # Null => job'[admin[s].user] = Null
        /\ \A r \in Requests : request'[r] # Null => job'[request[r].user] = Null
    BY <2>1, <2>2 DEF OneHandler
  <2>4. QED
    BY <2>2, <2>3 DEF OneHandler
<1>6. RowsFit'
  BY <1>3, <1>4 DEF AloneNow, RowsFit, RowFits
<1>7. \A s \in Admins : admin[s] # Null => users'[admin[s].user] = users[admin[s].user]
  BY <1>1, <1>4, OperationTyped
<1>8. \A r \in Requests : request'[r] # Null
                            => users'[request[r].user] = users[request[r].user]
  BY <1>1, <1>4, ReleaseTyped
<1>9. HandlersCurrent'
  <2>1. \A s \in Admins : admin'[s] # Null => AdminCurrent(admin[s])'
    BY <1>7 DEF AloneNow, HandlersCurrent, AdminCurrent, RowFits
  <2>2. \A r \in Requests :
           request'[r] # Null => ReleaseCurrent(request[r].user, request[r].copy)'
    BY <1>8 DEF AloneNow, HandlersCurrent, ReleaseCurrent, Expired
  <2>3. \A v \in Staff : job'[v] # Null => ReleaseCurrent(v, job[v])'
    BY <1>4 DEF AloneNow, HandlersCurrent, ReleaseCurrent, Expired
  <2>4. QED
    BY <2>1, <2>2, <2>3 DEF HandlersCurrent
<1>10. ASSUME MembersAgree PROVE MembersAgree'
  <2>1. users[u].status = "suspended"
    BY DEF ReleaseCurrent, Expired
  <2>2. QED
    BY <1>3, <1>4, <1>10, <2>1 DEF MembersAgree
<1>11. QED
  BY <1>5, <1>6, <1>9, <1>10 DEF AloneNow

LEMMA RequestReleasesAlone ==
    ASSUME AccessTyped, AloneNow, NEW r \in Requests, RequestReleases(r)
    PROVE  AloneNow' /\ (MembersAgree => MembersAgree')
<1>1. TypeOK
  BY DEF AccessTyped
<1>2. PICK h : h = request[r]
  OBVIOUS
<1>3. h # Null /\ h.user \in Staff /\ h.copy \in User
  BY <1>1, <1>2, ReleaseTyped DEF RequestReleases
<1>4. ReleaseCurrent(h.user, h.copy)
  BY <1>2, <1>3 DEF AloneNow, HandlersCurrent
<1>5. /\ users' = [users EXCEPT ![h.user] =
                     Saved(users[h.user], h.copy, Unrestricted("active"))]
      /\ request' = [request EXCEPT ![r] = Null]
      /\ UNCHANGED <<now, membership, admin, job, regime>>
  BY <1>2 DEF RequestReleases
<1>6. \A q \in Requests : request'[q] = IF q = r THEN Null ELSE request[q]
  BY <1>1, <1>5 DEF TypeOK
<1>7. \A s \in Admins : admin[s] # Null => admin[s].user # h.user
  BY <1>2, <1>3 DEF AloneNow, OneHandler
<1>8. \A q \in Requests :
        request'[q] # Null => request'[q] = request[q] /\ request[q].user # h.user
  BY <1>2, <1>3, <1>6 DEF AloneNow, OneHandler
<1>9. \A v \in Staff : job'[v] # Null => job'[v] = job[v] /\ v # h.user
  BY <1>2, <1>3, <1>5 DEF AloneNow, OneHandler
<1>10. QED
  BY <1>3, <1>4, <1>5, <1>7, <1>8, <1>9, ReleaseAlone

LEMMA JobReleasesAlone ==
    ASSUME AccessTyped, AloneNow, NEW u \in Staff, JobReleases(u)
    PROVE  AloneNow' /\ (MembersAgree => MembersAgree')
<1>1. TypeOK
  BY DEF AccessTyped
<1>2. PICK copy : copy = job[u]
  OBVIOUS
<1>3. copy # Null /\ copy \in User /\ ReleaseCurrent(u, copy)
  BY <1>1, <1>2 DEF JobReleases, TypeOK, AloneNow, HandlersCurrent
<1>4. /\ users' = [users EXCEPT ![u] =
                     Saved(users[u], copy, Unrestricted("active"))]
      /\ job' = [job EXCEPT ![u] = Null]
      /\ UNCHANGED <<now, membership, admin, request, regime>>
  BY <1>2 DEF JobReleases
<1>5. \A s \in Admins : admin[s] # Null => admin[s].user # u
  BY <1>2, <1>3 DEF AloneNow, OneHandler
<1>6. \A r \in Requests :
        request'[r] # Null => request'[r] = request[r] /\ request[r].user # u
  BY <1>2, <1>3, <1>4 DEF AloneNow, OneHandler
<1>7. \A v \in Staff : job'[v] # Null => job'[v] = job[v] /\ v # u
  BY <1>1, <1>4 DEF TypeOK
<1>8. QED
  BY <1>3, <1>4, <1>5, <1>6, <1>7, ReleaseAlone

LEMMA LoadsAlone ==
    ASSUME AccessTyped, AloneNow, Serialized,
           JobScan \/ \E r \in Requests, u \in Staff : RequestLoads(r, u)
    PROVE  AloneNow' /\ (MembersAgree => MembersAgree')
<1>1. TypeOK
  BY DEF AccessTyped
<1>2. UNCHANGED <<now, users, membership, admin, regime>>
  BY DEF JobScan, RequestLoads
<1>3. RowsFit' /\ (MembersAgree => MembersAgree')
  BY <1>2 DEF AloneNow, RowsFit, RowFits, MembersAgree
<1>4. \A s \in Admins : admin'[s] # Null => AdminCurrent(admin[s])'
  BY <1>2 DEF AloneNow, HandlersCurrent, AdminCurrent, RowFits
<1>5. CASE JobScan
  <2>1. /\ job' = [u \in Staff |-> IF Expired(users[u]) THEN users[u] ELSE Null]
        /\ request' = request
        /\ \A u \in Staff : Quiet(u)
    BY <1>5 DEF JobScan, MayStart
  <2>2. \A s \in Admins : admin[s] = Null
    BY <1>1, <2>1, OperationTyped DEF Quiet
  <2>3. \A r \in Requests : request[r] = Null
    BY <1>1, <2>1, ReleaseTyped DEF Quiet
  <2>4. OneHandler'
    BY <1>2, <2>1, <2>2, <2>3 DEF OneHandler
  <2>5. \A u \in Staff : job'[u] # Null => ReleaseCurrent(u, job[u])'
    BY <1>2, <2>1 DEF ReleaseCurrent, Expired
  <2>6. QED
    BY <1>3, <1>4, <2>1, <2>3, <2>4, <2>5 DEF AloneNow, HandlersCurrent
<1>6. ASSUME NEW r \in Requests, NEW u \in Staff, RequestLoads(r, u)
      PROVE  AloneNow'
  <2>1. PICK row : row = users[u]
    OBVIOUS
  <2>2. PICK h : h = [user |-> u, copy |-> row]
    OBVIOUS
  <2>3. /\ request' = [request EXCEPT ![r] = h]
        /\ job' = job /\ Expired(row) /\ Quiet(u)
    BY <1>6, <2>1, <2>2 DEF RequestLoads, MayStart
  <2>4. \A q \in Requests : request'[q] = IF q = r THEN h ELSE request[q]
    BY <1>1, <2>3 DEF TypeOK
  <2>5. OneHandler'
    BY <1>2, <2>2, <2>3, <2>4 DEF AloneNow, OneHandler, Quiet
  <2>6. \A q \in Requests :
          request'[q] # Null => ReleaseCurrent(request[q].user, request[q].copy)'
    BY <1>2, <2>1, <2>2, <2>3, <2>4
       DEF AloneNow, HandlersCurrent, ReleaseCurrent, Expired
  <2>7. \A v \in Staff : job'[v] # Null => ReleaseCurrent(v, job[v])'
    BY <1>2, <2>3 DEF AloneNow, HandlersCurrent, ReleaseCurrent, Expired
  <2>8. QED
    BY <1>3, <1>4, <2>5, <2>6, <2>7 DEF AloneNow, HandlersCurrent
<1>7. QED
  BY <1>3, <1>5, <1>6

LEMMA TickAlone ==
    ASSUME AccessTyped, AloneNow, Tick
    PROVE  AloneNow' /\ (MembersAgree => MembersAgree')
<1>1. \A row \in User : Expired(row) => Expired(row)'
  BY DEF Tick, Expired, AccessTyped, TypeOK, User, Times
<1>2. \A u \in Staff, copy \in User :
        ReleaseCurrent(u, copy) => ReleaseCurrent(u, copy)'
  BY <1>1 DEF ReleaseCurrent, Tick, Expired
<1>3. /\ \A r \in Requests : request[r] # Null => /\ request[r].user \in Staff
                                                  /\ request[r].copy \in User
      /\ \A u \in Staff : job[u] # Null => job[u] \in User
  BY ReleaseTyped DEF AccessTyped, TypeOK
<1>4. UNCHANGED <<users, membership, admin, request, job>>
  BY DEF Tick
<1>5. OneHandler' /\ RowsFit' /\ (MembersAgree => MembersAgree')
  BY <1>4 DEF AloneNow, OneHandler, RowsFit, RowFits, MembersAgree
<1>6. \A s \in Admins : admin'[s] # Null => AdminCurrent(admin[s])'
  BY <1>4 DEF AloneNow, HandlersCurrent, AdminCurrent, RowFits
<1>7. \A r \in Requests :
        request'[r] # Null => ReleaseCurrent(request[r].user, request[r].copy)'
  <2>1. SUFFICES ASSUME NEW r \in Requests, request[r] # Null
                 PROVE  ReleaseCurrent(request[r].user, request[r].copy)'
    BY <1>4
  <2>2. PICK h : h = request[r]
    OBVIOUS
  <2>3. ReleaseCurrent(h.user, h.copy)'
    BY <1>2, <1>3, <2>1, <2>2 DEF AloneNow, HandlersCurrent
  <2>4. QED
    BY <1>4, <2>2, <2>3 DEF ReleaseCurrent, Expired
<1>8. \A u \in Staff : job'[u] # Null => ReleaseCurrent(u, job[u])'
  <2>1. SUFFICES ASSUME NEW u \in Staff, job[u] # Null
                 PROVE  ReleaseCurrent(u, job[u])'
    BY <1>4
  <2>2. PICK copy : copy = job[u]
    OBVIOUS
  <2>3. ReleaseCurrent(u, copy)'
    BY <1>2, <1>3, <2>1, <2>2 DEF AloneNow, HandlersCurrent
  <2>4. QED
    BY <1>4, <2>2, <2>3 DEF ReleaseCurrent, Expired
<1>9. QED
  BY <1>5, <1>6, <1>7, <1>8 DEF AloneNow, HandlersCurrent

\* A failure or a restart takes handlers away.
LEMMA LossAlone ==
    ASSUME AccessTyped, AloneNow, Fails \/ Crash
    PROVE  AloneNow'
<1>1. TypeOK /\ UNCHANGED <<now, users>>
  BY DEF AccessTyped, Fails, Crash
<1>2. /\ \A s \in Admins : admin'[s] # Null => admin'[s] = admin[s]
      /\ \A r \in Requests : request'[r] # Null => request'[r] = request[r]
      /\ \A u \in Staff : job'[u] # Null => job'[u] = job[u]
  BY <1>1 DEF Fails, Crash, AdminEnds, TypeOK
<1>3. OneHandler'
  <2>1. /\ \A s \in Admins : admin[s] # Null => admin[s].user \in Staff
        /\ \A r \in Requests : request[r] # Null => request[r].user \in Staff
    BY <1>1, OperationTyped, ReleaseTyped
  <2>2. OneHandler
    BY DEF AloneNow
  <2>3. /\ \A s \in Admins : admin'[s] # Null => job'[admin[s].user] = Null
        /\ \A r \in Requests : request'[r] # Null => job'[request[r].user] = Null
    BY <1>2, <2>1, <2>2 DEF OneHandler
  <2>4. QED
    BY <1>2, <2>2, <2>3 DEF OneHandler
<1>4. RowsFit' /\ HandlersCurrent'
  BY <1>1, <1>2 DEF RowsFit, AloneNow, HandlersCurrent, AdminCurrent, ReleaseCurrent,
                    Expired, RowFits
<1>5. QED
  BY <1>3, <1>4 DEF AloneNow

LEMMA AccessInit == Init => AccessInv
<1> SUFFICES ASSUME Init PROVE AccessInv
  OBVIOUS
<1>1. Unrestricted("active") \in User /\ RowFits(Unrestricted("active"))
      /\ Unrestricted("active").status = "active"
  BY UnrestrictedFits DEF Members
<1>2. AccessTyped
  BY <1>1, AccessAssumption DEF Init, AccessTyped, TypeOK, Members, Times
<1>3. AloneNow /\ MembersAgree
  BY <1>1 DEF Init, AloneNow, OneHandler, RowsFit, HandlersCurrent, MembersAgree
<1>4. QED
  BY <1>2, <1>3 DEF AccessInv, AloneNow

LEMMA AccessStep == AccessInv /\ [Next]_vars => AccessInv'
<1> SUFFICES ASSUME AccessInv, [Next]_vars PROVE AccessInv'
  OBVIOUS
<1>1. AccessTyped /\ AccessTyped'
  BY AccessTypedStep DEF AccessInv
<1>2. regime' = regime
  BY DEF Next, vars, Tick, Fails, Crash, AdminOpens, Restrict, Lift, EditStatus,
     Remove, AdminLoads, AdminSave, AdminMember, RequestReleases, RequestLoads,
     JobScan, JobReleases
<1>3. ASSUME AloneNow, Serialized
      PROVE  AloneNow' /\ (~Faults /\ MembersAgree => MembersAgree')
  <2>1. CASE UNCHANGED vars
    BY <1>3, <2>1 DEF vars, AloneNow, OneHandler, RowsFit, HandlersCurrent,
       AdminCurrent, ReleaseCurrent, RowFits, Expired, MembersAgree
  <2>2. CASE Tick
    BY <1>1, <1>3, <2>2, TickAlone
  <2>3. CASE Fails \/ Crash
    <3>1. Faults
      BY <2>3 DEF Fails, Crash
    <3>2. QED
      BY <1>1, <1>3, <2>3, <3>1, LossAlone
  <2>4. CASE \E s \in Admins : AdminOpens(s) \/ AdminSave(s) \/ AdminMember(s)
    BY <1>1, <1>3, <2>4, OpensAlone, SaveAlone, MemberAlone
  <2>5. CASE \/ JobScan
             \/ \E r \in Requests, u \in Staff : RequestLoads(r, u)
    BY <1>1, <1>3, <2>5, LoadsAlone
  <2>6. CASE \/ \E r \in Requests : RequestReleases(r)
             \/ \E u \in Staff : JobReleases(u)
    BY <1>1, <1>3, <2>6, RequestReleasesAlone, JobReleasesAlone
  <2>7. QED
    BY <2>1, <2>2, <2>3, <2>4, <2>5, <2>6 DEF Next
<1>4. QED
  BY <1>1, <1>2, <1>3 DEF AccessInv, AloneNow, Serialized, Faults

LEMMA AccessAlways == Spec => []AccessInv
<1>1. Init => AccessInv
  BY AccessInit
<1>2. AccessInv /\ [Next]_vars => AccessInv'
  BY AccessStep
<1>3. QED
  BY <1>1, <1>2, PTL DEF Spec

-----------------------------------------------------------------------------
\* Every value of the state stays in its type, in any regime.
THEOREM AccessTypeCorrect == Spec => []TypeOK
<1>1. AccessInv => TypeOK
  BY DEF AccessInv, AccessTyped
<1>2. QED
  BY <1>1, AccessAlways, PTL

\* While the handlers of a user do not overlap, though they fail: only a
\* suspended user has a restriction, every one has; and, when nothing fails,
\* the membership says whether the user was removed (changeUserStatus,
\* updateUser, deleteUser, releaseExpiredRestriction).
THEOREM RowsAgree == Spec => []RowAgrees
<1>1. AccessInv => RowAgrees
  <2> SUFFICES ASSUME AccessInv, NEW u \in Staff
               PROVE  /\ regime # "free" =>
                           /\ users[u].kind # Null <=> users[u].status = "suspended"
                           /\ users[u].until # Null => users[u].kind = "leave"
                      /\ regime = "serialized" /\ Quiet(u) =>
                           (membership[u] = "inactive"
                              <=> users[u].status = "inactive")
    BY DEF RowAgrees
  <2>1. regime # "free" => RowFits(users[u])
    BY DEF AccessInv, RowsFit
  <2>2. regime = "serialized" /\ Quiet(u) =>
          (membership[u] = "inactive" <=> users[u].status = "inactive")
    BY DEF AccessInv, MembersAgree, Quiet
  <2>3. QED
    BY <2>1, <2>2 DEF RowFits
<1>2. QED
  BY <1>1, AccessAlways, PTL

\* The safety half of RestrictionsEnd: a release, by the job or by a request,
\* lets in nobody whose restriction has not ended, nor one who was removed
\* meanwhile (releaseExpiredRestriction saves the copy it judged).
THEOREM ReleasesAreDue == Spec => NoEarlyRelease
<1>1. AccessInv /\ [Next]_vars =>
        [\A u \in Staff :
           /\ regime # "free"
           /\ \/ JobReleases(u)
              \/ \E r \in Requests : request[r] # Null /\ request[r].user = u
                                     /\ RequestReleases(r)
           /\ users[u].status # "active"
           => Expired(users[u])]_vars
  <2> SUFFICES ASSUME AccessInv, regime # "free", NEW u \in Staff,
                      \/ JobReleases(u)
                      \/ \E r \in Requests : request[r] # Null /\ request[r].user = u
                                             /\ RequestReleases(r)
               PROVE  Expired(users[u])
    OBVIOUS
  <2>1. HandlersCurrent
    BY DEF AccessInv
  <2>2. QED
    BY <2>1 DEF HandlersCurrent, ReleaseCurrent, JobReleases
<1>2. QED
  BY <1>1, AccessAlways, PTL DEF Spec, NoEarlyRelease
=============================================================================
