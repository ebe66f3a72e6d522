------------------------------ MODULE UserAccess ------------------------------
(***************************************************************************)
(* The access of the users of a company: administrators and leaders        *)
(* restrict it (suspensions, leaves, terminations), edit or remove the     *)
(* user, and a restriction whose end has passed is released, by the job    *)
(* that runs every minute and by any request of the user.                  *)
(*                                                                         *)
(* regime is an assumption on the environment, not on the code. It never   *)
(* changes: "serialized" lets no handlers of one user overlap, the release *)
(* included; "faulty" is the same with failing queries and restarts;       *)
(* "free" lets all of them overlap.                                        *)
(***************************************************************************)
EXTENDS Naturals, Rows

CONSTANTS
    Staff,          \* users that are not administrators
    Admins,         \* bound: administrative requests in flight at once
    Requests,       \* bound: requests of the users being authenticated
    MaxTime,        \* bound: the last instant of the model
    Null,
    Regimes         \* those an instance looks at

VARIABLES
    now,
    users,          \* users: status and restriction
    membership,     \* company_memberships.status of each user
    admin,          \* changeUserStatus, updateUser and deleteUser in flight
    request,        \* users being authenticated whose restriction has expired
    job,            \* releaseAllExpiredRestrictions: the copies left to save
    regime

vars == <<now, users, membership, admin, request, job, regime>>

Serialized == regime # "free"
Faults == regime = "faulty"

Times == 0..MaxTime

\* kind and until stand for the columns of a restriction, which are set and
\* cleared together: its type and its end, Null when it has none.
Kinds == {"leave", "termination"}
Statuses == {"active", "inactive", "suspended"}
User == [status : Statuses, kind : Kinds \cup {Null},
         until : Times \cup {Null}]
Members == {"active", "inactive"}

\* copy: the row as loaded; next: the instance as it will be saved; then the
\* membership is set to the status, unless keep.
Operation == [pc : {"save", "member"}, user : Staff, copy : User, next : User,
              keep : BOOLEAN]

Release == [user : Staff, copy : User]

ASSUME AccessAssumption ==
    /\ MaxTime \in Nat
    /\ Regimes \subseteq {"serialized", "faulty", "free"}
    /\ Null \notin Times /\ Null \notin Kinds /\ Null \notin User
    /\ Null \notin Operation /\ Null \notin Release

TypeOK ==
    /\ now \in Times
    /\ users \in [Staff -> User]
    /\ membership \in [Staff -> Members]
    /\ admin \in [Admins -> Operation \cup {Null}]
    /\ request \in [Requests -> Release \cup {Null}]
    /\ job \in [Staff -> User \cup {Null}]
    /\ regime \in Regimes

Unrestricted(status) == [status |-> status, kind |-> Null, until |-> Null]

Init ==
    /\ now = 0
    /\ users = [u \in Staff |-> Unrestricted("active")]
    /\ membership = [u \in Staff |-> "active"]
    /\ admin = [s \in Admins |-> Null]
    /\ request = [r \in Requests |-> Null]
    /\ job = [u \in Staff |-> Null]
    /\ regime \in Regimes

Quiet(u) ==
    /\ \A s \in Admins : admin[s] # Null => admin[s].user # u
    /\ \A r \in Requests : request[r] # Null => request[r].user # u
    /\ job[u] = Null

MayStart(u) == Serialized => Quiet(u)

Saved(row, copy, next) ==
    [status |-> Column(row.status, copy.status, next.status),
     kind   |-> Column(row.kind, copy.kind, next.kind),
     until  |-> Column(row.until, copy.until, next.until)]

-----------------------------------------------------------------------------
AdminAt(s, pc) == admin[s] # Null /\ admin[s].pc = pc
AdminEnds(s) == admin' = [admin EXCEPT ![s] = Null]

AdminLoads(s, u, next, keep) ==
    /\ admin[s] = Null
    /\ MayStart(u)
    /\ admin' = [admin EXCEPT ![s] =
                   [pc |-> "save", user |-> u, copy |-> users[u],
                    next |-> next, keep |-> keep]]
    /\ UNCHANGED <<now, users, membership, request, job, regime>>

\* changeUserStatus restricts: a termination has no end, a leave may have
\* one (which may already have passed), or lifts the restriction.
Restrict(s, u, kind, until) ==
    /\ users[u].status # "inactive"
    /\ kind = "termination" => until = Null
    /\ AdminLoads(s, u, [status |-> "suspended", kind |-> kind,
                         until |-> until], TRUE)

Lift(s, u) ==
    /\ users[u].status # "inactive"
    /\ AdminLoads(s, u, Unrestricted("active"), TRUE)

\* Mutant of EditStatus: the restriction does not stop the edition.
EditSuspended(s, u, status) ==
    AdminLoads(s, u, [users[u] EXCEPT !.status = status], FALSE)

\* updateUser with a status: refused while the user is restricted.
EditStatus(s, u, status) ==
    /\ users[u].status # "suspended"
    /\ AdminLoads(s, u, [users[u] EXCEPT !.status = status], FALSE)

\* deleteUser keeps the row, inactive.
Remove(s, u) == AdminLoads(s, u, Unrestricted("inactive"), FALSE)

AdminSave(s) ==
    LET h == admin[s] IN
    /\ AdminAt(s, "save")
    /\ users' = [users EXCEPT ![h.user] = Saved(@, h.copy, h.next)]
    /\ IF h.keep THEN AdminEnds(s)
                 ELSE admin' = [admin EXCEPT ![s].pc = "member"]
    /\ UNCHANGED <<now, membership, request, job, regime>>

\* Mutant of AdminMember: the membership is left as it is.
AdminMemberKept(s) ==
    /\ AdminAt(s, "member")
    /\ AdminEnds(s)
    /\ UNCHANGED <<now, users, membership, request, job, regime>>

AdminMember(s) ==
    /\ AdminAt(s, "member")
    /\ membership' = [membership EXCEPT ![admin[s].user] = admin[s].next.status]
    /\ AdminEnds(s)
    /\ UNCHANGED <<now, users, request, job, regime>>

-----------------------------------------------------------------------------
Expired(row) ==
    /\ row.status = "suspended"
    /\ row.until # Null
    /\ row.until <= now

\* authenticate (and the list of an account's companies) loads the user and
\* releases a restriction that has expired in the copy it loaded.
RequestLoads(r, u) ==
    /\ request[r] = Null
    /\ MayStart(u)
    /\ Expired(users[u])
    /\ request' = [request EXCEPT ![r] = [user |-> u, copy |-> users[u]]]
    /\ UNCHANGED <<now, users, membership, admin, job, regime>>

RequestReleases(r) ==
    /\ request[r] # Null
    /\ LET u == request[r].user IN
       users' = [users EXCEPT ![u] = Saved(@, request[r].copy,
                                           Unrestricted("active"))]
    /\ request' = [request EXCEPT ![r] = Null]
    /\ UNCHANGED <<now, membership, admin, job, regime>>

\* Mutant of JobScan: every restriction that has an end is released.
JobScanEarly ==
    /\ \A u \in Staff : job[u] = Null
    /\ \A u \in Staff : MayStart(u)
    /\ job' = [u \in Staff |-> IF users[u].until # Null THEN users[u] ELSE Null]
    /\ UNCHANGED <<now, users, membership, admin, request, regime>>

\* Mutant of JobScan: the end itself is not yet past the end.
JobScanStrict ==
    /\ \A u \in Staff : job[u] = Null /\ MayStart(u)
    /\ \E u \in Staff : Expired(users[u]) /\ users[u].until < now
    /\ job' = [u \in Staff |->
                 IF Expired(users[u]) /\ users[u].until < now
                   THEN users[u] ELSE Null]
    /\ UNCHANGED <<now, users, membership, admin, request, regime>>

\* The job loads every user whose restriction has expired, and releases each
\* from its copy. (That a run is slower than a minute is left out.)
JobScan ==
    /\ \A u \in Staff : job[u] = Null
    /\ \E u \in Staff : Expired(users[u])
    /\ \A u \in Staff : MayStart(u)
    /\ job' = [u \in Staff |-> IF Expired(users[u]) THEN users[u] ELSE Null]
    /\ UNCHANGED <<now, users, membership, admin, request, regime>>

JobReleases(u) ==
    /\ job[u] # Null
    /\ users' = [users EXCEPT ![u] = Saved(@, job[u], Unrestricted("active"))]
    /\ job' = [job EXCEPT ![u] = Null]
    /\ UNCHANGED <<now, membership, admin, request, regime>>

-----------------------------------------------------------------------------
Tick ==
    /\ now < MaxTime
    /\ now' = now + 1
    /\ UNCHANGED <<users, membership, admin, request, job, regime>>

\* A query of a request is rejected; what was written stays.
Fails ==
    /\ Faults
    /\ \/ \E s \in Admins : admin[s] # Null /\ AdminEnds(s)
                            /\ UNCHANGED <<request, job>>
       \/ \E r \in Requests :
            /\ request[r] # Null
            /\ request' = [request EXCEPT ![r] = Null]
            /\ UNCHANGED <<admin, job>>
    /\ UNCHANGED <<now, users, membership, regime>>

\* A restart loses what is in flight.
Crash ==
    /\ Faults
    /\ admin' = [s \in Admins |-> Null]
    /\ request' = [r \in Requests |-> Null]
    /\ job' = [u \in Staff |-> Null]
    /\ UNCHANGED <<now, users, membership, regime>>

AdminOpens(s) ==
    \E u \in Staff :
      \/ \E kind \in Kinds, until \in Times \cup {Null} :
           Restrict(s, u, kind, until)
      \/ Lift(s, u)
      \/ \E status \in Members : EditStatus(s, u, status)
      \/ Remove(s, u)

Next ==
    \/ Tick \/ Fails \/ Crash
    \/ \E s \in Admins : AdminOpens(s) \/ AdminSave(s) \/ AdminMember(s)
    \/ \E r \in Requests :
         RequestReleases(r) \/ \E u \in Staff : RequestLoads(r, u)
    \/ JobScan
    \/ \E u \in Staff : JobReleases(u)

Spec == Init /\ [][Next]_vars

\* The timer fires again and again and the event loop resolves what was
\* started; nobody has to send a request.
Fairness ==
    /\ WF_vars(JobScan)
    /\ \A u \in Staff : WF_vars(JobReleases(u))
    /\ \A s \in Admins : WF_vars(AdminSave(s) \/ AdminMember(s))
    /\ \A r \in Requests : WF_vars(RequestReleases(r))

FairSpec == Spec /\ Fairness

-----------------------------------------------------------------------------
\* A row says one thing: only a suspended user has a restriction, and every
\* suspended user has one. Once the handlers of a user who was removed are
\* done, there is no membership to enter with, and a user who was not can use
\* theirs.
RowAgrees ==
    \A u \in Staff :
      /\ regime # "free" =>
           /\ users[u].kind # Null <=> users[u].status = "suspended"
           /\ users[u].until # Null => users[u].kind = "leave"
      /\ regime = "serialized" /\ Quiet(u) =>
           (membership[u] = "inactive" <=> users[u].status = "inactive")

\* A release, by the job or by a request, lets in nobody whose restriction
\* has not ended (afastamentos "com data final liberam o acesso
\* automaticamente após o fim do dia"), nor one who was removed; not when the
\* administrator restricts the user again between its read and its write.
NoEarlyRelease ==
    [][\A u \in Staff :
         /\ regime # "free"
         /\ \/ JobReleases(u)
            \/ \E r \in Requests : request[r] # Null /\ request[r].user = u
                                   /\ RequestReleases(r)
         /\ users[u].status # "active"
         => Expired(users[u])]_vars

\* And however handlers overlap, a restriction that has ended does not last:
\* the user is let in, or given another status or another end.
RestrictionsEnd ==
    /\ NoEarlyRelease
    /\ \A u \in Staff :
         regime = "free" /\ Expired(users[u]) ~> ~Expired(users[u])
=============================================================================
