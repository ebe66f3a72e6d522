------------------------------ MODULE WebSession ------------------------------
(***************************************************************************)
(* A browser tab of the web application and the routes that give it        *)
(* sessions. It keeps the session of a company, or of the global panel, a  *)
(* second one for the panel (authStore, platformAuthStore), and, while a   *)
(* global administrator is in a company, the session to come back to.      *)
(*                                                                         *)
(* A request is handled when its answer is read. Answers come in any       *)
(* order, and those of login, selection, switch and access are obeyed      *)
(* wherever the tab has gone since. A scene without "hurry" is of somebody *)
(* patient, who waits for the answer to what they asked for.               *)
(***************************************************************************)
EXTENDS Identity

VARIABLES
    session,        \* "ponto-smart:session"
    origin,         \* "ponto-smart:origin-session"
    platform,       \* "n3xtime:platform-session": its administrator
    choices,        \* the account whose companies the login page offers
    url,            \* of the route that is rendered
    asked,          \* the requests whose answer was not read yet
    globals         \* e-mails of the active platform users: never change

browser == <<session, origin, platform, choices, url, asked>>

\* by: the account, or the administrator of the panel.
Session ==
    [kind : {"tenant"}, by : Accounts, key : Keys, must : BOOLEAN]
      \cup [kind : {"platform"}, by : Emails, key : {Null}, must : {FALSE}]
      \cup [kind : {"access"}, by : Emails, key : Keys, must : {FALSE}]

ForPanel(g) == [kind |-> "platform", by |-> g, key |-> Null, must |-> FALSE]
ForAccess(g, k) == [kind |-> "access", by |-> g, key |-> k, must |-> FALSE]
ForTenant(a, k) == [kind |-> "tenant", by |-> a, key |-> k,
                    must |-> users[k].must]

Ask(op, token, of) == [op |-> op, token |-> token, of |-> of]
Effects == {"me", "load", "bootstrap"}      \* asked by a page that opens
Patient == "hurry" \notin Requests

Question ==
    [op : {"login"}, token : {Null}, of : Emails \X (0..MaxPasswords)]
      \cup [op : {"select"}, token : Accounts, of : Companies]
      \cup [op : {"switch"}, token : Session, of : Companies]
      \cup [op : {"access"}, token : Emails, of : Companies]
      \cup [op : {"load"}, token : {Null}, of : Emails]
      \cup [op : {"change", "me", "bootstrap"}, token : Session, of : {Null}]

WebTypeOK ==
    /\ session \in Session \cup {Null} /\ origin \in Session \cup {Null}
    /\ platform \in Emails \cup {Null}
    /\ choices \in Accounts \cup {Null}
    /\ url \in {"login", "password", "dashboard", "panel"}
    /\ asked \subseteq Question
    /\ globals \subseteq Emails

SameToken(x, y) == /\ x # Null /\ y # Null
                   /\ x.kind = y.kind /\ x.by = y.by /\ x.key = y.key
IsGlobal(x) == x # Null /\ x.kind \in {"platform", "access"}
Impersonating == session # Null /\ session.kind = "access"

\* A person with an account, a user in every company where the scene browses.
WebInit ==
    /\ session = Null /\ origin = Null /\ platform = Null /\ choices = Null
    /\ url = "login"
    /\ asked = {}
    /\ globals \in IF "browse" \in Requests THEN SUBSET Emails \ {{}} ELSE {{}}

-----------------------------------------------------------------------------
\* authenticate, for everything but a global administrator's token, which
\* opens only the routes of the platform.
Authenticated(x, op) ==
    LET u == users[x.key] IN
    /\ companies[x.key[1]] = "active"
    /\ u # Null /\ u.status = "active"
    /\ x.kind = "tenant" =>
         /\ accounts[x.by].status = "active"
         /\ members[x.key] # Null
         /\ members[x.key].account = x.by /\ members[x.key].status = "active"
         /\ u.must => op = "change"

\* ProtectedRoute and PlatformProtectedRoute: the page a route ends at.
Routed(u, s, p) ==
    CASE u = "panel" /\ (p # Null \/ IsGlobal(s)) -> "panel"
      [] u = "password" /\ s # Null -> "password"
      [] u = "dashboard" /\ s # Null ->
           IF s.must THEN "password"
           ELSE IF s.kind = "platform" THEN "panel" ELSE "dashboard"
      [] OTHER -> "login"

\* What the page asks for when it opens, or its token changes.
Opened(v, s, p) ==
    IF v = "dashboard" /\ ~(url = v /\ SameToken(session, s))
      THEN {Ask("me", s, Null)}
    ELSE IF v = "panel" /\ p # Null /\ url # v THEN {Ask("load", Null, p)}
    ELSE IF v = "panel" /\ p = Null /\ url # v THEN {Ask("bootstrap", s, Null)}
    ELSE {}

\* The answers that are still waited for: an effect's clean-up forgets its own.
Kept(rest, v, s) ==
    {r \in rest : /\ r.op = "me" => v = "dashboard" /\ SameToken(r.token, s)
                  /\ r.op = "bootstrap" => v = "panel"}

\* The stores are set, and the router goes to u.
Goes(u, s, p, rest) ==
    LET v == Routed(u, s, p) IN
    /\ session' = s
    /\ platform' = p
    /\ url' = v
    /\ asked' = Kept(rest, v, s) \cup Opened(v, s, p)
    /\ choices' = IF v = "login" THEN choices ELSE Null

\* clearSession, of the stores of companies.
Cleared == origin' = Null

-----------------------------------------------------------------------------
\* The person in front of the tab does something, once what they asked for
\* before was answered, if they are patient.
Acts ==
    /\ "browse" \in Requests
    /\ calls < Scenes[scene].calls
    /\ calls' = calls + 1
    /\ Patient => \A r \in asked : r.op \in Effects
    /\ UNCHANGED <<tables, passwords, links, work, scene, globals>>

Asks(r) ==
    /\ Acts
    /\ r \notin asked
    /\ asked' = asked \cup {r}
    /\ UNCHANGED <<session, origin, platform, choices, url>>

\* isLoading disables the buttons of the page.
Login0 == url = "login" /\ \A r \in asked : r.op \notin {"login", "select"}

SubmitLogin(e, typed) == Login0 /\ Asks(Ask("login", Null, <<e, typed>>))
SelectCompany(c) == /\ Login0 /\ choices # Null
                    /\ Asks(Ask("select", choices, c))
SwitchCompany(c) ==
    /\ url = "dashboard" /\ session.key[1] # c
    /\ Asks(Ask("switch", session, c))
AccessCompany(c) ==
    /\ url = "panel" /\ platform # Null
    /\ \A r \in asked : r.op # "access"
    /\ Asks(Ask("access", platform, c))
SubmitPassword == url = "password" /\ Asks(Ask("change", session, Null))

\* An address is typed, or a link followed.
Visits(u) ==
    /\ Acts
    /\ u # url
    /\ Goes(u, session, platform, asked)
    /\ UNCHANGED origin

\* handleLogout, of the dashboard: the panel's session stays.
Leaves ==
    /\ Acts
    /\ url = "dashboard"
    /\ Cleared
    /\ Goes("login", Null, platform, asked)

\* logout, of the panel.
LeavesPanel ==
    /\ Acts
    /\ url = "panel" /\ platform # Null
    /\ Cleared
    /\ Goes("login", Null, Null, asked)

\* returnToPlatform, with endImpersonation.
Returns ==
    /\ Acts
    /\ url = "dashboard" /\ Impersonating
    /\ origin' = Null
    /\ Goes("panel", origin, platform, asked)

-----------------------------------------------------------------------------
\* The users of an account in a company that a session may be signed for.
Enterable(a, c) == {k \in Offered(a) : /\ accounts[a].status = "active"
                                       /\ k[1] = c}

Answers(r) ==
    /\ r \in asked
    /\ Serialized => \A s \in Slots : work[s] = Null
    /\ UNCHANGED <<companies, members, links, work, calls, scene, globals>>

Reads(r) == Answers(r) /\ UNCHANGED <<accounts, users, passwords>>

\* A platform user's own password, which 0 stands for, goes first.
LoginAnswered(r) ==
    LET e == r.of[1]  rest == asked \ {r} IN
    /\ Reads(r) /\ r.op = "login"
    /\ UNCHANGED origin
    /\ \/ /\ e \in globals /\ r.of[2] = 0
          /\ Goes("panel", ForPanel(e), e, rest)
       \/ \E a \in ActiveAccountOf(e) :
            /\ r.of[2] \in Passwords
            /\ SamePassword(accounts[a].hash, r.of[2])
            /\ \/ \E k \in Offered(a) :
                    /\ Offered(a) = {k}
                    /\ Goes("dashboard", ForTenant(a, k), Null, rest)
               \/ /\ Cardinality(Offered(a)) > 1
                  /\ asked' = rest
                  /\ choices' = IF url = "login" THEN a ELSE choices
                  /\ UNCHANGED <<session, platform, url>>

SelectionAnswered(r) ==
    /\ Reads(r) /\ r.op = "select"
    /\ \E k \in Enterable(r.token, r.of) :
         Goes("dashboard", ForTenant(r.token, k), Null, asked \ {r})
    /\ UNCHANGED origin

\* A token that is no account's is refused.
SwitchAnswered(r) ==
    /\ Reads(r) /\ r.op = "switch" /\ r.token.kind = "tenant"
    /\ \E k \in Enterable(r.token.by, r.of) :
         Goes("dashboard", ForTenant(r.token.by, k), platform, asked \ {r})
    /\ UNCHANGED origin

\* The session keeps the token it had when it asked.
MeAnswered(r) ==
    /\ Reads(r) /\ r.op = "me" /\ r.token.kind = "tenant"
    /\ Authenticated(r.token, "me")
    /\ Goes(url, [r.token EXCEPT !.must = users[r.token.key].must], platform,
            asked \ {r})
    /\ UNCHANGED origin

\* Mutant of Remembered: whatever session there is.
RememberedLast == IF session # Null THEN session ELSE origin

\* beginImpersonation: the session to come back to.
Remembered == IF session # Null /\ ~Impersonating THEN session ELSE origin

\* accessCompany takes an active administrator of the company.
AccessAnswered(r) ==
    /\ Reads(r) /\ r.op = "access"
    /\ companies[r.of] = "active"
    /\ \E k \in Keys :
         /\ k[1] = r.of /\ users[k] # Null
         /\ users[k].role = "admin" /\ users[k].status = "active"
         /\ Goes("dashboard", ForAccess(r.token, k), platform, asked \ {r})
    /\ origin' = Remembered

\* bootstrapPlatformSession, with the token of the other store: one of an
\* access, as a session of the panel is never without the panel's.
BootstrapAnswered(r) ==
    /\ Reads(r) /\ r.op = "bootstrap"
    /\ Authenticated(r.token, "bootstrap")
    /\ users[r.token.key].email \in globals
    /\ Goes(url, session, users[r.token.key].email, asked \ {r})
    /\ UNCHANGED origin

\* changeAccountPassword, whose steps are those of OwnSave and OwnRows;
\* markPasswordChanged does nothing to a tab that was left.
PasswordAnswered(r) ==
    LET a == r.token.by IN
    /\ Answers(r) /\ r.op = "change" /\ r.token.kind = "tenant"
    /\ Authenticated(r.token, "change")
    /\ Chooses
    /\ accounts' = [accounts EXCEPT ![a].hash = Chosen]
    /\ users' = [k \in Keys |->
         IF k \in MembersOf(a)
           THEN [users[k] EXCEPT !.hash = Chosen, !.must = FALSE]
           ELSE users[k]]
    /\ Goes("dashboard",
            IF session = Null THEN Null ELSE [session EXCEPT !.must = FALSE],
            platform, asked \ {r})
    /\ UNCHANGED origin

\* The panel has its companies, or a request failed: nothing else changes.
NothingElse(r) ==
    /\ Reads(r) /\ r.op # "bootstrap"
    /\ asked' = asked \ {r}
    /\ UNCHANGED <<session, origin, platform, choices, url>>

\* The token of the panel has expired, for whatever else it was sent with too:
\* load and the bootstrap end every session of the tab, of whoever it is by
\* then.
PanelRefused(r) ==
    /\ Reads(r) /\ r.op \in {"load", "bootstrap"}
    /\ Cleared
    /\ Goes("login", Null, Null, {q \in asked \ {r} : q.op # "access"})

Asked == \/ \E e \in Emails, typed \in 0..passwords :
              SubmitLogin(e, typed)
         \/ \E c \in Companies :
              SelectCompany(c) \/ SwitchCompany(c) \/ AccessCompany(c)
         \/ SubmitPassword

Answered(r) == \/ LoginAnswered(r) \/ SelectionAnswered(r) \/ SwitchAnswered(r)
               \/ MeAnswered(r) \/ AccessAnswered(r) \/ BootstrapAnswered(r)
               \/ PasswordAnswered(r) \/ NothingElse(r) \/ PanelRefused(r)

WebStep == \/ Asked \/ Leaves \/ LeavesPanel \/ Returns
           \/ \E u \in {"login", "dashboard", "panel"} : Visits(u)
           \/ \E r \in asked : Answered(r)
=============================================================================
