------------------------------ MODULE Directory ------------------------------
(***************************************************************************)
(* The tables that say who may enter which company: companies, accounts    *)
(* (one password for all the companies of a person), users (the person in  *)
(* one company) and company_memberships, which links the two. Identity,    *)
(* Staff, Transfer and WebSession read and write them.                     *)
(*                                                                         *)
(* A number n is the n-th hash that bcrypt made. A hash is salted, so it   *)
(* is new even where the password is not: words says which hashes are of   *)
(* the same password. A person has one CPF, so a company has at most one   *)
(* row for them.                                                           *)
(*                                                                         *)
(* scene is an assumption on the requests, and never changes: which kinds  *)
(* there are, how many, whether they are serialized, one handled at a      *)
(* time, or may overlap, which passwords are chosen, and whether the       *)
(* database gives JSON columns as values (MySQL) or as text (MariaDB).     *)
(***************************************************************************)
EXTENDS Naturals, FiniteSets, Rows

CONSTANTS
    Companies,
    Primary,        \* getPrimaryCompany
    People,
    Emails,
    MaxAccounts,    \* bound: accounts ever created
    MaxPasswords,   \* bound: hashes ever made
    Slots,          \* bound: requests handled at once
    Scenes,
    Null

VARIABLES
    companies,      \* status of each, Null before it is provisioned
    accounts,
    users,          \* by company and person
    members,        \* company_memberships, by its user
    passwords,      \* how many hashes were made
    links,          \* password reset links that were sent
    work,           \* the request each slot is handling
    calls,
    scene

Keys == Companies \X People
Accounts == 1..MaxAccounts
Passwords == 1..MaxPasswords
Statuses == {"active", "inactive"}

ASSUME DirectoryAssumption ==
    /\ Primary \in Companies
    /\ IsFiniteSet(Companies) /\ IsFiniteSet(People)
    /\ MaxAccounts \in Nat \ {0} /\ MaxPasswords \in Nat \ {0}
    /\ \A n \in DOMAIN Scenes : /\ Scenes[n].serialized \in BOOLEAN
                                /\ Scenes[n].parsed \in BOOLEAN
                                /\ Scenes[n].calls \in Nat
    /\ Null \notin People \cup Emails \cup Passwords \cup Accounts
    /\ Null \notin {"active", "inactive", "suspended"}

Account == [email : Emails, hash : Passwords, status : Statuses]
User == [email : Emails, hash : Passwords, must : BOOLEAN, status : Statuses,
         role : {"employee", "admin"}, manager : People \cup {Null}]
Member == [account : Accounts, status : Statuses]

DirectoryTypeOK ==
    /\ companies \in [Companies -> {"active", "inactive", "suspended", Null}]
    /\ accounts \in [Accounts -> Account \cup {Null}]
    /\ users \in [Keys -> User \cup {Null}]
    /\ members \in [Keys -> Member \cup {Null}]
    /\ passwords \in 0..MaxPasswords
    /\ links \subseteq [account : Accounts, hash : Passwords]
    /\ scene \in DOMAIN Scenes
    /\ calls \in 0..Scenes[scene].calls

Serialized == Scenes[scene].serialized
Requests == Scenes[scene].kinds

\* bcrypt.compare, with the password that n is a hash of.
SamePassword(m, n) == Scenes[scene].words[m] = Scenes[scene].words[n]

\* The primary company has its administrator; the others are empty, or not
\* there yet. Where a scene browses, the administrator is one of each of them
\* and may still have a temporary password.
DirectoryInit ==
    \E p \in People, e \in Emails, must \in BOOLEAN :
      LET theirs == (IF "browse" \in Requests THEN Companies ELSE {Primary})
                      \X {p}
      IN /\ scene \in DOMAIN Scenes
         /\ must => "browse" \in Requests
         /\ companies = [c \in Companies |->
              IF c = Primary \/ "browse" \in Requests
                             \/ "company" \notin Requests
                THEN "active" ELSE Null]
         /\ accounts = [a \in Accounts |->
              IF a = 1 THEN [email |-> e, hash |-> 1, status |-> "active"]
              ELSE Null]
         /\ users = [k \in Keys |->
              IF k \in theirs
                THEN [email |-> e, hash |-> 1, must |-> must,
                      status |-> "active", role |-> "admin", manager |-> Null]
                ELSE Null]
         /\ members = [k \in Keys |->
              IF k \in theirs THEN [account |-> 1, status |-> "active"]
              ELSE Null]
         /\ passwords = 1
         /\ links = {}
         /\ work = [s \in Slots |-> Null]
         /\ calls = 0

tables == <<companies, accounts, users, members>>

-----------------------------------------------------------------------------
\* The account of an e-mail, by the unique index of accounts.
AccountOf(email) == {a \in Accounts : accounts[a] # Null
                                      /\ accounts[a].email = email}
ActiveAccountOf(email) == {a \in AccountOf(email) :
                             accounts[a].status = "active"}
NewAccount == CHOOSE a \in Accounts :
                /\ accounts[a] = Null
                /\ \A b \in 1..(a - 1) : accounts[b] # Null
MayAddAccount == \E a \in Accounts : accounts[a] = Null

MembersOf(a) == {k \in Keys : members[k] # Null /\ members[k].account = a}
ActiveMembersOf(a) == {k \in MembersOf(a) : members[k].status = "active"}

\* Users of a company with this e-mail, by the index of users.
Holders(company, email) == {k \in Keys : /\ k[1] = company
                                         /\ users[k] # Null
                                         /\ users[k].email = email}

\* The unique indexes of users.
MayAdd(k, email) == users[k] = Null /\ Holders(k[1], email) = {}

\* The unique indexes of company_memberships.
MayLink(a, k) == /\ users[k] # Null
                 /\ members[k] = Null
                 /\ \A o \in MembersOf(a) : o[1] # k[1]

-----------------------------------------------------------------------------
Handling(s, op, at) == /\ work[s] # Null
                       /\ work[s].op = op /\ work[s].at = at
Continues(s, h) == work' = [work EXCEPT ![s] = h]
Ends(s) == Continues(s, Null)

\* The next request arrives.
Arrives(s, op) ==
    /\ op \in Requests
    /\ work[s] = Null
    /\ Serialized => \A t \in Slots : work[t] = Null
    /\ calls < Scenes[scene].calls
    /\ calls' = calls + 1

Begins(s, h) == Arrives(s, h.op) /\ Continues(s, h)

\* bcrypt.hash of whatever password is chosen, one that is in use too.
Chosen == passwords + 1
Chooses == passwords < MaxPasswords /\ passwords' = Chosen

\* An error, or a restart, ends a request between two of its queries.
Fails(s) ==
    /\ work[s] # Null
    /\ Ends(s)
    /\ UNCHANGED <<tables, passwords, links, calls, scene>>
=============================================================================
