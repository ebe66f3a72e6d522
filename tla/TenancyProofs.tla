---------------------------- MODULE TenancyProofs ----------------------------
(***************************************************************************)
(* Accounts, staff, transfers and the browser, proved for every number of  *)
(* companies, people, accounts, passwords and slots. Whatever overlaps,    *)
(* rows and requests have their types, a link opens its account once, an   *)
(* import restores its dump and a tab is of one person. Where nothing      *)
(* overlaps, a temporary mark falls with its password. Where nothing that  *)
(* renames or replaces users does, memberships are of one person and who   *)
(* logs in is offered every company.                                       *)
(***************************************************************************)
EXTENDS Tenancy, FiniteSetTheorems, WellFoundedInduction, TLAPS

-----------------------------------------------------------------------------
(***************************************************************************)
(* The invariant of the rows and of the requests in flight.                *)
(***************************************************************************)
Alike(k, email) == users[k] # Null /\ users[k].email = email
Owns(a, email) == accounts[a] # Null /\ accounts[a].email = email

\* A membership has its user and its account, an e-mail one account, a link
\* its account.
Linked == \A k \in Keys : members[k] # Null =>
            users[k] # Null /\ accounts[members[k].account] # Null
OnePerEmail == \A a, b \in Accounts :
                 /\ accounts[a] # Null /\ accounts[b] # Null
                 /\ accounts[a].email = accounts[b].email
                 => a = b
LinksKnown == \A link \in links : accounts[link.account] # Null

\* No row, link, dump or request holds a password that was not chosen yet.
RowsPast(rows) == \A p \in People : rows[p] # Null => rows[p].hash <= passwords
HashesPast ==
    /\ \A a \in Accounts : accounts[a] # Null => accounts[a].hash <= passwords
    /\ \A k \in Keys : users[k] # Null => users[k].hash <= passwords
    /\ \A link \in links : link.hash <= passwords
    /\ \A c \in Companies : dumps[c] # Null => RowsPast(dumps[c].users)
    /\ staging # Null => RowsPast(staging.users)

Matched == \A k \in Keys : members[k] # Null =>
             accounts[members[k].account].email = users[k].email

TablesInv ==
    /\ DirectoryTypeOK /\ TransferTypeOK
    /\ Linked /\ OnePerEmail /\ LinksKnown /\ HashesPast
    /\ Serialized => Matched

\* What a request has by the query it waits for.
Formed(h) ==
    /\ h.op = "login" /\ h.at = "link" => h.account # Null
    /\ h.op = "create" => /\ h.at # "user" => h.hash # Null
                          /\ h.at = "member" => h.account # Null
    /\ h.op = "own" /\ h.at # "save" => h.hash # Null
    /\ h.op = "edit" /\ h.at = "member" => h.status # Null
    /\ h.op = "admin" /\ h.account # Null => h.hash # Null

AccountOps == {"login", "create", "own", "edit", "admin", "adminEdit"}

\* What it found is still there, and what it will write was chosen.
Known(h) ==
    /\ h.op \in AccountOps /\ h.account # Null => accounts[h.account] # Null
    /\ h.op = "login" => \A n \in h.matching : n <= passwords
    /\ h.op \in {"create", "own", "edit", "admin"} /\ h.hash # Null
         => h.hash <= passwords
    /\ h.op = "backup" => RowsPast(h.users)
    /\ h.op = "import" => RowsPast(h.dump.users)

\* When it is alone: the users and the account it found are those of its
\* e-mail, an edition's copies are the rows, a link still opens its account,
\* a new password is nobody's yet.
Holds(h) ==
    /\ h.op = "login" =>
         /\ \A k \in h.seen : Alike(k, h.email)
         /\ h.todo \subseteq h.seen
         /\ h.at = "link" => Owns(h.account, h.email)
    /\ h.op = "create" =>
         /\ h.at # "user" => Alike(h.key, h.email)
         /\ h.account # Null => Owns(h.account, h.email)
    /\ h.op = "admin" /\ h.account # Null => Owns(h.account, h.email)
    /\ h.op = "adminEdit" =>
         /\ members[h.key] # Null /\ members[h.key].account = h.account
         /\ Alike(h.key, h.user.email) /\ Owns(h.account, h.row.email)
         /\ h.email # h.row.email => MembersOf(h.account) = {h.key}
    /\ h.op = "own" =>
         /\ h.at = "save" /\ h.link # Null => accounts[h.account].hash = h.link
         /\ h.at # "save" =>
              /\ accounts[h.account] # Null /\ accounts[h.account].hash = h.hash
              /\ h.link # Null => ~SamePassword(h.hash, h.link)
              /\ \A k \in Keys : users[k] # Null => users[k].hash # h.hash
         /\ h.found \subseteq MembersOf(h.account)

OneAtATime ==
    Serialized => \A s, t \in Slots : work[s] # Null /\ work[t] # Null => s = t

WorkInv ==
    /\ work \in [Slots -> Handlers \cup {Null}]
    /\ OneAtATime
    /\ \A s \in Slots : work[s] # Null =>
         /\ Formed(work[s]) /\ Known(work[s])
         /\ Serialized => Holds(work[s])

DirectoryInv == TablesInv /\ WorkInv

-----------------------------------------------------------------------------
\* What the rows are, one by one.
LEMMA RowsTyped ==
    ASSUME TablesInv
    PROVE  /\ \A a \in Accounts : accounts[a] # Null =>
                /\ accounts[a] \in Account /\ accounts[a].email \in Emails
                /\ accounts[a].hash \in Passwords
                /\ accounts[a].status \in Statuses
           /\ \A k \in Keys : users[k] # Null =>
                /\ users[k] \in User /\ users[k].email \in Emails
                /\ users[k].hash \in Passwords /\ users[k].must \in BOOLEAN
                /\ users[k].status \in Statuses
                /\ users[k].manager \in People \cup {Null}
           /\ \A k \in Keys : members[k] # Null =>
                /\ members[k] \in Member /\ members[k].account \in Accounts
                /\ members[k].status \in Statuses
           /\ accounts \in [Accounts -> Account \cup {Null}]
           /\ users \in [Keys -> User \cup {Null}]
           /\ members \in [Keys -> Member \cup {Null}]
           /\ passwords \in Nat /\ MaxPasswords \in Nat
BY DirectoryAssumption
   DEF TablesInv, DirectoryTypeOK, Account, User, Member

\* What a slot is handling, by the name of the operation.
LEMMA Requested ==
    ASSUME NEW h \in Handlers
    PROVE  /\ h # Null
           /\ h.op = "login" => h \in Login
           /\ h.op = "own" => h \in OwnPassword
           /\ h.op = "create" => h \in Create
           /\ h.op = "edit" => h \in Edit
           /\ h.op = "admin" => h \in NewAdmin
           /\ h.op = "adminEdit" => h \in AdminEdit
           /\ h.op = "backup" => h \in Backup
           /\ h.op = "import" => h \in Import
<1>1. /\ \A x \in Login : x.op = "login"
      /\ \A x \in OwnPassword : x.op = "own"
      /\ \A x \in Create : x.op = "create"
      /\ \A x \in Edit : x.op = "edit"
      /\ \A x \in NewAdmin : x.op = "admin"
      /\ \A x \in AdminEdit : x.op = "adminEdit"
      /\ \A x \in Backup : x.op = "backup"
      /\ \A x \in Import : x.op = "import"
  <2>1. /\ \A x \in Login : x.op = "login"
        /\ \A x \in OwnPassword : x.op = "own"
    BY DEF Login, OwnPassword
  <2>2. /\ \A x \in Create : x.op = "create"
        /\ \A x \in Edit : x.op = "edit"
    BY DEF Create, Edit
  <2>3. /\ \A x \in NewAdmin : x.op = "admin"
        /\ \A x \in AdminEdit : x.op = "adminEdit"
    BY DEF NewAdmin, AdminEdit
  <2>4. /\ \A x \in Backup : x.op = "backup"
        /\ \A x \in Import : x.op = "import"
    BY DEF Backup, Import
  <2> QED
    BY <2>1, <2>2, <2>3, <2>4
<1> QED
  BY <1>1, TenancyAssumption DEF Handlers

\* The first free id is free.
LEMMA NewAccountIsFree ==
    ASSUME MayAddAccount
    PROVE  NewAccount \in Accounts /\ accounts[NewAccount] = Null
<1> DEFINE free == {a \in Accounts : accounts[a] = Null}
<1> DEFINE R == OpToRel(<, Nat)
<1>1. free \in SUBSET Nat /\ free # {}
  BY DirectoryAssumption DEF MayAddAccount, Accounts
<1>2. IsWellFoundedOn(R, Nat)
  BY NatLessThanWellFounded
<1>3. \A x, y \in Nat : x < y => <<x, y>> \in R
  BY DEF OpToRel
<1> HIDE DEF R
<1>4. PICK a \in free : \A b \in free : <<b, a>> \notin R
  BY <1>1, <1>2, WFMin
<1>5. ASSUME NEW b \in 1..(a - 1) PROVE accounts[b] # Null
  <2>1. a \in Nat /\ b \in Nat /\ b < a /\ b \in Accounts
    BY <1>1, <1>4, DirectoryAssumption DEF Accounts
  <2>2. b \notin free
    BY <1>3, <1>4, <2>1, Zenon
  <2> QED
    BY <2>1, <2>2
<1>6. \E x \in Accounts : /\ accounts[x] = Null
                          /\ \A b \in 1..(x - 1) : accounts[b] # Null
  BY <1>4, <1>5
<1> QED
  BY <1>6 DEF NewAccount

-----------------------------------------------------------------------------
(***************************************************************************)
(* Requests in flight.                                                     *)
(***************************************************************************)
\* What every step does to what requests know: accounts stay, and passwords
\* are chosen one after the other.
Grows ==
    /\ scene' = scene
    /\ passwords' \in 0..MaxPasswords /\ passwords <= passwords'
    /\ \A a \in Accounts : accounts[a] # Null => accounts'[a] # Null

\* Passwords only grow in number: what was chosen stays chosen.
LEMMA RowsPastStays ==
    ASSUME NEW rows \in [People -> User \cup {Null}], TablesInv,
           RowsPast(rows), Grows
    PROVE  RowsPast(rows)'
<1>1. \A p \in People : rows[p] # Null => rows[p].hash \in Nat
  BY DirectoryAssumption DEF User, Passwords
<1>2. passwords \in Nat /\ passwords' \in Nat /\ passwords <= passwords'
  BY RowsTyped DEF Grows
<1> QED
  BY <1>1, <1>2 DEF RowsPast

\* What a request knows stays true while others move.
LEMMA KnownStays ==
    ASSUME NEW h \in Handlers, TablesInv, Known(h), Grows
    PROVE  Known(h)'
<1>1. passwords \in Nat /\ passwords' \in Nat /\ passwords <= passwords'
  BY RowsTyped DEF Grows
<1>2. h.op \in AccountOps /\ h.account # Null => accounts'[h.account] # Null
  <2> SUFFICES ASSUME h.op \in AccountOps, h.account # Null
               PROVE  h.account \in Accounts
    BY DEF Known, Grows
  <2> QED
    BY Requested
       DEF AccountOps, Login, OwnPassword, Create, Edit, NewAdmin, AdminEdit
<1>3. /\ h.op = "login" => h.matching \subseteq Nat
      /\ h.op \in {"create", "own", "edit", "admin"} /\ h.hash # Null
           => h.hash \in Nat
  BY Requested, DirectoryAssumption
     DEF Login, OwnPassword, Create, Edit, NewAdmin, Passwords
<1>4. h.op = "backup" => RowsPast(h.users)'
  BY RowsPastStays, Requested DEF Backup, Known
<1>5. h.op = "import" => RowsPast(h.dump.users)'
  <2> SUFFICES ASSUME h.op = "import" PROVE RowsPast(h.dump.users)'
    OBVIOUS
  <2>1. h.dump \in Dump
    BY Requested DEF Import
  <2>2. h.dump.users \in [People -> User \cup {Null}]
    BY <2>1 DEF Dump
  <2> QED
    BY <2>2, RowsPastStays DEF Known
<1> QED
  BY <1>1, <1>2, <1>3, <1>4, <1>5 DEF Known

\* No other slot is handling anything, when requests do not overlap.
Alone(s) == Serialized => \A t \in Slots \ {s} : work[t] = Null

\* Where requests do not overlap, one that is handled is the only one.
LEMMA IsAlone ==
    ASSUME DirectoryInv, NEW s \in Slots, work[s] # Null
    PROVE  Alone(s)
BY DEF DirectoryInv, WorkInv, OneAtATime, Alone

\* A request arrives, goes on or ends.
LEMMA GoesOn ==
    ASSUME DirectoryInv, Grows, NEW s \in Slots, Alone(s),
           NEW h \in Handlers \cup {Null}, Continues(s, h),
           h # Null => Formed(h) /\ Known(h)' /\ (Serialized => Holds(h)')
    PROVE  WorkInv'
<1>1. /\ work' \in [Slots -> Handlers \cup {Null}]
      /\ work'[s] = h
      /\ \A t \in Slots \ {s} : work'[t] = work[t]
  BY DEF DirectoryInv, WorkInv, Continues
<1>2. Serialized' = Serialized
  BY DEF Grows, Serialized
<1>3. OneAtATime'
  BY <1>1, <1>2 DEF OneAtATime, Alone
<1>4. ASSUME NEW t \in Slots, work'[t] # Null, t # s
      PROVE  /\ Formed(work'[t]) /\ Known(work[t])'
             /\ Serialized => Holds(work[t])'
  <2>1. PICK g \in Handlers : g = work[t] /\ g = work'[t]
    BY <1>1, <1>4 DEF DirectoryInv, WorkInv
  <2>2. Formed(g) /\ Known(g) /\ g # Null
    BY <2>1, Requested DEF DirectoryInv, WorkInv
  <2>3. Known(g)'
    BY <2>2, KnownStays DEF DirectoryInv
  <2>4. ~Serialized
    BY <1>4, <2>1, <2>2 DEF Alone
  <2> QED
    BY <1>1, <1>4, <2>1, <2>2, <2>3, <2>4
<1>5. ASSUME NEW t \in Slots, work'[t] # Null
      PROVE  Formed(work[t])' /\ Known(work[t])' /\ (Serialized => Holds(work[t]))'
  <2>1. CASE t = s
    <3>1. work'[t] = h /\ h # Null
      BY <1>1, <1>5, <2>1
    <3>2. Formed(h)'
      BY <3>1 DEF Formed
    <3> QED
      BY <1>2, <3>1, <3>2
  <2>2. CASE t # s
    <3>1. work'[t] = work[t]
      BY <1>1, <2>2
    <3>2. ~Serialized
      <4>1. work[t] # Null
        BY <1>5, <3>1
      <4> QED
        BY <2>2, <4>1 DEF Alone
    <3> QED
      BY <1>2, <1>4, <1>5, <2>2, <3>1, <3>2 DEF Formed
  <2> QED
    BY <2>1, <2>2
<1> QED
  BY <1>1, <1>3, <1>5 DEF WorkInv

\* A request ends: no other is disturbed.
LEMMA Ending ==
    ASSUME DirectoryInv, Grows, NEW s \in Slots, work[s] # Null, Ends(s)
    PROVE  WorkInv'
BY GoesOn, IsAlone DEF Ends

\* A request that arrives finds no other, where they do not overlap.
LEMMA Arriving ==
    ASSUME DirectoryInv, NEW s \in Slots, NEW op, Arrives(s, op)
    PROVE  /\ Alone(s)
           /\ calls' \in 0..Scenes[scene].calls
           /\ Serialized => \A t \in Slots : work[t] = Null
BY DirectoryAssumption DEF Arrives, Alone, DirectoryInv, TablesInv,
   DirectoryTypeOK

\* The tables of Transfer stay.
transferVars == <<marks, held, dumps, staging, importing>>

LEMMA RowsStay ==
    ASSUME TablesInv, UNCHANGED <<tables, passwords, scene, transferVars>>,
           calls' \in 0..Scenes[scene].calls,
           links' \in SUBSET [account : Accounts, hash : Passwords],
           \A link \in links' : accounts[link.account] # Null
                                /\ link.hash <= passwords
    PROVE  TablesInv' /\ Grows
<1>1. TablesInv'
  BY DEF TablesInv, DirectoryTypeOK, TransferTypeOK, Linked, OnePerEmail,
     LinksKnown, HashesPast, RowsPast, Matched, Serialized, tables, transferVars
<1>2. Grows
  BY RowsTyped DEF Grows, tables, TablesInv, DirectoryTypeOK
<1> QED
  BY <1>1, <1>2

\* Links are of accounts and hold passwords that were chosen.
LEMMA LinksPast ==
    ASSUME TablesInv
    PROVE  /\ links \in SUBSET [account : Accounts, hash : Passwords]
           /\ \A link \in links : accounts[link.account] # Null
                                  /\ link.hash <= passwords
BY DEF TablesInv, DirectoryTypeOK, LinksKnown, HashesPast

\* A request that writes no row arrives, goes on or ends.
LEMMA NothingWritten ==
    ASSUME DirectoryInv,
           UNCHANGED <<tables, passwords, links, scene, transferVars>>,
           calls' \in 0..Scenes[scene].calls,
           NEW s \in Slots, Alone(s),
           NEW h \in Handlers \cup {Null}, Continues(s, h),
           h # Null => /\ Formed(h) /\ Known(h)
                       /\ Serialized => Holds(h)
    PROVE  DirectoryInv'
<1>1. TablesInv' /\ Grows
  BY RowsStay, LinksPast DEF DirectoryInv
<1>2. h # Null => /\ Formed(h) /\ Known(h)'
                  /\ Serialized => Holds(h)'
  BY DEF Known, RowsPast, Holds, Alike, Owns, MembersOf, SamePassword, tables
<1>3. WorkInv'
  BY <1>1, <1>2, GoesOn
<1> QED
  BY <1>1, <1>3 DEF DirectoryInv

\* No row is added, lost, renamed or linked to another.
SameNames ==
    /\ \A k \in Keys : /\ members'[k] = Null <=> members[k] = Null
                       /\ members[k] # Null =>
                            members'[k].account = members[k].account
    /\ \A a \in Accounts : /\ accounts'[a] = Null <=> accounts[a] = Null
                           /\ accounts[a] # Null =>
                                accounts'[a].email = accounts[a].email
    /\ \A k \in Keys : /\ users'[k] = Null <=> users[k] = Null
                       /\ users[k] # Null => users'[k].email = users[k].email

\* No request takes a step.
LEMMA WorkStays ==
    ASSUME DirectoryInv, Grows, work' = work,
           Serialized => \/ \A s \in Slots : work[s] = Null
                         \/ UNCHANGED tables
    PROVE  WorkInv'
<1>1. Serialized' = Serialized
  BY DEF Grows, Serialized
<1>2. ASSUME NEW s \in Slots, work[s] # Null
      PROVE  /\ Formed(work[s])' /\ Known(work[s])'
             /\ Serialized => Holds(work[s])'
  <2>1. PICK h \in Handlers : h = work[s] /\ h = work'[s]
    BY <1>2 DEF DirectoryInv, WorkInv
  <2>2. Formed(h) /\ Known(h) /\ (Serialized => Holds(h))
    BY <1>2, <2>1 DEF DirectoryInv, WorkInv
  <2>3. Known(h)'
    BY <2>2, KnownStays DEF DirectoryInv
  <2>4. Serialized => Holds(h)'
    BY <1>2, <2>2
       DEF Holds, Alike, Owns, MembersOf, SamePassword, Grows, tables
  <2>5. Formed(h)'
    BY <2>2 DEF Formed
  <2> QED
    BY <2>1, <2>3, <2>4, <2>5
<1> QED
  BY <1>1, <1>2 DEF DirectoryInv, WorkInv, OneAtATime

-----------------------------------------------------------------------------
(***************************************************************************)
(* The handlers of accounts.                                               *)
(***************************************************************************)
\* The request a slot is handling, with what it knows.
LEMMA Handled ==
    ASSUME DirectoryInv, NEW s \in Slots, work[s] # Null
    PROVE  /\ work[s] \in Handlers
           /\ Formed(work[s]) /\ Known(work[s])
           /\ Serialized => Holds(work[s])
           /\ Alone(s)
BY IsAlone DEF DirectoryInv, WorkInv

\* Rows that are written with their types and with passwords that were
\* chosen.
LEMMA TablesKept ==
    ASSUME TablesInv, Grows, calls' \in 0..Scenes[scene].calls,
           UNCHANGED <<companies, links, transferVars>>,
           accounts' \in [Accounts -> Account \cup {Null}],
           users' \in [Keys -> User \cup {Null}],
           members' \in [Keys -> Member \cup {Null}],
           \A a \in Accounts :
             accounts'[a] # Null => \/ accounts'[a] = accounts[a]
                                    \/ accounts'[a].hash <= passwords',
           \A k \in Keys :
             users'[k] # Null => \/ users'[k] = users[k]
                                 \/ users'[k].hash <= passwords'
    PROVE  /\ DirectoryTypeOK' /\ TransferTypeOK'
           /\ LinksKnown' /\ HashesPast'
<1>1. passwords \in Nat /\ passwords' \in Nat /\ passwords <= passwords'
  BY RowsTyped DEF Grows
<1>2. DirectoryTypeOK'
  BY DEF DirectoryTypeOK, TablesInv, Grows
<1>3. TransferTypeOK'
  BY DEF TransferTypeOK, TablesInv, transferVars
<1>4. LinksKnown'
  BY DEF LinksKnown, TablesInv, DirectoryTypeOK, Grows
<1>5. \A a \in Accounts : accounts'[a] # Null => accounts'[a].hash <= passwords'
  <2> SUFFICES ASSUME NEW a \in Accounts, accounts'[a] # Null,
                      accounts'[a] = accounts[a]
               PROVE  accounts'[a].hash <= passwords'
    OBVIOUS
  <2>1. accounts[a].hash \in Nat
    BY RowsTyped, DirectoryAssumption DEF Passwords
  <2>2. accounts[a].hash <= passwords
    BY DEF TablesInv, HashesPast
  <2> QED
    BY <1>1, <2>1, <2>2
<1>6. \A k \in Keys : users'[k] # Null => users'[k].hash <= passwords'
  <2> SUFFICES ASSUME NEW k \in Keys, users'[k] # Null, users'[k] = users[k]
               PROVE  users'[k].hash <= passwords'
    OBVIOUS
  <2>1. users[k].hash \in Nat
    BY RowsTyped, DirectoryAssumption DEF Passwords
  <2>2. users[k].hash <= passwords
    BY DEF TablesInv, HashesPast
  <2> QED
    BY <1>1, <2>1, <2>2
<1>7. \A link \in links : link.hash <= passwords'
  <2> SUFFICES ASSUME NEW link \in links PROVE link.hash <= passwords'
    OBVIOUS
  <2>1. link.hash \in Nat /\ link.hash <= passwords
    BY DirectoryAssumption
       DEF TablesInv, DirectoryTypeOK, HashesPast, Passwords
  <2> QED
    BY <1>1, <2>1
<1>8. \A c \in Companies : dumps[c] # Null => RowsPast(dumps[c].users)'
  <2> SUFFICES ASSUME NEW c \in Companies, dumps[c] # Null
               PROVE  RowsPast(dumps[c].users)'
    OBVIOUS
  <2>1. dumps[c] \in Dump /\ dumps'[c] = dumps[c]
    BY DEF TablesInv, TransferTypeOK, transferVars
  <2>2. PICK rows \in [People -> User \cup {Null}] : rows = dumps[c].users
    BY <2>1 DEF Dump
  <2>3. RowsPast(rows)'
    BY <2>2, RowsPastStays DEF TablesInv, HashesPast
  <2> QED
    BY <2>1, <2>2, <2>3
<1>9. staging # Null => RowsPast(staging.users)'
  <2> SUFFICES ASSUME staging # Null PROVE RowsPast(staging.users)'
    OBVIOUS
  <2>1. staging \in Dump /\ staging' = staging
    BY DEF TablesInv, TransferTypeOK, transferVars
  <2>2. PICK rows \in [People -> User \cup {Null}] : rows = staging.users
    BY <2>1 DEF Dump
  <2>3. RowsPast(rows)'
    BY <2>2, RowsPastStays DEF TablesInv, HashesPast
  <2> QED
    BY <2>1, <2>2, <2>3
<1>10. HashesPast'
  BY <1>5, <1>6, <1>7, <1>8, <1>9 DEF HashesPast, transferVars
<1> QED
  BY <1>2, <1>3, <1>4, <1>10

LEMMA LoginStartKeeps ==
    ASSUME DirectoryInv, NEW s \in Slots, NEW email \in Emails,
           NEW typed \in 1..passwords, LoginStart(s, email, typed),
           UNCHANGED transferVars
    PROVE  DirectoryInv'
<1>1. PICK h : /\ h = [op |-> "login", at |-> "find", email |-> email,
                       typed |-> typed,
                       seen |-> {k \in Keys : /\ users[k] # Null
                                              /\ users[k].email = email
                                              /\ users[k].status = "active"},
                       matching |-> {n \in {users[k].hash :
                                              k \in {k \in Keys :
                                                /\ users[k] # Null
                                                /\ users[k].email = email
                                                /\ users[k].status = "active"}} :
                                       SamePassword(n, typed)},
                       account |-> Null, hash |-> Null, todo |-> {}]
               /\ Begins(s, h)
  BY DEF LoginStart
<1>2. /\ typed \in Passwords
      /\ \A n \in h.matching : n \in Passwords /\ n <= passwords
  <2>1. typed \in Passwords
    BY DirectoryAssumption
       DEF DirectoryInv, TablesInv, DirectoryTypeOK, Passwords
  <2>2. \A k \in Keys : users[k] # Null =>
          users[k].hash \in Passwords /\ users[k].hash <= passwords
    BY RowsTyped DEF DirectoryInv, TablesInv, HashesPast
  <2>3. \A n \in h.matching : \E k \in Keys : /\ users[k] # Null
                                               /\ n = users[k].hash
    BY <1>1
  <2> QED
    BY <2>1, <2>2, <2>3
<1>3. h \in Handlers
  BY <1>1, <1>2 DEF Login, Handlers
<1>4. Formed(h) /\ Known(h) /\ Holds(h)
  BY <1>1, <1>2 DEF Formed, Known, Holds, Alike, AccountOps
<1> QED
  BY <1>1, <1>3, <1>4, Arriving, NothingWritten DEF Begins, LoginStart

LEMMA LoginFindKeeps ==
    ASSUME DirectoryInv, NEW s \in Slots, LoginFind(s), UNCHANGED transferVars
    PROVE  DirectoryInv'
<1>1. PICK h \in Login : /\ h = work[s] /\ h.at = "find"
                         /\ Formed(h) /\ Known(h) /\ Alone(s)
                         /\ Serialized => Holds(h)
  BY Handled, Requested DEF LoginFind, Handling
<1>2. calls' \in 0..Scenes[scene].calls
  BY DEF LoginFind, DirectoryInv, TablesInv, DirectoryTypeOK
<1>3. CASE Ends(s)
  BY <1>1, <1>2, <1>3, NothingWritten DEF Ends, LoginFind
<1>4. ASSUME NEW g, g = [h EXCEPT !.at = "create"], Continues(s, g)
      PROVE  DirectoryInv'
  <2>1. g \in Handlers
    BY <1>1, <1>4 DEF Login, Handlers
  <2>2. Formed(g) /\ Known(g) /\ (Serialized => Holds(g))
    BY <1>1, <1>4 DEF Login, Formed, Known, Holds, AccountOps
  <2> QED
    BY <1>1, <1>2, <1>4, <2>1, <2>2, NothingWritten DEF LoginFind
<1>5. ASSUME NEW a \in ActiveAccountOf(h.email), NEW g, g = Found(h, a),
             Continues(s, g)
      PROVE  DirectoryInv'
  <2>1. a \in Accounts /\ Owns(a, h.email) /\ accounts[a].hash \in Passwords
    BY RowsTyped DEF ActiveAccountOf, AccountOf, Owns, DirectoryInv
  <2>2. /\ g \in Login /\ g.op = "login" /\ g.email = h.email
        /\ g.matching = h.matching /\ g.seen = h.seen /\ g.todo = h.seen
        /\ g.account = a
    BY <1>1, <1>5, <2>1 DEF Login, Found
  <2>3. Formed(g) /\ Known(g) /\ (Serialized => Holds(g))
    BY <1>1, <2>1, <2>2, DirectoryAssumption
       DEF Login, Formed, Known, Holds, AccountOps, Owns
  <2> QED
    BY <1>1, <1>2, <1>5, <2>2, <2>3, NothingWritten DEF LoginFind, Handlers
<1> QED
  BY <1>1, <1>3, <1>4, <1>5 DEF LoginFind

\* An account is added for an e-mail that has none.
LEMMA AccountAdded ==
    ASSUME TablesInv, NEW row \in Account, row.hash <= passwords,
           AccountOf(row.email) = {}, MayAddAccount,
           accounts' = [accounts EXCEPT ![NewAccount] = row],
           calls' \in 0..Scenes[scene].calls,
           UNCHANGED <<companies, users, members, passwords, links, scene,
                       transferVars>>
    PROVE  /\ TablesInv' /\ Grows
           /\ \E a \in Accounts : a = NewAccount /\ Owns(a, row.email)'
<1> PICK a : a = NewAccount
  OBVIOUS
<1>1. a \in Accounts /\ accounts[a] = Null
  BY NewAccountIsFree
<1>2. /\ accounts' \in [Accounts -> Account \cup {Null}]
      /\ accounts'[a] = row
      /\ \A b \in Accounts \ {a} : accounts'[b] = accounts[b]
  BY <1>1, RowsTyped
<1>3. row # Null
  BY TenancyAssumption
<1>4. Grows
  BY <1>1, <1>2, RowsTyped DEF Grows, TablesInv, DirectoryTypeOK
<1>5. DirectoryTypeOK' /\ TransferTypeOK' /\ LinksKnown' /\ HashesPast'
  BY <1>2, <1>4, RowsTyped, TablesKept
<1>6. \A k \in Keys : members[k] # Null => members[k].account \in Accounts \ {a}
  BY <1>1, RowsTyped DEF TablesInv, Linked
<1>7. Linked'
  BY <1>2, <1>6 DEF TablesInv, Linked
<1>8. (Serialized => Matched)'
  BY <1>2, <1>6 DEF TablesInv, Matched, Serialized
<1>9. \A b \in Accounts \ {a} : accounts[b] # Null =>
        accounts[b].email # row.email
  BY DEF AccountOf
<1>10. OnePerEmail'
  BY <1>2, <1>9 DEF TablesInv, OnePerEmail
<1> QED
  BY <1>1, <1>2, <1>3, <1>4, <1>5, <1>7, <1>8, <1>10 DEF TablesInv, Owns

LEMMA LoginCreateKeeps ==
    ASSUME DirectoryInv, NEW s \in Slots, LoginCreate(s), UNCHANGED transferVars
    PROVE  DirectoryInv'
<1>1. PICK h \in Login : /\ h = work[s] /\ h.at = "create"
                         /\ Formed(h) /\ Known(h) /\ Alone(s)
                         /\ Serialized => Holds(h)
  BY Handled, Requested DEF LoginCreate, Handling
<1>2. calls' \in 0..Scenes[scene].calls
  BY DEF LoginCreate, DirectoryInv, TablesInv, DirectoryTypeOK
<1>3. CASE Ends(s) /\ UNCHANGED accounts
  BY <1>1, <1>2, <1>3, NothingWritten DEF Ends, LoginCreate, tables
<1>4. ASSUME NEW n \in h.matching,
             AccountOf(h.email) = {},
             MayAddAccount,
             accounts' = [accounts EXCEPT ![NewAccount] =
                [email |-> h.email, hash |-> n, status |-> "active"]],
             Continues(s, [h EXCEPT !.at = "link", !.account = NewAccount,
                                    !.hash = n, !.todo = h.seen])
      PROVE  DirectoryInv'
  <2>1. PICK row \in Account : /\ row.email = h.email /\ row.hash = n
                               /\ row = [email |-> h.email, hash |-> n,
                                         status |-> "active"]
    BY <1>1 DEF Login, Account, Statuses
  <2>2. row.hash <= passwords
    BY <1>1, <2>1 DEF Known, Login
  <2>3. /\ TablesInv' /\ Grows
        /\ \E a \in Accounts : a = NewAccount /\ Owns(a, h.email)'
    BY <1>2, <1>4, <2>1, <2>2, AccountAdded DEF DirectoryInv, LoginCreate
  <2>4. PICK a \in Accounts : a = NewAccount /\ Owns(a, h.email)'
    BY <2>3
  <2>5. PICK g : g = [h EXCEPT !.at = "link", !.account = a,
                               !.hash = n, !.todo = h.seen]
    OBVIOUS
  <2>6. /\ g \in Login /\ g.op = "login" /\ g.email = h.email
        /\ g.matching = h.matching /\ g.seen = h.seen /\ g.todo = h.seen
        /\ g.account = a /\ Continues(s, g)
    BY <1>1, <1>4, <2>4, <2>5 DEF Login
  <2>7. \A k \in h.seen : Alike(k, h.email)' <=> Alike(k, h.email)
    BY DEF Alike, LoginCreate
  <2>8. Formed(g) /\ Known(g)' /\ (Serialized => Holds(g)')
    BY <1>1, <2>4, <2>6, <2>7, DirectoryAssumption
       DEF Login, Formed, Known, Holds, AccountOps, Owns, LoginCreate
  <2>9. WorkInv'
    BY <1>1, <2>3, <2>6, <2>8, GoesOn DEF Handlers
  <2> QED
    BY <2>3, <2>9 DEF DirectoryInv
<1> QED
  BY <1>1, <1>3, <1>4 DEF LoginCreate

\* A user who has none gets a membership.
LEMMA MemberAdded ==
    ASSUME TablesInv, NEW a \in Accounts, accounts[a] # Null, NEW k \in Keys,
           MayLink(a, k), NEW status \in Statuses,
           members' = [members EXCEPT ![k] = [account |-> a,
                                              status |-> status]],
           Serialized => users[k].email = accounts[a].email,
           calls' \in 0..Scenes[scene].calls,
           UNCHANGED <<companies, accounts, users, passwords, links, scene,
                       transferVars>>
    PROVE  TablesInv' /\ Grows
<1> PICK row \in Member : row.account = a
                          /\ row = [account |-> a, status |-> status]
  BY DEF Member
<1>1. users[k] # Null /\ members[k] = Null
  BY DEF MayLink
<1>2. /\ members' \in [Keys -> Member \cup {Null}]
      /\ members'[k] = row
      /\ \A o \in Keys \ {k} : members'[o] = members[o]
  BY RowsTyped
<1>3. Grows
  BY RowsTyped DEF Grows, TablesInv, DirectoryTypeOK
<1>4. DirectoryTypeOK' /\ TransferTypeOK' /\ LinksKnown' /\ HashesPast'
  BY <1>2, <1>3, RowsTyped, TablesKept
<1>5. Linked'
  BY <1>1, <1>2 DEF TablesInv, Linked
<1>6. (Serialized => Matched)'
  BY <1>2 DEF TablesInv, Matched, Serialized
<1>7. OnePerEmail'
  BY DEF TablesInv, OnePerEmail
<1> QED
  BY <1>3, <1>4, <1>5, <1>6, <1>7 DEF TablesInv

LEMMA LoginLinkKeeps ==
    ASSUME DirectoryInv, NEW s \in Slots, LoginLink(s), UNCHANGED transferVars
    PROVE  DirectoryInv'
<1>1. PICK h \in Login : /\ h = work[s] /\ h.at = "link" /\ h.op = "login"
                         /\ Formed(h) /\ Known(h) /\ Alone(s)
                         /\ Serialized => Holds(h)
  BY Handled, Requested DEF LoginLink, Handling
<1>2. calls' \in 0..Scenes[scene].calls
  BY DEF LoginLink, DirectoryInv, TablesInv, DirectoryTypeOK
<1>3. h.account \in Accounts /\ accounts[h.account] # Null
  BY <1>1 DEF Login, Formed, Known, AccountOps
<1>4. CASE Ends(s) /\ UNCHANGED members
  BY <1>1, <1>2, <1>4, NothingWritten DEF Ends, LoginLink, tables
<1>5. ASSUME NEW k \in h.todo, NEW g, g = [h EXCEPT !.todo = @ \ {k}],
             Continues(s, g)
      PROVE  /\ g \in Handlers /\ Formed(g) /\ Known(g)
             /\ Serialized => Holds(g)
  <2>1. /\ g \in Login /\ g.op = "login" /\ g.email = h.email /\ g.at = h.at
        /\ g.matching = h.matching /\ g.seen = h.seen /\ g.todo \subseteq h.todo
        /\ g.account = h.account
    BY <1>1, <1>5 DEF Login
  <2>2. Formed(g) /\ Known(g)
    BY <1>1, <2>1 DEF Formed, Known, AccountOps
  <2>3. Serialized => Holds(g)
    BY <1>1, <2>1 DEF Holds
  <2> QED
    BY <2>1, <2>2, <2>3 DEF Handlers
<1>6. ASSUME NEW k \in h.todo, UNCHANGED members,
             Continues(s, [h EXCEPT !.todo = @ \ {k}])
      PROVE  DirectoryInv'
  BY <1>1, <1>2, <1>5, <1>6, NothingWritten DEF LoginLink, tables
<1>7. ASSUME NEW k \in h.todo, MayLink(h.account, k),
             members' = [members EXCEPT ![k] =
                 [account |-> h.account, status |-> "active"]],
             Continues(s, [h EXCEPT !.todo = @ \ {k}])
      PROVE  DirectoryInv'
  <2>1. k \in Keys
    BY <1>1 DEF Login
  <2>2. Serialized => users[k].email = accounts[h.account].email
    BY <1>1 DEF Holds, Alike, Owns
  <2>3. TablesInv' /\ Grows
    BY <1>2, <1>3, <1>7, <2>1, <2>2, MemberAdded
       DEF DirectoryInv, LoginLink, Statuses
  <2>4. PICK g : g = [h EXCEPT !.todo = @ \ {k}]
    OBVIOUS
  <2>5. /\ g \in Handlers /\ Formed(g) /\ Known(g)
        /\ Serialized => Holds(g)
        /\ g.op = "login"
    BY <1>1, <1>5, <1>7, <2>4 DEF Login
  <2>6. Known(g)' /\ (Holds(g) => Holds(g)')
    BY <2>3, <2>5, KnownStays DEF DirectoryInv, Holds, Alike, Owns, LoginLink
  <2>7. WorkInv'
    BY <1>1, <1>7, <2>3, <2>4, <2>5, <2>6, GoesOn
  <2> QED
    BY <2>3, <2>7 DEF DirectoryInv
<1> QED
  BY <1>1, <1>4, <1>6, <1>7 DEF LoginLink

LEMMA LoginAnswerKeeps ==
    ASSUME DirectoryInv, NEW s \in Slots, LoginAnswer(s), UNCHANGED transferVars
    PROVE  DirectoryInv'
<1>1. calls' \in 0..Scenes[scene].calls /\ work[s] # Null /\ Alone(s)
  BY IsAlone DEF LoginAnswer, Handling, DirectoryInv, TablesInv, DirectoryTypeOK
<1> QED
  BY <1>1, NothingWritten DEF Ends, LoginAnswer

LEMMA FailsKeeps ==
    ASSUME DirectoryInv, NEW s \in Slots, Fails(s), UNCHANGED transferVars
    PROVE  DirectoryInv'
<1>1. calls' \in 0..Scenes[scene].calls /\ work[s] # Null /\ Alone(s)
  BY IsAlone DEF Fails, DirectoryInv, TablesInv, DirectoryTypeOK
<1> QED
  BY <1>1, NothingWritten DEF Ends, Fails

LEMMA AsksForLinkKeeps ==
    ASSUME DirectoryInv, NEW s \in Slots, NEW a \in Accounts, AsksForLink(s, a),
           UNCHANGED transferVars
    PROVE  DirectoryInv'
<1>1. /\ calls' \in 0..Scenes[scene].calls
      /\ Serialized => \A t \in Slots : work[t] = Null
  BY Arriving DEF AsksForLink
<1>2. PICK link : link = [account |-> a, hash |-> accounts[a].hash]
  OBVIOUS
<1>3. /\ link \in [account : Accounts, hash : Passwords]
      /\ accounts[link.account] # Null /\ link.hash <= passwords
  BY <1>2, RowsTyped DEF AsksForLink, DirectoryInv, TablesInv, HashesPast
<1>4. links' = links \cup {link}
  BY <1>2 DEF AsksForLink
<1>5. TablesInv' /\ Grows
  BY <1>1, <1>3, <1>4, RowsStay, LinksPast DEF AsksForLink, DirectoryInv
<1>6. WorkInv'
  BY <1>1, <1>5, WorkStays DEF AsksForLink
<1> QED
  BY <1>5, <1>6 DEF DirectoryInv

\* Rows that keep their names keep them linked.
LEMMA NamesKept ==
    ASSUME TablesInv, Grows, SameNames,
           DirectoryTypeOK', TransferTypeOK', LinksKnown', HashesPast'
    PROVE  TablesInv'
<1>1. \A k \in Keys : members[k] # Null => members[k].account \in Accounts
  BY RowsTyped
<1>2. Linked'
  BY <1>1 DEF TablesInv, Linked, SameNames
<1>3. OnePerEmail'
  BY DEF TablesInv, OnePerEmail, SameNames
<1>4. (Serialized => Matched)'
  BY <1>1 DEF TablesInv, Matched, Linked, SameNames, Serialized, Grows
<1> QED
  BY <1>2, <1>3, <1>4 DEF TablesInv

LEMMA OwnStartKeeps ==
    ASSUME DirectoryInv, NEW s \in Slots, NEW a \in Accounts,
           accounts[a] # Null, NEW link \in Passwords \cup {Null},
           link # Null => accounts[a].hash = link,
           OwnStart(s, a, link), UNCHANGED transferVars
    PROVE  DirectoryInv'
<1>1. PICK h : /\ h = [op |-> "own", at |-> "save", account |-> a,
                       link |-> link, hash |-> Null, found |-> {}]
               /\ Begins(s, h)
  BY DEF OwnStart
<1>2. h \in Handlers
  BY <1>1 DEF OwnPassword, Handlers
<1>3. Formed(h) /\ Known(h) /\ Holds(h)
  BY <1>1 DEF Formed, Known, Holds, AccountOps
<1> QED
  BY <1>1, <1>2, <1>3, Arriving, NothingWritten DEF Begins, OwnStart

LEMMA ChangeStartKeeps ==
    ASSUME DirectoryInv, NEW s \in Slots, NEW a \in Accounts,
           ChangeStart(s, a), UNCHANGED transferVars
    PROVE  DirectoryInv'
BY OwnStartKeeps DEF ChangeStart

LEMMA ResetStartKeeps ==
    ASSUME DirectoryInv, NEW s \in Slots, NEW link \in links,
           ResetStart(s, link), UNCHANGED transferVars
    PROVE  DirectoryInv'
<1>1. /\ link.account \in Accounts /\ link.hash \in Passwords
      /\ accounts[link.account] # Null
  BY DEF DirectoryInv, TablesInv, DirectoryTypeOK, LinksKnown
<1> QED
  BY <1>1, OwnStartKeeps DEF ResetStart

\* A new password was never chosen before.
LEMMA ChosenIsNew ==
    ASSUME TablesInv, Chooses
    PROVE  /\ Chosen \in Passwords /\ passwords' = Chosen
           /\ passwords' \in 0..MaxPasswords /\ passwords <= passwords'
           /\ Chosen > passwords /\ Chosen <= passwords'
           /\ \A k \in Keys : users[k] # Null => users[k].hash < Chosen
           /\ \A a \in Accounts : accounts[a] # Null => accounts[a].hash < Chosen
           /\ \A link \in links : link.hash < Chosen
<1>1. passwords \in Nat /\ passwords < MaxPasswords /\ MaxPasswords \in Nat
      /\ passwords' = passwords + 1
  BY RowsTyped DEF Chooses, Chosen
<1>2. /\ \A k \in Keys : users[k] # Null => users[k].hash \in Nat
      /\ \A a \in Accounts : accounts[a] # Null => accounts[a].hash \in Nat
      /\ \A link \in links : link.hash \in Nat
  BY RowsTyped, DirectoryAssumption DEF Passwords, TablesInv, DirectoryTypeOK
<1> QED
  BY <1>1, <1>2 DEF Chosen, Passwords, TablesInv, HashesPast

\* The password of an account is changed.
LEMMA AccountRehashed ==
    ASSUME TablesInv, Chooses, NEW a \in Accounts, accounts[a] # Null,
           accounts' = [accounts EXCEPT ![a].hash = Chosen],
           calls' \in 0..Scenes[scene].calls,
           UNCHANGED <<companies, users, members, links, scene, transferVars>>
    PROVE  TablesInv' /\ Grows
<1>1. Chosen \in Passwords /\ passwords' = Chosen
  BY ChosenIsNew
<1>2. PICK row \in Account : /\ row = [accounts[a] EXCEPT !.hash = Chosen]
                             /\ row.email = accounts[a].email
                             /\ row.hash = Chosen
  BY <1>1, RowsTyped DEF Account
<1>3. /\ accounts' \in [Accounts -> Account \cup {Null}]
      /\ accounts'[a] = row
      /\ \A b \in Accounts \ {a} : accounts'[b] = accounts[b]
      /\ row # Null
  BY <1>2, RowsTyped, TenancyAssumption
<1>4. Grows
  BY <1>3, ChosenIsNew DEF Grows
<1>5. DirectoryTypeOK' /\ TransferTypeOK' /\ LinksKnown' /\ HashesPast'
  BY <1>2, <1>3, <1>4, ChosenIsNew, RowsTyped, TablesKept
<1>6. SameNames
  BY <1>2, <1>3 DEF SameNames
<1> QED
  BY <1>4, <1>5, <1>6, NamesKept

LEMMA OwnSaveKeeps ==
    ASSUME DirectoryInv, NEW s \in Slots, OwnSave(s), UNCHANGED transferVars
    PROVE  DirectoryInv'
<1>1. PICK h \in OwnPassword :
        /\ h = work[s] /\ h.at = "save" /\ h.op = "own"
        /\ Formed(h) /\ Known(h) /\ Alone(s)
        /\ Serialized => Holds(h)
  BY Handled, Requested DEF OwnSave, Handling
<1>2. h.account \in Accounts /\ accounts[h.account] # Null
  BY <1>1, DirectoryAssumption DEF OwnPassword, Known, AccountOps
<1>3. TablesInv' /\ Grows
  <2>1. calls' \in 0..Scenes[scene].calls
    BY DEF OwnSave, DirectoryInv, TablesInv, DirectoryTypeOK
  <2> QED
    BY <1>1, <1>2, <2>1, AccountRehashed DEF OwnSave, DirectoryInv
<1>4. PICK g : g = [h EXCEPT !.at = "find", !.hash = passwords + 1]
  OBVIOUS
<1>5. passwords + 1 \in Passwords /\ passwords + 1 # Null
      /\ passwords + 1 <= passwords'
      /\ \A k \in Keys : users[k] # Null => users[k].hash # passwords + 1
  <2>1. \A k \in Keys : users[k] # Null => users[k].hash \in Nat
    BY RowsTyped, DirectoryAssumption DEF Passwords, DirectoryInv
  <2> QED
    BY <2>1, ChosenIsNew, RowsTyped, DirectoryAssumption
       DEF DirectoryInv, OwnSave, Chosen
<1>6. /\ g \in OwnPassword /\ g.op = "own" /\ g.at = "find"
      /\ g.account = h.account /\ g.hash = passwords + 1
      /\ g.link = h.link /\ g.found = h.found
  BY <1>1, <1>4, <1>5 DEF OwnPassword
<1>7. Formed(g) /\ Known(g)'
  BY <1>1, <1>2, <1>3, <1>5, <1>6 DEF Formed, Known, AccountOps, Grows
<1>8. Serialized => Holds(g)'
  <2> SUFFICES ASSUME Serialized PROVE Holds(g)'
    OBVIOUS
  <2>1. accounts'[h.account] # Null /\ accounts'[h.account].hash = passwords + 1
    BY <1>1, <1>2, <1>3, RowsTyped
       DEF OwnSave, Chosen, Account, Grows, DirectoryInv
  <2>2. g.link # Null => ~SamePassword(g.hash, g.link)'
    BY <1>1, <1>6 DEF OwnSave, MayChoose, Chosen, SamePassword
  <2>3. g.found \subseteq MembersOf(g.account)'
    BY <1>1, <1>6 DEF Holds, OwnSave, MembersOf
  <2> QED
    BY <1>5, <1>6, <2>1, <2>2, <2>3 DEF Holds, OwnSave
<1>9. WorkInv'
  BY <1>1, <1>3, <1>4, <1>6, <1>7, <1>8, GoesOn DEF OwnSave, Chosen, Handlers
<1> QED
  BY <1>3, <1>9 DEF DirectoryInv

LEMMA OwnFindKeeps ==
    ASSUME DirectoryInv, NEW s \in Slots, OwnFind(s), UNCHANGED transferVars
    PROVE  DirectoryInv'
<1>1. PICK h \in OwnPassword :
        /\ h = work[s] /\ h.at = "find" /\ h.op = "own"
        /\ Formed(h) /\ Known(h) /\ Alone(s)
        /\ Serialized => Holds(h)
  BY Handled, Requested DEF OwnFind, Handling
<1>2. calls' \in 0..Scenes[scene].calls
  BY DEF OwnFind, DirectoryInv, TablesInv, DirectoryTypeOK
<1>3. PICK g : g = [h EXCEPT !.at = "rows", !.found = MembersOf(h.account)]
  OBVIOUS
<1>4. /\ g \in OwnPassword /\ g.op = "own" /\ g.at = "rows"
      /\ g.account = h.account /\ g.hash = h.hash /\ g.link = h.link
      /\ g.found = MembersOf(h.account)
  BY <1>1, <1>3 DEF OwnPassword, MembersOf
<1>5. Formed(g) /\ Known(g) /\ (Serialized => Holds(g))
  BY <1>1, <1>4 DEF Formed, Known, Holds, AccountOps
<1> QED
  BY <1>1, <1>2, <1>3, <1>4, <1>5, NothingWritten DEF OwnFind, Handlers

\* The users of an account get its new password.
LEMMA UsersRehashed ==
    ASSUME TablesInv, Grows, NEW found \in SUBSET Keys, NEW hash \in Passwords,
           hash <= passwords',
           users' = [k \in Keys |->
             IF k \in found /\ users[k] # Null
               THEN [users[k] EXCEPT !.hash = hash, !.must = FALSE]
               ELSE users[k]],
           accounts' \in [Accounts -> Account \cup {Null}],
           \A a \in Accounts :
             /\ accounts'[a] = Null <=> accounts[a] = Null
             /\ accounts[a] # Null =>
                  /\ accounts'[a].email = accounts[a].email
                  /\ \/ accounts'[a] = accounts[a]
                     \/ accounts'[a].hash <= passwords',
           calls' \in 0..Scenes[scene].calls,
           UNCHANGED <<companies, members, links, transferVars>>
    PROVE  TablesInv' /\ SameNames
<1>1. ASSUME NEW k \in Keys, users[k] # Null
      PROVE  /\ users'[k] \in User /\ users'[k] # Null
             /\ users'[k].email = users[k].email
             /\ users'[k] = users[k] \/ users'[k].hash = hash
  BY <1>1, RowsTyped, TenancyAssumption DEF User
<1>2. \A k \in Keys : users[k] = Null => users'[k] = Null
  OBVIOUS
<1>3. users' \in [Keys -> User \cup {Null}]
  <2>1. \A k \in Keys : users'[k] \in User \cup {Null}
    BY <1>1, <1>2
  <2> QED
    BY <2>1
<1>4. DirectoryTypeOK' /\ TransferTypeOK' /\ LinksKnown' /\ HashesPast'
  BY <1>1, <1>2, <1>3, RowsTyped, TablesKept
<1>5. SameNames
  BY <1>1, <1>2 DEF SameNames
<1> QED
  BY <1>4, <1>5, NamesKept

LEMMA OwnRowsKeeps ==
    ASSUME DirectoryInv, NEW s \in Slots, OwnRows(s), UNCHANGED transferVars
    PROVE  DirectoryInv'
<1>1. PICK h \in OwnPassword :
        /\ h = work[s] /\ h.at = "rows" /\ h.op = "own"
        /\ Formed(h) /\ Known(h)
  BY Handled, Requested DEF OwnRows, Handling
<1>2. /\ h.found \in SUBSET Keys /\ h.hash \in Passwords
      /\ h.hash <= passwords
  BY <1>1 DEF OwnPassword, Formed, Known
<1>3. Grows
  <2>1. passwords \in 0..MaxPasswords /\ passwords \in Nat
    BY DEF DirectoryInv, TablesInv, DirectoryTypeOK
  <2>2. UNCHANGED <<accounts, passwords, scene>>
    BY DEF OwnRows
  <2> QED
    BY <2>1, <2>2 DEF Grows
<1>4. TablesInv'
  <2>1. calls' \in 0..Scenes[scene].calls
    BY DEF OwnRows, DirectoryInv, TablesInv, DirectoryTypeOK
  <2> QED
    BY <1>1, <1>2, <1>3, <2>1, RowsTyped, UsersRehashed
       DEF OwnRows, DirectoryInv
<1>5. WorkInv'
  BY <1>3, Ending DEF OwnRows, Handling
<1> QED
  BY <1>4, <1>5 DEF DirectoryInv

LEMMA IdentityKeeps ==
    ASSUME DirectoryInv, NEW s \in Slots, IdentityStep(s),
           UNCHANGED transferVars
    PROVE  DirectoryInv'
BY LoginStartKeeps, LoginFindKeeps, LoginCreateKeeps, LoginLinkKeeps,
   LoginAnswerKeeps, AsksForLinkKeeps, ChangeStartKeeps, ResetStartKeeps,
   OwnSaveKeeps, OwnFindKeeps, OwnRowsKeeps
   DEF IdentityStep

-----------------------------------------------------------------------------
(***************************************************************************)
(* The handlers of staff.                                                  *)
(***************************************************************************)
LEMMA CreateStartKeeps ==
    ASSUME DirectoryInv, NEW s \in Slots, NEW k \in Keys, NEW email \in Emails,
           NEW status \in Statuses, NEW manager \in People \cup {Null},
           CreateStart(s, k, email, status, manager), UNCHANGED transferVars
    PROVE  DirectoryInv'
<1>1. PICK a \in Accounts \cup {Null} :
        /\ a # Null => Owns(a, email)
        /\ Begins(s, [op |-> "create", at |-> "user", key |-> k, email |-> email,
                      hash |-> IF a = Null THEN Null ELSE accounts[a].hash,
                      account |-> a, status |-> status, manager |-> manager])
  BY DEF CreateStart, AccountOf, Owns
<1> PICK h :
      h = [op |-> "create", at |-> "user", key |-> k, email |-> email,
           hash |-> IF a = Null THEN Null ELSE accounts[a].hash,
           account |-> a, status |-> status, manager |-> manager]
  OBVIOUS
<1>2. a # Null => accounts[a].hash \in Passwords /\ accounts[a].hash <= passwords
  BY <1>1, RowsTyped DEF Owns, DirectoryInv, TablesInv, HashesPast
<1>3. /\ h \in Create /\ h.op = "create" /\ h.at = "user" /\ h.email = email
      /\ h.account = a
      /\ h.hash # Null => h.hash <= passwords
  BY <1>1, <1>2 DEF Create
<1>4. Formed(h) /\ Known(h) /\ Holds(h)
  BY <1>1, <1>3 DEF Formed, Known, Holds, AccountOps, Owns
<1>5. Arrives(s, "create") /\ Continues(s, h)
  BY <1>1, <1>3 DEF Begins
<1> QED
  BY <1>3, <1>4, <1>5, Arriving, NothingWritten DEF CreateStart, Handlers

\* A user is added to a company.
LEMMA UserAdded ==
    ASSUME TablesInv, Grows, NEW k \in Keys, users[k] = Null, NEW row \in User,
           row.hash <= passwords', users' = [users EXCEPT ![k] = row],
           calls' \in 0..Scenes[scene].calls,
           UNCHANGED <<companies, accounts, members, links, transferVars>>
    PROVE  TablesInv'
<1>1. /\ users' \in [Keys -> User \cup {Null}]
      /\ users'[k] = row
      /\ \A o \in Keys \ {k} : users'[o] = users[o]
      /\ row # Null
  BY RowsTyped, TenancyAssumption
<1>2. DirectoryTypeOK' /\ TransferTypeOK' /\ LinksKnown' /\ HashesPast'
  BY <1>1, RowsTyped, TablesKept
<1>3. Linked'
  BY <1>1 DEF TablesInv, Linked
<1>4. (Serialized => Matched)'
  BY <1>1 DEF TablesInv, Matched, Linked, Serialized, Grows
<1>5. OnePerEmail'
  BY DEF TablesInv, OnePerEmail
<1> QED
  BY <1>2, <1>3, <1>4, <1>5 DEF TablesInv

LEMMA CreateUserKeeps ==
    ASSUME DirectoryInv, NEW s \in Slots, CreateUser(s), UNCHANGED transferVars
    PROVE  DirectoryInv'
<1>1. PICK h \in Create :
        /\ h = work[s] /\ h.at = "user" /\ h.op = "create"
        /\ Formed(h) /\ Known(h) /\ Alone(s)
        /\ Serialized => Holds(h)
  BY Handled, Requested DEF CreateUser, Handling
<1>2. PICK hash : hash = IF h.hash = Null THEN passwords + 1 ELSE h.hash
  OBVIOUS
<1>3. /\ hash \in Passwords /\ hash <= passwords' /\ Grows
  <2>1. CASE h.hash = Null
    BY <1>1, <1>2, <2>1, ChosenIsNew DEF CreateUser, Chosen, DirectoryInv, Grows
  <2>2. CASE h.hash # Null
    BY <1>1, <1>2, <2>2, RowsTyped
       DEF CreateUser, Create, Known, DirectoryInv, Grows, TablesInv,
           DirectoryTypeOK
  <2> QED
    BY <2>1, <2>2
<1>4. calls' \in 0..Scenes[scene].calls
  BY DEF CreateUser, DirectoryInv, TablesInv, DirectoryTypeOK
<1> DEFINE added == /\ MayAdd(h.key, h.email)
                    /\ h.manager # Null =>
                         users[<<h.key[1], h.manager>>] # Null
<1>5. CASE added
  <2>1. PICK row \in User : /\ row.email = h.email /\ row.hash = hash
                            /\ row = [email |-> h.email, hash |-> hash,
                                      must |-> FALSE, status |-> h.status,
                                      role |-> "employee",
                                      manager |-> h.manager]
    BY <1>1, <1>3 DEF Create, User
  <2>2. users' = [users EXCEPT ![h.key] = row] /\ h.key \in Keys
        /\ users[h.key] = Null
    BY <1>1, <1>2, <1>5, <2>1 DEF CreateUser, Chosen, Create, MayAdd
  <2>3. TablesInv'
    BY <1>3, <1>4, <2>1, <2>2, UserAdded DEF CreateUser, DirectoryInv
  <2>4. PICK g : g = [h EXCEPT !.hash = hash,
                        !.at = IF h.account = Null THEN "account" ELSE "member"]
    OBVIOUS
  <2>5. /\ g \in Create /\ g.op = "create" /\ g.hash = hash /\ g.key = h.key
        /\ g.account = h.account /\ g.email = h.email
        /\ g.at = IF h.account = Null THEN "account" ELSE "member"
    BY <1>1, <1>3, <2>4 DEF Create
  <2>6. Alike(h.key, h.email)'
    BY <2>1, <2>2, RowsTyped, TenancyAssumption DEF Alike, DirectoryInv
  <2>7. Formed(g) /\ Known(g)' /\ (Serialized => Holds(g)')
    BY <1>1, <1>3, <2>5, <2>6, DirectoryAssumption
       DEF Formed, Known, Holds, AccountOps, CreateUser, Owns
  <2>8. Continues(s, g)
    BY <1>1, <1>2, <1>5, <2>4 DEF CreateUser, Chosen
  <2>9. WorkInv'
    BY <1>1, <1>3, <2>5, <2>7, <2>8, GoesOn DEF Handlers
  <2> QED
    BY <2>3, <2>9 DEF DirectoryInv
<1>6. CASE ~added
  <2>1. UNCHANGED users /\ Ends(s) /\ work[s] # Null
    BY <1>1, <1>6 DEF CreateUser, Handling
  <2>2. SameNames
    BY <2>1 DEF SameNames, CreateUser
  <2>3. TablesInv'
    BY <1>3, <1>4, <2>1, <2>2, RowsTyped, NamesKept, TablesKept
       DEF CreateUser, DirectoryInv
  <2> QED
    BY <1>3, <2>1, <2>3, Ending DEF DirectoryInv
<1> QED
  BY <1>5, <1>6

LEMMA CreateAccountKeeps ==
    ASSUME DirectoryInv, NEW s \in Slots, CreateAccount(s),
           UNCHANGED transferVars
    PROVE  DirectoryInv'
<1>1. PICK h \in Create :
        /\ h = work[s] /\ h.at = "account" /\ h.op = "create"
        /\ Formed(h) /\ Known(h) /\ Alone(s)
        /\ Serialized => Holds(h)
  BY Handled, Requested DEF CreateAccount, Handling
<1>2. calls' \in 0..Scenes[scene].calls
  BY DEF CreateAccount, DirectoryInv, TablesInv, DirectoryTypeOK
<1>3. CASE AccountOf(h.email) # {}
  <2>1. Ends(s) /\ UNCHANGED accounts
    BY <1>1, <1>3 DEF CreateAccount
  <2> QED
    BY <1>1, <1>2, <2>1, NothingWritten DEF Ends, CreateAccount, tables
<1>4. CASE AccountOf(h.email) = {}
  <2>1. PICK row \in Account : /\ row.email = h.email /\ row.hash = h.hash
                               /\ row = [email |-> h.email, hash |-> h.hash,
                                         status |-> "active"]
    BY <1>1 DEF Create, Account, Statuses, Formed
  <2>2. row.hash <= passwords
    BY <1>1, <2>1 DEF Known, Formed
  <2>3. /\ MayAddAccount /\ accounts' = [accounts EXCEPT ![NewAccount] = row]
        /\ Continues(s, [h EXCEPT !.at = "member", !.account = NewAccount])
    BY <1>1, <1>4, <2>1 DEF CreateAccount
  <2>4. /\ TablesInv' /\ Grows
        /\ \E a \in Accounts : a = NewAccount /\ Owns(a, h.email)'
    BY <1>2, <1>4, <2>1, <2>2, <2>3, AccountAdded
       DEF DirectoryInv, CreateAccount
  <2>5. PICK a \in Accounts : a = NewAccount /\ Owns(a, h.email)'
    BY <2>4
  <2>6. PICK g : g = [h EXCEPT !.at = "member", !.account = a]
    OBVIOUS
  <2>7. /\ g \in Create /\ g.op = "create" /\ g.hash = h.hash /\ g.key = h.key
        /\ g.account = a /\ g.email = h.email /\ g.at = "member"
        /\ Continues(s, g)
    BY <1>1, <2>3, <2>5, <2>6 DEF Create
  <2>8. Formed(g) /\ Known(g)' /\ (Serialized => Holds(g)')
    BY <1>1, <2>5, <2>7, DirectoryAssumption
       DEF Formed, Known, Holds, AccountOps, CreateAccount, Owns, Alike
  <2>9. WorkInv'
    BY <1>1, <2>4, <2>7, <2>8, GoesOn DEF Handlers
  <2> QED
    BY <2>4, <2>9 DEF DirectoryInv
<1> QED
  BY <1>3, <1>4

LEMMA CreateMemberKeeps ==
    ASSUME DirectoryInv, NEW s \in Slots, CreateMember(s),
           UNCHANGED transferVars
    PROVE  DirectoryInv'
<1>1. PICK h \in Create :
        /\ h = work[s] /\ h.at = "member" /\ h.op = "create"
        /\ Formed(h) /\ Known(h) /\ Alone(s)
        /\ Serialized => Holds(h)
  BY Handled, Requested DEF CreateMember, Handling
<1>2. calls' \in 0..Scenes[scene].calls /\ Ends(s) /\ work[s] # Null
  BY DEF CreateMember, Handling, DirectoryInv, TablesInv, DirectoryTypeOK
<1>3. CASE MayLink(h.account, h.key)
  <2>1. /\ h.account \in Accounts /\ accounts[h.account] # Null
        /\ h.key \in Keys /\ h.status \in Statuses
    BY <1>1 DEF Create, Formed, Known, AccountOps
  <2>2. Serialized => users[h.key].email = accounts[h.account].email
    BY <1>1 DEF Holds, Alike, Owns, Formed
  <2>3. TablesInv' /\ Grows
    BY <1>1, <1>2, <1>3, <2>1, <2>2, MemberAdded DEF DirectoryInv, CreateMember
  <2> QED
    BY <1>2, <2>3, Ending DEF DirectoryInv
<1>4. CASE ~MayLink(h.account, h.key)
  <2>1. UNCHANGED members
    BY <1>1, <1>4 DEF CreateMember
  <2> QED
    BY <1>1, <1>2, <2>1, NothingWritten DEF Ends, CreateMember, tables
<1> QED
  BY <1>3, <1>4

LEMMA EditStartKeeps ==
    ASSUME DirectoryInv, NEW s \in Slots, NEW k \in Keys,
           NEW status \in Statuses \cup {Null}, NEW password \in BOOLEAN,
           EditStart(s, k, status, password), UNCHANGED transferVars
    PROVE  DirectoryInv'
<1>1. PICK h : /\ h = [op |-> "edit", key |-> k, copy |-> users[k].status,
                       at |-> IF password THEN "account" ELSE "user",
                       account |-> IF members[k] = Null THEN Null
                                   ELSE members[k].account,
                       hash |-> Null, status |-> status]
               /\ Begins(s, h)
  BY DEF EditStart
<1>2. /\ users[k].status \in Statuses
      /\ members[k] # Null => /\ members[k].account \in Accounts
                              /\ accounts[members[k].account] # Null
  BY RowsTyped DEF EditStart, DirectoryInv, TablesInv, Linked
<1>3. h \in Edit /\ h.op = "edit" /\ h.at # "member"
  BY <1>1, <1>2 DEF Edit
<1>4. Formed(h) /\ Known(h) /\ Holds(h)
  BY <1>1, <1>2, <1>3 DEF Formed, Known, Holds, AccountOps
<1>5. Arrives(s, "edit") /\ Continues(s, h)
  BY <1>1, <1>3 DEF Begins
<1> QED
  BY <1>3, <1>4, <1>5, Arriving, NothingWritten DEF EditStart, Handlers

LEMMA EditAccountKeeps ==
    ASSUME DirectoryInv, NEW s \in Slots, EditAccount(s), UNCHANGED transferVars
    PROVE  DirectoryInv'
<1>1. PICK h \in Edit :
        /\ h = work[s] /\ h.at = "account" /\ h.op = "edit"
        /\ Formed(h) /\ Known(h) /\ Alone(s)
  BY Handled, Requested DEF EditAccount, Handling
<1>2. /\ calls' \in 0..Scenes[scene].calls /\ Chooses
  BY DEF EditAccount, DirectoryInv, TablesInv, DirectoryTypeOK
<1>3. TablesInv' /\ Grows
  <2>1. CASE h.account = Null
    <3>1. UNCHANGED <<accounts, users, members, scene, companies, links>>
      BY <1>1, <2>1 DEF EditAccount
    <3>2. Grows /\ SameNames
      BY <1>2, <3>1, ChosenIsNew DEF Grows, SameNames, DirectoryInv
    <3> QED
      BY <1>2, <3>1, <3>2, RowsTyped, TablesKept, NamesKept DEF DirectoryInv
  <2>2. CASE h.account # Null
    <3>1. h.account \in Accounts /\ accounts[h.account] # Null
      BY <1>1, <2>2 DEF Edit, Known, AccountOps
    <3>2. accounts' = [accounts EXCEPT ![h.account].hash = Chosen]
      BY <1>1, <2>2 DEF EditAccount
    <3> QED
      BY <1>2, <3>1, <3>2, AccountRehashed DEF EditAccount, DirectoryInv
  <2> QED
    BY <2>1, <2>2
<1>4. PICK g : g = [h EXCEPT !.at = "user", !.hash = passwords + 1]
  OBVIOUS
<1>5. /\ passwords + 1 \in Passwords /\ passwords + 1 <= passwords'
  BY <1>2, ChosenIsNew DEF DirectoryInv, Chosen
<1>6. /\ g \in Edit /\ g.op = "edit" /\ g.at = "user" /\ g.hash = passwords + 1
      /\ g.account = h.account
  BY <1>1, <1>4, <1>5 DEF Edit
<1>7. Known(g)'
  <2>1. h.account # Null => h.account \in Accounts /\ accounts[h.account] # Null
    BY <1>1 DEF Edit, Known, AccountOps
  <2> QED
    BY <1>3, <1>5, <1>6, <2>1 DEF Known, AccountOps, Grows
<1>8. Formed(g) /\ Holds(g)'
  BY <1>6 DEF Formed, Holds
<1>9. WorkInv'
  BY <1>1, <1>3, <1>4, <1>6, <1>7, <1>8, GoesOn
     DEF EditAccount, Chosen, Handlers
<1> QED
  BY <1>3, <1>9 DEF DirectoryInv

LEMMA EditUserKeeps ==
    ASSUME DirectoryInv, NEW s \in Slots, EditUser(s), UNCHANGED transferVars
    PROVE  DirectoryInv'
<1>1. PICK h \in Edit :
        /\ h = work[s] /\ h.at = "user" /\ h.op = "edit"
        /\ Formed(h) /\ Known(h) /\ Alone(s)
  BY Handled, Requested DEF EditUser, Handling
<1>2. /\ calls' \in 0..Scenes[scene].calls
      /\ UNCHANGED <<companies, accounts, members, passwords, links, scene>>
      /\ h.key \in Keys
  BY <1>1 DEF EditUser, DirectoryInv, TablesInv, DirectoryTypeOK, Edit
<1>3. Grows
  <2>1. passwords \in 0..MaxPasswords /\ passwords \in Nat
    BY DEF DirectoryInv, TablesInv, DirectoryTypeOK
  <2> QED
    BY <1>2, <2>1 DEF Grows
<1>4. \A k \in Keys : IF users[k] = Null THEN users'[k] = Null
                      ELSE /\ users'[k] \in User /\ users'[k] # Null
                           /\ users'[k].email = users[k].email
                           /\ \/ users'[k].hash = users[k].hash
                              \/ users'[k].hash <= passwords'
  <2>1. CASE users[h.key] = Null
    BY <1>1, <2>1, RowsTyped, TenancyAssumption DEF EditUser, DirectoryInv
  <2>2. CASE users[h.key] # Null
    <3>1. PICK hash, status :
            /\ hash = IF h.hash = Null THEN users[h.key].hash ELSE h.hash
            /\ status = IF h.status = Null THEN users[h.key].status
                        ELSE Column(users[h.key].status, h.copy, h.status)
      OBVIOUS
    <3>2. /\ hash \in Passwords /\ status \in Statuses
          /\ hash = users[h.key].hash \/ hash <= passwords
      BY <1>1, <2>2, <3>1, RowsTyped
         DEF Edit, Known, DirectoryInv, Column
    <3>3. users[h.key] \in User
      BY <1>2, <2>2, RowsTyped DEF DirectoryInv
    <3>4. users' = [users EXCEPT ![h.key] =
                     [@ EXCEPT !.hash = hash, !.status = status]]
      BY <1>1, <1>2, <2>2, <3>1, RowsTyped DEF EditUser, DirectoryInv
    <3>5. \A k \in Keys \ {h.key} : users'[k] = users[k]
      BY <3>4
    <3>6. users'[h.key] = [users[h.key] EXCEPT !.hash = hash, !.status = status]
      BY <1>2, <3>4, RowsTyped DEF DirectoryInv
    <3>7. /\ users'[h.key] \in User /\ users'[h.key] # Null
          /\ users'[h.key].email = users[h.key].email
          /\ users'[h.key].hash = hash
      <4>1. PICK row \in User : row = users[h.key]
        BY <3>3
      <4>2. PICK new : new = [row EXCEPT !.hash = hash, !.status = status]
        OBVIOUS
      <4>3. new \in User /\ new.email = row.email /\ new.hash = hash
        BY <3>2, <4>1, <4>2 DEF User
      <4> QED
        BY <3>6, <4>1, <4>2, <4>3, TenancyAssumption
    <3> QED
      BY <1>2, <2>2, <3>2, <3>5, <3>7, RowsTyped, TenancyAssumption
         DEF DirectoryInv
  <2> QED
    BY <2>1, <2>2
<1>5. users' \in [Keys -> User \cup {Null}]
  <2>1. \A k \in Keys : users'[k] \in User \cup {Null}
    BY <1>4
  <2>2. CASE users[h.key] = Null
    BY <1>1, <2>2, RowsTyped DEF EditUser, DirectoryInv
  <2>3. CASE users[h.key] # Null
    <3>1. DOMAIN users' = DOMAIN users /\ users' = [k \in Keys |-> users'[k]]
      BY <1>1, <2>3, RowsTyped DEF EditUser, DirectoryInv
    <3> QED
      BY <2>1, <3>1
  <2> QED
    BY <2>2, <2>3
<1>6. SameNames
  BY <1>2, <1>4 DEF SameNames
<1>7. \A k \in Keys : users'[k] # Null => \/ users'[k] = users[k]
                                          \/ users'[k].hash <= passwords'
  <2>1. \A k \in Keys : users[k] # Null => users[k].hash <= passwords
    BY DEF DirectoryInv, TablesInv, HashesPast
  <2> QED
    BY <1>2, <1>4, <2>1
<1>8. TablesInv'
  BY <1>2, <1>3, <1>5, <1>6, <1>7, RowsTyped, NamesKept, TablesKept
     DEF DirectoryInv
<1>9. WorkInv'
  <2>1. CASE h.status = Null
    BY <1>1, <1>3, <2>1, Ending, Requested DEF EditUser, Handling
  <2>2. CASE h.status # Null
    <3>1. PICK g : g = [h EXCEPT !.at = "member"]
      OBVIOUS
    <3>2. /\ g \in Edit /\ g.op = "edit" /\ g.at = "member" /\ g.hash = h.hash
          /\ g.account = h.account /\ g.status = h.status
      BY <1>1, <3>1 DEF Edit
    <3>3. Formed(g) /\ Known(g) /\ Holds(g)'
      BY <1>1, <2>2, <3>2 DEF Formed, Known, Holds, AccountOps
    <3>4. Known(g)'
      BY <1>3, <3>2, <3>3, KnownStays DEF DirectoryInv, Handlers
    <3> QED
      BY <1>1, <1>3, <2>2, <3>1, <3>2, <3>3, <3>4, GoesOn DEF EditUser, Handlers
  <2> QED
    BY <2>1, <2>2
<1> QED
  BY <1>8, <1>9 DEF DirectoryInv

LEMMA EditMemberKeeps ==
    ASSUME DirectoryInv, NEW s \in Slots, EditMember(s), UNCHANGED transferVars
    PROVE  DirectoryInv'
<1>1. PICK h \in Edit :
        /\ h = work[s] /\ h.at = "member" /\ h.op = "edit" /\ Formed(h)
  BY Handled, Requested DEF EditMember, Handling
<1>2. /\ calls' \in 0..Scenes[scene].calls /\ Ends(s) /\ work[s] # Null
      /\ UNCHANGED <<companies, accounts, users, passwords, links, scene>>
      /\ h.key \in Keys /\ h.status \in Statuses
  BY <1>1
     DEF EditMember, Handling, DirectoryInv, TablesInv, DirectoryTypeOK, Edit,
         Formed
<1>3. Grows
  <2>1. passwords \in 0..MaxPasswords /\ passwords \in Nat
    BY DEF DirectoryInv, TablesInv, DirectoryTypeOK
  <2> QED
    BY <1>2, <2>1 DEF Grows
<1>4. members' \in [Keys -> Member \cup {Null}] /\ SameNames
  <2>1. CASE members[h.key] = Null
    <3>1. members' = members
      BY <1>1, <2>1 DEF EditMember
    <3> QED
      BY <1>2, <3>1, RowsTyped DEF SameNames, DirectoryInv
  <2>2. CASE members[h.key] # Null
    <3>1. PICK row \in Member : row = members[h.key]
      BY <1>2, <2>2, RowsTyped DEF DirectoryInv
    <3>2. PICK new : new = [row EXCEPT !.status = h.status]
      OBVIOUS
    <3>3. new \in Member /\ new.account = row.account /\ new # Null
      BY <1>2, <3>1, <3>2, TenancyAssumption DEF Member
    <3>4. members' = [members EXCEPT ![h.key] = new]
      BY <1>1, <1>2, <2>2, <3>1, <3>2, RowsTyped DEF EditMember, DirectoryInv
    <3>5. members \in [Keys -> Member \cup {Null}]
      BY RowsTyped DEF DirectoryInv
    <3> QED
      BY <1>2, <2>2, <3>1, <3>3, <3>4, <3>5 DEF SameNames
  <2> QED
    BY <2>1, <2>2
<1>5. TablesInv'
  BY <1>2, <1>3, <1>4, RowsTyped, NamesKept, TablesKept DEF DirectoryInv
<1> QED
  BY <1>2, <1>3, <1>5, Ending DEF DirectoryInv

LEMMA AdminStartKeeps ==
    ASSUME DirectoryInv, NEW s \in Slots, NEW k \in Keys, NEW email \in Emails,
           AdminStart(s, k, email), UNCHANGED transferVars
    PROVE  DirectoryInv'
<1>1. PICK a \in Accounts \cup {Null} :
        /\ a # Null => Owns(a, email)
        /\ Begins(s, [op |-> "admin", at |-> "commit", key |-> k,
                      email |-> email, account |-> a,
                      hash |-> IF a = Null THEN Null ELSE accounts[a].hash])
  BY DEF AdminStart, AccountOf, Owns
<1> PICK h : h = [op |-> "admin", at |-> "commit", key |-> k,
                  email |-> email, account |-> a,
                  hash |-> IF a = Null THEN Null ELSE accounts[a].hash]
  OBVIOUS
<1>2. a # Null => accounts[a].hash \in Passwords /\ accounts[a].hash <= passwords
  BY <1>1, RowsTyped DEF Owns, DirectoryInv, TablesInv, HashesPast
<1>3. /\ h \in NewAdmin /\ h.op = "admin" /\ h.email = email /\ h.account = a
      /\ a # Null => h.hash \in Passwords /\ h.hash <= passwords
      /\ a = Null => h.hash = Null
  BY <1>1, <1>2 DEF NewAdmin
<1>4. Formed(h) /\ Known(h) /\ Holds(h)
  BY <1>1, <1>3, DirectoryAssumption
     DEF Formed, Known, Holds, AccountOps, Owns
<1>5. Arrives(s, "admin") /\ Continues(s, h)
  BY <1>1, <1>3 DEF Begins
<1> QED
  BY <1>3, <1>4, <1>5, Arriving, NothingWritten DEF AdminStart, Handlers

LEMMA AdminCommitKeeps ==
    ASSUME DirectoryInv, NEW s \in Slots, AdminCommit(s), UNCHANGED transferVars
    PROVE  DirectoryInv'
<1>1. PICK h \in NewAdmin :
        /\ h = work[s] /\ h.at = "commit" /\ h.op = "admin"
        /\ Formed(h) /\ Known(h)
        /\ Serialized => Holds(h)
  BY Handled, Requested DEF AdminCommit, Handling
<1>2. /\ calls' \in 0..Scenes[scene].calls /\ Ends(s) /\ work[s] # Null
      /\ UNCHANGED <<companies, links, scene>>
      /\ h.key \in Keys /\ h.email \in Emails
      /\ h.account \in Accounts \cup {Null}
  BY <1>1 DEF AdminCommit, Handling, DirectoryInv, TablesInv, DirectoryTypeOK,
     NewAdmin
<1>3. PICK a, hash :
        /\ a = IF h.account = Null THEN NewAccount ELSE h.account
        /\ hash = IF h.account = Null THEN passwords + 1 ELSE h.hash
  OBVIOUS
<1>4. /\ hash \in Passwords /\ hash <= passwords'
      /\ passwords' \in 0..MaxPasswords /\ passwords <= passwords'
  <2>1. passwords \in 0..MaxPasswords /\ passwords \in Nat
    BY DEF DirectoryInv, TablesInv, DirectoryTypeOK
  <2>2. CASE h.account = Null
    BY <1>1, <1>3, <2>2, ChosenIsNew DEF AdminCommit, Chosen, DirectoryInv
  <2>3. CASE h.account # Null
    BY <1>1, <1>3, <2>1, <2>3 DEF AdminCommit, NewAdmin, Known, Formed
  <2> QED
    BY <2>2, <2>3
<1>5. a \in Accounts /\ a # Null
      /\ IF h.account = Null THEN MayAddAccount /\ accounts[a] = Null
         ELSE a = h.account /\ accounts[a] # Null
  BY <1>1, <1>2, <1>3, NewAccountIsFree, DirectoryAssumption
     DEF AdminCommit, Known, AccountOps
<1>6. TablesInv' /\ Grows
  <2>1. CASE UNCHANGED <<accounts, users, members>>
    <3>1. Grows /\ SameNames
      BY <1>2, <1>4, <2>1 DEF Grows, SameNames
    <3> QED
      BY <1>2, <2>1, <3>1, RowsTyped, NamesKept, TablesKept DEF DirectoryInv
  <2>2. CASE ~UNCHANGED <<accounts, users, members>>
    <3> PICK must \in BOOLEAN : must = AskedToChange(h.account)
      BY DEF AskedToChange
    <3> PICK account, user, member :
          /\ account = [email |-> h.email, hash |-> hash, status |-> "active"]
          /\ user = [email |-> h.email, hash |-> hash, status |-> "active",
                     must |-> must, role |-> "admin", manager |-> Null]
          /\ member = [account |-> a, status |-> "active"]
      OBVIOUS
    <3>1. /\ account \in Account /\ user \in User /\ member \in Member
          /\ account.email = h.email /\ account.hash = hash
          /\ user.email = h.email /\ user.hash = hash /\ member.account = a
          /\ account # Null /\ user # Null /\ member # Null
      <4>1. account \in Account /\ account # Null
            /\ account.email = h.email /\ account.hash = hash
        BY <1>2, <1>4, TenancyAssumption DEF Account, Statuses
      <4>2. user \in User /\ user # Null
            /\ user.email = h.email /\ user.hash = hash
        BY <1>2, <1>4, TenancyAssumption DEF User, Statuses
      <4>3. member \in Member /\ member # Null /\ member.account = a
        BY <1>5, TenancyAssumption DEF Member, Statuses
      <4> QED
        BY <4>1, <4>2, <4>3
    <3>2. /\ MayAdd(h.key, h.email)
          /\ IF h.account = Null THEN AccountOf(h.email) = {}
             ELSE \A o \in MembersOf(a) : o[1] # h.key[1]
          /\ accounts' = IF h.account # Null THEN accounts
                         ELSE [accounts EXCEPT ![a] = account]
          /\ users' = [users EXCEPT ![h.key] = user]
          /\ members' = [members EXCEPT ![h.key] = member]
      BY <1>1, <1>3, <2>2, <3>1 DEF AdminCommit, Chosen
    <3>3. /\ accounts' \in [Accounts -> Account \cup {Null}]
          /\ users' \in [Keys -> User \cup {Null}]
          /\ members' \in [Keys -> Member \cup {Null}]
      BY <1>5, <3>1, <3>2, RowsTyped DEF DirectoryInv
    <3>4. /\ \A b \in Accounts \ {a} : accounts'[b] = accounts[b]
          /\ IF h.account = Null THEN accounts'[a] = account
             ELSE accounts'[a] = accounts[a]
          /\ users'[h.key] = user
          /\ members'[h.key] = member
          /\ \A k \in Keys \ {h.key} : /\ users'[k] = users[k]
                                       /\ members'[k] = members[k]
      BY <1>2, <1>5, <3>2, RowsTyped DEF DirectoryInv
    <3>5. Grows
      BY <1>2, <1>4, <1>5, <3>1, <3>4 DEF Grows
    <3>6. DirectoryTypeOK' /\ TransferTypeOK' /\ LinksKnown' /\ HashesPast'
      <4>1. \A b \in Accounts : accounts'[b] # Null =>
              \/ accounts'[b] = accounts[b]
              \/ accounts'[b].hash <= passwords'
        BY <1>4, <3>1, <3>4
      <4>2. \A k \in Keys : users'[k] # Null => \/ users'[k] = users[k]
                                                \/ users'[k].hash <= passwords'
        BY <1>4, <3>1, <3>4
      <4> QED
        BY <1>2, <3>3, <3>5, <4>1, <4>2, TablesKept DEF DirectoryInv
    <3>7. accounts'[a] # Null
      BY <1>5, <3>1, <3>4
    <3>8. \A k \in Keys \ {h.key} : members[k] # Null =>
            /\ members[k].account \in Accounts
            /\ accounts[members[k].account] # Null /\ users[k] # Null
            /\ accounts'[members[k].account] = accounts[members[k].account]
      BY <1>5, <3>4, RowsTyped DEF DirectoryInv, TablesInv, Linked
    <3>9. Linked'
      BY <3>1, <3>4, <3>7, <3>8 DEF Linked
    <3>10. (Serialized => Matched)'
      <4>1. Serialized => accounts'[a].email = h.email
        BY <1>1, <1>3, <1>5, <3>1, <3>4 DEF Holds, Owns
      <4> QED
        BY <1>2, <3>1, <3>4, <3>8, <4>1
           DEF DirectoryInv, TablesInv, Matched, Serialized
    <3>11. OnePerEmail'
      <4>1. h.account = Null =>
              \A b \in Accounts : accounts[b] # Null =>
                accounts[b].email # h.email
        BY <3>2 DEF AccountOf
      <4> QED
        BY <1>5, <3>1, <3>4, <4>1 DEF DirectoryInv, TablesInv, OnePerEmail
    <3> QED
      BY <3>5, <3>6, <3>9, <3>10, <3>11 DEF TablesInv
  <2> QED
    BY <2>1, <2>2
<1> QED
  BY <1>2, <1>6, Ending DEF DirectoryInv

\* Of a set that has one element or none, every element is the same.
LEMMA OnlyOne ==
    ASSUME NEW S, IsFiniteSet(S), ~(Cardinality(S) > 1), NEW x \in S
    PROVE  S = {x}
<1> SUFFICES ASSUME NEW y \in S, y # x PROVE FALSE
  OBVIOUS
<1>1. IsFiniteSet({x}) /\ Cardinality({x}) = 1
  BY FS_Singleton
<1>2. Cardinality({x} \cup {y}) = 2
  BY <1>1, FS_AddElement
<1>3. Cardinality({x} \cup {y}) <= Cardinality(S)
  BY FS_Subset
<1>4. Cardinality(S) \in Nat
  BY FS_CardinalityType
<1> QED
  BY <1>2, <1>3, <1>4

LEMMA AdminEditStartKeeps ==
    ASSUME DirectoryInv, NEW s \in Slots, NEW k \in Keys, NEW email \in Emails,
           NEW status \in Statuses, NEW password \in BOOLEAN,
           AdminEditStart(s, k, email, status, password),
           UNCHANGED transferVars
    PROVE  DirectoryInv'
<1>1. PICK a \in Accounts : /\ a = members[k].account /\ accounts[a] # Null
                            /\ accounts[a] \in Account
  BY RowsTyped DEF AdminEditStart, DirectoryInv, TablesInv, Linked
<1>2. /\ users[k] # Null /\ users[k] \in User /\ members[k] # Null
      /\ members[k].status \in Statuses
  BY RowsTyped DEF AdminEditStart, DirectoryInv
<1>3. PICK alone \in BOOLEAN : alone = (Cardinality(MembersOf(a)) = 1)
  OBVIOUS
<1>4. PICK h : /\ h = [op |-> "adminEdit", at |-> "commit", key |-> k,
                       account |-> a, user |-> users[k], row |-> accounts[a],
                       member |-> members[k].status, alone |-> alone,
                       email |-> email, status |-> status,
                       password |-> password]
  OBVIOUS
<1>5. Begins(s, h)
  BY <1>1, <1>3, <1>4 DEF AdminEditStart
<1>6. h \in AdminEdit
  BY <1>1, <1>2, <1>3, <1>4 DEF AdminEdit
<1>7. email # accounts[a].email => MembersOf(a) = {k}
  <2> SUFFICES ASSUME email # accounts[a].email PROVE MembersOf(a) = {k}
    OBVIOUS
  <2>1. ~(Cardinality(MembersOf(a)) > 1)
    BY <1>1 DEF AdminEditStart, Refused
  <2>2. IsFiniteSet(Keys)
    BY DirectoryAssumption, FS_Product DEF Keys
  <2>3. IsFiniteSet(MembersOf(a))
    BY <2>2, FS_Subset DEF MembersOf
  <2>4. k \in MembersOf(a)
    BY <1>1, <1>2 DEF MembersOf
  <2> QED
    BY <2>1, <2>3, <2>4, OnlyOne
<1>8. /\ h.op = "adminEdit" /\ h.key = k /\ h.account = a
      /\ h.user = users[k] /\ h.row = accounts[a] /\ h.email = email
  BY <1>4
<1>9. Formed(h) /\ Known(h) /\ Holds(h)
  BY <1>1, <1>2, <1>7, <1>8 DEF Formed, Known, Holds, AccountOps, Alike, Owns
<1>10. Arrives(s, "adminEdit") /\ Continues(s, h)
  BY <1>5, <1>8 DEF Begins
<1> QED
  BY <1>6, <1>9, <1>10, Arriving, NothingWritten DEF AdminEditStart, Handlers

\* The rows an edition writes.
LEMMA EditedRows ==
    ASSUME TablesInv, NEW h \in AdminEdit, NEW hash,
           h.password => hash \in Passwords
    PROVE  /\ accounts[h.account] # Null =>
                /\ AccountEdited(h, hash) \in Account
                /\ AccountEdited(h, hash).email
                     = Column(accounts[h.account].email, h.row.email, h.email)
                /\ AccountEdited(h, hash).hash
                     = IF h.password THEN hash ELSE accounts[h.account].hash
           /\ users[h.key] # Null =>
                /\ AdminEdited(h, hash) \in User
                /\ AdminEdited(h, hash).email
                     = Column(users[h.key].email, h.user.email, h.email)
                /\ AdminEdited(h, hash).hash
                     = IF h.password THEN hash ELSE users[h.key].hash
<1>1. /\ h.account \in Accounts /\ h.key \in Keys /\ h.email \in Emails
      /\ h.status \in Statuses /\ h.password \in BOOLEAN
      /\ h.alone \in BOOLEAN
  BY DEF AdminEdit
<1>2. ASSUME accounts[h.account] # Null
      PROVE  /\ AccountEdited(h, hash) \in Account
             /\ AccountEdited(h, hash).email
                  = Column(accounts[h.account].email, h.row.email, h.email)
             /\ AccountEdited(h, hash).hash
                  = IF h.password THEN hash ELSE accounts[h.account].hash
  <2>1. PICK row \in Account : row = accounts[h.account]
    BY <1>1, <1>2, RowsTyped
  <2>2. row.email \in Emails /\ row.hash \in Passwords /\ row.status \in Statuses
    BY DEF Account
  <2> QED
    BY <1>1, <2>1, <2>2 DEF AccountEdited, Account, Column
<1>3. ASSUME users[h.key] # Null
      PROVE  /\ AdminEdited(h, hash) \in User
             /\ AdminEdited(h, hash).email
                  = Column(users[h.key].email, h.user.email, h.email)
             /\ AdminEdited(h, hash).hash
                  = IF h.password THEN hash ELSE users[h.key].hash
  <2>1. PICK row \in User : row = users[h.key]
    BY <1>1, <1>3, RowsTyped
  <2>2. /\ row.email \in Emails /\ row.hash \in Passwords
        /\ row.status \in Statuses /\ row.must \in BOOLEAN
        /\ row.role \in {"employee", "admin"}
        /\ row.manager \in People \cup {Null}
    BY DEF User
  <2>3. PICK must \in BOOLEAN :
          must = IF h.password THEN Column(row.must, h.user.must, TRUE)
                 ELSE row.must
    BY <2>2 DEF Column
  <2>4. PICK manager \in People \cup {Null} :
          manager = Column(row.manager, h.user.manager, Null)
    BY <2>2 DEF Column
  <2>5. PICK status \in Statuses :
          status = Column(row.status, h.user.status, h.status)
    BY <1>1, <2>2 DEF Column
  <2>6. PICK email \in Emails :
          email = Column(row.email, h.user.email, h.email)
    BY <1>1, <2>2 DEF Column
  <2>7. AdminEdited(h, hash) =
          [email |-> email, hash |-> IF h.password THEN hash ELSE row.hash,
           must |-> must, status |-> status, role |-> row.role,
           manager |-> manager]
    BY <2>1, <2>3, <2>4, <2>5, <2>6 DEF AdminEdited
  <2> QED
    BY <1>1, <2>1, <2>2, <2>6, <2>7 DEF User
<1> QED
  BY <1>2, <1>3

LEMMA AdminEditCommitKeeps ==
    ASSUME DirectoryInv, NEW s \in Slots, AdminEditCommit(s),
           UNCHANGED transferVars
    PROVE  DirectoryInv'
<1>1. PICK h \in AdminEdit :
        /\ h = work[s] /\ h.at = "commit" /\ h.op = "adminEdit"
        /\ Formed(h) /\ Known(h)
        /\ Serialized => Holds(h)
  BY Handled, Requested DEF AdminEditCommit, Handling
<1>2. /\ calls' \in 0..Scenes[scene].calls /\ Ends(s) /\ work[s] # Null
      /\ UNCHANGED <<companies, links, scene>>
      /\ h.key \in Keys /\ h.account \in Accounts /\ h.account # Null
      /\ accounts[h.account] # Null
  BY <1>1, DirectoryAssumption
     DEF AdminEditCommit, Handling, DirectoryInv, TablesInv, DirectoryTypeOK,
         AdminEdit, Known, AccountOps
<1>3. /\ passwords' \in 0..MaxPasswords /\ passwords <= passwords'
      /\ h.password => Chosen \in Passwords /\ Chosen <= passwords'
  <2>1. passwords \in 0..MaxPasswords /\ passwords \in Nat
    BY DEF DirectoryInv, TablesInv, DirectoryTypeOK
  <2>2. CASE h.password
    BY <1>1, <2>2, ChosenIsNew DEF AdminEditCommit, DirectoryInv
  <2>3. CASE ~h.password
    BY <1>1, <2>1, <2>3 DEF AdminEditCommit
  <2> QED
    BY <2>2, <2>3
<1>4. CASE UNCHANGED <<accounts, users, members>>
  <2>1. Grows /\ SameNames
    BY <1>2, <1>3, <1>4 DEF Grows, SameNames
  <2>2. TablesInv'
    BY <1>2, <1>4, <2>1, RowsTyped, NamesKept, TablesKept DEF DirectoryInv
  <2> QED
    BY <1>2, <2>1, <2>2, Ending DEF DirectoryInv
<1>5. CASE ~UNCHANGED <<accounts, users, members>>
  <2>1. PICK hash : hash = passwords + 1
    OBVIOUS
  <2>2. PICK account, user, member :
          /\ account = AccountEdited(h, hash)
          /\ user = IF users[h.key] = Null THEN Null ELSE AdminEdited(h, hash)
          /\ member = IF members[h.key] = Null THEN Null
                      ELSE [account |-> members[h.key].account,
                            status |-> Column(members[h.key].status, h.member,
                                              h.status)]
    OBVIOUS
  <2>3. /\ account \in Account /\ account # Null
        /\ account.email
             = Column(accounts[h.account].email, h.row.email, h.email)
        /\ account.hash
             = IF h.password THEN hash ELSE accounts[h.account].hash
    BY <1>1, <1>2, <1>3, <2>1, <2>2, EditedRows, TenancyAssumption
       DEF DirectoryInv, Chosen
  <2>4. IF users[h.key] = Null THEN user = Null
        ELSE /\ user \in User /\ user # Null
             /\ user.email = Column(users[h.key].email, h.user.email, h.email)
             /\ user.hash = IF h.password THEN hash ELSE users[h.key].hash
    BY <1>1, <1>2, <1>3, <2>1, <2>2, EditedRows, TenancyAssumption
       DEF DirectoryInv, Chosen
  <2>5. IF members[h.key] = Null THEN member = Null
        ELSE /\ member \in Member /\ member # Null
             /\ member.account = members[h.key].account
    <3>1. h.status \in Statuses
      BY DEF AdminEdit
    <3> QED
      BY <1>2, <2>2, <3>1, RowsTyped, TenancyAssumption
         DEF Member, Column, DirectoryInv
  <2>6. /\ AccountOf(account.email) \subseteq {h.account}
        /\ accounts' = [accounts EXCEPT ![h.account] = account]
        /\ users' = IF users[h.key] = Null THEN users
                    ELSE [users EXCEPT ![h.key] = user]
        /\ members' = IF members[h.key] = Null THEN members
                      ELSE [members EXCEPT ![h.key] = member]
    <3>1. AccountEdited(h, 1).email = AccountEdited(h, hash).email
      BY DEF AccountEdited
    <3>2. members[h.key] # Null =>
            [members EXCEPT ![h.key].status = Column(@, h.member, h.status)]
              = [members EXCEPT ![h.key] = member]
      <4>1. SUFFICES ASSUME members[h.key] # Null
                     PROVE  [members[h.key] EXCEPT !.status =
                               Column(members[h.key].status, h.member, h.status)]
                              = member
        BY <1>2, RowsTyped DEF DirectoryInv
      <4>2. members[h.key] \in Member
        BY <1>2, <4>1, RowsTyped DEF DirectoryInv
      <4> QED
        BY <2>2, <4>1, <4>2 DEF Member
    <3> QED
      BY <1>1, <1>5, <2>1, <2>2, <3>1, <3>2 DEF AdminEditCommit, Chosen
  <2>7. /\ accounts' \in [Accounts -> Account \cup {Null}]
        /\ users' \in [Keys -> User \cup {Null}]
        /\ members' \in [Keys -> Member \cup {Null}]
    BY <1>2, <2>3, <2>4, <2>5, <2>6, RowsTyped DEF DirectoryInv
  <2>8. /\ accounts'[h.account] = account
        /\ \A b \in Accounts \ {h.account} : accounts'[b] = accounts[b]
        /\ users'[h.key] = user /\ members'[h.key] = member
        /\ \A k \in Keys \ {h.key} : /\ users'[k] = users[k]
                                     /\ members'[k] = members[k]
    BY <1>2, <2>3, <2>4, <2>5, <2>6, RowsTyped DEF DirectoryInv
  <2>9. Grows
    BY <1>2, <1>3, <2>3, <2>8 DEF Grows
  <2>10. /\ accounts[h.account].hash \in Nat
         /\ accounts[h.account].hash <= passwords
         /\ users[h.key] # Null => /\ users[h.key].hash \in Nat
                                   /\ users[h.key].hash <= passwords
         /\ passwords \in Nat /\ passwords' \in Nat
    BY <1>2, <1>3, RowsTyped, DirectoryAssumption
       DEF DirectoryInv, TablesInv, HashesPast, Passwords
  <2>11. /\ account.hash <= passwords'
         /\ users[h.key] # Null => user.hash <= passwords'
    BY <1>3, <2>1, <2>3, <2>4, <2>10 DEF Chosen
  <2>12. DirectoryTypeOK' /\ TransferTypeOK' /\ LinksKnown' /\ HashesPast'
    <3>1. \A b \in Accounts : accounts'[b] # Null =>
            \/ accounts'[b] = accounts[b]
            \/ accounts'[b].hash <= passwords'
      BY <2>8, <2>11
    <3>2. \A k \in Keys : users'[k] # Null => \/ users'[k] = users[k]
                                              \/ users'[k].hash <= passwords'
      BY <2>4, <2>8, <2>11
    <3> QED
      BY <1>2, <2>7, <2>9, <3>1, <3>2, TablesKept DEF DirectoryInv
  <2>13. \A k \in Keys : members[k] # Null =>
           /\ members[k].account \in Accounts
           /\ accounts[members[k].account] # Null /\ users[k] # Null
    BY RowsTyped DEF DirectoryInv, TablesInv, Linked
  <2>14. Linked'
    BY <1>2, <2>3, <2>4, <2>5, <2>8, <2>13 DEF Linked
  <2>15. OnePerEmail'
    <3>1. \A b \in Accounts \ {h.account} : accounts[b] # Null =>
            accounts[b].email # account.email
      BY <2>6 DEF AccountOf
    <3> QED
      BY <1>2, <2>8, <3>1 DEF DirectoryInv, TablesInv, OnePerEmail
  <2>16. (Serialized => Matched)'
    <3>1. SUFFICES ASSUME Serialized, NEW k \in Keys, members'[k] # Null
                   PROVE  accounts'[members'[k].account].email
                            = users'[k].email
      BY <1>2 DEF Matched, Serialized
    <3>2. /\ members[h.key] # Null /\ members[h.key].account = h.account
          /\ users[h.key] # Null /\ users[h.key].email = h.user.email
          /\ accounts[h.account].email = h.row.email
          /\ h.email # h.row.email => MembersOf(h.account) = {h.key}
          /\ accounts[h.account].email = users[h.key].email
      BY <1>1, <1>2, <3>1
         DEF Holds, Alike, Owns, DirectoryInv, TablesInv, Matched
    <3>3. CASE k = h.key
      BY <2>3, <2>4, <2>5, <2>8, <3>2, <3>3 DEF Column
    <3>4. CASE k # h.key
      <4>1. /\ members'[k] = members[k] /\ users'[k] = users[k]
            /\ members[k] # Null /\ members[k].account \in Accounts
            /\ accounts[members[k].account].email = users[k].email
        BY <2>8, <2>13, <3>1, <3>4 DEF DirectoryInv, TablesInv, Matched
      <4>2. CASE members[k].account = h.account
        <5>1. h.email = h.row.email
          BY <3>2, <3>4, <4>1, <4>2 DEF MembersOf
        <5> QED
          BY <2>3, <2>8, <3>2, <4>1, <4>2, <5>1 DEF Column
      <4>3. CASE members[k].account # h.account
        BY <2>8, <4>1, <4>3
      <4> QED
        BY <4>2, <4>3
    <3> QED
      BY <3>3, <3>4
  <2>17. TablesInv'
    BY <2>12, <2>14, <2>15, <2>16 DEF TablesInv
  <2> QED
    BY <1>2, <2>9, <2>17, Ending DEF DirectoryInv
<1> QED
  BY <1>4, <1>5

LEMMA CompanyKeeps ==
    ASSUME DirectoryInv, NEW s \in Slots, NEW c \in Companies,
           NEW status \in {"active", "inactive", "suspended"},
           Provision(s, c) \/ CompanyStatus(s, c, status),
           UNCHANGED transferVars
    PROVE  DirectoryInv'
<1>1. /\ Arrives(s, "company") /\ work' = work
      /\ UNCHANGED <<accounts, users, members, passwords, links, scene>>
  BY DEF Provision, CompanyStatus
<1>2. /\ calls' \in 0..Scenes[scene].calls
      /\ Serialized => \A t \in Slots : work[t] = Null
  BY <1>1, Arriving
<1>3. companies' \in [Companies -> {"active", "inactive", "suspended", Null}]
  BY DEF Provision, CompanyStatus, DirectoryInv, TablesInv, DirectoryTypeOK
<1>4. TablesInv'
  BY <1>1, <1>2, <1>3
     DEF DirectoryInv, TablesInv, DirectoryTypeOK, TransferTypeOK, Linked,
         OnePerEmail, LinksKnown, HashesPast, RowsPast, Matched, Serialized,
         transferVars
<1>5. Grows
  <2>1. passwords \in 0..MaxPasswords /\ passwords \in Nat
    BY DEF DirectoryInv, TablesInv, DirectoryTypeOK
  <2> QED
    BY <1>1, <2>1 DEF Grows
<1> QED
  BY <1>1, <1>2, <1>4, <1>5, WorkStays DEF DirectoryInv

LEMMA StaffKeeps ==
    ASSUME DirectoryInv, NEW s \in Slots, StaffStep(s), UNCHANGED transferVars
    PROVE  DirectoryInv'
BY CreateStartKeeps, CreateUserKeeps, CreateAccountKeeps, CreateMemberKeeps,
   EditStartKeeps, EditAccountKeeps, EditUserKeeps, EditMemberKeeps,
   AdminStartKeeps, AdminCommitKeeps, AdminEditStartKeeps, AdminEditCommitKeeps,
   CompanyKeeps
   DEF StaffStep

-----------------------------------------------------------------------------
(***************************************************************************)
(* Backups and imports.                                                    *)
(***************************************************************************)
\* Dumps are taken or loaded, and no row is written.
LEMMA DumpsKept ==
    ASSUME DirectoryInv, UNCHANGED <<tables, passwords, links, scene>>,
           calls' \in 0..Scenes[scene].calls, TransferTypeOK',
           \A c \in Companies : dumps'[c] # Null => RowsPast(dumps'[c].users),
           staging' # Null => RowsPast(staging'.users)
    PROVE  TablesInv' /\ Grows
<1>1. Grows
  <2>1. passwords \in 0..MaxPasswords /\ passwords \in Nat
    BY DEF DirectoryInv, TablesInv, DirectoryTypeOK
  <2> QED
    BY <2>1 DEF Grows, tables
<1>2. HashesPast'
  BY DEF DirectoryInv, TablesInv, HashesPast, RowsPast, tables
<1>3. /\ DirectoryTypeOK' /\ Linked' /\ OnePerEmail' /\ LinksKnown'
      /\ (Serialized => Matched)'
  BY DEF DirectoryInv, TablesInv, DirectoryTypeOK, Linked, OnePerEmail,
     LinksKnown, Matched, Serialized, tables
<1> QED
  BY <1>1, <1>2, <1>3 DEF TablesInv

\* What the dumps and the staging database hold was chosen.
LEMMA DumpsPast ==
    ASSUME DirectoryInv
    PROVE  /\ \A c \in Companies : dumps[c] # Null =>
                /\ dumps[c] \in Dump /\ RowsPast(dumps[c].users)
           /\ staging # Null => staging \in Dump /\ RowsPast(staging.users)
           /\ TransferTypeOK
           /\ calls \in 0..Scenes[scene].calls
BY DEF DirectoryInv, TablesInv, TransferTypeOK, HashesPast, DirectoryTypeOK

LEMMA MarkKeeps ==
    ASSUME DirectoryInv, NEW s \in Slots, NEW k \in Keys, Mark(s, k)
    PROVE  DirectoryInv'
<1>1. /\ calls' \in 0..Scenes[scene].calls
      /\ Serialized => \A t \in Slots : work[t] = Null
  BY Arriving DEF Mark
<1>2. TransferTypeOK'
  BY DumpsPast DEF Mark, TransferTypeOK
<1>3. TablesInv' /\ Grows
  BY <1>1, <1>2, DumpsPast, DumpsKept DEF Mark
<1>4. WorkInv'
  BY <1>1, <1>3, WorkStays DEF Mark
<1> QED
  BY <1>3, <1>4 DEF DirectoryInv

LEMMA WritesKeep ==
    ASSUME DirectoryInv, NEW s \in Slots, NEW c \in Companies,
           NEW rows \in Holding, Writes(s, c, rows)
    PROVE  DirectoryInv'
<1>1. /\ calls' \in 0..Scenes[scene].calls
      /\ Serialized => \A t \in Slots : work[t] = Null
  BY Arriving DEF Writes
<1>2. TransferTypeOK'
  BY DumpsPast DEF Writes, TransferTypeOK
<1>3. TablesInv' /\ Grows
  BY <1>1, <1>2, DumpsPast, DumpsKept DEF Writes
<1>4. WorkInv'
  BY <1>1, <1>3, WorkStays DEF Writes
<1> QED
  BY <1>3, <1>4 DEF DirectoryInv

\* What is written of departments, requests and other rows has its type.
HoldingWritten(s, c) ==
    \/ DepartmentAdded(s, c) \/ RequestRouted(s, c)
    \/ DepartmentDeleted(s, c) \/ JsonWritten(s, c)

LEMMA HoldingWrites ==
    ASSUME DirectoryInv, NEW s \in Slots, NEW c \in Companies,
           HoldingWritten(s, c)
    PROVE  \E rows \in Holding : Writes(s, c, rows)
<1>1. PICK old \in Holding : old = held[c]
  BY DumpsPast DEF TransferTypeOK
<1>2. ASSUME NEW d \in Departments
      PROVE  /\ [old EXCEPT !.departments = @ \cup {d}] \in Holding
             /\ [old EXCEPT !.targets = @ \cup {d}] \in Holding
             /\ [old EXCEPT !.departments = @ \ {d}] \in Holding
  BY <1>1 DEF Holding
<1>3. [old EXCEPT !.json = TRUE] \in Holding
  BY <1>1 DEF Holding
<1>4. CASE DepartmentAdded(s, c)
  BY <1>1, <1>2, <1>4 DEF DepartmentAdded, Fresh
<1>5. CASE RequestRouted(s, c) \/ DepartmentDeleted(s, c)
  <2>1. old.departments \subseteq Departments
    BY DEF Holding
  <2> QED
    BY <1>1, <1>2, <1>5, <2>1 DEF RequestRouted, DepartmentDeleted
<1>6. CASE JsonWritten(s, c)
  BY <1>1, <1>3, <1>6 DEF JsonWritten
<1> QED
  BY <1>4, <1>5, <1>6 DEF HoldingWritten

LEMMA HoldingLeaves ==
    ASSUME NEW s, NEW c, HoldingWritten(s, c)
    PROVE  /\ UNCHANGED <<users, members, accounts, companies, passwords, links>>
           /\ UNCHANGED <<work, scene, marks, dumps, staging, importing>>
BY DEF HoldingWritten, DepartmentAdded, RequestRouted, DepartmentDeleted,
       JsonWritten, Writes, tables

LEMMA BackupStartKeeps ==
    ASSUME DirectoryInv, NEW s \in Slots, NEW c \in Companies, BackupStart(s, c)
    PROVE  DirectoryInv'
<1>1. PICK rows : rows = UsersOf(c)
  OBVIOUS
<1>2. PICK h : /\ h = [op |-> "backup", at |-> "rest", company |-> c,
                       users |-> rows, rest |-> held[c]]
               /\ Begins(s, h)
  BY <1>1 DEF BackupStart
<1>3. \A p \in People : <<c, p>> \in Keys
  BY DEF Keys
<1>4. /\ rows \in [People -> User \cup {Null}] /\ RowsPast(rows)
      /\ held[c] \in Holding
  BY <1>1, <1>3, RowsTyped
     DEF UsersOf, RowsPast, DirectoryInv, TablesInv, HashesPast, TransferTypeOK
<1>5. h \in Backup /\ h.op = "backup" /\ h.users = rows
  BY <1>2, <1>4 DEF Backup
<1>6. Formed(h) /\ Known(h) /\ Holds(h)
  BY <1>4, <1>5 DEF Formed, Known, Holds, AccountOps
<1>7. Arrives(s, "backup") /\ Continues(s, h)
  BY <1>2, <1>5 DEF Begins
<1> QED
  BY <1>5, <1>6, <1>7, Arriving, NothingWritten
     DEF BackupStart, Handlers, transferVars

\* The dump a backup makes has its type, and was read in quiet only if the
\* users are still as they were read.
LEMMA BackupTaken ==
    ASSUME DirectoryInv, NEW s \in Slots, BackupRest(s),
           NEW h \in Backup, h = work[s]
    PROVE  \E dump \in Dump :
             /\ dump.users = h.users /\ dump.marks = MarksOf(h.company)
             /\ dump.whole => h.users = UsersOf(h.company)
             /\ dumps' = [dumps EXCEPT ![h.company] = dump]
<1>1. /\ h.company \in Companies /\ h.rest \in Holding
      /\ held[h.company] \in Holding
      /\ h.users \in [People -> User \cup {Null}]
  BY DumpsPast DEF Backup, TransferTypeOK
<1> DEFINE whole == h.users = UsersOf(h.company) /\ h.rest = held[h.company]
           rows(json) == [departments |-> h.rest.departments,
                          targets |-> held[h.company].targets, json |-> json]
<1>2. PICK json \in {h.rest.json, held[h.company].json} :
        dumps' = [dumps EXCEPT ![h.company] =
                    [users |-> h.users, marks |-> MarksOf(h.company),
                     rest |-> rows(json), whole |-> whole]]
  BY DEF BackupRest
<1>3. rows(json) \in Holding
  BY <1>1, <1>2 DEF Holding
<1>4. whole \in BOOLEAN /\ (whole => h.users = UsersOf(h.company))
  OBVIOUS
<1> HIDE DEF whole, rows
<1>5. PICK dump : dump = [users |-> h.users, marks |-> MarksOf(h.company),
                          rest |-> rows(json), whole |-> whole]
  OBVIOUS
<1>6. /\ dump \in Dump /\ dump.users = h.users
      /\ dump.marks = MarksOf(h.company) /\ dump.whole = whole
  BY <1>1, <1>3, <1>4, <1>5 DEF Dump, MarksOf
<1> QED
  BY <1>2, <1>4, <1>5, <1>6

LEMMA BackupRestKeeps ==
    ASSUME DirectoryInv, NEW s \in Slots, BackupRest(s)
    PROVE  DirectoryInv'
<1>1. PICK h \in Backup : /\ h = work[s] /\ h.op = "backup" /\ Known(h)
  BY Handled, Requested DEF BackupRest, Handling
<1>2. PICK dump \in Dump : /\ dump.users = h.users
                           /\ dumps' = [dumps EXCEPT ![h.company] = dump]
  BY <1>1, BackupTaken
<1>3. RowsPast(dump.users)
  BY <1>1, <1>2 DEF Known
<1>4. dumps' = [dumps EXCEPT ![h.company] = dump]
  BY <1>2
<1>5. \A c \in Companies : dumps'[c] = dump \/ dumps'[c] = dumps[c]
  BY <1>4, DumpsPast DEF TransferTypeOK
<1>6. TransferTypeOK'
  BY <1>3, <1>4, DumpsPast DEF BackupRest, TransferTypeOK
<1>7. TablesInv' /\ Grows
  <2>1. \A c \in Companies : dumps'[c] # Null => RowsPast(dumps'[c].users)
    BY <1>3, <1>5, DumpsPast
  <2> QED
    BY <1>6, <2>1, DumpsPast, DumpsKept DEF BackupRest
<1>8. WorkInv'
  BY <1>7, Ending DEF BackupRest, Handling
<1> QED
  BY <1>7, <1>8 DEF DirectoryInv

LEMMA ImportStartKeeps ==
    ASSUME DirectoryInv, NEW s \in Slots, NEW c \in Companies,
           NEW from \in Companies, NEW replace \in BOOLEAN,
           dumps[from] # Null, ImportStart(s, c, dumps[from], replace)
    PROVE  DirectoryInv'
<1>1. PICK dump \in Dump : dump = dumps[from] /\ RowsPast(dump.users)
  BY DumpsPast
<1>2. PICK h : /\ h = [op |-> "import", at |-> "load", company |-> c,
                       dump |-> dump, replace |-> replace]
               /\ Begins(s, h)
  BY <1>1 DEF ImportStart
<1>3. h \in Import /\ h.op = "import" /\ h.dump = dump
  BY <1>2 DEF Import
<1>4. Formed(h) /\ Known(h) /\ Holds(h)
  BY <1>1, <1>3 DEF Formed, Known, Holds, AccountOps
<1>5. Arrives(s, "import") /\ Continues(s, h)
  BY <1>2, <1>3 DEF Begins
<1>6. /\ Alone(s) /\ calls' \in 0..Scenes[scene].calls
  BY <1>5, Arriving
<1>7. TransferTypeOK'
  BY DumpsPast DEF ImportStart, TransferTypeOK
<1>8. TablesInv' /\ Grows
  BY <1>6, <1>7, DumpsPast, DumpsKept DEF ImportStart
<1>9. Known(h)' /\ Holds(h)'
  <2>1. Known(h)'
    BY <1>3, <1>4, <1>8, KnownStays DEF DirectoryInv, Handlers
  <2> QED
    BY <1>3, <2>1 DEF Holds
<1>10. WorkInv'
  BY <1>3, <1>4, <1>5, <1>6, <1>8, <1>9, GoesOn DEF Handlers
<1> QED
  BY <1>8, <1>10 DEF DirectoryInv

LEMMA ImportLoadKeeps ==
    ASSUME DirectoryInv, NEW s \in Slots, ImportLoad(s)
    PROVE  DirectoryInv'
<1>1. PICK h \in Import : /\ h = work[s] /\ h.op = "import" /\ Alone(s)
                          /\ Formed(h) /\ Known(h)
  BY Handled, Requested DEF ImportLoad, Handling
<1>2. h.dump \in Dump /\ RowsPast(h.dump.users) /\ staging' = h.dump
  BY <1>1 DEF Import, Known, ImportLoad
<1>3. TransferTypeOK'
  BY <1>2, DumpsPast DEF ImportLoad, TransferTypeOK
<1>4. TablesInv' /\ Grows
  <2>1. RowsPast(staging'.users)
    BY <1>2
  <2> QED
    BY <1>3, <2>1, DumpsPast, DumpsKept DEF ImportLoad
<1>5. PICK g : g = [h EXCEPT !.at = "commit"] /\ Continues(s, g)
  BY <1>1 DEF ImportLoad
<1>6. g \in Import /\ g.op = "import" /\ g.dump = h.dump
  BY <1>1, <1>5 DEF Import
<1>7. Formed(g) /\ Known(g) /\ Holds(g)'
  BY <1>2, <1>6 DEF Formed, Known, Holds, AccountOps
<1>8. Known(g)'
  BY <1>4, <1>6, <1>7, KnownStays DEF DirectoryInv, Handlers
<1>9. WorkInv'
  BY <1>1, <1>4, <1>5, <1>6, <1>7, <1>8, GoesOn DEF Handlers
<1> QED
  BY <1>4, <1>9 DEF DirectoryInv

LEMMA ImportFailsKeeps ==
    ASSUME DirectoryInv, NEW s \in Slots, ImportFails(s)
    PROVE  DirectoryInv'
<1>1. TransferTypeOK'
  BY DumpsPast DEF ImportFails, TransferTypeOK
<1>2. TablesInv' /\ Grows
  BY <1>1, DumpsPast, DumpsKept DEF ImportFails, Fails
<1>3. WorkInv'
  BY <1>2, Ending DEF ImportFails, Fails
<1> QED
  BY <1>2, <1>3 DEF DirectoryInv

\* The accounts an import makes: one for each e-mail that had none, beside
\* those there were.
LEMMA AccountsMade ==
    ASSUME TablesInv, staging # Null,
           NEW made \in [Unknown -> {a \in Accounts : accounts[a] = Null}],
           \A e, f \in Unknown : made[e] = made[f] => e = f
    PROVE  /\ WithAccounts(made) \in [Accounts -> Account \cup {Null}]
           /\ \A a \in Accounts :
                \/ WithAccounts(made)[a] = accounts[a]
                   /\ \A e \in Unknown : made[e] # a
                \/ \E e \in Unknown :
                     /\ made[e] = a /\ accounts[a] = Null
                     /\ WithAccounts(made)[a] # Null
                     /\ WithAccounts(made)[a].email = e
                     /\ WithAccounts(made)[a].hash <= passwords
<1> PICK rows \in [People -> User \cup {Null}] :
      rows = staging.users /\ RowsPast(rows)
  BY DEF TablesInv, TransferTypeOK, Dump, HashesPast
<1>1. \A p \in Imported : /\ rows[p] \in User /\ p \in People
                          /\ rows[p].email \in Emails
                          /\ rows[p].hash \in Passwords
                          /\ rows[p].hash <= passwords
  BY DEF Imported, User, RowsPast
<1>2. \A e \in Unknown : \E p \in Imported : rows[p].email = e
  BY DEF Unknown
<1> DEFINE account(e) ==
      LET p == CHOOSE p \in Imported : rows[p].email = e
      IN [email |-> e, hash |-> rows[p].hash, status |-> "active"]
<1>3. ASSUME NEW e \in Unknown
      PROVE  /\ account(e) \in Account /\ account(e) # Null
             /\ account(e).email = e /\ account(e).hash <= passwords
  <2>1. PICK p \in Imported :
          /\ rows[p].email = e
          /\ p = CHOOSE q \in Imported : rows[q].email = e
    BY <1>2
  <2>2. account(e) = [email |-> e, hash |-> rows[p].hash, status |-> "active"]
    BY <2>1
  <2>3. account(e) \in Account
    BY <1>1, <2>1, <2>2 DEF Account, Statuses
  <2> QED
    BY <1>1, <2>1, <2>2, <2>3, TenancyAssumption
<1>4. WithAccounts(made) =
        [a \in Accounts |->
           IF \E e \in Unknown : made[e] = a
             THEN account(CHOOSE e \in Unknown : made[e] = a)
             ELSE accounts[a]]
  BY DEF WithAccounts
<1> HIDE DEF account
<1>5. ASSUME NEW a \in Accounts, \E e \in Unknown : made[e] = a
      PROVE  \E e \in Unknown : /\ made[e] = a /\ accounts[a] = Null
                                /\ WithAccounts(made)[a] = account(e)
  <2>1. PICK e \in Unknown : /\ made[e] = a
                             /\ e = CHOOSE f \in Unknown : made[f] = a
    BY <1>5
  <2>2. accounts[a] = Null
    BY <2>1
  <2> QED
    BY <1>4, <2>1, <2>2
<1>6. ASSUME NEW a \in Accounts, ~\E e \in Unknown : made[e] = a
      PROVE  WithAccounts(made)[a] = accounts[a]
  BY <1>4, <1>6
<1>7. \A a \in Accounts : WithAccounts(made)[a] \in Account \cup {Null}
  BY <1>3, <1>5, <1>6, RowsTyped
<1>8. WithAccounts(made) \in [Accounts -> Account \cup {Null}]
  BY <1>4, <1>7
<1>9. ASSUME NEW a \in Accounts
      PROVE  \/ /\ WithAccounts(made)[a] = accounts[a]
                /\ \A e \in Unknown : made[e] # a
             \/ \E e \in Unknown :
                  /\ made[e] = a /\ accounts[a] = Null
                  /\ WithAccounts(made)[a] # Null
                  /\ WithAccounts(made)[a].email = e
                  /\ WithAccounts(made)[a].hash <= passwords
  BY <1>3, <1>5, <1>6
<1> QED
  BY <1>8, <1>9

\* What an import leaves of a key, and what it makes of a user of the dump.
Spared(h, k) == k[1] = h.company => ~h.replace /\ k[2] \notin Imported
Restores(k) ==
    /\ users'[k] # Null /\ members'[k] # Null
    /\ users'[k].hash = accounts'[members'[k].account].hash
    /\ [users'[k] EXCEPT !.hash = 1]
         = [staging.users[k[2]] EXCEPT
             !.hash = 1, !.manager = IF @ \in Imported THEN @ ELSE Null]

\* What an import makes of departments and requests: no request is left
\* without its department that was not.
LEMMA ImportHolds ==
    ASSUME DirectoryInv, NEW s \in Slots, NEW h \in Import, h = work[s],
           ImportCommit(s)
    PROVE  /\ held' \in [Companies -> Holding]
           /\ \A o \in Companies \ {h.company} : held'[o] = held[o]
           /\ Orphans(held'[h.company])
                \subseteq IF h.replace THEN {} ELSE Orphans(held[h.company])
<1>1. /\ held \in [Companies -> Holding] /\ h.company \in Companies
      /\ staging \in Dump
      /\ staging.rest.targets \subseteq staging.rest.departments
  BY DumpsPast DEF ImportCommit, Importable, TransferTypeOK, Import
<1>2. PICK loaded \in Holding : loaded = staging.rest
  BY <1>1 DEF Dump
<1>3. PICK new \in [loaded.departments -> Fresh] :
        held' = [held EXCEPT ![h.company] =
                   Beside(IF h.replace THEN NoHolding ELSE @, new)]
  BY <1>2 DEF ImportCommit
<1>4. PICK old \in Holding :
        /\ old = IF h.replace THEN NoHolding ELSE held[h.company]
        /\ Orphans(old)
             \subseteq IF h.replace THEN {} ELSE Orphans(held[h.company])
  <2>1. NoHolding \in Holding /\ Orphans(NoHolding) = {}
    BY DEF NoHolding, Holding, Orphans
  <2>2. held[h.company] \in Holding
    BY <1>1
  <2> QED
    BY <2>1, <2>2
<1>5. PICK rows : /\ rows = Beside(old, new)
                  /\ rows.departments = old.departments
                                          \cup {new[d] : d \in loaded.departments}
                  /\ rows.targets = old.targets
                                      \cup {new[d] : d \in loaded.targets}
  <2>1. Range(new) = {new[d] : d \in loaded.departments}
    BY <1>3 DEF Range
  <2>2. PICK json : json = (old.json \/ loaded.json)
    OBVIOUS
  <2>3. Beside(old, new) =
          [departments |-> old.departments \cup {new[d] : d \in loaded.departments},
           targets |-> old.targets \cup {new[d] : d \in loaded.targets},
           json |-> json]
    BY <1>2, <2>1, <2>2 DEF Beside
  <2> QED
    BY <2>3
<1>6. rows \in Holding
  <2>1. \A d \in loaded.departments : new[d] \in Departments
    BY <1>3 DEF Fresh
  <2>2. /\ rows.departments \subseteq Departments
        /\ rows.targets \subseteq Departments
    BY <1>1, <1>2, <1>4, <1>5, <2>1 DEF Holding
  <2>3. rows.json \in BOOLEAN
    BY <1>2, <1>4, <1>5 DEF Beside, Holding
  <2>4. PICK json : /\ json \in BOOLEAN
                    /\ rows = [departments |-> rows.departments,
                               targets |-> rows.targets, json |-> json]
    BY <1>5, <2>3 DEF Beside
  <2> QED
    BY <2>2, <2>4 DEF Holding
<1>7. /\ held' = [held EXCEPT ![h.company] = rows]
      /\ held'[h.company] = rows
  BY <1>1, <1>3, <1>4, <1>5
<1>8. Orphans(rows) \subseteq Orphans(old)
  BY <1>1, <1>2, <1>5 DEF Orphans
<1> QED
  BY <1>1, <1>4, <1>6, <1>7, <1>8

\* What an import writes, company by company, and that it keeps the
\* invariant.
LEMMA ImportWrites ==
    ASSUME DirectoryInv, NEW s \in Slots, ImportCommit(s)
    PROVE  /\ DirectoryInv'
           /\ \A k \in Keys :
                IF Spared(work[s], k)
                  THEN users'[k] = users[k] /\ members'[k] = members[k]
                ELSE IF k[2] \in Imported THEN Restores(k)
                ELSE users'[k] = Null /\ members'[k] = Null
<1>1. PICK h \in Import : h = work[s] /\ h.op = "import" /\ h.company \in Companies
  BY Handled, Requested DEF ImportCommit, Handling, Import
<1>2. /\ staging # Null /\ staging.marks \subseteq Imported
      /\ Ends(s) /\ work[s] # Null
      /\ UNCHANGED <<companies, passwords, links, calls, scene, dumps>>
      /\ staging' = Null /\ importing' = FALSE
  BY <1>1 DEF ImportCommit, Handling, Importable
<1> PICK rows \in [People -> User \cup {Null}] :
      rows = staging.users /\ RowsPast(rows)
  BY <1>2 DEF DirectoryInv, TablesInv, TransferTypeOK, Dump, HashesPast
<1>3. PICK made \in [Unknown -> {a \in Accounts : accounts[a] = Null}] :
        /\ \A e, f \in Unknown : made[e] = made[f] => e = f
        /\ accounts' = WithAccounts(made)
  BY <1>1 DEF ImportCommit
<1>4. /\ accounts' \in [Accounts -> Account \cup {Null}]
      /\ \A a \in Accounts :
           \/ /\ accounts'[a] = accounts[a]
              /\ \A e \in Unknown : made[e] # a
           \/ \E e \in Unknown : /\ made[e] = a /\ accounts[a] = Null
                                 /\ accounts'[a] # Null
                                 /\ accounts'[a].email = e
                                 /\ accounts'[a].hash <= passwords
  BY <1>2, <1>3, AccountsMade DEF DirectoryInv
<1>5. /\ \A a \in Accounts : accounts[a] # Null => accounts'[a] = accounts[a]
      /\ \A a \in Accounts : accounts'[a] # Null =>
           accounts'[a].hash <= passwords
      /\ \A e \in Unknown : /\ made[e] \in Accounts
                            /\ accounts'[made[e]] # Null
                            /\ accounts'[made[e]].email = e
  BY <1>3, <1>4 DEF DirectoryInv, TablesInv, HashesPast
<1>6. /\ \A p \in Imported : p \in People /\ rows[p] \in User
      /\ \A p \in Imported : \E a \in Accounts :
           /\ accounts'[a] # Null
           /\ accounts'[a].email = rows[p].email
  <2>1. \A p \in Imported : p \in People /\ rows[p] \in User
    BY DEF Imported
  <2>2. ASSUME NEW p \in Imported
        PROVE  \E a \in Accounts : /\ accounts'[a] # Null
                                   /\ accounts'[a].email = rows[p].email
    <3>1. CASE rows[p].email \in Unknown
      BY <1>5, <3>1
    <3>2. CASE rows[p].email \notin Unknown
      <4>1. \E a \in Accounts : /\ accounts[a] # Null
                                /\ accounts[a].email = rows[p].email
        BY <3>2 DEF Unknown
      <4> QED
        BY <1>5, <4>1
    <3> QED
      BY <3>1, <3>2
  <2> QED
    BY <2>1, <2>2
<1> DEFINE own(e) == CHOOSE a \in Accounts : /\ accounts'[a] # Null
                                             /\ accounts'[a].email = e
<1>7. \A p \in Imported : /\ own(rows[p].email) \in Accounts
                          /\ accounts'[own(rows[p].email)] # Null
                          /\ accounts'[own(rows[p].email)].email = rows[p].email
                          /\ accounts'[own(rows[p].email)].hash \in Passwords
                          /\ accounts'[own(rows[p].email)].hash <= passwords
  <2>1. ASSUME NEW p \in Imported
        PROVE  /\ own(rows[p].email) \in Accounts
               /\ accounts'[own(rows[p].email)] # Null
               /\ accounts'[own(rows[p].email)].email = rows[p].email
    BY <1>6
  <2>2. \A a \in Accounts : accounts'[a] # Null =>
          accounts'[a].hash \in Passwords
    BY <1>4 DEF Account
  <2> HIDE DEF own
  <2> QED
    BY <1>5, <2>1, <2>2
<1>8. \A p \in Imported :
        /\ Restored(rows[p]) \in User
        /\ Restored(rows[p]).email = rows[p].email
        /\ Restored(rows[p]).hash = accounts'[own(rows[p].email)].hash
  <2> SUFFICES ASSUME NEW p \in Imported
               PROVE  /\ Restored(rows[p]) \in User
                      /\ Restored(rows[p]).email = rows[p].email
                      /\ Restored(rows[p]).hash
                           = accounts'[own(rows[p].email)].hash
    OBVIOUS
  <2>1. PICK row \in User : row = rows[p]
    BY <1>6
  <2>2. PICK hash \in Passwords : hash = accounts'[own(row.email)].hash
    BY <1>7, <2>1
  <2>3. Restored(row) = [row EXCEPT !.hash = hash,
                                    !.manager = IF @ \in Imported THEN @
                                                ELSE Null]
    BY <2>2 DEF Restored
  <2> HIDE DEF own
  <2>4. IF row.manager \in Imported THEN row.manager \in People \cup {Null}
        ELSE TRUE
    BY DEF User
  <2>5. /\ Restored(row) \in User /\ Restored(row).email = row.email
        /\ Restored(row).hash = hash
    BY <2>3, <2>4 DEF User
  <2> QED
    BY <2>1, <2>2, <2>5
<1> DEFINE kept(k) == k[1] = h.company => ~h.replace /\ k[2] \notin Imported
<1>9. /\ users' = [k \in Keys |->
           IF kept(k) THEN users[k]
           ELSE IF k[2] \in Imported THEN Restored(rows[k[2]])
           ELSE Null]
      /\ members' = [k \in Keys |->
           IF kept(k) THEN members[k]
           ELSE IF k[2] \in Imported
             THEN [account |-> own(users'[k].email), status |-> "active"]
             ELSE Null]
      /\ marks' = {k \in marks : kept(k)}
                    \cup {<<h.company, p>> : p \in staging.marks}
  BY <1>1 DEF ImportCommit
<1> HIDE DEF own, kept
<1>10. ASSUME NEW k \in Keys
       PROVE  \/ kept(k) /\ users'[k] = users[k] /\ members'[k] = members[k]
              \/ /\ ~kept(k)
                 /\ k[2] \in Imported /\ users'[k] = Restored(rows[k[2]])
                 /\ members'[k] = [account |-> own(rows[k[2]].email),
                                   status |-> "active"]
              \/ /\ ~kept(k) /\ k[2] \notin Imported
                 /\ users'[k] = Null /\ members'[k] = Null
  BY <1>8, <1>9
<1>11. ASSUME NEW k \in Keys, k[2] \in Imported,
              members'[k] = [account |-> own(rows[k[2]].email),
                             status |-> "active"]
       PROVE  /\ members'[k] \in Member /\ members'[k] # Null
              /\ members'[k].account = own(rows[k[2]].email)
  BY <1>7, <1>11, TenancyAssumption DEF Member, Statuses
<1>12. /\ users' \in [Keys -> User \cup {Null}]
       /\ members' \in [Keys -> Member \cup {Null}]
  <2>1. \A k \in Keys : /\ users'[k] \in User \cup {Null}
                        /\ members'[k] \in Member \cup {Null}
    BY <1>8, <1>10, <1>11, RowsTyped DEF DirectoryInv
  <2> QED
    BY <1>9, <2>1
<1>13. Grows
  <2>1. passwords \in 0..MaxPasswords /\ passwords \in Nat
    BY DEF DirectoryInv, TablesInv, DirectoryTypeOK
  <2> QED
    BY <1>2, <1>5, <2>1 DEF Grows
<1>14. DirectoryTypeOK' /\ TransferTypeOK'
  <2>1. DirectoryTypeOK'
    BY <1>2, <1>4, <1>12 DEF DirectoryInv, TablesInv, DirectoryTypeOK
  <2>2. marks' \subseteq Keys
    BY <1>1, <1>2, <1>6, <1>9, DumpsPast DEF TransferTypeOK, Keys
  <2> QED
    BY <1>1, <1>2, <2>1, <2>2, ImportHolds, DumpsPast DEF TransferTypeOK
<1>15. \A k \in Keys : members[k] # Null =>
         /\ members[k].account \in Accounts
         /\ accounts[members[k].account] # Null /\ users[k] # Null
         /\ accounts'[members[k].account] = accounts[members[k].account]
  BY <1>5, RowsTyped DEF DirectoryInv, TablesInv, Linked
<1>16. Linked'
  <2> SUFFICES ASSUME NEW k \in Keys, members'[k] # Null
               PROVE  /\ users'[k] # Null
                      /\ accounts'[members'[k].account] # Null
    BY DEF Linked
  <2>1. CASE kept(k) /\ users'[k] = users[k] /\ members'[k] = members[k]
    BY <1>15, <2>1
  <2>2. CASE /\ k[2] \in Imported /\ users'[k] = Restored(rows[k[2]])
             /\ members'[k] = [account |-> own(rows[k[2]].email),
                               status |-> "active"]
    <3>1. members'[k].account = own(rows[k[2]].email)
      BY <1>11, <2>2
    <3>2. users'[k] \in User
      BY <1>8, <2>2
    <3> QED
      BY <1>7, <2>2, <3>1, <3>2, TenancyAssumption
  <2> QED
    BY <1>10, <2>1, <2>2
<1>17. OnePerEmail'
  <2> SUFFICES ASSUME NEW a \in Accounts, NEW b \in Accounts,
                      accounts'[a] # Null, accounts'[b] # Null,
                      accounts'[a].email = accounts'[b].email
               PROVE  a = b
    BY DEF OnePerEmail
  <2>1. \A c \in Accounts : \A e \in Unknown :
          accounts[c] # Null => accounts[c].email # e
    BY DEF Unknown
  <2> QED
    BY <1>3, <1>4, <2>1 DEF DirectoryInv, TablesInv, OnePerEmail
<1>18. LinksKnown' /\ HashesPast'
  <2>1. LinksKnown'
    BY <1>2, <1>5 DEF DirectoryInv, TablesInv, LinksKnown, DirectoryTypeOK
  <2>2. \A k \in Keys : users'[k] # Null => users'[k].hash <= passwords
    BY <1>7, <1>8, <1>10 DEF DirectoryInv, TablesInv, HashesPast
  <2>3. \A a \in Accounts : accounts'[a] # Null => accounts'[a].hash <= passwords
    BY <1>5
  <2> QED
    BY <1>2, <2>1, <2>2, <2>3
       DEF DirectoryInv, TablesInv, HashesPast, RowsPast
<1>19. (Serialized => Matched)'
  <2> SUFFICES ASSUME Serialized, NEW k \in Keys, members'[k] # Null
               PROVE  accounts'[members'[k].account].email = users'[k].email
    BY <1>2 DEF Matched, Serialized
  <2>1. CASE kept(k) /\ users'[k] = users[k] /\ members'[k] = members[k]
    BY <1>15, <2>1 DEF DirectoryInv, TablesInv, Matched
  <2>2. CASE /\ k[2] \in Imported /\ users'[k] = Restored(rows[k[2]])
             /\ members'[k] = [account |-> own(rows[k[2]].email),
                               status |-> "active"]
    BY <1>7, <1>8, <1>11, <2>2
  <2> QED
    BY <1>10, <2>1, <2>2
<1>20. TablesInv'
  BY <1>14, <1>16, <1>17, <1>18, <1>19 DEF TablesInv
<1>21. ASSUME NEW k \in Keys, k[2] \in Imported,
              users'[k] = Restored(rows[k[2]]),
              members'[k] = [account |-> own(rows[k[2]].email),
                             status |-> "active"]
       PROVE  Restores(k)
  <2>1. users'[k] # Null /\ members'[k] # Null
    BY <1>8, <1>11, <1>21, TenancyAssumption
  <2>2. users'[k].hash = accounts'[members'[k].account].hash
    BY <1>8, <1>11, <1>21
  <2>3. PICK row \in User : row = rows[k[2]]
    BY <1>6, <1>21
  <2>4. PICK hash : hash = accounts'[own(row.email)].hash
    OBVIOUS
  <2>5. Restored(row) = [row EXCEPT !.hash = hash,
                                    !.manager = IF @ \in Imported THEN @
                                                ELSE Null]
    BY <2>4 DEF Restored, own
  <2>6. [Restored(row) EXCEPT !.hash = 1]
          = [row EXCEPT !.hash = 1, !.manager = IF @ \in Imported THEN @
                                                ELSE Null]
    BY <2>3, <2>5 DEF User
  <2> QED
    BY <1>21, <2>1, <2>2, <2>3, <2>6 DEF Restores
<1>22. \A k \in Keys : kept(k) <=> Spared(work[s], k)
  BY <1>1 DEF kept, Spared
<1> QED
  BY <1>2, <1>10, <1>13, <1>20, <1>21, <1>22, Ending DEF DirectoryInv

LEMMA TransferKeeps ==
    ASSUME DirectoryInv, NEW s \in Slots, TransferStep(s)
    PROVE  DirectoryInv'
BY MarkKeeps, WritesKeep, HoldingWrites, BackupStartKeeps, BackupRestKeeps,
   ImportStartKeeps, ImportLoadKeeps, ImportWrites, ImportFailsKeeps
   DEF TransferStep, HoldingWritten

LEMMA StepKeeps ==
    ASSUME DirectoryInv, NEW s \in Slots, Step(s)
    PROVE  DirectoryInv'
BY IdentityKeeps, StaffKeeps, TransferKeeps, FailsKeeps
   DEF Step, transferVars

-----------------------------------------------------------------------------
(***************************************************************************)
(* The invariant of the tab: s is its session, o the one to come back to,  *)
(* p the administrator of its panel.                                       *)
(***************************************************************************)
Accessing(s) == s # Null /\ s.kind = "access"

\* A session of the panel goes with the panel's own, now or once it is back.
Coherent(s, o, p) ==
    /\ s = Null => o = Null
    /\ o # Null => o.kind # "access"
    /\ s # Null /\ s.kind = "platform" => p # Null
    /\ Accessing(s) /\ o # Null /\ o.kind = "platform" => p # Null

\* All three are of one person.
OfOne(s, o, p) ==
    /\ p # Null /\ s # Null => IsGlobal(s) /\ s.by = p
    /\ Accessing(s) => p = s.by /\ o \in {Null, ForPanel(s.by)}

\* The profile that is waited for is that of the session.
OwnProfile(r, u, s) == r.op = "me" => u = "dashboard" /\ SameToken(r.token, s)

\* What was asked for with the panel's token, or without one, will be obeyed
\* under the same panel, or still without one.
StillFits(r, p) ==
    /\ r.op = "access" => p # Null /\ r.token = p
    /\ r.op = "switch" /\ r.token.kind = "tenant" => p = Null

\* Somebody patient waits for one answer at a time.
OneAnswer(rs) ==
    \A q, r \in rs : q.op \notin Effects /\ r.op \notin Effects => q = r

PatientInv ==
    /\ OneAnswer(asked)
    /\ \A r \in asked : r.op # "bootstrap" /\ StillFits(r, platform)
    /\ OfOne(session, origin, platform)

WebInv ==
    /\ WebTypeOK
    /\ url \in {"dashboard", "password"} => session # Null
    /\ Coherent(session, origin, platform)
    /\ \A r \in asked : OwnProfile(r, url, session)
    /\ Patient => PatientInv

\* Null is no session, account or e-mail; what each kind of session is of.
LEMMA NullIsNone ==
    /\ Null \notin Session /\ Null \notin Emails /\ Null \notin Accounts
    /\ \A k \in Session : /\ k.kind \in {"tenant", "platform", "access"}
                          /\ k.kind = "tenant" => k.by \in Accounts
                          /\ k.kind # "tenant" => k.by \in Emails /\ ~k.must
                          /\ k.kind # "platform" => k.key \in Keys
                          /\ k.kind = "platform" => k = ForPanel(k.by)
<1>1. Null \notin Session /\ Null \notin Emails /\ Null \notin Accounts
  BY DirectoryAssumption, TenancyAssumption
<1>2. ASSUME NEW k \in Session
      PROVE  /\ k.kind \in {"tenant", "platform", "access"}
             /\ k.kind = "tenant" => k.by \in Accounts
             /\ k.kind # "tenant" => k.by \in Emails /\ ~k.must
             /\ k.kind # "platform" => k.key \in Keys
             /\ k.kind = "platform" => k = ForPanel(k.by)
  BY DEF Session, ForPanel
<1> QED
  BY <1>1, <1>2

\* The sessions of a global administrator.
LEMMA GlobalSessions ==
    ASSUME NEW g \in Emails
    PROVE  /\ ForPanel(g) \in Session /\ ForPanel(g).kind = "platform"
           /\ ForPanel(g).by = g
           /\ \A k \in Keys : /\ ForAccess(g, k) \in Session
                              /\ ForAccess(g, k).kind = "access"
                              /\ ForAccess(g, k).by = g
BY DEF ForPanel, ForAccess, Session

\* Where the router ends.
LEMMA WhereItGoes ==
    ASSUME NEW u, NEW s \in Session \cup {Null}, NEW p \in Emails \cup {Null},
           NEW rest \in SUBSET Question, NEW r, Goes(u, s, p, rest)
    PROVE  /\ session' = s /\ platform' = p
           /\ url' \in {"login", "password", "dashboard", "panel"}
           /\ url' \in {"dashboard", "password"} => s # Null
           /\ choices' \in {choices, Null}
           /\ r \in asked' =>
                /\ r \in Question
                /\ OwnProfile(r, url', s)
                /\ \/ r \in rest
                   \/ r.op \in {"me", "load"}
                   \/ r.op = "bootstrap" /\ p = Null /\ IsGlobal(s)
<1> PICK v : v = Routed(u, s, p)
  OBVIOUS
<1>1. /\ session' = s /\ platform' = p /\ url' = v
      /\ asked' = Kept(rest, v, s) \cup Opened(v, s, p)
      /\ choices' = IF v = "login" THEN choices ELSE Null
  BY DEF Goes
<1>2. /\ v \in {"login", "password", "dashboard", "panel"}
      /\ v \in {"dashboard", "password"} => s # Null
      /\ v = "panel" => p # Null \/ IsGlobal(s)
  <2>1. CASE u = "panel" /\ (p # Null \/ IsGlobal(s))
    BY <2>1 DEF Routed
  <2>2. CASE u = "password" /\ s # Null
    BY <2>2 DEF Routed
  <2>3. CASE u = "dashboard" /\ s # Null
    <3>1. s.kind = "platform" => IsGlobal(s)
      BY <2>3 DEF IsGlobal
    <3> QED
      BY <2>3, <3>1 DEF Routed
  <2>4. CASE /\ ~(u = "panel" /\ (p # Null \/ IsGlobal(s)))
             /\ ~(u = "password" /\ s # Null)
             /\ ~(u = "dashboard" /\ s # Null)
    BY <2>4 DEF Routed
  <2> QED
    BY <2>1, <2>2, <2>3, <2>4
<1>3. ASSUME r \in Opened(v, s, p)
      PROVE  /\ r \in Question
             /\ OwnProfile(r, v, s)
             /\ \/ r.op \in {"me", "load"}
                \/ r.op = "bootstrap" /\ p = Null /\ IsGlobal(s)
  <2>1. CASE v = "dashboard"
    <3>1. r = [op |-> "me", token |-> s, of |-> Null] /\ s \in Session
      BY <1>2, <1>3, <2>1 DEF Opened, Ask
    <3>2. SameToken(r.token, s)
      BY <3>1, NullIsNone DEF SameToken
    <3> QED
      BY <2>1, <3>1, <3>2 DEF Question, OwnProfile
  <2>2. CASE v = "panel" /\ p # Null
    <3>1. r = [op |-> "load", token |-> Null, of |-> p] /\ p \in Emails
      BY <1>3, <2>2 DEF Opened, Ask
    <3> QED
      BY <3>1 DEF Question, OwnProfile
  <2>3. CASE v = "panel" /\ p = Null
    <3>1. r = [op |-> "bootstrap", token |-> s, of |-> Null]
      BY <1>3, <2>3 DEF Opened, Ask
    <3>2. IsGlobal(s) /\ s \in Session
      BY <1>2, <2>3 DEF IsGlobal
    <3> QED
      BY <2>3, <3>1, <3>2 DEF Question, OwnProfile
  <2> QED
    BY <1>3, <2>1, <2>2, <2>3 DEF Opened
<1>4. r \in Kept(rest, v, s) => r \in rest /\ OwnProfile(r, v, s)
  BY DEF Kept, OwnProfile
<1> QED
  BY <1>1, <1>2, <1>3, <1>4

\* The router goes somewhere, with sessions that fit.
LEMMA GoingKeeps ==
    ASSUME WebInv, NEW u, NEW s \in Session \cup {Null},
           NEW p \in Emails \cup {Null}, NEW rest \in SUBSET asked,
           Goes(u, s, p, rest), origin' \in Session \cup {Null},
           UNCHANGED <<scene, globals>>, Coherent(s, origin', p),
           Patient => /\ OfOne(s, origin', p)
                      /\ \A r \in rest : StillFits(r, p)
    PROVE  WebInv'
<1> PICK o : o = origin'
  OBVIOUS
<1>1. rest \in SUBSET Question
  BY DEF WebInv, WebTypeOK
<1>2. ASSUME NEW r \in asked'
      PROVE  /\ r \in Question /\ OwnProfile(r, url', s)
             /\ \/ r \in rest
                \/ r.op \in {"me", "load"}
                \/ r.op = "bootstrap" /\ p = Null /\ IsGlobal(s)
  BY <1>1, WhereItGoes
<1>3. /\ session' = s /\ platform' = p
      /\ url' \in {"login", "password", "dashboard", "panel"}
      /\ url' \in {"dashboard", "password"} => s # Null
      /\ choices' \in {choices, Null}
  BY <1>1, WhereItGoes
<1>4. WebTypeOK'
  BY <1>2, <1>3 DEF WebInv, WebTypeOK
<1>5. Coherent(session, origin, platform)'
  BY <1>3 DEF Coherent, Accessing
<1>6. \A r \in asked' : OwnProfile(r, url, session)'
  BY <1>2, <1>3 DEF OwnProfile, SameToken
<1>7. ASSUME Patient PROVE PatientInv'
  <2>1. \A r \in asked' : r.op # "bootstrap"
    <3>1. ~(p = Null /\ IsGlobal(s))
      BY <1>7, NullIsNone DEF OfOne, Coherent, IsGlobal, Accessing
    <3>2. \A r \in rest : r.op # "bootstrap"
      BY <1>7 DEF WebInv, PatientInv
    <3> QED
      BY <1>2, <3>1, <3>2
  <2>2. ASSUME NEW r \in asked' PROVE StillFits(r, p)
    BY <1>2, <1>7, <2>1, <2>2 DEF StillFits
  <2>3. OneAnswer(asked')
    <3>1. \A r \in asked' : r.op \notin Effects => r \in rest
      BY <1>2 DEF Effects
    <3> QED
      BY <1>7, <3>1 DEF WebInv, PatientInv, OneAnswer
  <2>4. OfOne(session, origin, platform)'
    BY <1>3, <1>7 DEF OfOne, Accessing, IsGlobal, ForPanel
  <2> QED
    BY <1>3, <2>1, <2>2, <2>3, <2>4 DEF PatientInv, OneAnswer, StillFits, Effects
<1> QED
  BY <1>3, <1>4, <1>5, <1>6, <1>7 DEF WebInv, Patient, Requests

\* The router goes on with the session it has.
LEMMA StayingKeeps ==
    ASSUME WebInv, NEW u, NEW rest \in SUBSET asked,
           Goes(u, session, platform, rest),
           UNCHANGED <<scene, globals, origin>>
    PROVE  WebInv'
BY GoingKeeps DEF WebInv, WebTypeOK, PatientInv

\* The tab waits for one answer less, or one more.
LEMMA AskingKeeps ==
    ASSUME WebInv,
           UNCHANGED <<session, origin, platform, url, scene, globals>>,
           choices' \in Accounts \cup {Null},
           NEW r \in Question, asked' \subseteq asked \cup {r},
           r \in asked' =>
             \/ r \in asked
             \/ /\ r.op \notin Effects
                /\ Patient => /\ \A q \in asked : q.op \in Effects
                              /\ StillFits(r, platform)
    PROVE  WebInv'
<1>1. WebTypeOK'
  BY DEF WebInv, WebTypeOK
<1>2. \A q \in asked' : OwnProfile(q, url, session)'
  BY DEF WebInv, OwnProfile, Effects, SameToken
<1>3. ASSUME Patient PROVE PatientInv'
  <2>1. OneAnswer(asked')
    BY <1>3 DEF WebInv, PatientInv, OneAnswer
  <2>2. \A q \in asked' : q.op # "bootstrap" /\ StillFits(q, platform)
    BY <1>3 DEF WebInv, PatientInv, Effects
  <2> QED
    BY <1>3, <2>1, <2>2
       DEF WebInv, PatientInv, OneAnswer, StillFits, OfOne, Accessing, IsGlobal,
           ForPanel, Effects
<1> QED
  BY <1>1, <1>2, <1>3
     DEF WebInv, Coherent, Accessing, Patient, Requests

LEMMA AsksKeeps ==
    ASSUME WebInv, NEW r \in Question, Asks(r), r.op \notin Effects,
           Patient => StillFits(r, platform)
    PROVE  WebInv'
BY AskingKeeps DEF Asks, Acts, WebInv, WebTypeOK

LEMMA AskedKeeps ==
    ASSUME DirectoryInv, WebInv, Asked
    PROVE  WebInv'
<1> USE DEF Effects, StillFits, Ask
<1>1. ASSUME NEW e \in Emails, NEW typed \in 0..passwords, SubmitLogin(e, typed)
      PROVE  WebInv'
  <2>1. typed \in 0..MaxPasswords
    BY DirectoryAssumption DEF DirectoryInv, TablesInv, DirectoryTypeOK
  <2>2. PICK r : r = [op |-> "login", token |-> Null, of |-> <<e, typed>>]
    OBVIOUS
  <2>3. r \in Question /\ r.op = "login"
    BY <2>1, <2>2 DEF Question
  <2> QED
    BY <1>1, <2>2, <2>3, AsksKeeps DEF SubmitLogin
<1>2. ASSUME NEW c \in Companies, SelectCompany(c) PROVE WebInv'
  <2>1. PICK r : r = [op |-> "select", token |-> choices, of |-> c]
    OBVIOUS
  <2>2. r \in Question /\ r.op = "select"
    BY <1>2, <2>1 DEF Question, SelectCompany, WebInv, WebTypeOK
  <2> QED
    BY <1>2, <2>1, <2>2, AsksKeeps DEF SelectCompany
<1>3. ASSUME NEW c \in Companies, SwitchCompany(c) PROVE WebInv'
  <2>1. PICK r : r = [op |-> "switch", token |-> session, of |-> c]
    OBVIOUS
  <2>2. session \in Session /\ session # Null
    BY <1>3 DEF SwitchCompany, WebInv, WebTypeOK
  <2>3. r \in Question /\ r.op = "switch" /\ r.token = session
    BY <2>1, <2>2 DEF Question
  <2>4. Patient => StillFits(r, platform)
    BY <2>2, <2>3 DEF WebInv, PatientInv, OfOne, IsGlobal
  <2> QED
    BY <1>3, <2>1, <2>3, <2>4, AsksKeeps DEF SwitchCompany
<1>4. ASSUME NEW c \in Companies, AccessCompany(c) PROVE WebInv'
  <2>1. PICK r : r = [op |-> "access", token |-> platform, of |-> c]
    OBVIOUS
  <2>2. /\ r \in Question /\ r.op = "access" /\ r.token = platform
        /\ platform # Null
    BY <1>4, <2>1 DEF Question, AccessCompany, WebInv, WebTypeOK
  <2> QED
    BY <1>4, <2>1, <2>2, AsksKeeps DEF AccessCompany
<1>5. ASSUME SubmitPassword PROVE WebInv'
  <2>1. PICK r : r = [op |-> "change", token |-> session, of |-> Null]
    OBVIOUS
  <2>2. session \in Session
    BY <1>5 DEF SubmitPassword, WebInv, WebTypeOK
  <2>3. r \in Question /\ r.op = "change"
    BY <2>1, <2>2 DEF Question
  <2> QED
    BY <1>5, <2>1, <2>3, AsksKeeps DEF SubmitPassword
<1> QED
  BY <1>1, <1>2, <1>3, <1>4, <1>5 DEF Asked

\* Somebody leaves, comes back from a company or follows a link.
LEMMA MovesKeep ==
    ASSUME WebInv, NEW u, Leaves \/ LeavesPanel \/ Returns \/ Visits(u)
    PROVE  WebInv'
<1> USE NullIsNone
<1>1. CASE Visits(u)
  BY <1>1, StayingKeeps DEF Visits, Acts
<1>2. CASE Leaves
  <2>1. OfOne(Null, Null, platform) /\ Coherent(Null, Null, platform)
    BY DEF OfOne, Coherent, Accessing
  <2> QED
    BY <1>2, <2>1, GoingKeeps
       DEF Leaves, Cleared, Acts, WebInv, WebTypeOK, PatientInv
<1>3. CASE LeavesPanel
  <2>1. OfOne(Null, Null, Null) /\ Coherent(Null, Null, Null)
    BY DEF OfOne, Coherent, Accessing
  <2>2. Patient => \A r \in asked : StillFits(r, Null)
    BY <1>3 DEF LeavesPanel, Acts, StillFits, Effects
  <2> QED
    BY <1>3, <2>1, <2>2, GoingKeeps
       DEF LeavesPanel, Cleared, Acts, WebInv, WebTypeOK
<1>4. CASE Returns
  <2>1. Accessing(session) /\ session \in Session
    BY <1>4 DEF Returns, Impersonating, Accessing, WebInv, WebTypeOK
  <2>2. Coherent(origin, Null, platform)
    BY <2>1 DEF WebInv, Coherent, Accessing
  <2>3. Patient => OfOne(origin, Null, platform)
    BY <2>1
       DEF WebInv, PatientInv, OfOne, Accessing, IsGlobal, ForPanel
  <2> QED
    BY <1>4, <2>2, <2>3, GoingKeeps
       DEF Returns, Acts, WebInv, WebTypeOK, PatientInv
<1> QED
  BY <1>1, <1>2, <1>3, <1>4

\* When a request of somebody patient is answered, no other is waited for.
LEMMA LastAnswer ==
    ASSUME WebInv, Patient, NEW r \in asked, r.op \notin Effects,
           NEW p
    PROVE  \A q \in asked \ {r} : StillFits(q, p)
BY DEF WebInv, PatientInv, OneAnswer, StillFits, Effects

\* A session of a company is signed for one of its active users.
LEMMA SignedFor ==
    ASSUME DirectoryInv, NEW a \in Accounts, NEW k \in Offered(a)
    PROVE  /\ ForTenant(a, k) \in Session /\ ForTenant(a, k).kind = "tenant"
           /\ k \in Keys
<1>1. k \in Keys /\ users[k] # Null
  BY DEF Offered, ActiveMembersOf, MembersOf
<1>2. users[k].must \in BOOLEAN
  BY <1>1, RowsTyped DEF DirectoryInv
<1> QED
  BY <1>1, <1>2 DEF ForTenant, Session

\* A session of a company without the panel's.
LEMMA EntersAlone ==
    ASSUME DirectoryInv, WebInv, NEW a \in Accounts, NEW k \in Offered(a),
           NEW u, NEW r \in asked, r.op \notin Effects,
           Goes(u, ForTenant(a, k), Null, asked \ {r}),
           UNCHANGED <<scene, globals, origin>>
    PROVE  WebInv'
<1> PICK s \in Session : s = ForTenant(a, k) /\ s.kind = "tenant"
  BY SignedFor
<1>1. s # Null
  BY NullIsNone
<1>2. Coherent(s, origin, Null) /\ OfOne(s, origin, Null)
  BY <1>1 DEF WebInv, Coherent, OfOne, Accessing
<1>3. Patient => \A q \in asked \ {r} : StillFits(q, Null)
  BY LastAnswer
<1>4. origin \in Session \cup {Null} /\ origin' = origin
  BY DEF WebInv, WebTypeOK
<1> QED
  BY <1>2, <1>3, <1>4, GoingKeeps

LEMMA LoginAnsweredKeeps ==
    ASSUME DirectoryInv, WebInv, NEW r \in asked, LoginAnswered(r)
    PROVE  WebInv'
<1>1. /\ r.op = "login" /\ r.op \notin Effects
      /\ UNCHANGED <<scene, globals, origin>>
  BY DEF LoginAnswered, Reads, Answers, Effects
<1>2. r \in Question /\ r.of[1] \in Emails
  BY <1>1 DEF WebInv, WebTypeOK, Question
<1>3. CASE /\ r.of[1] \in globals
           /\ Goes("panel", ForPanel(r.of[1]), r.of[1], asked \ {r})
  <2>1. PICK s \in Session : s = ForPanel(r.of[1]) /\ s.kind = "platform"
                             /\ s.by = r.of[1]
    BY <1>2, GlobalSessions
  <2>2. s # Null /\ r.of[1] # Null
    BY <1>2, NullIsNone
  <2>3. Coherent(s, origin, r.of[1]) /\ OfOne(s, origin, r.of[1])
    BY <2>1, <2>2 DEF WebInv, Coherent, OfOne, Accessing, IsGlobal
  <2>4. Patient => \A q \in asked \ {r} : StillFits(q, r.of[1])
    BY <1>1, LastAnswer
  <2>5. origin \in Session \cup {Null} /\ origin' = origin
    BY <1>1 DEF WebInv, WebTypeOK
  <2>6. Goes("panel", s, r.of[1], asked \ {r})
    BY <1>3, <2>1
  <2> QED
    BY <1>1, <1>2, <2>3, <2>4, <2>5, <2>6, GoingKeeps
<1>4. ASSUME NEW a \in ActiveAccountOf(r.of[1]), NEW k \in Offered(a),
             Goes("dashboard", ForTenant(a, k), Null, asked \ {r})
      PROVE  WebInv'
  BY <1>1, <1>4, EntersAlone DEF ActiveAccountOf, AccountOf
<1>5. ASSUME NEW a \in ActiveAccountOf(r.of[1]), asked' = asked \ {r},
             choices' = IF url = "login" THEN a ELSE choices,
             UNCHANGED <<session, platform, url>>
      PROVE  WebInv'
  <2>1. choices' \in Accounts \cup {Null}
    BY <1>5 DEF ActiveAccountOf, AccountOf, WebInv, WebTypeOK
  <2> QED
    BY <1>1, <1>2, <1>5, <2>1, AskingKeeps
<1> QED
  BY <1>3, <1>4, <1>5 DEF LoginAnswered

LEMMA SelectionAnsweredKeeps ==
    ASSUME DirectoryInv, WebInv, NEW r \in asked, SelectionAnswered(r)
    PROVE  WebInv'
<1>1. /\ r.op = "select" /\ r.op \notin Effects
      /\ UNCHANGED <<scene, globals, origin>>
  BY DEF SelectionAnswered, Reads, Answers, Effects
<1>2. r.token \in Accounts
  BY <1>1 DEF WebInv, WebTypeOK, Question
<1> QED
  BY <1>1, <1>2, EntersAlone DEF SelectionAnswered, Enterable

LEMMA SwitchAnsweredKeeps ==
    ASSUME DirectoryInv, WebInv, NEW r \in asked, SwitchAnswered(r)
    PROVE  WebInv'
<1>1. /\ r.op = "switch" /\ r.op \notin Effects /\ r.token.kind = "tenant"
      /\ UNCHANGED <<scene, globals, origin>>
  BY DEF SwitchAnswered, Reads, Answers, Effects
<1>2. r.token \in Session /\ r.token.by \in Accounts
  BY <1>1, NullIsNone DEF WebInv, WebTypeOK, Question
<1>3. PICK k \in Offered(r.token.by) :
        Goes("dashboard", ForTenant(r.token.by, k), platform, asked \ {r})
  BY DEF SwitchAnswered, Enterable
<1>4. PICK s \in Session : s = ForTenant(r.token.by, k) /\ s.kind = "tenant"
  BY <1>2, SignedFor
<1>5. s # Null
  BY NullIsNone
<1>6. Coherent(s, origin, platform)
  BY <1>4, <1>5 DEF WebInv, Coherent, Accessing
<1>7. Patient => OfOne(s, origin, platform)
  BY <1>1, <1>4 DEF WebInv, PatientInv, StillFits, OfOne, Accessing
<1>8. Patient => \A q \in asked \ {r} : StillFits(q, platform)
  BY <1>1, LastAnswer
<1>9. /\ origin \in Session \cup {Null} /\ origin' = origin
      /\ platform \in Emails \cup {Null}
  BY <1>1 DEF WebInv, WebTypeOK
<1> QED
  BY <1>1, <1>3, <1>4, <1>6, <1>7, <1>8, <1>9, GoingKeeps

LEMMA MeAnsweredKeeps ==
    ASSUME DirectoryInv, WebInv, NEW r \in asked, MeAnswered(r)
    PROVE  WebInv'
<1>1. /\ r.op = "me" /\ r.token.kind = "tenant"
      /\ UNCHANGED <<scene, globals, origin>>
      /\ users[r.token.key] # Null
      /\ SameToken(r.token, session)
  BY DEF MeAnswered, Reads, Answers, Authenticated, WebInv, OwnProfile
<1>2. r.token \in Session /\ r.token.key \in Keys /\ r.token.by \in Accounts
  BY <1>1, NullIsNone DEF WebInv, WebTypeOK, Question
<1>3. PICK s : s = [r.token EXCEPT !.must = users[r.token.key].must]
  OBVIOUS
<1>4. users[r.token.key].must \in BOOLEAN
  BY <1>1, <1>2, RowsTyped DEF DirectoryInv
<1>5. s \in Session /\ s.kind = "tenant"
  BY <1>1, <1>2, <1>3, <1>4 DEF Session
<1>6. s # Null /\ session # Null /\ session.kind = "tenant"
  BY <1>1, <1>5, NullIsNone DEF SameToken
<1>7. Coherent(s, origin, platform)
  BY <1>5, <1>6 DEF WebInv, Coherent, Accessing
<1>8. Patient => OfOne(s, origin, platform)
  BY <1>5, <1>6 DEF WebInv, PatientInv, OfOne, Accessing, IsGlobal
<1>9. Goes(url, s, platform, asked \ {r})
  BY <1>3 DEF MeAnswered
<1>10. Patient => \A q \in asked \ {r} : StillFits(q, platform)
  BY DEF WebInv, PatientInv
<1>11. /\ origin \in Session \cup {Null} /\ origin' = origin
       /\ platform \in Emails \cup {Null}
  BY <1>1 DEF WebInv, WebTypeOK
<1> QED
  BY <1>1, <1>5, <1>7, <1>8, <1>9, <1>10, <1>11, GoingKeeps

LEMMA AccessAnsweredKeeps ==
    ASSUME DirectoryInv, WebInv, NEW r \in asked, AccessAnswered(r)
    PROVE  WebInv'
<1>1. /\ r.op = "access" /\ r.op \notin Effects
      /\ UNCHANGED <<scene, globals>> /\ origin' = Remembered
  BY DEF AccessAnswered, Reads, Answers, Effects
<1>2. r.token \in Emails
  BY <1>1 DEF WebInv, WebTypeOK, Question
<1>3. PICK k \in Keys :
        Goes("dashboard", ForAccess(r.token, k), platform, asked \ {r})
  BY DEF AccessAnswered
<1>4. PICK s \in Session : /\ s = ForAccess(r.token, k)
                           /\ s.kind = "access" /\ s.by = r.token
  BY <1>2, GlobalSessions
<1>5. s # Null
  BY NullIsNone
<1>6. Remembered \in Session \cup {Null} /\ Coherent(s, Remembered, platform)
  BY <1>4, <1>5
     DEF WebInv, WebTypeOK, Coherent, Accessing, Remembered, Impersonating
<1>7. Patient => OfOne(s, Remembered, platform)
  <2> SUFFICES ASSUME Patient PROVE OfOne(s, Remembered, platform)
    OBVIOUS
  <2>1. platform # Null /\ r.token = platform
    BY <1>1 DEF WebInv, PatientInv, StillFits
  <2>2. Remembered \in {Null, ForPanel(platform)}
    <3>1. CASE session # Null /\ ~Impersonating
      <4>1. session.by = platform /\ session.kind = "platform"
        BY <2>1, <3>1, NullIsNone
           DEF WebInv, WebTypeOK, PatientInv, OfOne, IsGlobal, Impersonating
      <4>2. session = ForPanel(session.by)
        BY <3>1, <4>1, NullIsNone DEF WebInv, WebTypeOK
      <4> QED
        BY <3>1, <4>1, <4>2 DEF Remembered
    <3>2. CASE Impersonating
      BY <2>1, <3>2
         DEF WebInv, PatientInv, OfOne, Accessing, Impersonating, Remembered
    <3>3. CASE session = Null
      BY <3>3 DEF WebInv, Coherent, Remembered
    <3> QED
      BY <3>1, <3>2, <3>3
  <2> QED
    BY <1>4, <1>5, <2>1, <2>2 DEF OfOne, Accessing, IsGlobal
<1>8. Goes("dashboard", s, platform, asked \ {r})
  BY <1>3, <1>4
<1>9. PICK o \in Session \cup {Null} : o = Remembered
  BY <1>6
<1>10. Patient => \A q \in asked \ {r} : StillFits(q, platform)
  BY <1>1, LastAnswer
<1>11. platform \in Emails \cup {Null}
  BY DEF WebInv, WebTypeOK
<1> QED
  BY <1>1, <1>4, <1>6, <1>7, <1>8, <1>9, <1>10, <1>11, GoingKeeps

LEMMA BootstrapAnsweredKeeps ==
    ASSUME WebInv, NEW r \in asked, BootstrapAnswered(r)
    PROVE  WebInv'
<1>1. /\ r.op = "bootstrap" /\ UNCHANGED <<scene, globals, origin>>
  BY DEF BootstrapAnswered, Reads, Answers
<1>2. PICK p \in Emails : /\ p = users[r.token.key].email
                          /\ Goes(url, session, p, asked \ {r})
  BY DEF BootstrapAnswered, WebInv, WebTypeOK
<1>3. p # Null /\ ~Patient
  BY <1>1, NullIsNone DEF WebInv, PatientInv
<1>4. Coherent(session, origin, p)
  BY <1>3 DEF WebInv, Coherent
<1>5. /\ origin \in Session \cup {Null} /\ origin' = origin
      /\ session \in Session \cup {Null}
  BY <1>1 DEF WebInv, WebTypeOK
<1> QED
  BY <1>1, <1>2, <1>3, <1>4, <1>5, GoingKeeps

LEMMA PasswordAnsweredKeepsTab ==
    ASSUME WebInv, NEW r \in asked, PasswordAnswered(r)
    PROVE  WebInv'
<1>1. PICK s : s = IF session = Null THEN Null
                   ELSE [session EXCEPT !.must = FALSE]
  OBVIOUS
<1>2. /\ Goes("dashboard", s, platform, asked \ {r})
      /\ UNCHANGED <<scene, globals, origin>>
  BY <1>1 DEF PasswordAnswered, Answers
<1>3. IF session = Null THEN s = Null
      ELSE /\ s \in Session /\ s # Null
           /\ s.kind = session.kind /\ s.by = session.by
  <2>1. CASE session = Null
    BY <1>1, <2>1
  <2>2. CASE session # Null
    <3>1. session \in Session
      BY <2>2 DEF WebInv, WebTypeOK
    <3>2. s \in Session /\ s.kind = session.kind /\ s.by = session.by
      BY <1>1, <2>2, <3>1 DEF Session
    <3> QED
      BY <2>2, <3>2, NullIsNone
  <2> QED
    BY <2>1, <2>2
<1>4. Coherent(s, origin, platform)
  BY <1>3 DEF WebInv, Coherent, Accessing
<1>5. Patient => OfOne(s, origin, platform)
  BY <1>3 DEF WebInv, PatientInv, OfOne, Accessing, IsGlobal
<1>6. Patient => \A q \in asked \ {r} : StillFits(q, platform)
  BY DEF WebInv, PatientInv
<1>7. /\ origin \in Session \cup {Null} /\ origin' = origin
      /\ platform \in Emails \cup {Null} /\ s \in Session \cup {Null}
  BY <1>2, <1>3 DEF WebInv, WebTypeOK
<1> QED
  BY <1>2, <1>4, <1>5, <1>6, <1>7, GoingKeeps

LEMMA PanelRefusedKeeps ==
    ASSUME WebInv, NEW r \in asked, PanelRefused(r)
    PROVE  WebInv'
<1>1. PICK rest \in SUBSET asked :
        /\ rest = {q \in asked \ {r} : q.op # "access"}
        /\ Goes("login", Null, Null, rest)
  BY DEF PanelRefused
<1>2. UNCHANGED <<scene, globals>> /\ origin' = Null
  BY DEF PanelRefused, Reads, Answers, Cleared
<1>3. Coherent(Null, Null, Null) /\ OfOne(Null, Null, Null)
  BY DEF Coherent, OfOne, Accessing
<1>4. \A q \in rest : StillFits(q, Null)
  BY <1>1 DEF StillFits
<1> QED
  BY <1>1, <1>2, <1>3, <1>4, GoingKeeps

LEMMA NothingElseKeeps ==
    ASSUME WebInv, NEW r \in asked, NothingElse(r)
    PROVE  WebInv'
<1>1. UNCHANGED <<session, origin, platform, choices, url, scene, globals>>
      /\ asked' = asked \ {r}
  BY DEF NothingElse, Reads, Answers
<1>2. r \in Question /\ choices' \in Accounts \cup {Null}
  BY <1>1 DEF WebInv, WebTypeOK
<1> QED
  BY <1>1, <1>2, AskingKeeps

LEMMA WebStepKeepsTab ==
    ASSUME DirectoryInv, WebInv, WebStep
    PROVE  WebInv'
<1>1. ASSUME NEW r \in asked, Answered(r) PROVE WebInv'
  BY <1>1, LoginAnsweredKeeps, SelectionAnsweredKeeps, SwitchAnsweredKeeps,
     MeAnsweredKeeps, AccessAnsweredKeeps, BootstrapAnsweredKeeps,
     PasswordAnsweredKeepsTab, NothingElseKeeps, PanelRefusedKeeps
     DEF Answered
<1> QED
  BY <1>1, AskedKeeps, MovesKeep DEF WebStep

\* A handler changes nothing in the tab.
LEMMA TabStays ==
    ASSUME WebInv, UNCHANGED <<browser, globals, scene>>
    PROVE  WebInv'
<1>1. UNCHANGED <<session, origin, platform, choices, url, asked, globals,
                  scene>>
  BY DEF browser
<1> QED
  BY <1>1
     DEF WebInv, WebTypeOK, Coherent, Accessing, OwnProfile, SameToken, Patient,
         Requests, PatientInv, OneAnswer, StillFits, OfOne, IsGlobal, ForPanel,
         Effects

\* The scene is an assumption: no handler changes it.
LEMMA SceneStays ==
    ASSUME NEW s, Step(s)
    PROVE  scene' = scene
<1>1. IdentityStep(s) => scene' = scene
  BY DEF IdentityStep, LoginStart, LoginFind, LoginCreate, LoginLink,
     LoginAnswer, AsksForLink, ChangeStart, ResetStart, OwnStart, OwnSave,
     OwnFind, OwnRows
<1>2. StaffStep(s) => scene' = scene
  BY DEF StaffStep, CreateStart, CreateUser, CreateAccount, CreateMember,
     EditStart, EditAccount, EditUser, EditMember, AdminStart, AdminCommit,
     AdminEditStart, AdminEditCommit, Provision, CompanyStatus
<1>3. TransferStep(s) => scene' = scene
  BY HoldingLeaves DEF HoldingWritten, TransferStep, Mark, BackupStart, BackupRest, ImportStart, ImportLoad,
     ImportCommit, ImportFails, Fails
<1>4. Fails(s) => scene' = scene
  BY DEF Fails
<1> QED
  BY <1>1, <1>2, <1>3, <1>4 DEF Step

-----------------------------------------------------------------------------
(***************************************************************************)
(* The tab and the tables.                                                 *)
(***************************************************************************)
\* The tab is the only one that changes.
LEMMA TablesStay ==
    ASSUME DirectoryInv, calls' \in 0..Scenes[scene].calls,
           UNCHANGED <<tables, passwords, links, work, scene, transferVars>>
    PROVE  DirectoryInv'
<1>1. TablesInv' /\ Grows
  BY RowsStay, LinksPast DEF DirectoryInv
<1>2. WorkInv'
  BY <1>1, WorkStays
<1> QED
  BY <1>1, <1>2 DEF DirectoryInv

LEMMA PasswordAnsweredKeeps ==
    ASSUME DirectoryInv, WebInv, NEW r \in asked, PasswordAnswered(r),
           UNCHANGED transferVars
    PROVE  DirectoryInv'
<1>1. PICK a : a = r.token.by
  OBVIOUS
<1>2. /\ r.op = "change" /\ r.token.kind = "tenant"
      /\ members[r.token.key] # Null /\ members[r.token.key].account = a
      /\ Chooses
      /\ accounts' = [accounts EXCEPT ![a].hash = Chosen]
      /\ users' = [k \in Keys |->
           IF k \in MembersOf(a)
             THEN [users[k] EXCEPT !.hash = Chosen, !.must = FALSE]
             ELSE users[k]]
      /\ UNCHANGED <<companies, members, links, work, calls, scene>>
      /\ Serialized => \A s \in Slots : work[s] = Null
  BY <1>1 DEF PasswordAnswered, Answers, Authenticated
<1>3. r.token \in Session /\ r.token.key \in Keys /\ a \in Accounts
  BY <1>1, <1>2, NullIsNone DEF WebInv, WebTypeOK, Question
<1>4. accounts[a] # Null
  BY <1>2, <1>3 DEF DirectoryInv, TablesInv, Linked
<1>5. \A k \in MembersOf(a) : users[k] # Null
  BY DEF MembersOf, DirectoryInv, TablesInv, Linked
<1>6. PICK row \in Account : /\ row = [accounts[a] EXCEPT !.hash = Chosen]
                             /\ row.email = accounts[a].email
                             /\ row.hash = Chosen
  <2>1. PICK old \in Account : old = accounts[a]
    BY <1>3, <1>4, RowsTyped DEF DirectoryInv
  <2>2. Chosen \in Passwords
    BY <1>2, ChosenIsNew DEF DirectoryInv
  <2>3. PICK row : row = [old EXCEPT !.hash = Chosen]
    OBVIOUS
  <2>4. row \in Account /\ row.email = old.email /\ row.hash = Chosen
    BY <2>1, <2>2, <2>3 DEF Account
  <2> QED
    BY <2>1, <2>3, <2>4
<1>7. /\ accounts' \in [Accounts -> Account \cup {Null}]
      /\ accounts'[a] = row /\ row # Null
      /\ \A b \in Accounts \ {a} : accounts'[b] = accounts[b]
  BY <1>2, <1>3, <1>6, RowsTyped, TenancyAssumption DEF DirectoryInv
<1>8. Grows
  BY <1>2, <1>7, ChosenIsNew DEF Grows, DirectoryInv
<1>9. TablesInv'
  <2>1. calls' \in 0..Scenes[scene].calls
    BY <1>2 DEF DirectoryInv, TablesInv, DirectoryTypeOK
  <2>2. Chosen \in Passwords /\ Chosen <= passwords'
    BY <1>2, ChosenIsNew DEF DirectoryInv
  <2>3. PICK found \in SUBSET Keys : found = MembersOf(a)
    BY DEF MembersOf
  <2>4. PICK hash \in Passwords : hash = Chosen /\ hash <= passwords'
    BY <2>2
  <2>5. users' = [k \in Keys |->
           IF k \in found /\ users[k] # Null
             THEN [users[k] EXCEPT !.hash = hash, !.must = FALSE]
             ELSE users[k]]
    BY <1>2, <1>5, <2>3, <2>4
  <2>6. \A b \in Accounts :
          /\ accounts'[b] = Null <=> accounts[b] = Null
          /\ accounts[b] # Null =>
               /\ accounts'[b].email = accounts[b].email
               /\ \/ accounts'[b] = accounts[b]
                  \/ accounts'[b].hash <= passwords'
    BY <1>4, <1>6, <1>7, <2>2
  <2>7. UNCHANGED <<companies, members, links, transferVars>>
    BY <1>2
  <2> QED
    BY <1>7, <1>8, <2>1, <2>3, <2>4, <2>5, <2>6, <2>7, UsersRehashed
       DEF DirectoryInv
<1>10. WorkInv'
  BY <1>2, <1>8, WorkStays
<1> QED
  BY <1>9, <1>10 DEF DirectoryInv

LEMMA WebStepKeeps ==
    ASSUME DirectoryInv, WebInv, WebStep, UNCHANGED transferVars
    PROVE  DirectoryInv'
<1>1. CASE \E r \in asked : PasswordAnswered(r)
  BY <1>1, PasswordAnsweredKeeps
<1>2. CASE ~\E r \in asked : PasswordAnswered(r)
  <2>1. \/ UNCHANGED <<tables, passwords, links, work, calls, scene>>
        \/ Acts
    <3>1. ASSUME NEW r \in asked, Answered(r)
          PROVE  UNCHANGED <<tables, passwords, links, work, calls, scene>>
      BY <1>2, <3>1
         DEF Answered, LoginAnswered, SelectionAnswered, SwitchAnswered,
             MeAnswered, AccessAnswered, BootstrapAnswered, NothingElse,
             PanelRefused, Reads, Answers, tables
    <3>2. Asked => Acts
      BY DEF Asked, SubmitLogin, SelectCompany, SwitchCompany, AccessCompany,
         SubmitPassword, Asks
    <3> QED
      BY <3>1, <3>2 DEF WebStep, Leaves, LeavesPanel, Returns, Visits
  <2>2. calls' \in 0..Scenes[scene].calls
    BY <2>1, DirectoryAssumption
       DEF Acts, DirectoryInv, TablesInv, DirectoryTypeOK
  <2> QED
    BY <2>1, <2>2, TablesStay DEF Acts
<1> QED
  BY <1>1, <1>2

-----------------------------------------------------------------------------
(***************************************************************************)
(* Every behaviour.                                                        *)
(***************************************************************************)
TenancyInv == DirectoryInv /\ WebInv

LEMMA DirectoryAtStart ==
    ASSUME DirectoryInit, TransferInit
    PROVE  DirectoryInv /\ Matched
<1>1. PICK p \in People, e \in Emails, must \in BOOLEAN, theirs \in SUBSET Keys :
        /\ scene \in DOMAIN Scenes
        /\ companies \in [Companies -> {"active", "inactive", "suspended",
                                        Null}]
        /\ accounts = [a \in Accounts |->
             IF a = 1 THEN [email |-> e, hash |-> 1, status |-> "active"]
             ELSE Null]
        /\ users = [k \in Keys |->
             IF k \in theirs
               THEN [email |-> e, hash |-> 1, must |-> must,
                     status |-> "active", role |-> "admin", manager |-> Null]
               ELSE Null]
        /\ members = [k \in Keys |->
             IF k \in theirs THEN [account |-> 1, status |-> "active"]
             ELSE Null]
        /\ passwords = 1 /\ links = {} /\ calls = 0
        /\ work = [s \in Slots |-> Null]
  <2>1. PICK p \in People, e \in Emails, must \in BOOLEAN :
          LET theirs == (IF "browse" \in Requests THEN Companies ELSE {Primary})
                          \X {p}
          IN /\ scene \in DOMAIN Scenes
             /\ companies = [c \in Companies |->
                  IF c = Primary \/ "browse" \in Requests
                                 \/ "company" \notin Requests
                    THEN "active" ELSE Null]
             /\ accounts = [a \in Accounts |->
                  IF a = 1 THEN [email |-> e, hash |-> 1, status |-> "active"]
                  ELSE Null]
             /\ users = [k \in Keys |->
                  IF k \in theirs
                    THEN [email |-> e, hash |-> 1, must |-> must,
                          status |-> "active", role |-> "admin",
                          manager |-> Null]
                    ELSE Null]
             /\ members = [k \in Keys |->
                  IF k \in theirs THEN [account |-> 1, status |-> "active"]
                  ELSE Null]
             /\ passwords = 1 /\ links = {} /\ calls = 0
             /\ work = [s \in Slots |-> Null]
    BY DEF DirectoryInit
  <2>2. PICK theirs : theirs = (IF "browse" \in Requests THEN Companies
                                ELSE {Primary}) \X {p}
    OBVIOUS
  <2>3. theirs \in SUBSET Keys
    BY <2>2, DirectoryAssumption DEF Keys
  <2>4. companies \in [Companies -> {"active", "inactive", "suspended", Null}]
    BY <2>1
  <2> QED
    BY <2>1, <2>2, <2>3, <2>4
<1>2. 1 \in Accounts /\ 1 \in Passwords /\ 1 \in 0..MaxPasswords /\ 1 # Null
  BY DirectoryAssumption DEF Accounts, Passwords
<1>3. PICK account \in Account, user \in User, member \in Member :
        /\ account = [email |-> e, hash |-> 1, status |-> "active"]
        /\ account.email = e /\ account.hash = 1 /\ account # Null
        /\ user = [email |-> e, hash |-> 1, must |-> must,
                   status |-> "active", role |-> "admin", manager |-> Null]
        /\ user.email = e /\ user.hash = 1 /\ user # Null
        /\ member = [account |-> 1, status |-> "active"]
        /\ member.account = 1 /\ member # Null
  <2>1. PICK account : account = [email |-> e, hash |-> 1, status |-> "active"]
    OBVIOUS
  <2>2. account \in Account /\ account.email = e /\ account.hash = 1
        /\ account # Null
    BY <1>2, <2>1, TenancyAssumption DEF Account, Statuses
  <2>3. PICK user : user = [email |-> e, hash |-> 1, must |-> must,
                            status |-> "active", role |-> "admin",
                            manager |-> Null]
    OBVIOUS
  <2>4. user \in User /\ user.email = e /\ user.hash = 1 /\ user # Null
    BY <1>2, <2>3, TenancyAssumption DEF User, Statuses
  <2>5. PICK member : member = [account |-> 1, status |-> "active"]
    OBVIOUS
  <2>6. member \in Member /\ member.account = 1 /\ member # Null
    BY <1>2, <2>5, TenancyAssumption DEF Member, Statuses
  <2> QED
    BY <2>1, <2>2, <2>3, <2>4, <2>5, <2>6
<1>4. /\ accounts = [a \in Accounts |-> IF a = 1 THEN account ELSE Null]
      /\ users = [k \in Keys |-> IF k \in theirs THEN user ELSE Null]
      /\ members = [k \in Keys |-> IF k \in theirs THEN member ELSE Null]
      /\ marks = {} /\ dumps = [c \in Companies |-> Null]
      /\ staging = Null /\ importing = FALSE
      /\ held = [c \in Companies |-> NoHolding]
  BY <1>1, <1>3 DEF TransferInit
<1>5. DirectoryTypeOK /\ TransferTypeOK
  <2>1. calls \in 0..Scenes[scene].calls
    BY <1>1, DirectoryAssumption
  <2>2. NoHolding \in Holding
    BY DEF NoHolding, Holding
  <2> QED
    BY <1>1, <1>2, <1>4, <2>1, <2>2 DEF DirectoryTypeOK, TransferTypeOK
<1>6. Linked /\ OnePerEmail /\ LinksKnown /\ Matched
  BY <1>1, <1>2, <1>3, <1>4 DEF Linked, OnePerEmail, LinksKnown, Matched
<1>7. HashesPast
  BY <1>1, <1>3, <1>4 DEF HashesPast
<1>8. WorkInv
  BY <1>1 DEF WorkInv, OneAtATime
<1> QED
  BY <1>5, <1>6, <1>7, <1>8 DEF DirectoryInv, TablesInv

LEMMA TabAtStart ==
    ASSUME WebInit
    PROVE  WebInv
<1>1. /\ session = Null /\ origin = Null /\ platform = Null /\ choices = Null
      /\ url = "login" /\ asked = {} /\ globals \subseteq Emails
  BY DEF WebInit
<1> QED
  BY <1>1
     DEF WebInv, WebTypeOK, Coherent, Accessing, PatientInv, OneAnswer, OfOne

LEMMA InvStep ==
    ASSUME TenancyInv, [Next]_vars
    PROVE  TenancyInv'
<1>1. ASSUME NEW s \in Slots, Step(s), UNCHANGED <<browser, globals>>
      PROVE  TenancyInv'
  BY <1>1, StepKeeps, SceneStays, TabStays DEF TenancyInv
<1>2. CASE WebStep /\ UNCHANGED <<marks, held, dumps, staging, importing>>
  BY <1>2, WebStepKeeps, WebStepKeepsTab DEF TenancyInv, transferVars
<1>3. CASE UNCHANGED vars
  <2>1. UNCHANGED <<tables, passwords, links, work, calls, scene, transferVars>>
        /\ UNCHANGED <<browser, globals>>
    BY <1>3 DEF vars, transferVars
  <2>2. calls' \in 0..Scenes[scene].calls
    BY <2>1 DEF TenancyInv, DirectoryInv, TablesInv, DirectoryTypeOK
  <2> QED
    BY <2>1, <2>2, TablesStay, TabStays DEF TenancyInv
<1> QED
  BY <1>1, <1>2, <1>3 DEF Next

LEMMA TenancyInvAlways == Spec => []TenancyInv
<1>1. Init => TenancyInv
  BY DirectoryAtStart, TabAtStart DEF Init, TenancyInv
<1>2. TenancyInv /\ [Next]_vars => TenancyInv'
  BY InvStep
<1> QED
  BY <1>1, <1>2, PTL DEF Spec

\* Rows, requests, dumps and the tab have their types, whatever overlaps: an
\* account for every membership, an answer of the kind that was asked for.
THEOREM TenancyTypeCorrect == Spec => []TypeOK
<1>1. TenancyInv => TypeOK
  BY DEF TenancyInv, DirectoryInv, TablesInv, WorkInv, WebInv, TypeOK
<1> QED
  BY <1>1, TenancyInvAlways, PTL

\* The sessions of a tab are of one person, however long it is used.
THEOREM SessionsAlwaysAgree == Spec => []SessionsAgree
<1>1. TenancyInv => SessionsAgree
  BY DEF TenancyInv, WebInv, Coherent, PatientInv, OfOne, Accessing,
     Impersonating, SessionsAgree
<1> QED
  BY <1>1, TenancyInvAlways, PTL

-----------------------------------------------------------------------------
(***************************************************************************)
(* Passwords.                                                              *)
(***************************************************************************)
\* What a step does to the password of an account: nothing, or a new one.
Rehashed == \A a \in Accounts : accounts[a] # Null =>
              \/ accounts'[a].hash = accounts[a].hash
              \/ Chooses /\ accounts'[a].hash = Chosen

\* No account is renamed.
AccountsStay == \A a \in Accounts : accounts[a] # Null =>
                  accounts'[a] # Null /\ accounts'[a].email = accounts[a].email

LEMMA ImportRehashes ==
    ASSUME DirectoryInv, NEW s \in Slots, ImportCommit(s)
    PROVE  Rehashed /\ AccountsStay
<1>1. staging # Null
  BY DEF ImportCommit, Importable
<1>2. PICK made \in [Unknown -> {a \in Accounts : accounts[a] = Null}] :
        /\ \A e, f \in Unknown : made[e] = made[f] => e = f
        /\ accounts' = WithAccounts(made)
  BY DEF ImportCommit
<1>3. \A a \in Accounts : accounts[a] # Null => accounts'[a] = accounts[a]
  BY <1>1, <1>2, AccountsMade DEF DirectoryInv
<1> QED
  BY <1>3 DEF Rehashed, AccountsStay

LEMMA TransferRehashes ==
    ASSUME DirectoryInv, NEW s \in Slots, TransferStep(s)
    PROVE  Rehashed /\ AccountsStay
<1>1. ImportCommit(s) \/ UNCHANGED accounts
  BY HoldingLeaves DEF HoldingWritten, TransferStep, Mark, BackupStart, BackupRest, ImportStart, ImportLoad,
     ImportFails, Fails, tables
<1> QED
  BY <1>1, ImportRehashes DEF Rehashed, AccountsStay

\* An account is added where there was none.
LEMMA AddingRehashes ==
    ASSUME DirectoryInv, MayAddAccount, NEW row,
           accounts' = [accounts EXCEPT ![NewAccount] = row]
    PROVE  Rehashed /\ AccountsStay
<1>1. PICK a \in Accounts : a = NewAccount /\ accounts[a] = Null
  BY NewAccountIsFree
<1>2. \A b \in Accounts : accounts[b] # Null => accounts'[b] = accounts[b]
  BY <1>1, RowsTyped DEF DirectoryInv
<1> QED
  BY <1>2 DEF Rehashed, AccountsStay

\* One account gets the new password.
LEMMA ChoosingRehashes ==
    ASSUME DirectoryInv, Chooses, NEW a \in Accounts,
           accounts' = [accounts EXCEPT ![a].hash = Chosen]
    PROVE  Rehashed /\ AccountsStay
<1>1. PICK row \in Account \cup {Null} : row = accounts[a]
  BY RowsTyped DEF DirectoryInv
<1>2. accounts'[a] = [row EXCEPT !.hash = Chosen]
  BY <1>1, RowsTyped DEF DirectoryInv
<1>3. row # Null => /\ accounts'[a].hash = Chosen
                     /\ accounts'[a].email = row.email /\ accounts'[a] # Null
  <2>1. PICK hash : hash = Chosen
    OBVIOUS
  <2>2. PICK new : new = [row EXCEPT !.hash = hash]
    OBVIOUS
  <2>3. row # Null => new \in Account /\ new.hash = hash /\ new.email = row.email
    BY <1>1, <2>1, <2>2, ChosenIsNew DEF Account, DirectoryInv
  <2> QED
    BY <1>2, <2>1, <2>2, <2>3, TenancyAssumption
<1>4. \A b \in Accounts \ {a} : accounts'[b] = accounts[b]
  BY RowsTyped DEF DirectoryInv
<1> QED
  BY <1>1, <1>3, <1>4 DEF Rehashed, AccountsStay

LEMMA IdentityRehashes ==
    ASSUME DirectoryInv, NEW s \in Slots, IdentityStep(s)
    PROVE  Rehashed /\ AccountsStay
<1>1. CASE LoginCreate(s)
  <2>1. \/ UNCHANGED accounts
        \/ MayAddAccount /\ \E row : accounts' = [accounts EXCEPT
                                                   ![NewAccount] = row]
    BY <1>1 DEF LoginCreate
  <2> QED
    BY <2>1, AddingRehashes DEF Rehashed, AccountsStay
<1>2. CASE OwnSave(s)
  <2>1. PICK h \in OwnPassword : h = work[s]
    BY <1>2, Handled, Requested DEF OwnSave, Handling
  <2>2. h.account \in Accounts
    BY <2>1 DEF OwnPassword
  <2> QED
    BY <1>2, <2>1, <2>2, ChoosingRehashes DEF OwnSave
<1>3. CASE UNCHANGED accounts
  BY <1>3 DEF Rehashed, AccountsStay
<1> QED
  BY <1>1, <1>2, <1>3
     DEF IdentityStep, LoginStart, LoginFind, LoginLink, LoginAnswer,
         AsksForLink, ChangeStart, ResetStart, OwnStart, OwnFind, OwnRows,
         tables

LEMMA AdminEditRehashes ==
    ASSUME DirectoryInv, NEW s \in Slots, AdminEditCommit(s)
    PROVE  Rehashed
<1>1. PICK h \in AdminEdit :
        /\ h = work[s] /\ h.op = "adminEdit" /\ Known(h)
  BY Handled, Requested DEF AdminEditCommit, Handling
<1>2. /\ h.account \in Accounts /\ accounts[h.account] # Null
      /\ h.password \in BOOLEAN
  BY <1>1, DirectoryAssumption DEF AdminEdit, Known, AccountOps
<1>3. h.password => Chooses
  BY <1>1 DEF AdminEditCommit
<1>4. CASE UNCHANGED accounts
  BY <1>4 DEF Rehashed
<1>5. CASE ~UNCHANGED accounts
  <2>1. accounts' = [accounts EXCEPT ![h.account] = AccountEdited(h, Chosen)]
    BY <1>1, <1>5 DEF AdminEditCommit
  <2>2. h.password => Chosen \in Passwords
    BY <1>3, ChosenIsNew DEF DirectoryInv
  <2>3. PICK hash : hash = Chosen
    OBVIOUS
  <2>4. AccountEdited(h, hash).hash
          = IF h.password THEN hash ELSE accounts[h.account].hash
    BY <1>2, <2>2, <2>3, EditedRows DEF DirectoryInv
  <2>5. PICK row : row = AccountEdited(h, hash)
    OBVIOUS
  <2>6. /\ accounts'[h.account] = row
        /\ \A b \in Accounts \ {h.account} : accounts'[b] = accounts[b]
    BY <1>2, <2>1, <2>3, <2>5, RowsTyped DEF DirectoryInv
  <2>7. \/ accounts'[h.account].hash = accounts[h.account].hash
        \/ Chooses /\ accounts'[h.account].hash = hash
    BY <1>3, <2>4, <2>5, <2>6
  <2> QED
    BY <1>2, <2>3, <2>6, <2>7 DEF Rehashed
<1> QED
  BY <1>4, <1>5

LEMMA StaffRehashes ==
    ASSUME DirectoryInv, NEW s \in Slots, StaffStep(s)
    PROVE  Rehashed /\ (AccountsStay \/ AdminEditCommit(s))
<1>1. CASE CreateAccount(s)
  <2>1. \/ UNCHANGED accounts
        \/ MayAddAccount /\ \E row : accounts' = [accounts EXCEPT
                                                   ![NewAccount] = row]
    BY <1>1 DEF CreateAccount
  <2> QED
    BY <2>1, AddingRehashes DEF Rehashed, AccountsStay
<1>2. CASE EditAccount(s)
  <2>1. PICK h \in Edit : h = work[s]
    BY <1>2, Handled, Requested DEF EditAccount, Handling
  <2>2. CASE h.account = Null
    BY <1>2, <2>1, <2>2 DEF EditAccount, Rehashed, AccountsStay
  <2>3. CASE h.account # Null
    <3>1. h.account \in Accounts
      BY <2>1, <2>3 DEF Edit
    <3> QED
      BY <1>2, <2>1, <2>3, <3>1, ChoosingRehashes DEF EditAccount
  <2> QED
    BY <2>2, <2>3
<1>3. CASE AdminCommit(s)
  <2>1. \/ UNCHANGED accounts
        \/ MayAddAccount /\ \E row : accounts' = [accounts EXCEPT
                                                   ![NewAccount] = row]
    BY <1>3 DEF AdminCommit
  <2> QED
    BY <2>1, AddingRehashes DEF Rehashed, AccountsStay
<1>4. CASE UNCHANGED accounts
  BY <1>4 DEF Rehashed, AccountsStay
<1> QED
  BY <1>1, <1>2, <1>3, <1>4, AdminEditRehashes
     DEF StaffStep, CreateStart, CreateUser, CreateMember, EditStart, EditUser,
         EditMember, AdminStart, AdminEditStart, Provision, CompanyStatus,
         tables

LEMMA WebRehashes ==
    ASSUME DirectoryInv, WebInv, WebStep
    PROVE  Rehashed /\ AccountsStay
<1>1. CASE \E r \in asked : PasswordAnswered(r)
  <2>1. PICK r \in asked : PasswordAnswered(r)
    BY <1>1
  <2>2. PICK a : a = r.token.by
    OBVIOUS
  <2>3. a \in Accounts
    <3>1. r.op = "change" /\ r.token.kind = "tenant"
      BY <2>1 DEF PasswordAnswered
    <3> QED
      BY <2>2, <3>1, NullIsNone DEF WebInv, WebTypeOK, Question
  <2> QED
    BY <2>1, <2>2, <2>3, ChoosingRehashes DEF PasswordAnswered
<1>2. CASE ~\E r \in asked : PasswordAnswered(r)
  <2>1. UNCHANGED accounts
    <3>1. ASSUME NEW r \in asked, Answered(r) PROVE UNCHANGED accounts
      BY <1>2, <3>1
         DEF Answered, LoginAnswered, SelectionAnswered, SwitchAnswered,
             MeAnswered, AccessAnswered, BootstrapAnswered, NothingElse,
             PanelRefused, Reads
    <3>2. Asked => Acts
      BY DEF Asked, SubmitLogin, SelectCompany, SwitchCompany, AccessCompany,
         SubmitPassword, Asks
    <3> QED
      BY <3>1, <3>2
         DEF WebStep, Leaves, LeavesPanel, Returns, Visits, Acts, tables
  <2> QED
    BY <2>1 DEF Rehashed, AccountsStay
<1> QED
  BY <1>1, <1>2

LEMMA StepRehashes ==
    ASSUME TenancyInv, [Next]_vars
    PROVE  Rehashed
<1>1. ASSUME NEW s \in Slots, Step(s) PROVE Rehashed
  <2>1. Fails(s) => Rehashed
    BY DEF Fails, Rehashed, tables
  <2> QED
    BY <1>1, <2>1, IdentityRehashes, StaffRehashes, TransferRehashes
       DEF Step, TenancyInv
<1>2. UNCHANGED vars => Rehashed
  BY DEF vars, tables, Rehashed
<1> QED
  BY <1>1, <1>2, WebRehashes DEF Next, TenancyInv

\* A link opens its account for one change of the password, for any number of
\* links, accounts and requests, overlapping or not.
THEOREM LinksStaySpent == Spec => LinksAreSpent
<1> DEFINE opens(link) == accounts[link.account].hash = link.hash
<1>1. ASSUME TenancyInv, [Next]_vars, NEW link \in links, ~opens(link)
      PROVE  ~opens(link)'
  <2>1. /\ link.account \in Accounts /\ accounts[link.account] # Null
        /\ link.hash \in Passwords
    BY <1>1 DEF TenancyInv, DirectoryInv, TablesInv, DirectoryTypeOK, LinksKnown
  <2>2. \/ accounts'[link.account].hash = accounts[link.account].hash
        \/ Chooses /\ accounts'[link.account].hash = Chosen
    BY <1>1, <2>1, StepRehashes DEF Rehashed
  <2>3. Chooses => link.hash < Chosen /\ Chosen \in Nat /\ link.hash \in Nat
    BY <1>1, <2>1, ChosenIsNew, DirectoryAssumption
       DEF TenancyInv, DirectoryInv, Passwords
  <2> QED
    BY <1>1, <2>2, <2>3
<1>2. ASSUME TenancyInv, NEW s \in Slots, Serialized, OwnSave(s),
             work[s].link # Null
      PROVE  accounts[work[s].account].hash = work[s].link
  BY <1>2, Handled DEF TenancyInv, OwnSave, Handling, Holds
<1>3. TenancyInv /\ [Next]_vars =>
        [LET opening(link) == accounts[link.account].hash = link.hash IN
         /\ \A link \in links : ~opening(link) => ~opening(link)'
         /\ \A s \in Slots : Serialized /\ OwnSave(s) /\ work[s].link # Null =>
              accounts[work[s].account].hash = work[s].link]_vars
  BY <1>1, <1>2
<1> QED
  BY <1>3, TenancyInvAlways, PTL DEF Spec, LinksAreSpent

-----------------------------------------------------------------------------
(***************************************************************************)
(* The rows of users.                                                      *)
(***************************************************************************)
\* A mark that falls falls with its password, to that of the account.
Falls(k) ==
    users[k] # Null /\ users'[k] # Null /\ users[k].must /\ ~users'[k].must
FallsWithPassword ==
    \A k \in Keys : Falls(k) =>
      /\ users'[k].hash # users[k].hash
      /\ members[k] # Null
      /\ users'[k].hash = accounts'[members[k].account].hash

\* Nobody is deleted, a new manager is a user of the same company, and a new
\* e-mail is nobody else's there.
ManagersStay ==
    \A k \in Keys :
      /\ users[k] # Null => users'[k] # Null
      /\ users'[k] # Null /\ users'[k].manager # Null =>
           \/ users[k] # Null /\ users'[k].manager = users[k].manager
           \/ users[<<k[1], users'[k].manager>>] # Null
      /\ users'[k] # Null =>
           \/ users[k] # Null /\ users'[k].email = users[k].email
           \/ \A o \in Keys : /\ k[1] = o[1] /\ users'[o] # Null
                              /\ users'[o].email = users'[k].email
                              => k = o

\* Nobody is renamed.
UsersStay == \A k \in Keys : users[k] # Null =>
               users'[k] # Null /\ users'[k].email = users[k].email

\* A step that writes no user.
LEMMA UsersUnchanged ==
    ASSUME UNCHANGED users
    PROVE  FallsWithPassword /\ ManagersStay /\ UsersStay
BY DEF FallsWithPassword, Falls, ManagersStay, UsersStay

\* A row is added where there was none.
LEMMA RowAdded ==
    ASSUME DirectoryInv, NEW k \in Keys, users[k] = Null, NEW row,
           Holders(k[1], row.email) = {},
           row.manager # Null => users[<<k[1], row.manager>>] # Null,
           users' = [users EXCEPT ![k] = row]
    PROVE  FallsWithPassword /\ ManagersStay /\ UsersStay
<1>1. users'[k] = row /\ \A o \in Keys \ {k} : users'[o] = users[o]
  BY RowsTyped DEF DirectoryInv
<1>2. \A o \in Keys : k[1] = o[1] /\ users'[o] # Null
                       /\ users'[o].email = row.email => k = o
  BY <1>1 DEF Holders
<1> QED
  BY <1>1, <1>2 DEF FallsWithPassword, Falls, ManagersStay, UsersStay

\* One row is changed.
LEMMA RowChanged ==
    ASSUME DirectoryInv, NEW k \in Keys, users[k] # Null, NEW row \in User,
           users' = [users EXCEPT ![k] = row],
           users[k].must => row.must,
           row.manager \in {Null, users[k].manager},
           Holders(k[1], row.email) \subseteq {k} \/ row.email = users[k].email
    PROVE  /\ FallsWithPassword /\ ManagersStay
           /\ row.email = users[k].email => UsersStay
<1>1. /\ users'[k] = row /\ row # Null
      /\ \A o \in Keys \ {k} : users'[o] = users[o]
  BY RowsTyped, TenancyAssumption DEF DirectoryInv
<1>2. \/ row.email = users[k].email
      \/ \A o \in Keys : k[1] = o[1] /\ users'[o] # Null
                           /\ users'[o].email = row.email => k = o
  BY <1>1 DEF Holders
<1> QED
  BY <1>1, <1>2 DEF FallsWithPassword, Falls, ManagersStay, UsersStay

\* The users of an account get its password, which none of them had.
LEMMA RowsGetPassword ==
    ASSUME DirectoryInv, NEW found, NEW hash \in Passwords,
           users' = [k \in Keys |->
             IF k \in found /\ users[k] # Null
               THEN [users[k] EXCEPT !.hash = hash, !.must = FALSE]
               ELSE users[k]]
    PROVE  /\ ManagersStay /\ UsersStay
           /\ /\ \A k \in Keys : users[k] # Null => users[k].hash # hash
              /\ \A k \in Keys \cap found :
                   /\ members[k] # Null
                   /\ accounts'[members[k].account].hash = hash
              => FallsWithPassword
<1>1. ASSUME NEW k \in Keys, users[k] # Null, users'[k] # users[k]
      PROVE  /\ k \in found /\ users'[k].hash = hash
             /\ users'[k].manager = users[k].manager
             /\ users'[k].email = users[k].email
             /\ users'[k] # Null
  <2>1. PICK row \in User : row = users[k]
    BY <1>1, RowsTyped DEF DirectoryInv
  <2>2. PICK new : new = [row EXCEPT !.hash = hash, !.must = FALSE]
    OBVIOUS
  <2>3. k \in found /\ users'[k] = new
    BY <1>1, <2>1, <2>2
  <2>4. /\ new \in User /\ new.hash = hash /\ new.manager = row.manager
        /\ new.email = row.email
    BY <2>1, <2>2 DEF User
  <2> QED
    BY <2>1, <2>3, <2>4, TenancyAssumption
<1>2. \A k \in Keys : users[k] = Null => users'[k] = Null
  OBVIOUS
<1>3. ManagersStay /\ UsersStay
  BY <1>1, <1>2 DEF ManagersStay, UsersStay
<1>4. /\ \A k \in Keys : users[k] # Null => users[k].hash # hash
      /\ \A k \in Keys \cap found :
           /\ members[k] # Null
           /\ accounts'[members[k].account].hash = hash
      => FallsWithPassword
  BY <1>1 DEF FallsWithPassword, Falls
<1> QED
  BY <1>3, <1>4

LEMMA OwnRowsRows ==
    ASSUME DirectoryInv, NEW s \in Slots, OwnRows(s)
    PROVE  ManagersStay /\ UsersStay /\ (Serialized => FallsWithPassword)
<1>1. PICK h \in OwnPassword :
        /\ h = work[s] /\ h.op = "own" /\ h.at = "rows" /\ Formed(h)
        /\ Serialized => Holds(h)
  BY Handled, Requested DEF OwnRows, Handling
<1>2. Serialized => \A k \in Keys : users[k] # Null => users[k].hash # h.hash
  BY <1>1 DEF Holds
<1>3. h.hash \in Passwords
  BY <1>1 DEF OwnPassword, Formed
<1>4. Serialized => \A k \in Keys \cap h.found :
                      /\ members[k] # Null
                      /\ accounts'[members[k].account].hash = h.hash
  BY <1>1 DEF Holds, MembersOf, OwnRows
<1>5. users' = [k \in Keys |->
         IF k \in h.found /\ users[k] # Null
           THEN [users[k] EXCEPT !.hash = h.hash, !.must = FALSE]
           ELSE users[k]]
  BY <1>1 DEF OwnRows
<1> QED
  BY <1>2, <1>3, <1>4, <1>5, RowsGetPassword

\* By a link, it falls with another password.
LEMMA OwnRowsByLink ==
    ASSUME DirectoryInv, Serialized, NEW s \in Slots, OwnRows(s),
           work[s].link # Null, NEW k \in Keys, Falls(k)
    PROVE  ~SamePassword(users'[k].hash, work[s].link)
<1>1. PICK h \in OwnPassword :
        /\ h = work[s] /\ h.op = "own" /\ h.at = "rows" /\ Holds(h)
  BY Handled, Requested DEF OwnRows, Handling
<1>2. ~SamePassword(h.hash, h.link)
  BY <1>1 DEF Holds
<1>3. PICK row \in User : row = users[k]
  BY RowsTyped DEF DirectoryInv, Falls
<1>4. PICK new : new = [row EXCEPT !.hash = h.hash, !.must = FALSE]
  OBVIOUS
<1>5. users'[k] = new
  BY <1>1, <1>3, <1>4 DEF OwnRows, Falls
<1>6. new.hash = h.hash
  BY <1>3, <1>4 DEF User
<1> QED
  BY <1>1, <1>2, <1>5, <1>6

LEMMA CreateUserRows ==
    ASSUME DirectoryInv, NEW s \in Slots, CreateUser(s)
    PROVE  FallsWithPassword /\ ManagersStay /\ UsersStay
<1>1. PICK h \in Create : h = work[s]
  BY Handled, Requested DEF CreateUser, Handling
<1>2. \/ UNCHANGED users
      \/ /\ users[h.key] = Null
         /\ h.manager # Null => users[<<h.key[1], h.manager>>] # Null
         /\ Holders(h.key[1], h.email) = {}
         /\ \E row : /\ row.manager = h.manager /\ row.email = h.email
                     /\ users' = [users EXCEPT ![h.key] = row]
  BY <1>1 DEF CreateUser, MayAdd
<1> QED
  BY <1>1, <1>2, RowAdded, UsersUnchanged DEF Create

LEMMA AdminCommitRows ==
    ASSUME DirectoryInv, NEW s \in Slots, AdminCommit(s)
    PROVE  FallsWithPassword /\ ManagersStay /\ UsersStay
<1>1. PICK h \in NewAdmin : h = work[s]
  BY Handled, Requested DEF AdminCommit, Handling
<1>2. \/ UNCHANGED users
      \/ /\ users[h.key] = Null
         /\ Holders(h.key[1], h.email) = {}
         /\ \E row : /\ row.manager = Null /\ row.email = h.email
                     /\ users' = [users EXCEPT ![h.key] = row]
  BY <1>1 DEF AdminCommit, MayAdd
<1>3. h.key \in Keys
  BY <1>1 DEF NewAdmin
<1> QED
  BY <1>2, <1>3, RowAdded, UsersUnchanged

LEMMA EditUserRows ==
    ASSUME DirectoryInv, NEW s \in Slots, EditUser(s)
    PROVE  FallsWithPassword /\ ManagersStay /\ UsersStay
<1>1. PICK h \in Edit : h = work[s]
  BY Handled, Requested DEF EditUser, Handling
<1>2. /\ h.key \in Keys /\ h.hash \in Passwords \cup {Null}
      /\ h.status \in Statuses \cup {Null}
  BY <1>1 DEF Edit
<1>3. CASE users[h.key] = Null
  BY <1>1, <1>3, UsersUnchanged DEF EditUser
<1>4. CASE users[h.key] # Null
  <2>1. PICK old \in User : /\ old = users[h.key] /\ old.hash \in Passwords
                            /\ old.status \in Statuses
    BY <1>2, <1>4, RowsTyped DEF DirectoryInv
  <2>2. PICK hash, status :
          /\ hash = IF h.hash = Null THEN old.hash ELSE h.hash
          /\ status = IF h.status = Null THEN old.status
                      ELSE Column(old.status, h.copy, h.status)
    OBVIOUS
  <2>3. hash \in Passwords /\ status \in Statuses
    BY <1>2, <2>1, <2>2 DEF Column
  <2>4. PICK new : new = [old EXCEPT !.hash = hash, !.status = status]
    OBVIOUS
  <2>5. /\ new \in User /\ new.must = old.must /\ new.manager = old.manager
        /\ new.email = old.email
    BY <2>1, <2>3, <2>4 DEF User
  <2>6. users' = [users EXCEPT ![h.key] =
                   [@ EXCEPT !.hash = hash, !.status = status]]
    BY <1>1, <1>2, <1>4, <2>1, <2>2, RowsTyped DEF EditUser, DirectoryInv
  <2>7. users' = [users EXCEPT ![h.key] = new]
    BY <1>2, <2>1, <2>4, <2>6, RowsTyped DEF DirectoryInv
  <2> QED
    BY <1>2, <1>4, <2>1, <2>5, <2>7, RowChanged
<1> QED
  BY <1>3, <1>4

LEMMA AdminEditRows ==
    ASSUME DirectoryInv, NEW s \in Slots, AdminEditCommit(s)
    PROVE  FallsWithPassword /\ ManagersStay
<1>1. PICK h \in AdminEdit : h = work[s]
  BY Handled, Requested DEF AdminEditCommit, Handling
<1>2. h.key \in Keys /\ (h.password => Chosen \in Passwords)
  BY <1>1, ChosenIsNew DEF AdminEdit, AdminEditCommit, DirectoryInv
<1>3. CASE UNCHANGED users
  BY <1>3, UsersUnchanged
<1>4. CASE ~UNCHANGED users
  <2>1. /\ users[h.key] # Null
        /\ users' = [users EXCEPT ![h.key] = AdminEdited(h, Chosen)]
        /\ Holders(h.key[1], AdminEdited(h, 1).email) \subseteq {h.key}
    BY <1>1, <1>4 DEF AdminEditCommit
  <2>2. PICK hash : hash = Chosen
    OBVIOUS
  <2>3. AdminEdited(h, hash) \in User
    BY <1>2, <2>1, <2>2, EditedRows DEF DirectoryInv
  <2>4. /\ users[h.key].must => AdminEdited(h, hash).must
        /\ AdminEdited(h, hash).manager \in {Null, users[h.key].manager}
        /\ AdminEdited(h, hash).email = AdminEdited(h, 1).email
    BY <1>2, <2>1, RowsTyped DEF DirectoryInv, AdminEdited, Column
  <2>5. PICK row \in User : row = AdminEdited(h, hash)
    BY <2>3
  <2> QED
    BY <1>2, <2>1, <2>2, <2>4, <2>5, RowChanged
<1> QED
  BY <1>3, <1>4

LEMMA PasswordAnsweredRows ==
    ASSUME DirectoryInv, WebInv, NEW r \in asked, PasswordAnswered(r)
    PROVE  FallsWithPassword /\ ManagersStay /\ UsersStay
<1>1. PICK a : a = r.token.by
  OBVIOUS
<1>2. /\ Chooses
      /\ users' = [k \in Keys |->
           IF k \in MembersOf(a)
             THEN [users[k] EXCEPT !.hash = Chosen, !.must = FALSE]
             ELSE users[k]]
  BY <1>1 DEF PasswordAnswered
<1>3. \A k \in MembersOf(a) : users[k] # Null
  BY DEF MembersOf, DirectoryInv, TablesInv, Linked
<1>4. PICK found, hash : found = MembersOf(a) /\ hash = Chosen
  OBVIOUS
<1>5. \A k \in Keys : users[k] # Null => users[k].hash # hash
  <2>1. \A k \in Keys : users[k] # Null => users[k].hash \in Nat
    BY RowsTyped, DirectoryAssumption DEF Passwords, DirectoryInv
  <2>2. \A k \in Keys : users[k] # Null => users[k].hash < Chosen
    BY <1>2, ChosenIsNew DEF DirectoryInv
  <2>3. Chosen \in Nat
    BY RowsTyped DEF DirectoryInv, Chosen
  <2>4. \A k \in Keys : users[k] # Null => users[k].hash < hash
    BY <1>4, <2>2
  <2> QED
    BY <1>4, <2>1, <2>3, <2>4
<1>6. users' = [k \in Keys |->
         IF k \in found /\ users[k] # Null
           THEN [users[k] EXCEPT !.hash = hash, !.must = FALSE]
           ELSE users[k]]
  BY <1>2, <1>3, <1>4
<1>7. hash \in Passwords
  BY <1>2, <1>4, ChosenIsNew DEF DirectoryInv
<1>8. ASSUME NEW k \in Keys \cap found
      PROVE  /\ members[k] # Null
             /\ accounts'[members[k].account].hash = hash
  <2>1. /\ members[k] # Null /\ members[k].account = a
        /\ a \in Accounts /\ accounts[a] # Null
    BY <1>4, <1>8 DEF MembersOf, DirectoryInv, TablesInv, Linked,
                      DirectoryTypeOK, Member
  <2>2. PICK row \in Account : row = accounts[a]
    BY <2>1, RowsTyped DEF DirectoryInv
  <2>3. /\ accounts' = [accounts EXCEPT ![a].hash = hash]
        /\ [row EXCEPT !.hash = hash].hash = hash
    BY <1>1, <1>4 DEF PasswordAnswered, Account
  <2> QED
    BY <2>1, <2>2, <2>3 DEF DirectoryInv, TablesInv, DirectoryTypeOK
<1> QED
  BY <1>5, <1>6, <1>7, <1>8, RowsGetPassword

LEMMA IdentityRows ==
    ASSUME DirectoryInv, NEW s \in Slots, IdentityStep(s)
    PROVE  ManagersStay /\ UsersStay /\ (Serialized => FallsWithPassword)
BY UsersUnchanged, OwnRowsRows
   DEF IdentityStep, LoginStart, LoginFind, LoginCreate, LoginLink,
       LoginAnswer, AsksForLink, ChangeStart, ResetStart, OwnStart, OwnSave,
       OwnFind, tables

LEMMA StaffRows ==
    ASSUME DirectoryInv, NEW s \in Slots, StaffStep(s)
    PROVE  /\ FallsWithPassword /\ ManagersStay
           /\ UsersStay \/ AdminEditCommit(s)
BY UsersUnchanged, CreateUserRows, EditUserRows, AdminCommitRows, AdminEditRows
   DEF StaffStep, CreateStart, CreateAccount, CreateMember, EditStart,
       EditAccount, EditMember, AdminStart, AdminEditStart, Provision,
       CompanyStatus, tables

LEMMA WebRows ==
    ASSUME DirectoryInv, WebInv, WebStep
    PROVE  FallsWithPassword /\ ManagersStay /\ UsersStay
<1>1. ASSUME NEW r \in asked, Answered(r)
      PROVE  FallsWithPassword /\ ManagersStay /\ UsersStay
  BY <1>1, UsersUnchanged, PasswordAnsweredRows
     DEF Answered, LoginAnswered, SelectionAnswered, SwitchAnswered,
         MeAnswered, AccessAnswered, BootstrapAnswered, NothingElse,
         PanelRefused, Reads
<1>2. Acts => FallsWithPassword /\ ManagersStay /\ UsersStay
  BY UsersUnchanged DEF Acts, tables
<1>3. Asked => Acts
  BY DEF Asked, SubmitLogin, SelectCompany, SwitchCompany, AccessCompany,
     SubmitPassword, Asks
<1> QED
  BY <1>1, <1>2, <1>3 DEF WebStep, Leaves, LeavesPanel, Returns, Visits

LEMMA StepFalls ==
    ASSUME TenancyInv, [Next]_vars, Serialized, staging = Null
    PROVE  FallsWithPassword
<1>1. UNCHANGED users => FallsWithPassword
  BY UsersUnchanged
<1>2. ASSUME NEW s \in Slots, Step(s) PROVE FallsWithPassword
  <2>1. TransferStep(s) => UNCHANGED users
    BY HoldingLeaves DEF HoldingWritten, TransferStep, Mark, BackupStart, BackupRest, ImportStart,
           ImportLoad, ImportCommit, Importable, ImportFails, Fails, tables
  <2> QED
    BY <1>1, <1>2, <2>1, IdentityRows, StaffRows
       DEF Step, Fails, tables, TenancyInv
<1> QED
  BY <1>1, <1>2, WebRows DEF Next, vars, tables, TenancyInv

\* Where requests do not overlap, the mark of a temporary password falls only
\* as the user gets the new password of their account, of which a link asks
\* that it is another one, whoever edits the user and in whatever way.
THEOREM TemporaryStaysMarked == Spec => MarkFallsByChoice
<1>1. ASSUME TenancyInv, [Next]_vars, Serialized, staging = Null,
             NEW k \in Keys, Falls(k)
      PROVE  /\ users'[k].hash # users[k].hash
             /\ members[k] # Null
             /\ users'[k].hash = accounts'[members[k].account].hash
             /\ \A s \in Slots : OwnRows(s) /\ work[s].link # Null =>
                  ~SamePassword(users'[k].hash, work[s].link)
  BY <1>1, StepFalls, OwnRowsByLink DEF FallsWithPassword, TenancyInv
<1>2. TenancyInv /\ [Next]_vars =>
        [Serialized /\ staging = Null =>
           \A k \in Keys :
             users[k] # Null /\ users'[k] # Null
               /\ users[k].must /\ ~users'[k].must
             => /\ users'[k].hash # users[k].hash
                /\ members[k] # Null
                /\ users'[k].hash = accounts'[members[k].account].hash
                /\ \A s \in Slots : OwnRows(s) /\ work[s].link # Null =>
                     ~SamePassword(users'[k].hash, work[s].link)]_vars
  BY <1>1 DEF Falls
<1> QED
  BY <1>2, TenancyInvAlways, PTL DEF Spec, MarkFallsByChoice

-----------------------------------------------------------------------------
(***************************************************************************)
(* The invariant of transfers: rows refer to users that are there and an   *)
(* e-mail has one user, in a company as in a dump, whose marks do too if   *)
(* nobody wrote while it was taken; and the staging database holds the     *)
(* dump of the only import.                                                *)
(***************************************************************************)
Sound(rows) ==
    /\ \A p \in People : rows[p] # Null /\ rows[p].manager # Null =>
                           rows[rows[p].manager] # Null
    /\ \A p, q \in People : /\ rows[p] # Null /\ rows[q] # Null
                             /\ rows[p].email = rows[q].email
                             => p = q
Refers(d) == /\ Sound(d.users)
             /\ d.whole => \A p \in d.marks : d.users[p] # Null

Transferring(h) ==
    /\ h.op = "backup" => Sound(h.users)
    /\ h.op = "import" => /\ Refers(h.dump) /\ importing
                          /\ h.at = "commit" => staging = h.dump
Importing(s) == work[s] # Null /\ work[s].op = "import"

OneHolder ==
    \A k, o \in Keys : /\ k[1] = o[1] /\ users[k] # Null /\ users[o] # Null
                       /\ users[k].email = users[o].email
                       => k = o

TransferInv ==
    /\ OneHolder
    /\ \A k \in marks : users[k] # Null
    /\ \A k \in Keys : users[k] # Null /\ users[k].manager # Null =>
                         users[<<k[1], users[k].manager>>] # Null
    /\ \A c \in Companies : dumps[c] # Null => Refers(dumps[c])
    /\ \A s \in Slots : work[s] # Null => Transferring(work[s])
    /\ \A s, t \in Slots : Importing(s) /\ Importing(t) => s = t

\* What a step does to the requests: those of other kinds may go on.
OthersGoOn == \A t \in Slots :
                \/ work'[t] = work[t] \/ work'[t] = Null
                \/ /\ work'[t].op \in AccountOps
                   /\ work'[t].op = "adminEdit" => "adminEdit" \in Requests

LEMMA GoesOnAs ==
    ASSUME DirectoryInv, NEW s \in Slots, NEW g, Continues(s, g)
    PROVE  /\ work'[s] = g /\ \A t \in Slots \ {s} : work'[t] = work[t]
           /\ g = Null => OthersGoOn
<1>1. work'[s] = g /\ \A t \in Slots \ {s} : work'[t] = work[t]
  BY DEF DirectoryInv, WorkInv, Continues
<1> QED
  BY <1>1 DEF OthersGoOn

LEMMA IdentityGoesOn ==
    ASSUME DirectoryInv, NEW s \in Slots, IdentityStep(s)
    PROVE  OthersGoOn
<1> USE DEF OthersGoOn, Continues
<1>0. work \in [Slots -> Handlers \cup {Null}]
  BY DEF DirectoryInv, WorkInv
<1>1. CASE \E email \in Emails, typed \in 1..passwords :
             LoginStart(s, email, typed)
  BY <1>0, <1>1 DEF LoginStart, Begins, AccountOps
<1>2. CASE LoginFind(s)
  <2>1. PICK h \in Login : h = work[s]
    BY <1>2, Handled, Requested DEF LoginFind, Handling
  <2>2. \A a : [h EXCEPT !.at = "link", !.account = a, !.hash = accounts[a].hash,
                         !.todo = h.seen].op = "login"
    BY <2>1 DEF Login
  <2>3. [h EXCEPT !.at = "create"].op = "login"
    BY <2>1 DEF Login
  <2>4. PICK g : /\ work' = [work EXCEPT ![s] = g]
                 /\ \/ g = Null \/ g = [h EXCEPT !.at = "create"]
                    \/ \E a : g = Found(h, a)
    BY <1>2, <2>1 DEF LoginFind, Ends
  <2> QED
    BY <1>0, <2>2, <2>3, <2>4 DEF Found, AccountOps
<1>3. CASE LoginCreate(s)
  <2>1. PICK h \in Login : h = work[s]
    BY <1>3, Handled, Requested DEF LoginCreate, Handling
  <2>2. PICK a : a = NewAccount
    OBVIOUS
  <2>3. \A n : [h EXCEPT !.at = "link", !.account = a, !.hash = n,
                        !.todo = h.seen].op = "login"
    BY <2>1 DEF Login
  <2>4. PICK g : /\ work' = [work EXCEPT ![s] = g]
                 /\ \/ g = Null
                    \/ \E n : g = [h EXCEPT !.at = "link", !.account = a,
                                            !.hash = n, !.todo = h.seen]
    BY <1>3, <2>1, <2>2 DEF LoginCreate, Ends
  <2> QED
    BY <1>0, <2>3, <2>4 DEF AccountOps
<1>4. CASE LoginLink(s)
  <2>1. PICK h \in Login : h = work[s]
    BY <1>4, Handled, Requested DEF LoginLink, Handling
  <2> QED
    BY <1>0, <1>4, <2>1 DEF LoginLink, Ends, Login, AccountOps
<1>5. CASE LoginAnswer(s) \/ OwnRows(s)
  BY <1>0, <1>5 DEF LoginAnswer, OwnRows, Ends
<1>6. CASE \E a \in Accounts : AsksForLink(s, a) \/ ChangeStart(s, a)
  BY <1>0, <1>6 DEF AsksForLink, ChangeStart, OwnStart, Begins, AccountOps
<1>7. CASE \E link \in links : ResetStart(s, link)
  BY <1>0, <1>7 DEF ResetStart, OwnStart, Begins, AccountOps
<1>8. CASE OwnSave(s)
  <2>1. PICK h \in OwnPassword : h = work[s]
    BY <1>8, Handled, Requested DEF OwnSave, Handling
  <2> QED
    BY <1>0, <1>8, <2>1 DEF OwnSave, OwnPassword, AccountOps
<1>9. CASE OwnFind(s)
  <2>1. PICK h \in OwnPassword : h = work[s]
    BY <1>9, Handled, Requested DEF OwnFind, Handling
  <2> QED
    BY <1>0, <1>9, <2>1 DEF OwnFind, OwnPassword, AccountOps
<1> QED
  BY <1>1, <1>2, <1>3, <1>4, <1>5, <1>6, <1>7, <1>8, <1>9 DEF IdentityStep

LEMMA StaffGoesOn ==
    ASSUME DirectoryInv, NEW s \in Slots, StaffStep(s)
    PROVE  OthersGoOn
<1> USE DEF OthersGoOn, Continues
<1>0. work \in [Slots -> Handlers \cup {Null}]
  BY DEF DirectoryInv, WorkInv
<1>1. CASE \E k \in Keys, email \in Emails, status \in Statuses,
              manager \in People \cup {Null} :
             CreateStart(s, k, email, status, manager)
  BY <1>0, <1>1 DEF CreateStart, Begins, AccountOps
<1>2. CASE CreateUser(s)
  <2>1. PICK h \in Create : h = work[s]
    BY <1>2, Handled, Requested DEF CreateUser, Handling
  <2>2. PICK hash, at :
          /\ hash = IF h.hash = Null THEN Chosen ELSE h.hash
          /\ at = IF h.account = Null THEN "account" ELSE "member"
    OBVIOUS
  <2>3. [h EXCEPT !.hash = hash, !.at = at].op = "create"
    BY <2>1 DEF Create
  <2>4. PICK g : /\ work' = [work EXCEPT ![s] = g]
                 /\ g = Null \/ g = [h EXCEPT !.hash = hash, !.at = at]
    BY <1>2, <2>1, <2>2 DEF CreateUser, Ends
  <2> QED
    BY <1>0, <2>3, <2>4 DEF AccountOps
<1>3. CASE CreateAccount(s)
  <2>1. PICK h \in Create : h = work[s]
    BY <1>3, Handled, Requested DEF CreateAccount, Handling
  <2> QED
    BY <1>0, <1>3, <2>1 DEF CreateAccount, Ends, Create, AccountOps
<1>4. CASE \E k \in Keys, status \in Statuses \cup {Null},
              password \in BOOLEAN : EditStart(s, k, status, password)
  BY <1>0, <1>4 DEF EditStart, Begins, AccountOps
<1>5. CASE EditAccount(s)
  <2>1. PICK h \in Edit : h = work[s]
    BY <1>5, Handled, Requested DEF EditAccount, Handling
  <2> QED
    BY <1>0, <1>5, <2>1 DEF EditAccount, Edit, AccountOps
<1>6. CASE EditUser(s)
  <2>1. PICK h \in Edit : h = work[s]
    BY <1>6, Handled, Requested DEF EditUser, Handling
  <2> QED
    BY <1>0, <1>6, <2>1 DEF EditUser, Ends, Edit, AccountOps
<1>7. CASE \E k \in Keys, email \in Emails : AdminStart(s, k, email)
  BY <1>0, <1>7 DEF AdminStart, Begins, AccountOps
<1>8. CASE \E k \in Keys, email \in Emails, status \in Statuses,
              password \in BOOLEAN : AdminEditStart(s, k, email, status, password)
  BY <1>0, <1>8 DEF AdminEditStart, Begins, Arrives, AccountOps
<1>9. CASE \/ CreateMember(s) \/ EditMember(s) \/ AdminCommit(s)
           \/ AdminEditCommit(s)
  BY <1>0, <1>9 DEF CreateMember, EditMember, AdminCommit, AdminEditCommit, Ends
<1>10. CASE \E c \in Companies :
              \/ Provision(s, c)
              \/ \E status \in {"active", "inactive", "suspended"} :
                   CompanyStatus(s, c, status)
  BY <1>0, <1>10 DEF Provision, CompanyStatus
<1> QED
  BY <1>1, <1>2, <1>3, <1>4, <1>5, <1>6, <1>7, <1>8, <1>9, <1>10 DEF StaffStep

\* The handlers of accounts leave transfers alone.
LEMMA OthersKeepTransfers ==
    ASSUME DirectoryInv, DirectoryInv', TransferInv, ManagersStay, OthersGoOn,
           UNCHANGED transferVars
    PROVE  TransferInv'
<1>1. UNCHANGED <<marks, held, dumps, staging, importing>>
  BY DEF transferVars
<1>2. \A k \in marks' : users'[k] # Null
  BY <1>1 DEF TransferInv, ManagersStay, DirectoryInv, TablesInv, TransferTypeOK
<1>3. ASSUME NEW k \in Keys, users'[k] # Null, users'[k].manager # Null
      PROVE  users'[<<k[1], users'[k].manager>>] # Null
  <2>1. PICK m : m = <<k[1], users'[k].manager>>
    OBVIOUS
  <2>2. users[m] # Null
    BY <1>3, <2>1 DEF ManagersStay, TransferInv
  <2>3. m \in Keys
    <3>1. users'[k].manager \in People
      BY <1>3 DEF DirectoryInv, TablesInv, DirectoryTypeOK, User
    <3> QED
      BY <2>1, <3>1 DEF Keys
  <2> QED
    BY <2>1, <2>2, <2>3 DEF ManagersStay
<1>4. ASSUME NEW s \in Slots, work'[s] # Null
      PROVE  Transferring(work[s])'
  BY <1>1, <1>4 DEF OthersGoOn, TransferInv, Transferring, Refers, Sound,
                    AccountOps
<1>5. \A s \in Slots : Importing(s)' => Importing(s)
  BY DEF OthersGoOn, Importing, AccountOps
<1>6. \A c \in Companies : dumps'[c] # Null => Refers(dumps'[c])
  BY <1>1 DEF TransferInv
<1>7. OneHolder'
  <2> SUFFICES ASSUME NEW k \in Keys, NEW o \in Keys, k[1] = o[1],
                      users'[k] # Null, users'[o] # Null,
                      users'[k].email = users'[o].email
               PROVE  k = o
    BY DEF OneHolder
  <2>1. CASE /\ users[k] # Null /\ users'[k].email = users[k].email
             /\ users[o] # Null /\ users'[o].email = users[o].email
    BY <2>1 DEF TransferInv, OneHolder
  <2> QED
    BY <2>1 DEF ManagersStay
<1> QED
  BY <1>2, <1>3, <1>4, <1>5, <1>6, <1>7 DEF TransferInv, Refers, Sound

LEMMA OneCompany == \A k \in Keys : /\ k = <<k[1], k[2]>>
                                    /\ k[1] \in Companies /\ k[2] \in People
BY DEF Keys

LEMMA MarkTransfers ==
    ASSUME TransferInv, NEW s \in Slots, NEW k \in Keys, Mark(s, k)
    PROVE  TransferInv'
<1>1. /\ marks' = marks \cup {k} /\ users[k] # Null
      /\ UNCHANGED <<users, work, dumps, staging, importing>>
  BY DEF Mark, tables
<1> QED
  BY <1>1 DEF TransferInv, Transferring, Refers, Sound, Importing, OneHolder

LEMMA HoldingTransfers ==
    ASSUME TransferInv, NEW s \in Slots, NEW c, HoldingWritten(s, c)
    PROVE  TransferInv'
BY HoldingLeaves
   DEF TransferInv, Transferring, Refers, Sound, Importing, OneHolder

\* A request of transfers arrives, goes on or ends, and no user is written.
LEMMA TransferGoesOn ==
    ASSUME DirectoryInv, TransferInv, NEW s \in Slots, NEW h, Continues(s, h),
           UNCHANGED <<users, marks>>,
           \A c \in Companies : dumps'[c] # Null => Refers(dumps'[c]),
           h # Null => Transferring(h)',
           \/ /\ UNCHANGED <<staging, importing>>
              /\ h # Null => h.op # "import"
           \/ \A t \in Slots \ {s} : ~Importing(t)
    PROVE  TransferInv'
<1>1. work'[s] = h /\ \A t \in Slots \ {s} : work'[t] = work[t]
  BY GoesOnAs
<1>2. ASSUME NEW t \in Slots, t # s, work'[t] # Null
      PROVE  Transferring(work[t])'
  <2>1. work'[t] = work[t] /\ work[t] # Null
    BY <1>1, <1>2
  <2> QED
    BY <1>2, <2>1 DEF TransferInv, Transferring, Refers, Sound, Importing
<1>3. ASSUME work'[s] # Null PROVE Transferring(work[s])'
  BY <1>1, <1>3 DEF Transferring, Refers, Sound
<1>4. \A t \in Slots : work'[t] # Null => Transferring(work[t])'
  BY <1>2, <1>3
<1>5. \A t, u \in Slots : Importing(t)' /\ Importing(u)' => t = u
  BY <1>1 DEF TransferInv, Importing
<1> QED
  BY <1>4, <1>5 DEF TransferInv, Refers, Sound, OneHolder

LEMMA BackupStartTransfers ==
    ASSUME DirectoryInv, TransferInv, NEW s \in Slots, NEW c \in Companies,
           BackupStart(s, c)
    PROVE  TransferInv'
<1>1. PICK rows : rows = UsersOf(c)
  OBVIOUS
<1>2. PICK h : /\ h = [op |-> "backup", at |-> "rest", company |-> c,
                       users |-> rows, rest |-> held[c]]
               /\ Begins(s, h)
  BY <1>1 DEF BackupStart
<1>3. UNCHANGED <<users, marks, held, dumps, staging, importing>>
  BY DEF BackupStart, tables
<1>4. Sound(rows)
  <2>1. \A p \in People : /\ <<c, p>> \in Keys /\ <<c, p>>[1] = c
                          /\ <<c, p>>[2] = p /\ rows[p] = users[<<c, p>>]
    BY <1>1 DEF Keys, UsersOf
  <2>2. ASSUME NEW p \in People, rows[p] # Null, rows[p].manager # Null
        PROVE  rows[rows[p].manager] # Null
    <3>0. PICK k \in Keys : k = <<c, p>> /\ k[1] = c /\ rows[p] = users[k]
      BY <2>1
    <3>1. rows[p].manager \in People
      BY <3>0, <2>2, RowsTyped DEF DirectoryInv
    <3>2. users[<<c, rows[p].manager>>] # Null
      BY <3>0, <2>2 DEF TransferInv
    <3> QED
      BY <1>1, <3>1, <3>2 DEF UsersOf
  <2>3. ASSUME NEW p \in People, NEW q \in People, rows[p] # Null,
               rows[q] # Null, rows[p].email = rows[q].email
        PROVE  p = q
    <3>1. PICK k \in Keys, o \in Keys : /\ k = <<c, p>> /\ o = <<c, q>>
                                        /\ k[1] = o[1] /\ k[2] = p /\ o[2] = q
      BY <2>1
    <3>2. k = o
      BY <2>1, <2>3, <3>1 DEF TransferInv, OneHolder
    <3> QED
      BY <3>1, <3>2
  <2> QED
    BY <2>2, <2>3 DEF Sound
<1>5. Transferring(h)' /\ Continues(s, h) /\ h.op = "backup"
  BY <1>2, <1>4 DEF Transferring, Begins, Sound
<1> QED
  BY <1>3, <1>5, TransferGoesOn DEF TransferInv

LEMMA BackupRestTransfers ==
    ASSUME DirectoryInv, TransferInv, NEW s \in Slots, BackupRest(s)
    PROVE  TransferInv'
<1>1. PICK h \in Backup : h = work[s] /\ Sound(h.users)
  BY Handled, Requested DEF BackupRest, Handling, TransferInv, Transferring
<1>2. PICK dump \in Dump :
        /\ dump.users = h.users /\ dump.marks = MarksOf(h.company)
        /\ dump.whole => h.users = UsersOf(h.company)
        /\ dumps' = [dumps EXCEPT ![h.company] = dump]
  BY <1>1, BackupTaken
<1>3. Refers(dump)
  <2>1. \A p \in MarksOf(h.company) :
          p \in People /\ users[<<h.company, p>>] # Null
    BY DEF MarksOf, TransferInv
  <2>2. ASSUME dump.whole, NEW p \in dump.marks
        PROVE  dump.users[p] # Null
    <3>1. p \in MarksOf(h.company)
      BY <1>2
    <3>2. dump.users[p] = UsersOf(h.company)[p]
      BY <1>2, <2>2
    <3>3. UsersOf(h.company)[p] = users[<<h.company, p>>]
      BY <2>1, <3>1 DEF UsersOf
    <3> QED
      BY <2>1, <3>1, <3>2, <3>3
  <2> QED
    BY <1>1, <1>2, <2>2 DEF Refers
<1>4. /\ dumps' = [dumps EXCEPT ![h.company] = dump]
      /\ Continues(s, Null)
      /\ UNCHANGED <<users, marks, staging, importing>>
  BY <1>1, <1>2 DEF BackupRest, Ends, tables
<1>5. \A c \in Companies : dumps'[c] = dump \/ dumps'[c] = dumps[c]
  BY <1>4, DumpsPast DEF TransferTypeOK
<1>6. \A c \in Companies : dumps'[c] # Null => Refers(dumps'[c])
  BY <1>3, <1>5 DEF TransferInv
<1> QED
  BY <1>4, <1>6, TransferGoesOn

\* No import is in flight where none is in progress.
LEMMA ImportStartTransfers ==
    ASSUME DirectoryInv, TransferInv, NEW s \in Slots, NEW c \in Companies,
           NEW from \in Companies, NEW replace \in BOOLEAN,
           dumps[from] # Null, ImportStart(s, c, dumps[from], replace)
    PROVE  TransferInv'
<1>1. PICK dump : dump = dumps[from] /\ Refers(dump)
  BY DEF TransferInv
<1>2. PICK h : /\ h = [op |-> "import", at |-> "load", company |-> c,
                       dump |-> dump, replace |-> replace]
               /\ Begins(s, h)
  BY <1>1 DEF ImportStart
<1>3. /\ UNCHANGED <<users, marks, held, dumps, staging>>
      /\ importing' = TRUE /\ ~importing
  BY DEF ImportStart, MayImport, tables
<1>4. \A t \in Slots : ~Importing(t)
  BY <1>3 DEF TransferInv, Transferring, Importing
<1>5. Transferring(h)' /\ Continues(s, h)
  BY <1>1, <1>2, <1>3 DEF Transferring, Begins, Refers, Sound
<1> QED
  BY <1>3, <1>4, <1>5, TransferGoesOn DEF TransferInv

LEMMA ImportLoadTransfers ==
    ASSUME DirectoryInv, TransferInv, NEW s \in Slots, ImportLoad(s)
    PROVE  TransferInv'
<1>1. PICK h \in Import : /\ h = work[s] /\ h.op = "import"
                          /\ Transferring(h)
  BY Handled, Requested DEF ImportLoad, Handling, TransferInv
<1>2. PICK g : g = [h EXCEPT !.at = "commit"]
  OBVIOUS
<1>3. /\ g.op = "import" /\ g.dump = h.dump
  BY <1>1, <1>2 DEF Import
<1>4. /\ UNCHANGED <<users, marks, held, dumps, importing>>
      /\ staging' = h.dump /\ Continues(s, g)
  BY <1>1, <1>2 DEF ImportLoad, tables
<1>5. \A t \in Slots \ {s} : ~Importing(t)
  BY <1>1 DEF TransferInv, Importing, ImportLoad, Handling
<1>6. Transferring(g)'
  BY <1>1, <1>3, <1>4 DEF Transferring, Refers, Sound
<1> QED
  BY <1>4, <1>5, <1>6, TransferGoesOn DEF TransferInv

LEMMA ImportFailsTransfers ==
    ASSUME DirectoryInv, TransferInv, NEW s \in Slots, ImportFails(s)
    PROVE  TransferInv'
<1>1. /\ UNCHANGED <<users, marks, held, dumps>> /\ Continues(s, Null)
      /\ work[s] # Null /\ work[s].op = "import"
  BY DEF ImportFails, Fails, tables, Ends
<1>2. \A t \in Slots \ {s} : ~Importing(t)
  BY <1>1 DEF TransferInv, Importing
<1> QED
  BY <1>1, <1>2, TransferGoesOn DEF TransferInv

\* What an import finds.
LEMMA ImportFinds ==
    ASSUME DirectoryInv, TransferInv, NEW s \in Slots,
           Handling(s, "import", "commit")
    PROVE  /\ work[s] \in Import /\ work[s].company \in Companies
           /\ staging = work[s].dump /\ staging \in Dump
           /\ Refers(staging)
           /\ \A t \in Slots \ {s} : ~Importing(t)
<1>1. PICK h \in Import : /\ h = work[s] /\ h.op = "import" /\ h.at = "commit"
                          /\ Transferring(h)
  BY Handled, Requested DEF Handling, TransferInv
<1>2. h.company \in Companies /\ h.dump \in Dump
  BY <1>1 DEF Import
<1>3. staging = h.dump /\ Refers(h.dump)
  BY <1>1 DEF Transferring
<1>4. \A t \in Slots \ {s} : ~Importing(t)
  BY DEF TransferInv, Importing, Handling
<1> QED
  BY <1>1, <1>2, <1>3, <1>4

\* A user of the dump comes back as they were, but for the password.
LEMMA RowsComeBack ==
    ASSUME DirectoryInv', staging \in Dump, Refers(staging),
           NEW k \in Keys, k[2] \in Imported, Restores(k)
    PROVE  /\ [users'[k] EXCEPT !.hash = 1]
                = [staging.users[k[2]] EXCEPT !.hash = 1]
           /\ users'[k].manager \in Imported \cup {Null}
           /\ users'[k].email = staging.users[k[2]].email
<1>1. PICK row \in User : row = staging.users[k[2]]
  BY OneCompany DEF Imported, Dump
<1>2. PICK new \in User : new = users'[k]
  BY DEF Restores, DirectoryInv, TablesInv, DirectoryTypeOK
<1>3. row.manager \in Imported \cup {Null}
  <2>1. row.manager \in People \cup {Null}
    BY DEF User
  <2>2. row.manager # Null => staging.users[row.manager] # Null
    BY <1>1, OneCompany, TenancyAssumption DEF Refers, Sound
  <2> QED
    BY <2>1, <2>2 DEF Imported
<1>4. [new EXCEPT !.hash = 1] = [row EXCEPT !.hash = 1, !.manager =
                                   IF @ \in Imported THEN @ ELSE Null]
  BY <1>1, <1>2 DEF Restores
<1>5. [row EXCEPT !.hash = 1, !.manager = IF @ \in Imported THEN @ ELSE Null]
        = [row EXCEPT !.hash = 1]
  BY <1>3 DEF User
<1>6. /\ [new EXCEPT !.hash = 1].manager = new.manager
      /\ [new EXCEPT !.hash = 1].email = new.email
  BY DEF User
<1>7. /\ [row EXCEPT !.hash = 1].manager = row.manager
      /\ [row EXCEPT !.hash = 1].email = row.email
  BY DEF User
<1> QED
  BY <1>1, <1>2, <1>3, <1>4, <1>5, <1>6, <1>7

\* The rows that refer to users after an import.
LEMMA ImportMarks ==
    ASSUME NEW s \in Slots, ImportCommit(s)
    PROVE  /\ marks' = {k \in marks : Spared(work[s], k)}
                         \cup {<<work[s].company, p>> : p \in staging.marks}
           /\ staging.marks \subseteq Imported
           /\ Handling(s, "import", "commit") /\ Ends(s) /\ dumps' = dumps
BY DEF ImportCommit, Importable, Spared

LEMMA ImportCommitTransfers ==
    ASSUME DirectoryInv, TransferInv, NEW s \in Slots, ImportCommit(s)
    PROVE  TransferInv'
<1>1. PICK h \in Import :
        /\ h = work[s] /\ h.company \in Companies
        /\ staging \in Dump /\ Refers(staging)
        /\ \A t \in Slots \ {s} : ~Importing(t)
  BY ImportMarks, ImportFinds
<1>2. \A k \in Keys : /\ Spared(h, k) => users'[k] = users[k]
                      /\ ~Spared(h, k) /\ k[2] \in Imported => Restores(k)
                      /\ ~Spared(h, k) /\ k[2] \notin Imported =>
                           users'[k] = Null
  BY <1>1, ImportWrites
<1>3. \A p \in Imported : p \in People /\ <<h.company, p>> \in Keys
                          /\ ~Spared(h, <<h.company, p>>)
                          /\ users'[<<h.company, p>>] # Null
  BY <1>1, <1>2 DEF Imported, Keys, Spared, Restores
<1>4. \A k \in marks' : users'[k] # Null
  BY <1>1, <1>2, <1>3, ImportMarks
     DEF TransferInv, DirectoryInv, TablesInv, TransferTypeOK
<1>5. ASSUME NEW k \in Keys, users'[k] # Null, users'[k].manager # Null
      PROVE  users'[<<k[1], users'[k].manager>>] # Null
  <2>1. CASE Spared(h, k)
    <3>1. PICK m : m = <<k[1], users'[k].manager>>
      OBVIOUS
    <3>2. /\ users[m] # Null /\ users'[k].manager \in People
          /\ users'[k] = users[k]
      BY <1>2, <1>5, <2>1, <3>1, RowsTyped DEF TransferInv, DirectoryInv
    <3>3. m \in Keys /\ m[1] = k[1] /\ m[2] = users'[k].manager
      BY <3>1, <3>2, OneCompany DEF Keys
    <3>4. CASE Spared(h, m)
      BY <1>2, <3>1, <3>2, <3>3, <3>4
    <3>5. CASE ~Spared(h, m)
      <4>1. m[1] = h.company /\ (h.replace \/ m[2] \in Imported)
        BY <3>5 DEF Spared
      <4>2. ~h.replace
        BY <2>1, <3>3, <4>1 DEF Spared
      <4>3. m = <<h.company, m[2]>> /\ m[2] \in Imported
        BY <3>3, <4>1, <4>2, OneCompany
      <4> QED
        BY <1>3, <3>1, <4>3
    <3> QED
      BY <3>4, <3>5
  <2>2. CASE ~Spared(h, k)
    <3>1. k[2] \in Imported /\ Restores(k) /\ k[1] = h.company
      BY <1>2, <1>5, <2>2 DEF Spared
    <3>2. users'[k].manager \in Imported
      BY <1>1, <1>5, <3>1, ImportWrites, RowsComeBack
    <3> QED
      BY <1>3, <3>1, <3>2
  <2> QED
    BY <2>1, <2>2
<1>8. OneHolder'
  <2> SUFFICES ASSUME NEW k \in Keys, NEW o \in Keys, k[1] = o[1],
                      users'[k] # Null, users'[o] # Null,
                      users'[k].email = users'[o].email
               PROVE  k = o
    BY DEF OneHolder
  <2>1. ASSUME NEW x \in Keys, ~Spared(h, x), users'[x] # Null
        PROVE  /\ x[2] \in Imported /\ x[2] \in People /\ x[1] = h.company
               /\ users'[x].email = staging.users[x[2]].email
               /\ staging.users[x[2]] # Null
    <3>1. x[2] \in Imported /\ Restores(x) /\ x[1] = h.company
      BY <1>2, <2>1 DEF Spared
    <3> QED
      BY <1>1, <3>1, ImportWrites, RowsComeBack DEF Imported
  <2>2. CASE Spared(h, k) /\ Spared(h, o)
    BY <1>2, <2>2 DEF TransferInv, OneHolder
  <2>3. CASE ~Spared(h, k) /\ ~Spared(h, o)
    <3>1. k[2] = o[2]
      BY <1>1, <2>1, <2>3 DEF Refers, Sound
    <3> QED
      BY <3>1, OneCompany
  <2>4. ASSUME NEW x \in Keys, NEW y \in Keys, ~Spared(h, x), Spared(h, y),
               x[1] = y[1], users'[x] # Null, users'[y] # Null,
               users'[x].email = users'[y].email
        PROVE  FALSE
    <3>1. /\ x[2] \in Imported /\ x[1] = h.company
          /\ users'[x].email = staging.users[x[2]].email
      BY <2>1, <2>4
    <3>2. ~h.replace /\ users'[y] = users[y]
      BY <1>2, <2>4, <3>1 DEF Spared
    <3>3. Holders(h.company, staging.users[x[2]].email) = {}
      BY <1>1, <3>1, <3>2 DEF ImportCommit, Importable, MayAdd
    <3> QED
      BY <2>4, <3>1, <3>2, <3>3 DEF Holders
  <2> QED
    BY <2>2, <2>3, <2>4
<1>6. /\ work'[s] = Null /\ \A t \in Slots \ {s} : work'[t] = work[t]
      /\ dumps' = dumps
  BY ImportMarks, GoesOnAs DEF Ends
<1>7. ASSUME NEW t \in Slots, work'[t] # Null
      PROVE  Transferring(work[t])' /\ ~Importing(t)'
  <2>1. t # s /\ work'[t] = work[t] /\ work[t] # Null /\ ~Importing(t)
    BY <1>1, <1>6, <1>7
  <2>2. Transferring(work[t]) /\ work[t].op # "import"
    BY <2>1 DEF TransferInv, Importing
  <2> QED
    BY <2>1, <2>2 DEF Transferring, Importing, Sound
<1> QED
  BY <1>4, <1>5, <1>6, <1>7, <1>8 DEF TransferInv, Importing, Refers, Sound

LEMMA TransfersStep ==
    ASSUME TenancyInv, TransferInv, [Next]_vars
    PROVE  TransferInv'
<1>1. DirectoryInv' /\ DirectoryInv
  BY InvStep DEF TenancyInv
<1>2. ASSUME NEW s \in Slots, Step(s) PROVE TransferInv'
  <2>1. TransferStep(s) => TransferInv'
    BY <1>1, MarkTransfers, HoldingTransfers, BackupStartTransfers, BackupRestTransfers,
       ImportStartTransfers, ImportLoadTransfers, ImportCommitTransfers,
       ImportFailsTransfers
       DEF TransferStep, HoldingWritten
  <2>2. IdentityStep(s) \/ StaffStep(s) => ManagersStay /\ OthersGoOn
    BY <1>1, IdentityRows, StaffRows, IdentityGoesOn, StaffGoesOn
  <2>3. Fails(s) => ManagersStay /\ OthersGoOn
    BY <1>1, UsersUnchanged, GoesOnAs DEF Fails, Ends, tables
  <2> QED
    BY <1>1, <1>2, <2>1, <2>2, <2>3, OthersKeepTransfers DEF Step, transferVars
<1>3. CASE WebStep /\ UNCHANGED <<marks, held, dumps, staging, importing>>
  <2>1. work' = work
    <3>1. ASSUME NEW r \in asked, Answered(r) PROVE work' = work
      BY <3>1
         DEF Answered, LoginAnswered, SelectionAnswered, SwitchAnswered,
             MeAnswered, AccessAnswered, BootstrapAnswered, PasswordAnswered,
             NothingElse, PanelRefused, Reads, Answers
    <3>2. Asked => Acts
      BY DEF Asked, SubmitLogin, SelectCompany, SwitchCompany, AccessCompany,
         SubmitPassword, Asks
    <3> QED
      BY <1>3, <3>1, <3>2
         DEF WebStep, Leaves, LeavesPanel, Returns, Visits, Acts
  <2>2. ManagersStay /\ OthersGoOn
    BY <1>1, <1>3, <2>1, WebRows DEF OthersGoOn, TenancyInv
  <2> QED
    BY <1>1, <1>3, <2>2, OthersKeepTransfers DEF transferVars
<1>4. CASE UNCHANGED vars
  <2>1. UNCHANGED <<users, work, transferVars>>
    BY <1>4 DEF vars, tables, transferVars
  <2>2. ManagersStay /\ OthersGoOn
    BY <2>1, UsersUnchanged DEF OthersGoOn
  <2> QED
    BY <1>1, <2>1, <2>2, OthersKeepTransfers
<1> QED
  BY <1>2, <1>3, <1>4 DEF Next

LEMMA TransfersAlways == Spec => []TransferInv
<1>1. Init => TransferInv
  <2> SUFFICES ASSUME DirectoryInit, TransferInit PROVE TransferInv
    BY DEF Init
  <2>1. /\ work = [s \in Slots |-> Null]
        /\ marks = {} /\ dumps = [c \in Companies |-> Null]
    BY DEF DirectoryInit, TransferInit
  <2>2. \A k \in Keys : users[k] # Null => users[k].manager = Null
    BY DEF DirectoryInit
  <2>3. \E p \in People : \A k \in Keys : users[k] # Null => k[2] = p
    BY OneCompany DEF DirectoryInit
  <2>4. OneHolder
    BY <2>3, OneCompany DEF OneHolder
  <2> QED
    BY <2>1, <2>2, <2>4 DEF TransferInv, Importing
<1>2. TenancyInv /\ TransferInv /\ [Next]_vars => TransferInv'
  BY TransfersStep
<1> QED
  BY <1>1, <1>2, TenancyInvAlways, PTL DEF Spec

\* What an import does to its company.
LEMMA ImportRestores ==
    ASSUME TenancyInv, TransferInv, NEW s \in Slots, ImportCommit(s)
    PROVE  ImportsAs(s, work[s].company, work[s].dump)
<1>1. DirectoryInv /\ DirectoryInv'
  BY ImportWrites DEF TenancyInv
<1>2. PICK h \in Import :
        /\ h = work[s] /\ h.company \in Companies
        /\ staging = h.dump /\ staging \in Dump /\ Refers(staging)
  BY <1>1, ImportMarks, ImportFinds
<1>3. \A k \in Keys : k[1] # h.company =>
        /\ users'[k] = users[k] /\ members'[k] = members[k]
        /\ k \in marks' <=> k \in marks
  BY <1>1, <1>2, ImportWrites, ImportMarks, OneCompany DEF Spared
<1>4. ASSUME NEW k \in Keys, k[1] = h.company, h.dump.users[k[2]] # Null
      PROVE  /\ users'[k] # Null
             /\ [users'[k] EXCEPT !.hash = 1]
                  = [h.dump.users[k[2]] EXCEPT !.hash = 1]
             /\ members'[k] # Null
             /\ users'[k].hash = accounts'[members'[k].account].hash
  <2>1. k[2] \in Imported
    BY <1>2, <1>4, OneCompany DEF Imported
  <2>2. Restores(k)
    BY <1>1, <1>2, <1>4, <2>1, ImportWrites DEF Spared
  <2> QED
    BY <1>1, <1>2, <2>1, <2>2, RowsComeBack DEF Restores
<1>5. ASSUME NEW k \in Keys, k[1] = h.company, h.dump.users[k[2]] = Null,
             h.replace
      PROVE  users'[k] = Null /\ members'[k] = Null
  BY <1>1, <1>2, <1>5, ImportWrites DEF Spared, Imported
<1>6. \A p \in h.dump.marks : <<h.company, p>> \in marks'
  BY <1>2, ImportMarks
<1>7. /\ \A o \in Companies \ {h.company} : held'[o] = held[o]
      /\ Orphans(held'[h.company])
           \subseteq IF h.replace THEN {} ELSE Orphans(held[h.company])
  BY <1>1, <1>2, ImportHolds
<1> QED
  BY <1>2, <1>3, <1>4, <1>5, <1>6, <1>7 DEF ImportsAs

\* An import gives its company the users of its dump, their managers and the
\* rows that refer to them, leaves no request without its department, and
\* touches no other company, whatever overlaps; once loaded, a dump that was
\* taken while nobody wrote is refused only for a department that its
\* requests name and that was deleted before.
THEOREM ImportsRestore == Spec => RestoresBackup
<1>1. ASSUME TenancyInv, TransferInv, NEW s \in Slots,
             Handling(s, "import", "commit")
      PROVE  /\ ImportCommit(s) =>
                  ImportsAs(s, work[s].company, work[s].dump)
             /\ work[s].dump.whole /\ work[s].replace
                  /\ Orphans(work[s].dump.rest) = {} => Importable(work[s])
  <2>1. work[s].dump.whole => staging # Null /\ staging.marks \subseteq Imported
    <3>1. staging = work[s].dump /\ staging \in Dump /\ Refers(staging)
      BY <1>1, ImportFinds DEF TenancyInv
    <3>2. staging.marks \subseteq People
      BY <3>1 DEF Dump
    <3> QED
      BY <3>1, <3>2, TenancyAssumption DEF Refers, Imported
  <2>2. /\ staging = work[s].dump
        /\ Orphans(work[s].dump.rest) = {} =>
             staging.rest.targets \subseteq staging.rest.departments
    BY <1>1, ImportFinds DEF TenancyInv, Orphans
  <2> QED
    BY <1>1, <2>1, <2>2, ImportRestores DEF Importable
<1>2. TenancyInv /\ TransferInv /\ [Next]_vars =>
        [\A s \in Slots :
           Handling(s, "import", "commit") =>
             LET h == work[s] IN
             /\ ImportCommit(s) => ImportsAs(s, h.company, h.dump)
             /\ h.dump.whole /\ h.replace /\ Orphans(h.dump.rest) = {}
                  => Importable(h)]_vars
  BY <1>1
<1> QED
  BY <1>2, TenancyInvAlways, TransfersAlways, PTL DEF Spec, RestoresBackup

-----------------------------------------------------------------------------
(***************************************************************************)
(* Identities where requests are calm: nobody is renamed or replaced, so   *)
(* what a request has found stays what it was.                             *)
(***************************************************************************)
\* No membership is undone, and a new one is of the user's own account.
MembersStay == \A k \in Keys : members[k] # Null =>
                 /\ members'[k] # Null
                 /\ members'[k].account = members[k].account
MatchedAnew ==
    \A k \in Keys : members[k] = Null /\ members'[k] # Null =>
      accounts'[members'[k].account].email = users'[k].email
Stable == AccountsStay /\ UsersStay /\ MembersStay

\* What a request knows of the rows of its e-mail: a login, that the users it
\* has seen and is done with are linked to its account.
Sure(h) ==
    /\ h.op = "login" =>
         /\ \A k \in h.seen : Alike(k, h.email)
         /\ h.todo \subseteq h.seen
         /\ h.at = "link" =>
              /\ Owns(h.account, h.email)
              /\ \A k \in h.seen \ h.todo :
                   members[k] # Null /\ members[k].account = h.account
    /\ h.op = "create" =>
         /\ h.at # "user" => Alike(h.key, h.email)
         /\ h.account # Null => Owns(h.account, h.email)
    /\ h.op = "admin" /\ h.account # Null => Owns(h.account, h.email)

\* The requests that rename or replace users are among those that arrive.
Renaming == {"adminEdit", "import"}
RenamersAsked == \A s \in Slots : work[s] # Null /\ work[s].op \in Renaming =>
                   work[s].op \in Requests

CalmInv ==
    /\ RenamersAsked
    /\ Calm => /\ Matched
               /\ \A s \in Slots : work[s] # Null => Sure(work[s])

\* While nobody is renamed or unlinked, what a request is sure of stays true.
LEMMA SureStays ==
    ASSUME NEW h \in Handlers, Formed(h), Sure(h), Stable
    PROVE  Sure(h)'
<1>1. h.op = "login" => /\ h.seen \subseteq Keys
                        /\ h.at = "link" => h.account \in Accounts
  BY Requested DEF Login, Formed
<1>2. h.op = "create" => /\ h.key \in Keys
                         /\ h.account # Null => h.account \in Accounts
  BY Requested DEF Create
<1>3. h.op = "admin" /\ h.account # Null => h.account \in Accounts
  BY Requested DEF NewAdmin
<1>4. \A k \in Keys : \A e : Alike(k, e) => Alike(k, e)'
  BY DEF Alike, Stable, UsersStay
<1>5. \A a \in Accounts : \A e : Owns(a, e) => Owns(a, e)'
  BY DEF Owns, Stable, AccountsStay
<1>6. h.op = "login" =>
        /\ \A k \in h.seen : Alike(k, h.email)'
        /\ h.todo \subseteq h.seen
        /\ h.at = "link" =>
             /\ Owns(h.account, h.email)'
             /\ \A k \in h.seen \ h.todo :
                  members'[k] # Null /\ members'[k].account = h.account
  BY <1>1, <1>4, <1>5 DEF Sure, Stable, MembersStay
<1> QED
  BY <1>2, <1>3, <1>4, <1>5, <1>6 DEF Sure

\* What the handler that moves must show: its new membership is matched, and
\* it is sure of what it goes on with.
Certain(s) == /\ MembersStay /\ MatchedAnew
              /\ work'[s] # Null => Sure(work[s])'

LEMMA LoginStartSure ==
    ASSUME DirectoryInv, NEW s \in Slots, NEW email \in Emails,
           NEW typed \in 1..passwords, LoginStart(s, email, typed)
    PROVE  Certain(s)
<1>1. PICK seen : seen = {k \in Keys : /\ users[k] # Null
                                       /\ users[k].email = email
                                       /\ users[k].status = "active"}
  OBVIOUS
<1>2. PICK matching : matching = {n \in {users[k].hash : k \in seen} :
                                    SamePassword(n, typed)}
  OBVIOUS
<1>3. PICK h : /\ h = [op |-> "login", at |-> "find", email |-> email,
                       typed |-> typed, seen |-> seen, matching |-> matching,
                       account |-> Null, hash |-> Null, todo |-> {}]
               /\ Continues(s, h)
  BY <1>1, <1>2 DEF LoginStart, Begins
<1>4. UNCHANGED <<users, members, accounts>>
  BY DEF LoginStart, tables
<1>5. work'[s] = h
  BY <1>3, GoesOnAs
<1>6. Sure(h)'
  BY <1>1, <1>3, <1>4 DEF Sure, Alike
<1>7. Sure(work[s])'
  BY <1>5, <1>6
<1> QED
  BY <1>4, <1>7 DEF Certain, MembersStay, MatchedAnew

LEMMA LoginFindSure ==
    ASSUME DirectoryInv, NEW s \in Slots, LoginFind(s), Sure(work[s])
    PROVE  Certain(s)
<1>1. PICK h \in Login : h = work[s] /\ h.at = "find" /\ h.op = "login"
  BY Handled, Requested DEF LoginFind, Handling
<1>2. UNCHANGED <<users, members, accounts>>
  BY DEF LoginFind, tables
<1>3. \A k \in h.seen : Alike(k, h.email)
  BY <1>1 DEF Sure
<1>4. PICK g : /\ Continues(s, g)
               /\ \/ g = Null \/ g = [h EXCEPT !.at = "create"]
                  \/ \E a \in ActiveAccountOf(h.email) : g = Found(h, a)
  BY <1>1 DEF LoginFind, Ends
<1>5. work'[s] = g
  BY <1>4, GoesOnAs
<1>6. ASSUME g = [h EXCEPT !.at = "create"] PROVE Sure(g)'
  <2>1. /\ g.op = "login" /\ g.at = "create" /\ g.seen = h.seen
        /\ g.todo = h.todo /\ g.email = h.email
    BY <1>6 DEF Login
  <2> QED
    BY <1>1, <1>2, <1>3, <2>1 DEF Sure, Alike
<1>7. ASSUME NEW a \in ActiveAccountOf(h.email), g = Found(h, a)
      PROVE  Sure(g)'
  <2>1. PICK hash : g = [h EXCEPT !.at = "link", !.account = a,
                                  !.hash = hash, !.todo = h.seen]
    BY <1>7 DEF Found
  <2>2. /\ g.op = "login" /\ g.at = "link" /\ g.seen = h.seen
        /\ g.todo = h.seen /\ g.email = h.email /\ g.account = a
    BY <2>1 DEF Login
  <2>3. Owns(a, h.email)
    BY DEF ActiveAccountOf, AccountOf, Owns
  <2> QED
    BY <1>2, <1>3, <2>2, <2>3 DEF Sure, Alike, Owns
<1>8. work'[s] # Null => Sure(work[s])'
  BY <1>4, <1>5, <1>6, <1>7
<1> QED
  BY <1>2, <1>8 DEF Certain, MembersStay, MatchedAnew

LEMMA LoginCreateSure ==
    ASSUME DirectoryInv, NEW s \in Slots, LoginCreate(s), Sure(work[s])
    PROVE  Certain(s)
<1>1. PICK h \in Login : h = work[s] /\ h.op = "login"
  BY Handled, Requested DEF LoginCreate, Handling
<1>2. UNCHANGED <<users, members>>
  BY DEF LoginCreate
<1>3. \A k \in h.seen : Alike(k, h.email)
  BY <1>1 DEF Sure
<1>4. CASE Ends(s)
  BY <1>2, <1>4, GoesOnAs DEF Certain, MembersStay, MatchedAnew, Ends
<1>5. CASE ~Ends(s)
  <2>1. PICK a \in Accounts : a = NewAccount
    BY <1>1, <1>5, NewAccountIsFree DEF LoginCreate
  <2>2. PICK n, row, g :
          /\ n \in h.matching
          /\ row = [email |-> h.email, hash |-> n, status |-> "active"]
          /\ accounts' = [accounts EXCEPT ![a] = row]
          /\ g = [h EXCEPT !.at = "link", !.account = a, !.hash = n,
                           !.todo = h.seen]
          /\ Continues(s, g)
    BY <1>1, <1>5, <2>1 DEF LoginCreate
  <2>3. n \in Passwords
    BY <1>1, <2>2 DEF Login
  <2>4. row \in Account /\ row.email = h.email /\ row # Null
    BY <1>1, <2>2, <2>3, TenancyAssumption DEF Login, Account, Statuses
  <2>5. accounts'[a] = row
    BY <2>2, RowsTyped DEF DirectoryInv
  <2>6. g = [h EXCEPT !.at = "link", !.account = a, !.hash = n,
                      !.todo = h.seen]
    BY <2>2
  <2>7. /\ g.op = "login" /\ g.at = "link" /\ g.seen = h.seen
        /\ g.todo = h.seen /\ g.email = h.email /\ g.account = a
    BY <2>6 DEF Login
  <2>8. Sure(g)'
    BY <1>2, <1>3, <2>4, <2>5, <2>7 DEF Sure, Alike, Owns
  <2>9. Sure(work[s])'
    BY <2>2, <2>8, GoesOnAs
  <2> QED
    BY <1>2, <2>9 DEF Certain, MembersStay, MatchedAnew
<1> QED
  BY <1>4, <1>5

LEMMA LoginLinkSure ==
    ASSUME DirectoryInv, OneHolder, Matched, NEW s \in Slots, LoginLink(s),
           Sure(work[s])
    PROVE  Certain(s)
<1>1. PICK h \in Login : /\ h = work[s] /\ h.op = "login" /\ h.at = "link"
                         /\ h.account \in Accounts
  <2>1. PICK h \in Login : /\ h = work[s] /\ h.op = "login" /\ h.at = "link"
                           /\ Formed(h)
    BY Handled, Requested DEF LoginLink, Handling
  <2> QED
    BY <2>1 DEF Login, Formed
<1>2. UNCHANGED <<users, accounts>> /\ h.todo \subseteq h.seen
      /\ h.seen \subseteq Keys
  BY <1>1 DEF LoginLink, Sure, Login
<1>3. /\ \A k \in h.seen : Alike(k, h.email)
      /\ Owns(h.account, h.email)
      /\ \A k \in h.seen \ h.todo :
           members[k] # Null /\ members[k].account = h.account
  BY <1>1 DEF Sure
<1>4. CASE Ends(s) /\ UNCHANGED members
  BY <1>2, <1>4, GoesOnAs DEF Certain, MembersStay, MatchedAnew, Ends
<1>5. ASSUME NEW k \in h.todo, MembersStay, MatchedAnew,
             Continues(s, [h EXCEPT !.todo = @ \ {k}]),
             members'[k] # Null, members'[k].account = h.account
      PROVE  Certain(s)
  <2>1. PICK g : g = [h EXCEPT !.todo = @ \ {k}]
    OBVIOUS
  <2>2. /\ g.op = "login" /\ g.at = "link" /\ g.email = h.email
        /\ g.seen = h.seen /\ g.account = h.account /\ g.todo = h.todo \ {k}
    BY <1>1, <2>1 DEF Login
  <2>3. \A o \in h.seen \ g.todo :
          members'[o] # Null /\ members'[o].account = h.account
    BY <1>2, <1>3, <1>5, <2>2 DEF MembersStay
  <2>4. Sure(g)'
    BY <1>2, <1>3, <2>2, <2>3 DEF Sure, Alike, Owns
  <2>5. Sure(work[s])'
    BY <1>5, <2>1, <2>4, GoesOnAs
  <2> QED
    BY <1>5, <2>5 DEF Certain
<1>6. ASSUME NEW k \in h.todo, NEW o \in MembersOf(h.account), o[1] = k[1],
             Continues(s, [h EXCEPT !.todo = @ \ {k}]), UNCHANGED members
      PROVE  Certain(s)
  <2>1. k \in Keys /\ o \in Keys /\ members[o] # Null
        /\ members[o].account = h.account
    BY <1>2 DEF MembersOf
  <2>2. users[o] # Null /\ users[o].email = h.email
    BY <1>3, <2>1 DEF Matched, DirectoryInv, TablesInv, Linked, Owns
  <2>3. users[k] # Null /\ users[k].email = h.email
    BY <1>2, <1>3 DEF Alike
  <2>4. o = k
    BY <1>6, <2>1, <2>2, <2>3 DEF OneHolder
  <2> QED
    BY <1>5, <1>6, <2>1, <2>4 DEF MembersStay, MatchedAnew
<1>7. ASSUME NEW k \in h.todo, MayLink(h.account, k),
             members' = [members EXCEPT ![k] =
                 [account |-> h.account, status |-> "active"]],
             Continues(s, [h EXCEPT !.todo = @ \ {k}])
      PROVE  Certain(s)
  <2>1. PICK new : new = [account |-> h.account, status |-> "active"]
    OBVIOUS
  <2>2. new.account = h.account /\ new # Null
    BY <1>1, <2>1, TenancyAssumption DEF Member, Statuses
  <2>3. members'[k] = new /\ \A o \in Keys \ {k} : members'[o] = members[o]
    BY <1>2, <1>7, <2>1, RowsTyped DEF DirectoryInv
  <2>4. MembersStay
    BY <1>7, <2>3 DEF MembersStay, MayLink
  <2>5. MatchedAnew
    BY <1>2, <1>3, <2>2, <2>3 DEF MatchedAnew, Alike, Owns
  <2> QED
    BY <1>5, <1>7, <2>2, <2>3, <2>4, <2>5
<1> QED
  BY <1>1, <1>4, <1>6, <1>7 DEF LoginLink

LEMMA CreateStartSure ==
    ASSUME DirectoryInv, NEW s \in Slots, NEW k \in Keys, NEW email \in Emails,
           NEW status \in Statuses, NEW manager \in People \cup {Null},
           CreateStart(s, k, email, status, manager)
    PROVE  Certain(s)
<1>0. PICK a \in Accounts \cup {Null} :
        /\ a # Null => Owns(a, email)
        /\ \E hash :
             Begins(s, [op |-> "create", at |-> "user", key |-> k,
                        email |-> email, hash |-> hash, account |-> a,
                        status |-> status, manager |-> manager])
  BY DEF CreateStart, AccountOf, Owns
<1>1. PICK hash :
        Begins(s, [op |-> "create", at |-> "user", key |-> k,
                   email |-> email, hash |-> hash, account |-> a,
                   status |-> status, manager |-> manager])
  BY <1>0
<1>2. PICK h : h = [op |-> "create", at |-> "user", key |-> k,
                    email |-> email, hash |-> hash, account |-> a,
                    status |-> status, manager |-> manager]
  OBVIOUS
<1>3. UNCHANGED <<users, members, accounts>>
  BY DEF CreateStart, tables
<1>4. Sure(h)'
  BY <1>0, <1>2, <1>3 DEF Sure, Owns
<1>5. Sure(work[s])'
  BY <1>1, <1>2, <1>4, GoesOnAs DEF Begins
<1> QED
  BY <1>3, <1>5 DEF Certain, MembersStay, MatchedAnew

LEMMA CreateUserSure ==
    ASSUME DirectoryInv, NEW s \in Slots, CreateUser(s), Sure(work[s])
    PROVE  Certain(s)
<1>1. PICK h \in Create : h = work[s] /\ h.op = "create" /\ h.at = "user"
  BY Handled, Requested DEF CreateUser, Handling
<1>2. UNCHANGED <<members, accounts>>
  BY DEF CreateUser
<1>3. h.account # Null => Owns(h.account, h.email)
  BY <1>1 DEF Sure
<1>4. CASE Ends(s)
  BY <1>2, <1>4, GoesOnAs DEF Certain, MembersStay, MatchedAnew, Ends
<1>5. CASE ~Ends(s)
  <2>1. PICK hash : hash = IF h.hash = Null THEN Chosen ELSE h.hash
    OBVIOUS
  <2>2. PICK row : row = [email |-> h.email, hash |-> hash, must |-> FALSE,
                          status |-> h.status, role |-> "employee",
                          manager |-> h.manager]
    OBVIOUS
  <2>3. PICK g : g = [h EXCEPT !.hash = hash,
                        !.at = IF h.account = Null THEN "account" ELSE "member"]
    OBVIOUS
  <2>4. users' = [users EXCEPT ![h.key] = row] /\ Continues(s, g)
    BY <1>1, <1>5, <2>1, <2>2, <2>3 DEF CreateUser
  <2>5. row # Null
    <3>1. hash \in Passwords
      BY <1>1, <1>5, <2>1, ChosenIsNew
         DEF CreateUser, Create, Chosen, DirectoryInv
    <3>2. row \in User
      BY <1>1, <2>2, <3>1 DEF Create, User
    <3> QED
      BY <3>2, TenancyAssumption
  <2>6. users'[h.key] = row /\ row.email = h.email
    BY <1>1, <2>2, <2>4, RowsTyped DEF Create, DirectoryInv
  <2>7. /\ g.op = "create" /\ g.key = h.key /\ g.email = h.email
        /\ g.account = h.account
    BY <1>1, <2>3 DEF Create
  <2>8. Sure(g)'
    BY <1>2, <1>3, <2>5, <2>6, <2>7 DEF Sure, Alike, Owns
  <2>9. Sure(work[s])'
    BY <2>4, <2>8, GoesOnAs
  <2> QED
    BY <1>2, <2>9 DEF Certain, MembersStay, MatchedAnew
<1> QED
  BY <1>4, <1>5

LEMMA CreateAccountSure ==
    ASSUME DirectoryInv, NEW s \in Slots, CreateAccount(s), Sure(work[s])
    PROVE  Certain(s)
<1>1. PICK h \in Create : /\ h = work[s] /\ h.op = "create"
                          /\ h.at = "account" /\ Formed(h)
  BY Handled, Requested DEF CreateAccount, Handling
<1>2. UNCHANGED <<users, members>>
  BY DEF CreateAccount
<1>3. Alike(h.key, h.email)
  BY <1>1 DEF Sure
<1>4. CASE Ends(s)
  BY <1>2, <1>4, GoesOnAs DEF Certain, MembersStay, MatchedAnew, Ends
<1>5. CASE ~Ends(s)
  <2>1. PICK a \in Accounts : a = NewAccount
    BY <1>1, <1>5, NewAccountIsFree DEF CreateAccount
  <2>2. PICK row : row = [email |-> h.email, hash |-> h.hash,
                          status |-> "active"]
    OBVIOUS
  <2>3. row.email = h.email /\ row # Null
    BY <1>1, <2>2, TenancyAssumption
       DEF Create, Formed, Account, Statuses
  <2>4. accounts' = [accounts EXCEPT ![a] = row]
    BY <1>1, <1>5, <2>1, <2>2 DEF CreateAccount
  <2>5. accounts'[a] = row
    BY <2>4, RowsTyped DEF DirectoryInv
  <2>6. PICK g : /\ g = [h EXCEPT !.at = "member", !.account = a]
                 /\ Continues(s, g)
    BY <1>1, <1>5, <2>1 DEF CreateAccount
  <2>7. /\ g.op = "create" /\ g.key = h.key /\ g.email = h.email
        /\ g.account = a
    BY <2>6 DEF Create
  <2>8. Sure(g)'
    BY <1>2, <1>3, <2>3, <2>5, <2>7 DEF Sure, Alike, Owns
  <2>9. Sure(work[s])'
    BY <2>6, <2>8, GoesOnAs
  <2> QED
    BY <1>2, <2>9 DEF Certain, MembersStay, MatchedAnew
<1> QED
  BY <1>4, <1>5

LEMMA CreateMemberSure ==
    ASSUME DirectoryInv, NEW s \in Slots, CreateMember(s), Sure(work[s])
    PROVE  Certain(s)
<1>1. PICK h \in Create : /\ h = work[s] /\ h.op = "create"
                          /\ h.at = "member" /\ h.account \in Accounts
                          /\ h.key \in Keys /\ h.status \in Statuses
  <2>1. PICK h \in Create : /\ h = work[s] /\ h.op = "create"
                            /\ h.at = "member" /\ Formed(h)
    BY Handled, Requested DEF CreateMember, Handling
  <2> QED
    BY <2>1 DEF Create, Formed
<1>2. UNCHANGED <<users, accounts>> /\ Ends(s)
  BY DEF CreateMember
<1>3. Alike(h.key, h.email) /\ Owns(h.account, h.email)
  BY <1>1, DirectoryAssumption DEF Sure
<1>4. work'[s] = Null
  BY <1>2, GoesOnAs DEF Ends
<1>5. CASE MayLink(h.account, h.key)
  <2>1. PICK new : new = [account |-> h.account, status |-> h.status]
    OBVIOUS
  <2>2. new.account = h.account /\ new # Null
    BY <1>1, <2>1, TenancyAssumption DEF Member
  <2>3. members'[h.key] = new
        /\ \A o \in Keys \ {h.key} : members'[o] = members[o]
    BY <1>1, <1>5, <2>1, RowsTyped DEF CreateMember, DirectoryInv
  <2>4. MembersStay
    BY <1>5, <2>3 DEF MembersStay, MayLink
  <2>5. MatchedAnew
    BY <1>2, <1>3, <2>2, <2>3 DEF MatchedAnew, Alike, Owns
  <2> QED
    BY <1>4, <2>4, <2>5 DEF Certain
<1>6. CASE ~MayLink(h.account, h.key)
  <2>1. UNCHANGED members
    BY <1>1, <1>6 DEF CreateMember
  <2> QED
    BY <1>4, <2>1 DEF Certain, MembersStay, MatchedAnew
<1> QED
  BY <1>5, <1>6

LEMMA AdminStartSure ==
    ASSUME DirectoryInv, NEW s \in Slots, NEW k \in Keys, NEW email \in Emails,
           AdminStart(s, k, email)
    PROVE  Certain(s)
<1>1. PICK a \in Accounts \cup {Null} :
        /\ a # Null => Owns(a, email)
        /\ \E hash :
             Begins(s, [op |-> "admin", at |-> "commit", key |-> k,
                        email |-> email, account |-> a, hash |-> hash])
  BY DEF AdminStart, AccountOf, Owns
<1>2. PICK hash :
        Begins(s, [op |-> "admin", at |-> "commit", key |-> k,
                   email |-> email, account |-> a, hash |-> hash])
  BY <1>1
<1>3. PICK h : h = [op |-> "admin", at |-> "commit", key |-> k,
                    email |-> email, account |-> a, hash |-> hash]
  OBVIOUS
<1>4. UNCHANGED <<users, members, accounts>>
  BY DEF AdminStart, tables
<1>5. Sure(h)'
  BY <1>1, <1>3, <1>4 DEF Sure, Owns
<1>6. Sure(work[s])'
  BY <1>2, <1>3, <1>5, GoesOnAs DEF Begins
<1> QED
  BY <1>4, <1>6 DEF Certain, MembersStay, MatchedAnew

LEMMA AdminCommitSure ==
    ASSUME DirectoryInv, NEW s \in Slots, AdminCommit(s), Sure(work[s])
    PROVE  Certain(s)
<1>1. PICK h \in NewAdmin : /\ h = work[s] /\ h.op = "admin"
                            /\ h.at = "commit" /\ Formed(h)
  BY Handled, Requested DEF AdminCommit, Handling
<1>2. work'[s] = Null /\ h.key \in Keys /\ h.email \in Emails
  BY <1>1, GoesOnAs DEF AdminCommit, Ends, NewAdmin
<1>3. CASE UNCHANGED <<accounts, users, members>>
  BY <1>2, <1>3 DEF Certain, MembersStay, MatchedAnew
<1>4. CASE ~UNCHANGED <<accounts, users, members>>
  <2>1. PICK a \in Accounts :
          a = IF h.account = Null THEN NewAccount ELSE h.account
    BY <1>1, NewAccountIsFree DEF AdminCommit, NewAdmin
  <2>2. PICK hash : hash = IF h.account = Null THEN Chosen ELSE h.hash
    OBVIOUS
  <2>3. hash \in Passwords
    BY <1>1, <2>2, ChosenIsNew
       DEF AdminCommit, Chosen, DirectoryInv, Formed, NewAdmin
  <2>4. PICK must \in BOOLEAN : must = AskedToChange(h.account)
    BY DEF AskedToChange
  <2>5. PICK account, user, member :
          /\ account = [email |-> h.email, hash |-> hash, status |-> "active"]
          /\ user = [email |-> h.email, hash |-> hash, status |-> "active",
                     must |-> must, role |-> "admin", manager |-> Null]
          /\ member = [account |-> a, status |-> "active"]
    OBVIOUS
  <2>6. /\ account.email = h.email /\ user.email = h.email
        /\ member.account = a /\ member # Null
    BY <2>5, TenancyAssumption DEF Member, Statuses
  <2>7. /\ MayAdd(h.key, h.email)
        /\ accounts' = IF h.account # Null THEN accounts
                       ELSE [accounts EXCEPT ![a] = account]
        /\ users' = [users EXCEPT ![h.key] = user]
        /\ members' = [members EXCEPT ![h.key] = member]
    BY <1>1, <1>4, <2>1, <2>2, <2>4, <2>5 DEF AdminCommit
  <2>8. /\ users'[h.key] = user /\ members'[h.key] = member
        /\ \A k \in Keys \ {h.key} : members'[k] = members[k]
    BY <1>2, <2>7, RowsTyped DEF DirectoryInv
  <2>9. accounts'[a].email = h.email
    <3>1. CASE h.account = Null
      BY <2>6, <2>7, <3>1, RowsTyped DEF DirectoryInv
    <3>2. CASE h.account # Null
      BY <1>1, <2>1, <2>7, <3>2 DEF Sure, Owns
    <3> QED
      BY <3>1, <3>2
  <2>10. members[h.key] = Null
    BY <1>2, <2>7 DEF MayAdd, DirectoryInv, TablesInv, Linked
  <2>11. MembersStay
    BY <2>8, <2>10 DEF MembersStay
  <2>12. MatchedAnew
    BY <2>6, <2>8, <2>9 DEF MatchedAnew
  <2> QED
    BY <1>2, <2>11, <2>12 DEF Certain
<1> QED
  BY <1>3, <1>4

\* The handlers that neither link anybody nor rely on an e-mail.
LEMMA OtherOps ==
    ASSUME DirectoryInv, NEW s \in Slots, UNCHANGED members, NEW g,
           g = Null \/ g.op \notin {"login", "create", "admin"},
           Continues(s, g)
    PROVE  Certain(s)
<1>1. work'[s] = g
  BY GoesOnAs
<1>2. work'[s] # Null => Sure(work[s])'
  BY <1>1 DEF Sure
<1> QED
  BY <1>2 DEF Certain, MembersStay, MatchedAnew

\* The requests that are handled at once.
LEMMA NewsSure ==
    ASSUME DirectoryInv, NEW s \in Slots, UNCHANGED members, work[s] = Null,
           UNCHANGED work
    PROVE  Certain(s)
BY DEF Certain, MembersStay, MatchedAnew

LEMMA IdentitySure ==
    ASSUME DirectoryInv, OneHolder, Matched, NEW s \in Slots, IdentityStep(s),
           work[s] # Null => Sure(work[s])
    PROVE  Certain(s)
<1>1. \A email \in Emails, typed \in 1..passwords :
        LoginStart(s, email, typed) => Certain(s)
  BY LoginStartSure
<1>2. LoginFind(s) \/ LoginCreate(s) \/ LoginLink(s) => Certain(s)
  BY LoginFindSure, LoginCreateSure, LoginLinkSure
     DEF LoginFind, LoginCreate, LoginLink, Handling
<1>3. LoginAnswer(s) \/ OwnRows(s) => Certain(s)
  BY OtherOps DEF LoginAnswer, OwnRows, Ends, tables
<1>4. ASSUME NEW a \in Accounts, AsksForLink(s, a) PROVE Certain(s)
  BY <1>4, NewsSure DEF AsksForLink, Arrives, tables
<1>5. ASSUME NEW a, NEW link, OwnStart(s, a, link) PROVE Certain(s)
  <2>1. PICK g : /\ g = [op |-> "own", at |-> "save", account |-> a,
                         link |-> link, hash |-> Null, found |-> {}]
                 /\ Continues(s, g)
    BY <1>5 DEF OwnStart, Begins
  <2> QED
    BY <1>5, <2>1, OtherOps DEF OwnStart, tables
<1>6. \A a \in Accounts : ChangeStart(s, a) => Certain(s)
  BY <1>5 DEF ChangeStart
<1>7. \A link \in links : ResetStart(s, link) => Certain(s)
  BY <1>5 DEF ResetStart
<1>8. ASSUME OwnSave(s) \/ OwnFind(s) PROVE Certain(s)
  <2>1. PICK h \in OwnPassword : h = work[s]
    BY <1>8, Handled, Requested DEF OwnSave, OwnFind, Handling
  <2>2. PICK hash, found :
          \/ Continues(s, [h EXCEPT !.at = "find", !.hash = hash])
          \/ Continues(s, [h EXCEPT !.at = "rows", !.found = found])
    BY <1>8, <2>1 DEF OwnSave, OwnFind
  <2>3. PICK g : /\ \/ g = [h EXCEPT !.at = "find", !.hash = hash]
                    \/ g = [h EXCEPT !.at = "rows", !.found = found]
                 /\ Continues(s, g)
    BY <2>2
  <2>4. g.op = "own"
    BY <2>3 DEF OwnPassword
  <2> QED
    BY <1>8, <2>3, <2>4, OtherOps DEF OwnSave, OwnFind, tables
<1> QED
  BY <1>1, <1>2, <1>3, <1>4, <1>6, <1>7, <1>8 DEF IdentityStep

LEMMA EditMemberSure ==
    ASSUME DirectoryInv, NEW s \in Slots, EditMember(s)
    PROVE  Certain(s)
<1>1. PICK h \in Edit : /\ h = work[s] /\ h.key \in Keys
                        /\ h.status \in Statuses
  <2>1. PICK h \in Edit : h = work[s] /\ Formed(h) /\ h.op = "edit"
                          /\ h.at = "member"
    BY Handled, Requested DEF EditMember, Handling
  <2> QED
    BY <2>1 DEF Edit, Formed
<1>2. UNCHANGED <<users, accounts>> /\ work'[s] = Null
  BY GoesOnAs DEF EditMember, Ends
<1>3. CASE members[h.key] = Null
  <2>1. UNCHANGED members
    BY <1>1, <1>3 DEF EditMember
  <2> QED
    BY <1>2, <2>1 DEF Certain, MembersStay, MatchedAnew
<1>4. CASE members[h.key] # Null
  <2>1. PICK old \in Member : old = members[h.key]
    BY <1>1, <1>4, RowsTyped DEF DirectoryInv
  <2>2. PICK new : new = [old EXCEPT !.status = h.status]
    OBVIOUS
  <2>3. new.account = old.account /\ new # Null
    BY <1>1, <2>2, TenancyAssumption DEF Member
  <2>4. members'[h.key] = new
        /\ \A k \in Keys \ {h.key} : members'[k] = members[k]
    BY <1>1, <1>4, <2>1, <2>2, RowsTyped DEF EditMember, DirectoryInv
  <2> QED
    BY <1>2, <1>4, <2>1, <2>3, <2>4 DEF Certain, MembersStay, MatchedAnew
<1> QED
  BY <1>3, <1>4

LEMMA EditSure ==
    ASSUME DirectoryInv, NEW s \in Slots, EditAccount(s) \/ EditUser(s)
    PROVE  Certain(s)
<1>1. PICK h \in Edit : h = work[s]
  BY Handled, Requested DEF EditAccount, EditUser, Handling
<1>2. PICK hash : hash = Chosen
  OBVIOUS
<1>3. PICK g :
        /\ \/ g = Null \/ g = [h EXCEPT !.at = "member"]
           \/ g = [h EXCEPT !.at = "user", !.hash = hash]
        /\ Continues(s, g)
  BY <1>1, <1>2 DEF EditAccount, EditUser, Ends
<1>4. g = Null \/ g.op = "edit"
  BY <1>3 DEF Edit
<1> QED
  BY <1>3, <1>4, OtherOps DEF EditAccount, EditUser

LEMMA StaffSure ==
    ASSUME DirectoryInv, NEW s \in Slots, StaffStep(s),
           work[s] # Null => Sure(work[s])
    PROVE  Certain(s) \/ AdminEditCommit(s)
<1>1. \A k \in Keys, email \in Emails, status \in Statuses,
         manager \in People \cup {Null} :
        CreateStart(s, k, email, status, manager) => Certain(s)
  BY CreateStartSure
<1>2. CreateUser(s) \/ CreateAccount(s) \/ CreateMember(s) => Certain(s)
  BY CreateUserSure, CreateAccountSure, CreateMemberSure
     DEF CreateUser, CreateAccount, CreateMember, Handling
<1>3. ASSUME NEW k \in Keys, NEW status \in Statuses \cup {Null},
             NEW password \in BOOLEAN, EditStart(s, k, status, password)
      PROVE  Certain(s)
  <2>1. PICK at, account :
          Begins(s, [op |-> "edit", key |-> k, copy |-> users[k].status,
                     at |-> at, account |-> account, hash |-> Null,
                     status |-> status])
    BY <1>3 DEF EditStart
  <2>2. PICK g : /\ g = [op |-> "edit", key |-> k, copy |-> users[k].status,
                         at |-> at, account |-> account, hash |-> Null,
                         status |-> status]
                 /\ Continues(s, g)
    BY <2>1 DEF Begins
  <2> QED
    BY <1>3, <2>2, OtherOps DEF EditStart, tables
<1>4. EditAccount(s) \/ EditUser(s) \/ EditMember(s) => Certain(s)
  BY EditSure, EditMemberSure
<1>5. \A k \in Keys, email \in Emails : AdminStart(s, k, email) => Certain(s)
  BY AdminStartSure
<1>6. AdminCommit(s) => Certain(s)
  BY AdminCommitSure DEF AdminCommit, Handling
<1>7. ASSUME NEW k \in Keys, NEW email \in Emails, NEW status \in Statuses,
             NEW password \in BOOLEAN,
             AdminEditStart(s, k, email, status, password)
      PROVE  Certain(s)
  <2>1. PICK a, row, alone :
          Begins(s, [op |-> "adminEdit", at |-> "commit", key |-> k,
                     account |-> a, user |-> users[k], row |-> row,
                     member |-> members[k].status, alone |-> alone,
                     email |-> email, status |-> status,
                     password |-> password])
    BY <1>7 DEF AdminEditStart
  <2>2. PICK g : /\ g = [op |-> "adminEdit", at |-> "commit", key |-> k,
                         account |-> a, user |-> users[k], row |-> row,
                         member |-> members[k].status, alone |-> alone,
                         email |-> email, status |-> status,
                         password |-> password]
                 /\ Continues(s, g)
    BY <2>1 DEF Begins
  <2> QED
    BY <1>7, <2>2, OtherOps DEF AdminEditStart, tables
<1>8. ASSUME NEW c \in Companies, NEW status,
             Provision(s, c) \/ CompanyStatus(s, c, status)
      PROVE  Certain(s)
  BY <1>8, NewsSure DEF Provision, CompanyStatus, Arrives
<1> QED
  BY <1>1, <1>2, <1>3, <1>4, <1>5, <1>6, <1>7, <1>8 DEF StaffStep

LEMMA TransferSure ==
    ASSUME DirectoryInv, NEW s \in Slots, TransferStep(s)
    PROVE  Certain(s) \/ ImportCommit(s)
<1>1. ASSUME NEW k, Mark(s, k) PROVE Certain(s)
  BY <1>1, NewsSure DEF Mark, Arrives, tables
<1>2. ASSUME NEW c, BackupStart(s, c) PROVE Certain(s)
  <2>1. PICK g : /\ g = [op |-> "backup", at |-> "rest", company |-> c,
                         users |-> UsersOf(c), rest |-> held[c]]
                 /\ Continues(s, g)
    BY <1>2 DEF BackupStart, Begins
  <2> QED
    BY <1>2, <2>1, OtherOps DEF BackupStart, tables
<1>3. BackupRest(s) \/ ImportFails(s) => Certain(s)
  BY OtherOps DEF BackupRest, ImportFails, Fails, Ends, tables
<1>4. ASSUME NEW c, NEW d, NEW replace, ImportStart(s, c, d, replace)
      PROVE  Certain(s)
  <2>1. PICK g : /\ g = [op |-> "import", at |-> "load", company |-> c,
                         dump |-> d, replace |-> replace]
                 /\ Continues(s, g)
    BY <1>4 DEF ImportStart, Begins
  <2> QED
    BY <1>4, <2>1, OtherOps DEF ImportStart, tables
<1>5. ASSUME ImportLoad(s) PROVE Certain(s)
  <2>1. PICK h \in Import : h = work[s]
    BY <1>5, Handled, Requested DEF ImportLoad, Handling
  <2>2. PICK g : g = [h EXCEPT !.at = "commit"] /\ Continues(s, g)
    BY <1>5, <2>1 DEF ImportLoad
  <2>3. g.op = "import"
    BY <2>2 DEF Import
  <2> QED
    BY <1>5, <2>2, <2>3, OtherOps DEF ImportLoad, tables
<1>6. ASSUME NEW c, HoldingWritten(s, c) PROVE Certain(s)
  <2>1. Arrives(s, "rows") /\ UNCHANGED <<users, members, accounts, work>>
    BY <1>6, HoldingLeaves
       DEF HoldingWritten, DepartmentAdded, RequestRouted, DepartmentDeleted,
           JsonWritten, Writes
  <2> QED
    BY <2>1, NewsSure DEF Arrives
<1> QED
  BY <1>1, <1>2, <1>3, <1>4, <1>5, <1>6 DEF TransferStep, HoldingWritten

\* The tab leaves the requests, the memberships and the scene alone.
LEMMA WebLeaves == WebStep => UNCHANGED <<work, members, scene>>
<1>1. ASSUME NEW r \in asked, Answered(r)
      PROVE  UNCHANGED <<work, members, scene>>
  BY <1>1
     DEF Answered, LoginAnswered, SelectionAnswered, SwitchAnswered,
         MeAnswered, AccessAnswered, BootstrapAnswered, PasswordAnswered,
         NothingElse, PanelRefused, Reads, Answers
<1>2. Acts => UNCHANGED <<work, members, scene>>
  BY DEF Acts, tables
<1>3. Asked => Acts
  BY DEF Asked, SubmitLogin, SelectCompany, SwitchCompany, AccessCompany,
     SubmitPassword, Asks
<1> QED
  BY <1>1, <1>2, <1>3 DEF WebStep, Leaves, LeavesPanel, Returns, Visits

\* Who renames was asked to.
LEMMA RenamersStay ==
    ASSUME TenancyInv, RenamersAsked, [Next]_vars
    PROVE  RenamersAsked'
<1> DEFINE wasAsked(t) ==
      work'[t] # Null /\ work'[t].op \in Renaming =>
        \/ work[t] # Null /\ work[t].op = work'[t].op
        \/ work'[t].op \in Requests
<1>1. OthersGoOn => \A t \in Slots : wasAsked(t)
  BY DEF OthersGoOn, AccountOps, Renaming
<1>2. ASSUME NEW s \in Slots, NEW g, Continues(s, g),
             \/ g = Null \/ g.op \notin Renaming \/ g.op \in Requests
             \/ work[s] # Null /\ work[s].op = g.op
      PROVE  \A t \in Slots : wasAsked(t)
  BY <1>2, GoesOnAs DEF TenancyInv
<1>3. ASSUME NEW s \in Slots, TransferStep(s)
      PROVE  \A t \in Slots : wasAsked(t)
  <2>1. ASSUME NEW k, Mark(s, k) PROVE \A t \in Slots : wasAsked(t)
    BY <2>1 DEF Mark
  <2>2. ASSUME NEW h, Begins(s, h) PROVE \A t \in Slots : wasAsked(t)
    BY <1>2, <2>2 DEF Begins, Arrives
  <2>3. \A c : BackupStart(s, c) => \A t \in Slots : wasAsked(t)
    BY <2>2 DEF BackupStart
  <2>4. \A c, d, replace :
          ImportStart(s, c, d, replace) => \A t \in Slots : wasAsked(t)
    BY <2>2 DEF ImportStart
  <2>5. Ends(s) => \A t \in Slots : wasAsked(t)
    BY <1>2 DEF Ends
  <2>6. ASSUME ImportLoad(s) PROVE \A t \in Slots : wasAsked(t)
    <3>1. PICK h \in Import : h = work[s] /\ h # Null
      BY <2>6, Handled, Requested DEF ImportLoad, Handling, TenancyInv
    <3>2. PICK g : g = [h EXCEPT !.at = "commit"] /\ Continues(s, g)
      BY <2>6, <3>1 DEF ImportLoad
    <3>3. g.op = h.op
      BY <3>2 DEF Import
    <3> QED
      BY <1>2, <3>1, <3>2, <3>3
  <2>7. ASSUME NEW c, HoldingWritten(s, c) PROVE \A t \in Slots : wasAsked(t)
    BY <2>7, HoldingLeaves
  <2> QED
    BY <1>3, <2>1, <2>3, <2>4, <2>5, <2>6, <2>7
       DEF HoldingWritten, TransferStep, BackupRest, ImportCommit, ImportFails, Fails
<1>4. ASSUME NEW s \in Slots, Step(s) PROVE \A t \in Slots : wasAsked(t)
  BY <1>1, <1>2, <1>3, <1>4, IdentityGoesOn, StaffGoesOn
     DEF Step, Fails, Ends, TenancyInv
<1>5. (\A t \in Slots : wasAsked(t)) /\ scene' = scene => RenamersAsked'
  BY DEF RenamersAsked, Requests
<1>6. WebStep \/ UNCHANGED vars => UNCHANGED <<work, scene>>
  BY WebLeaves DEF vars
<1> QED
  BY <1>4, <1>5, <1>6, SceneStays DEF Next, RenamersAsked, Requests

\* A handler moves its own request only.
LEMMA OthersWait ==
    ASSUME DirectoryInv, NEW s \in Slots, Step(s)
    PROVE  \A t \in Slots \ {s} : work'[t] = work[t]
<1> DEFINE alone == \A t \in Slots \ {s} : work'[t] = work[t]
<1>1. ASSUME NEW g, Continues(s, g) PROVE alone
  BY <1>1, GoesOnAs
<1>2. Ends(s) => alone
  BY <1>1 DEF Ends
<1>3. \A h : Begins(s, h) => alone
  BY <1>1 DEF Begins
<1>4. UNCHANGED work => alone
  OBVIOUS
<1>5. IdentityStep(s) => alone
  <2>1. LoginFind(s) \/ LoginCreate(s) \/ LoginLink(s) => alone
    BY <1>1, <1>2 DEF LoginFind, LoginCreate, LoginLink
  <2>2. OwnSave(s) \/ OwnFind(s) => alone
    BY <1>1 DEF OwnSave, OwnFind
  <2>3. LoginAnswer(s) \/ OwnRows(s) => alone
    BY <1>2 DEF LoginAnswer, OwnRows
  <2>4. \A email, typed : LoginStart(s, email, typed) => alone
    BY <1>3 DEF LoginStart
  <2>5. \A a, link : OwnStart(s, a, link) => alone
    BY <1>3 DEF OwnStart
  <2>6. \A a : AsksForLink(s, a) => alone
    BY <1>4 DEF AsksForLink
  <2> QED
    BY <2>1, <2>2, <2>3, <2>4, <2>5, <2>6
       DEF IdentityStep, ChangeStart, ResetStart
<1>6. StaffStep(s) => alone
  <2>1. CreateUser(s) \/ CreateAccount(s) \/ CreateMember(s) => alone
    BY <1>1, <1>2 DEF CreateUser, CreateAccount, CreateMember
  <2>2. EditAccount(s) \/ EditUser(s) \/ EditMember(s) => alone
    BY <1>1, <1>2 DEF EditAccount, EditUser, EditMember
  <2>3. AdminCommit(s) \/ AdminEditCommit(s) => alone
    BY <1>2 DEF AdminCommit, AdminEditCommit
  <2>4. \A k, email, status, manager :
          CreateStart(s, k, email, status, manager) => alone
    BY <1>3 DEF CreateStart
  <2>5. \A k, status, password : EditStart(s, k, status, password) => alone
    BY <1>3 DEF EditStart
  <2>6. \A k, email : AdminStart(s, k, email) => alone
    BY <1>3 DEF AdminStart
  <2>7. \A k, email, status, password :
          AdminEditStart(s, k, email, status, password) => alone
    BY <1>3 DEF AdminEditStart
  <2>8. \A c, status : Provision(s, c) \/ CompanyStatus(s, c, status) => alone
    BY <1>4 DEF Provision, CompanyStatus
  <2> QED
    BY <2>1, <2>2, <2>3, <2>4, <2>5, <2>6, <2>7, <2>8 DEF StaffStep
<1>7. TransferStep(s) => alone
  <2>1. \A k : Mark(s, k) => alone
    BY <1>4 DEF Mark
  <2>2. \A c : BackupStart(s, c) => alone
    BY <1>3 DEF BackupStart
  <2>3. \A c, d, replace : ImportStart(s, c, d, replace) => alone
    BY <1>3 DEF ImportStart
  <2>4. BackupRest(s) \/ ImportCommit(s) \/ ImportFails(s) => alone
    BY <1>2 DEF BackupRest, ImportCommit, ImportFails, Fails
  <2>5. ImportLoad(s) => alone
    BY <1>1 DEF ImportLoad
  <2>6. \A c : HoldingWritten(s, c) => alone
    BY <1>4, HoldingLeaves
  <2> QED
    BY <2>1, <2>2, <2>3, <2>4, <2>5, <2>6 DEF TransferStep, HoldingWritten
<1> QED
  BY <1>2, <1>5, <1>6, <1>7 DEF Step, Fails

\* Who renames does not overlap where it is calm, and leaves nothing behind.
LEMMA RenamersAlone ==
    ASSUME TenancyInv, TenancyInv', RenamersAsked, Calm, NEW s \in Slots,
           Step(s), AdminEditCommit(s) \/ ImportCommit(s)
    PROVE  Matched' /\ \A t \in Slots : work'[t] = Null
<1>1. work[s] # Null /\ work[s].op \in Renaming /\ Ends(s)
  BY DEF AdminEditCommit, ImportCommit, Handling, Renaming
<1>2. Serialized
  BY <1>1 DEF RenamersAsked, Calm, Renaming
<1>3. work'[s] = Null
  BY <1>1, GoesOnAs DEF Ends, TenancyInv
<1>4. \A t \in Slots \ {s} : work'[t] = Null
  BY <1>1, <1>2, IsAlone, OthersWait DEF Alone, TenancyInv
<1>5. Serialized'
  BY <1>2, SceneStays DEF Serialized
<1>6. Matched'
  BY <1>5 DEF TenancyInv, DirectoryInv, TablesInv
<1> QED
  BY <1>3, <1>4, <1>6

\* The others only add: rows, memberships, passwords.
LEMMA StepCertain ==
    ASSUME TenancyInv, TransferInv, Matched, NEW s \in Slots, Step(s),
           work[s] # Null => Sure(work[s]),
           ~AdminEditCommit(s), ~ImportCommit(s)
    PROVE  Stable /\ Certain(s)
<1>1. DirectoryInv /\ OneHolder
  BY DEF TenancyInv, TransferInv
<1>2. CASE IdentityStep(s)
  BY <1>1, <1>2, IdentitySure, IdentityRows, IdentityRehashes
     DEF Stable, Certain
<1>3. CASE StaffStep(s)
  BY <1>1, <1>3, StaffSure, StaffRows, StaffRehashes DEF Stable, Certain
<1>4. CASE TransferStep(s)
  <2>1. UNCHANGED users
    BY <1>4, HoldingLeaves
       DEF HoldingWritten, TransferStep, Mark, BackupStart, BackupRest,
           ImportStart, ImportLoad, ImportFails, Fails, tables
  <2> QED
    BY <1>1, <1>4, <2>1, TransferSure, UsersUnchanged, TransferRehashes
       DEF Stable, Certain
<1>5. CASE Fails(s)
  <2>1. UNCHANGED <<users, members, accounts>> /\ Ends(s)
    BY <1>5 DEF Fails, tables
  <2>2. Certain(s)
    BY <1>1, <2>1, OtherOps DEF Ends
  <2> QED
    BY <2>1, <2>2, UsersUnchanged DEF Stable, Certain, AccountsStay
<1> QED
  BY <1>2, <1>3, <1>4, <1>5 DEF Step

\* If rows stay, memberships are kept and new ones are matched, all are
\* matched.
LEMMA MatchedStays ==
    ASSUME DirectoryInv, DirectoryInv', Matched, Stable, MatchedAnew
    PROVE  Matched'
<1> SUFFICES ASSUME NEW k \in Keys, members'[k] # Null
             PROVE  accounts'[members'[k].account].email = users'[k].email
  BY DEF Matched
<1>1. CASE members[k] = Null
  BY <1>1 DEF MatchedAnew
<1>2. CASE members[k] # Null
  <2>1. PICK a \in Accounts : a = members[k].account
    BY <1>2, RowsTyped DEF DirectoryInv
  <2>2. /\ accounts[a] # Null /\ users[k] # Null
        /\ accounts[a].email = users[k].email
    BY <1>2, <2>1 DEF Matched, DirectoryInv, TablesInv, Linked
  <2>3. members'[k].account = a
    BY <1>2, <2>1 DEF Stable, MembersStay
  <2> QED
    BY <2>2, <2>3 DEF Stable, AccountsStay, UsersStay
<1> QED
  BY <1>1, <1>2

\* Every step keeps calm requests certain.
LEMMA CalmStep ==
    ASSUME TenancyInv, TenancyInv', TransferInv, CalmInv, [Next]_vars
    PROVE  CalmInv'
<1>1. RenamersAsked'
  BY RenamersStay DEF CalmInv
<1>2. Calm' => Calm
  BY SceneStays, WebLeaves DEF Next, vars, Calm, Serialized, Requests
<1>3. ASSUME NEW t \in Slots, work[t] # Null, Sure(work[t]), Stable,
             work'[t] = work[t]
      PROVE  Sure(work[t])'
  <2>1. PICK h \in Handlers : h = work[t] /\ h = work'[t] /\ Formed(h)
    BY <1>3, Handled DEF TenancyInv
  <2>2. Sure(h)'
    BY <1>3, <2>1, SureStays
  <2> QED
    BY <2>1, <2>2
<1>4. ASSUME Calm, NEW s \in Slots, Step(s)
      PROVE  Matched' /\ \A t \in Slots : work'[t] # Null => Sure(work[t])'
  <2>1. CASE AdminEditCommit(s) \/ ImportCommit(s)
    BY <1>4, <2>1, RenamersAlone DEF CalmInv
  <2>2. CASE ~AdminEditCommit(s) /\ ~ImportCommit(s)
    <3>1. Stable /\ Certain(s)
      BY <1>4, <2>2, StepCertain DEF CalmInv
    <3>2. Matched'
      BY <1>4, <3>1, MatchedStays DEF CalmInv, TenancyInv, Certain
    <3>3. \A t \in Slots \ {s} : work'[t] = work[t]
      BY <1>4, OthersWait DEF TenancyInv
    <3> QED
      BY <1>3, <1>4, <3>1, <3>2, <3>3 DEF CalmInv, Certain
  <2> QED
    BY <2>1, <2>2
<1>5. ASSUME Calm, WebStep \/ UNCHANGED vars
      PROVE  Matched' /\ \A t \in Slots : work'[t] # Null => Sure(work[t])'
  <2>1. UNCHANGED <<work, members>>
    BY <1>5, WebLeaves DEF vars, tables
  <2>2. AccountsStay /\ UsersStay
    <3>1. CASE WebStep
      BY <3>1, WebRows, WebRehashes DEF TenancyInv
    <3>2. CASE UNCHANGED vars
      BY <3>2, UsersUnchanged DEF vars, tables, AccountsStay
    <3> QED
      BY <1>5, <3>1, <3>2
  <2>3. Stable /\ MatchedAnew
    BY <2>1, <2>2 DEF Stable, MembersStay, MatchedAnew
  <2>4. Matched'
    BY <1>5, <2>3, MatchedStays DEF CalmInv, TenancyInv
  <2> QED
    BY <1>3, <1>5, <2>1, <2>3, <2>4 DEF CalmInv
<1> QED
  BY <1>1, <1>2, <1>4, <1>5 DEF CalmInv, Next

LEMMA CalmInvAlways == Spec => []CalmInv
<1>1. Init => CalmInv
  <2> SUFFICES ASSUME DirectoryInit, TransferInit PROVE CalmInv
    BY DEF Init
  <2>1. work = [s \in Slots |-> Null]
    BY DEF DirectoryInit
  <2> QED
    BY <2>1, DirectoryAtStart DEF CalmInv, RenamersAsked
<1>2. TenancyInv /\ TenancyInv' /\ TransferInv /\ CalmInv /\ [Next]_vars
        => CalmInv'
  BY CalmStep
<1> QED
  BY <1>1, <1>2, TenancyInvAlways, TransfersAlways, PTL DEF Spec

\* A membership links a user and the account of the same e-mail: in every
\* state if requests do not overlap, whatever they are, and if they do, as
\* long as they hire, log in, edit, reset and back up without renaming or
\* replacing anybody.
THEOREM IdentitiesStayOne == Spec => []OneIdentity
<1>1. TenancyInv /\ CalmInv => OneIdentity
  BY DEF TenancyInv, DirectoryInv, TablesInv, Linked, CalmInv, Matched,
         OneIdentity
<1> QED
  BY <1>1, TenancyInvAlways, CalmInvAlways, PTL

\* A login that is accepted offers every company where the person was an
\* active user when it began and still is, however many hirings, logins and
\* changes of passwords overlap it or were cut short before it.
THEOREM EveryCompanyOffered == Spec => OffersEveryCompany
<1>1. ASSUME TenancyInv, CalmInv, Calm, NEW s \in Slots, Accepted(s),
             NEW k \in work[s].seen,
             users[k] # Null, users[k].status = "active",
             companies[k[1]] = "active",
             ~(members[k] # Null /\ members[k].status = "inactive")
      PROVE  k \in Offered(work[s].account)
  <2>1. PICK h \in Login : h = work[s] /\ h.op = "login" /\ h.at = "link"
                           /\ h.todo = {}
    BY <1>1, Handled, Requested
       DEF TenancyInv, Accepted, LoginAnswer, Handling
  <2>2. members[k] # Null /\ members[k].account = h.account
    BY <1>1, <2>1 DEF CalmInv, Sure, Accepted, LoginAnswer, Handling
  <2>3. k \in Keys
    BY <1>1, <2>1 DEF Login
  <2>4. members[k].status = "active"
    BY <1>1, <2>2, <2>3, RowsTyped DEF TenancyInv, DirectoryInv, Statuses
  <2> QED
    BY <1>1, <2>1, <2>2, <2>3, <2>4 DEF Offered, ActiveMembersOf, MembersOf
<1>2. TenancyInv /\ CalmInv /\ [Next]_vars =>
        [\A s \in Slots : Calm /\ Accepted(s) =>
           \A k \in work[s].seen :
             \/ users[k] = Null \/ users[k].status # "active"
             \/ users[k].email # work[s].email
             \/ companies[k[1]] # "active"
             \/ members[k] # Null /\ members[k].status = "inactive"
             \/ k \in Offered(work[s].account)]_vars
  BY <1>1
<1> QED
  BY <1>2, TenancyInvAlways, CalmInvAlways, PTL DEF Spec, OffersEveryCompany
=============================================================================
