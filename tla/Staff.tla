-------------------------------- MODULE Staff --------------------------------
(***************************************************************************)
(* The handlers that make and edit the users of a company and, with them,  *)
(* their accounts: its administrators and leaders through userController,  *)
(* the platform's through platformController, which also provisions and    *)
(* suspends companies. createEmployee and updateUser write one table after *)
(* the other; the platform's handlers check first and then write all of    *)
(* it in a transaction.                                                    *)
(***************************************************************************)
EXTENDS Directory

-----------------------------------------------------------------------------
\* hash: the account's, or that of the password that was sent.
Create == [op : {"create"}, at : {"user", "account", "member"}, key : Keys,
           email : Emails, hash : Passwords \cup {Null},
           account : Accounts \cup {Null}, status : Statuses,
           manager : People \cup {Null}]

\* createEmployee. An account that is not active refuses its e-mail.
CreateStart(s, k, email, status, manager) ==
    LET found == AccountOf(email) IN
    /\ companies[k[1]] = "active"
    /\ users[k] = Null
    /\ found = ActiveAccountOf(email)
    /\ \E a \in IF found = {} THEN {Null} ELSE found :
         Begins(s, [op |-> "create", at |-> "user", key |-> k, email |-> email,
                    hash |-> IF a = Null THEN Null ELSE accounts[a].hash,
                    account |-> a, status |-> status, manager |-> manager])
    /\ UNCHANGED <<tables, passwords, links, scene>>

\* The indexes of users, or the guard of manager_id, may refuse the row.
CreateUser(s) ==
    LET h == work[s]
        hash == IF h.hash = Null THEN Chosen ELSE h.hash
    IN /\ Handling(s, "create", "user")
       /\ IF h.hash = Null THEN Chooses ELSE UNCHANGED passwords
       /\ IF /\ MayAdd(h.key, h.email)
             /\ h.manager # Null => users[<<h.key[1], h.manager>>] # Null
            THEN /\ users' = [users EXCEPT ![h.key] =
                       [email |-> h.email, hash |-> hash, must |-> FALSE,
                        status |-> h.status, role |-> "employee",
                        manager |-> h.manager]]
                 /\ Continues(s, [h EXCEPT !.hash = hash,
                      !.at = IF h.account = Null THEN "account" ELSE "member"])
            ELSE UNCHANGED users /\ Ends(s)
       /\ UNCHANGED <<companies, accounts, members, links, calls, scene>>

CreateAccount(s) ==
    LET h == work[s] IN
    /\ Handling(s, "create", "account")
    /\ IF AccountOf(h.email) # {}
         THEN UNCHANGED accounts /\ Ends(s)
         ELSE /\ MayAddAccount
              /\ accounts' = [accounts EXCEPT ![NewAccount] =
                   [email |-> h.email, hash |-> h.hash, status |-> "active"]]
              /\ Continues(s, [h EXCEPT !.at = "member", !.account = NewAccount])
    /\ UNCHANGED <<companies, users, members, passwords, links, calls, scene>>

CreateMember(s) ==
    LET h == work[s] IN
    /\ Handling(s, "create", "member")
    /\ members' = IF MayLink(h.account, h.key)
                    THEN [members EXCEPT ![h.key] =
                            [account |-> h.account, status |-> h.status]]
                    ELSE members
    /\ Ends(s)
    /\ UNCHANGED <<companies, accounts, users, passwords, links, calls, scene>>

-----------------------------------------------------------------------------
\* copy: the status as loaded; status: the one that was sent, if one was.
Edit == [op : {"edit"}, at : {"account", "user", "member"}, key : Keys,
         account : Accounts \cup {Null}, copy : Statuses,
         hash : Passwords \cup {Null}, status : Statuses \cup {Null}]

\* updateUser: the password of an account that opens several companies, or
\* is not active, is refused. A user without account has a password too.
EditStart(s, k, status, password) ==
    /\ users[k] # Null /\ users[k].role = "employee"
    /\ companies[k[1]] = "active"
    /\ password /\ members[k] # Null =>
         /\ Cardinality(ActiveMembersOf(members[k].account)) <= 1
         /\ accounts[members[k].account].status = "active"
    /\ Begins(s, [op |-> "edit", key |-> k, copy |-> users[k].status,
                  at |-> IF password THEN "account" ELSE "user",
                  account |-> IF members[k] = Null THEN Null
                              ELSE members[k].account,
                  hash |-> Null, status |-> status])
    /\ UNCHANGED <<tables, passwords, links, scene>>

EditAccount(s) ==
    LET h == work[s] IN
    /\ Handling(s, "edit", "account")
    /\ Chooses
    /\ accounts' = IF h.account = Null THEN accounts
                   ELSE [accounts EXCEPT ![h.account].hash = Chosen]
    /\ Continues(s, [h EXCEPT !.at = "user", !.hash = Chosen])
    /\ UNCHANGED <<companies, users, members, links, calls, scene>>

EditUser(s) ==
    LET h == work[s] IN
    /\ Handling(s, "edit", "user")
    /\ users' = IF users[h.key] = Null THEN users
                ELSE [users EXCEPT
                  ![h.key].hash = IF h.hash = Null THEN @ ELSE h.hash,
                  ![h.key].status = IF h.status = Null THEN @
                                    ELSE Column(@, h.copy, h.status)]
    /\ IF h.status = Null THEN Ends(s)
       ELSE Continues(s, [h EXCEPT !.at = "member"])
    /\ UNCHANGED <<companies, accounts, members, passwords, links, calls, scene>>

EditMember(s) ==
    LET h == work[s] IN
    /\ Handling(s, "edit", "member")
    /\ members' = IF members[h.key] = Null THEN members
                  ELSE [members EXCEPT ![h.key].status = h.status]
    /\ Ends(s)
    /\ UNCHANGED <<companies, accounts, users, passwords, links, calls, scene>>

-----------------------------------------------------------------------------
\* account: the one its transaction has found.
NewAdmin == [op : {"admin"}, at : {"commit"}, key : Keys, email : Emails,
             account : Accounts \cup {Null}, hash : Passwords \cup {Null}]

\* createCompanyAdmin.
AdminStart(s, k, email) ==
    LET found == AccountOf(email) IN
    /\ companies[k[1]] # Null
    /\ MayAdd(k, email)
    /\ found = ActiveAccountOf(email)
    /\ \A a \in found : \A o \in MembersOf(a) : o[1] # k[1]
    /\ \E a \in IF found = {} THEN {Null} ELSE found :
         Begins(s, [op |-> "admin", at |-> "commit", key |-> k, email |-> email,
                    account |-> a,
                    hash |-> IF a = Null THEN Null ELSE accounts[a].hash])
    /\ UNCHANGED <<tables, passwords, links, scene>>

\* A password chosen by the platform is temporary; an account's is not asked.
AskedToChange(account) == account = Null

AdminCommit(s) ==
    LET h == work[s]
        a == IF h.account = Null THEN NewAccount ELSE h.account
        hash == IF h.account = Null THEN Chosen ELSE h.hash
    IN /\ Handling(s, "admin", "commit")
       /\ h.account = Null => MayAddAccount
       /\ IF h.account = Null THEN Chooses ELSE UNCHANGED passwords
       /\ IF /\ MayAdd(h.key, h.email)
             /\ IF h.account = Null THEN AccountOf(h.email) = {}
                ELSE \A o \in MembersOf(a) : o[1] # h.key[1]
            THEN /\ accounts' = IF h.account # Null THEN accounts
                                ELSE [accounts EXCEPT ![a] =
                                        [email |-> h.email, hash |-> hash,
                                         status |-> "active"]]
                 /\ users' = [users EXCEPT ![h.key] =
                      [email |-> h.email, hash |-> hash, status |-> "active",
                       must |-> AskedToChange(h.account), role |-> "admin",
                       manager |-> Null]]
                 /\ members' = [members EXCEPT ![h.key] =
                      [account |-> a, status |-> "active"]]
            ELSE UNCHANGED <<accounts, users, members>>
       /\ Ends(s)
       /\ UNCHANGED <<companies, links, calls, scene>>

-----------------------------------------------------------------------------
\* The copies the handler has loaded, and what it was sent.
AdminEdit == [op : {"adminEdit"}, at : {"commit"}, key : Keys,
              account : Accounts, user : User, row : Account, member : Statuses,
              alone : BOOLEAN, email : Emails, status : Statuses,
              password : BOOLEAN]

\* Mutant of Refused: an account of several companies may be edited.
RefusedNever(k, email, password) == FALSE

\* An account of several companies changes its e-mail and password itself.
Refused(k, email, password) ==
    LET a == members[k].account IN
    /\ Cardinality(MembersOf(a)) > 1
    /\ password \/ email # accounts[a].email

\* updateCompanyAdmin.
AdminEditStart(s, k, email, status, password) ==
    LET a == members[k].account IN
    /\ users[k] # Null /\ users[k].role = "admin"
    /\ members[k] # Null
    /\ Holders(k[1], email) \subseteq {k}
    /\ ~Refused(k, email, password)
    /\ email # accounts[a].email => AccountOf(email) = {}
    /\ Begins(s, [op |-> "adminEdit", at |-> "commit", key |-> k,
                  account |-> a, user |-> users[k], row |-> accounts[a],
                  member |-> members[k].status,
                  alone |-> Cardinality(MembersOf(a)) = 1,
                  email |-> email, status |-> status, password |-> password])
    /\ UNCHANGED <<tables, passwords, links, scene>>

\* Mutant of AccountEdited: the whole copy is written.
AccountWritten(h, hash) ==
    [email |-> h.email,
     hash |-> IF h.password THEN hash ELSE h.row.hash,
     status |-> IF h.alone THEN h.status ELSE h.row.status]

AccountEdited(h, hash) ==
    LET row == accounts[h.account] IN
    [email |-> Column(row.email, h.row.email, h.email),
     hash |-> IF h.password THEN hash ELSE row.hash,
     status |-> IF h.alone THEN Column(row.status, h.row.status, h.status)
                ELSE row.status]

\* Mutant of AdminEdited: an edition without password clears the mark.
AdminEditedClears(h, hash) ==
    LET row == users[h.key] IN
    [email |-> Column(row.email, h.user.email, h.email),
     hash |-> IF h.password THEN hash ELSE row.hash,
     must |-> Column(row.must, h.user.must, h.password),
     status |-> Column(row.status, h.user.status, h.status),
     role |-> row.role,
     manager |-> Column(row.manager, h.user.manager, Null)]

AdminEdited(h, hash) ==
    LET row == users[h.key] IN
    [email |-> Column(row.email, h.user.email, h.email),
     hash |-> IF h.password THEN hash ELSE row.hash,
     must |-> IF h.password THEN Column(row.must, h.user.must, TRUE)
              ELSE row.must,
     status |-> Column(row.status, h.user.status, h.status),
     role |-> row.role,
     manager |-> Column(row.manager, h.user.manager, Null)]

AdminEditCommit(s) ==
    LET h == work[s] IN
    /\ Handling(s, "adminEdit", "commit")
    /\ IF h.password THEN Chooses ELSE UNCHANGED passwords
    /\ IF /\ AccountOf(AccountEdited(h, 1).email) \subseteq {h.account}
          /\ users[h.key] # Null =>
               Holders(h.key[1], AdminEdited(h, 1).email) \subseteq {h.key}
         THEN /\ accounts' = [accounts EXCEPT ![h.account] =
                                AccountEdited(h, Chosen)]
              /\ users' = IF users[h.key] = Null THEN users
                          ELSE [users EXCEPT ![h.key] = AdminEdited(h, Chosen)]
              /\ members' = IF members[h.key] = Null THEN members
                            ELSE [members EXCEPT ![h.key].status =
                                    Column(@, h.member, h.status)]
         ELSE UNCHANGED <<accounts, users, members>>
    /\ Ends(s)
    /\ UNCHANGED <<companies, links, calls, scene>>

-----------------------------------------------------------------------------
\* provisionCompany: with its profile and its blocked terminal, or not at all.
Provision(s, c) ==
    /\ Arrives(s, "company")
    /\ companies[c] = Null
    /\ companies' = [companies EXCEPT ![c] = "active"]
    /\ UNCHANGED <<accounts, users, members, passwords, links, work, scene>>

\* updateCompanyStatus; its terminal is modelled by KioskSession.
CompanyStatus(s, c, status) ==
    /\ Arrives(s, "company")
    /\ companies[c] # Null
    /\ c = Primary => status = "active"
    /\ companies' = [companies EXCEPT ![c] = status]
    /\ UNCHANGED <<accounts, users, members, passwords, links, work, scene>>

StaffStep(s) ==
    \/ \E k \in Keys, email \in Emails, status \in Statuses,
          manager \in People \cup {Null} :
         CreateStart(s, k, email, status, manager)
    \/ CreateUser(s) \/ CreateAccount(s) \/ CreateMember(s)
    \/ \E k \in Keys, status \in Statuses \cup {Null}, password \in BOOLEAN :
         EditStart(s, k, status, password)
    \/ EditAccount(s) \/ EditUser(s) \/ EditMember(s)
    \/ \E k \in Keys, email \in Emails : AdminStart(s, k, email)
    \/ AdminCommit(s)
    \/ \E k \in Keys, email \in Emails, status \in Statuses,
          password \in BOOLEAN :
         AdminEditStart(s, k, email, status, password)
    \/ AdminEditCommit(s)
    \/ \E c \in Companies :
         \/ Provision(s, c)
         \/ \E status \in {"active", "inactive", "suspended"} :
              CompanyStatus(s, c, status)
=============================================================================
