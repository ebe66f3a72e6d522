------------------------------- MODULE Identity -------------------------------
(***************************************************************************)
(* The handlers of accounts (identityService, accountAuthController): a    *)
(* login finds the account of the e-mail, or makes it from the users that  *)
(* have the password, links the users that are not linked and offers the   *)
(* companies; the owner of an account changes its password, or resets it   *)
(* with a link, in every company.                                          *)
(***************************************************************************)
EXTENDS Directory

\* buildTenantSession and listAccountCompanies: where an account may enter.
Offered(a) ==
    {k \in ActiveMembersOf(a) : /\ companies[k[1]] = "active"
                                /\ users[k] # Null
                                /\ users[k].status = "active"}

-----------------------------------------------------------------------------
\* seen: the active users of the e-mail; matching: the hashes, among theirs,
\* of the password that was typed.
Login == [op : {"login"}, at : {"find", "create", "link"}, email : Emails,
          typed : Passwords, seen : SUBSET Keys, matching : SUBSET Passwords,
          account : Accounts \cup {Null}, hash : Passwords \cup {Null},
          todo : SUBSET Keys]

LoginStart(s, email, typed) ==
    LET seen == {k \in Keys : /\ users[k] # Null
                              /\ users[k].email = email
                              /\ users[k].status = "active"}
    IN /\ Begins(s, [op |-> "login", at |-> "find", email |-> email,
                     typed |-> typed, seen |-> seen,
                     matching |-> {n \in {users[k].hash : k \in seen} :
                                     SamePassword(n, typed)},
                     account |-> Null, hash |-> Null, todo |-> {}])
       /\ UNCHANGED <<tables, passwords, links, scene>>

\* Mutant of Found: only a new account is linked to the users.
FoundUnlinked(h, a) == [h EXCEPT !.at = "link", !.account = a,
                                 !.hash = accounts[a].hash]

Found(h, a) == [h EXCEPT !.at = "link", !.account = a,
                         !.hash = accounts[a].hash, !.todo = h.seen]

LoginFind(s) ==
    LET h == work[s] IN
    /\ Handling(s, "login", "find")
    /\ \/ \E a \in ActiveAccountOf(h.email) : Continues(s, Found(h, a))
       \/ /\ ActiveAccountOf(h.email) = {}
          /\ IF h.matching = {} THEN Ends(s)
             ELSE Continues(s, [h EXCEPT !.at = "create"])
    /\ UNCHANGED <<tables, passwords, links, calls, scene>>

\* The account gets the hash of a user that has the password. The index
\* refuses a second account, an inactive one counting too.
LoginCreate(s) ==
    LET h == work[s] IN
    /\ Handling(s, "login", "create")
    /\ \/ /\ AccountOf(h.email) # {}
          /\ Ends(s)
          /\ UNCHANGED accounts
       \/ /\ AccountOf(h.email) = {}
          /\ MayAddAccount
          /\ \E n \in h.matching :
               /\ accounts' = [accounts EXCEPT ![NewAccount] =
                    [email |-> h.email, hash |-> n, status |-> "active"]]
               /\ Continues(s, [h EXCEPT !.at = "link", !.account = NewAccount,
                                         !.hash = n, !.todo = h.seen])
    /\ UNCHANGED <<companies, users, members, passwords, links, calls, scene>>

\* findOrCreate, of one user after the other.
LoginLink(s) ==
    LET h == work[s] IN
    /\ Handling(s, "login", "link")
    /\ \E k \in h.todo :
         \/ /\ \E o \in MembersOf(h.account) : o[1] = k[1]
            /\ Continues(s, [h EXCEPT !.todo = @ \ {k}])
            /\ UNCHANGED members
         \/ /\ MayLink(h.account, k)
            /\ members' = [members EXCEPT ![k] =
                 [account |-> h.account, status |-> "active"]]
            /\ Continues(s, [h EXCEPT !.todo = @ \ {k}])
         \/ /\ \A o \in MembersOf(h.account) : o[1] # k[1]
            /\ ~MayLink(h.account, k)
            /\ Ends(s)
            /\ UNCHANGED members
    /\ UNCHANGED <<companies, accounts, users, passwords, links, calls, scene>>

\* The companies of the account are offered if the password is its own.
LoginAnswer(s) ==
    /\ Handling(s, "login", "link")
    /\ work[s].todo = {}
    /\ Ends(s)
    /\ UNCHANGED <<tables, passwords, links, calls, scene>>

Accepted(s) == LoginAnswer(s) /\ SamePassword(work[s].typed, work[s].hash)

-----------------------------------------------------------------------------
\* requestAccountPasswordReset: the link holds the fingerprint of the hash.
AsksForLink(s, a) ==
    /\ Arrives(s, "link")
    /\ accounts[a] # Null /\ accounts[a].status = "active"
    /\ Offered(a) # {}
    /\ links' = links \cup {[account |-> a, hash |-> accounts[a].hash]}
    /\ UNCHANGED <<tables, passwords, work, scene>>

\* found: the users syncAccountPassword has found linked.
OwnPassword == [op : {"own"}, at : {"save", "find", "rows"},
                account : Accounts, link : Passwords \cup {Null},
                hash : Passwords \cup {Null}, found : SUBSET Keys]

OwnStart(s, a, link) ==
    /\ Begins(s, [op |-> "own", at |-> "save", account |-> a, link |-> link,
                  hash |-> Null, found |-> {}])
    /\ UNCHANGED <<tables, passwords, links, scene>>

\* changeAccountPassword: by somebody who is in, with the present password.
\* The new one may be the same.
ChangeStart(s, a) ==
    /\ accounts[a] # Null /\ accounts[a].status = "active"
    /\ Offered(a) # {}
    /\ OwnStart(s, a, Null)

\* Mutant of ResetStart: the fingerprint is not compared.
ResetStartAny(s, link) == OwnStart(s, link.account, link.hash)

\* resetAccountPassword.
ResetStart(s, link) ==
    /\ accounts[link.account].hash = link.hash
    /\ OwnStart(s, link.account, link.hash)

\* Mutant of MayChoose: a link, too, leaves the password as it is.
MayChooseAny(h) == TRUE

\* Only a link asks for another password than the present one.
MayChoose(h) == h.link # Null => ~SamePassword(Chosen, h.link)

OwnSave(s) ==
    LET h == work[s] IN
    /\ Handling(s, "own", "save")
    /\ Chooses /\ MayChoose(h)
    /\ accounts' = [accounts EXCEPT ![h.account].hash = Chosen]
    /\ Continues(s, [h EXCEPT !.at = "find", !.hash = Chosen])
    /\ UNCHANGED <<companies, users, members, links, calls, scene>>

\* Every membership counts, an inactive one too.
OwnFind(s) ==
    LET h == work[s] IN
    /\ Handling(s, "own", "find")
    /\ Continues(s, [h EXCEPT !.at = "rows", !.found = MembersOf(h.account)])
    /\ UNCHANGED <<tables, passwords, links, calls, scene>>

OwnRows(s) ==
    LET h == work[s] IN
    /\ Handling(s, "own", "rows")
    /\ users' = [k \in Keys |->
         IF k \in h.found /\ users[k] # Null
           THEN [users[k] EXCEPT !.hash = h.hash, !.must = FALSE]
           ELSE users[k]]
    /\ Ends(s)
    /\ UNCHANGED <<companies, accounts, members, passwords, links, calls, scene>>

IdentityStep(s) ==
    \/ \E email \in Emails, typed \in 1..passwords : LoginStart(s, email, typed)
    \/ LoginFind(s) \/ LoginCreate(s) \/ LoginLink(s) \/ LoginAnswer(s)
    \/ \E a \in Accounts : AsksForLink(s, a) \/ ChangeStart(s, a)
    \/ \E link \in links : ResetStart(s, link)
    \/ OwnSave(s) \/ OwnFind(s) \/ OwnRows(s)
=============================================================================
