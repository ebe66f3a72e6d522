------------------------------- MODULE Tenancy -------------------------------
(***************************************************************************)
(* Accounts, staff, transfers and a browser together: what shares the      *)
(* tables of Directory, in any order and, in some scenes, overlapping.     *)
(***************************************************************************)
EXTENDS WebSession, Staff, Transfer

vars == <<tables, passwords, links, work, calls, scene, marks, held, dumps,
          staging, importing, browser, globals>>

Handlers == Login \cup OwnPassword \cup Create \cup Edit \cup NewAdmin
              \cup AdminEdit \cup Backup \cup Import

ASSUME TenancyAssumption ==
    Null \notin Account \cup User \cup Member \cup Dump \cup Session
                \cup Handlers

TypeOK ==
    /\ DirectoryTypeOK
    /\ TransferTypeOK
    /\ WebTypeOK
    /\ work \in [Slots -> Handlers \cup {Null}]

Init == DirectoryInit /\ TransferInit /\ WebInit

Step(s) ==
    \/ /\ IdentityStep(s) \/ StaffStep(s)
       /\ UNCHANGED <<marks, held, dumps, staging, importing>>
    \/ TransferStep(s)
    \/ /\ Fails(s) /\ work[s].op # "import"
       /\ UNCHANGED <<marks, held, dumps, staging, importing>>

Next ==
    \/ \E s \in Slots : Step(s) /\ UNCHANGED <<browser, globals>>
    \/ WebStep /\ UNCHANGED <<marks, held, dumps, staging, importing>>

Spec == Init /\ [][Next]_vars

-----------------------------------------------------------------------------
\* No request overlaps another, or none of those that do renames or replaces
\* users: a handler may rename an account that another company has just shared.
Calm == Serialized \/ Requests \cap {"adminEdit", "import"} = {}

\* A membership links a user and the account of the same e-mail, however
\* accounts are made, shared, renamed and restored.
OneIdentity ==
    Calm =>
      \A k \in Keys : members[k] # Null =>
        /\ users[k] # Null
        /\ accounts[members[k].account] # Null
        /\ accounts[members[k].account].email = users[k].email

\* Whoever logs in is offered every company where they were an active user
\* when they did and still are, whichever handler was cut short before it
\* made their account or their membership, and whichever hirings, logins and
\* changes of passwords overlap.
OffersEveryCompany ==
    [][\A s \in Slots : Calm /\ Accepted(s) =>
         \A k \in work[s].seen :
           \/ users[k] = Null \/ users[k].status # "active"
           \/ users[k].email # work[s].email
           \/ companies[k[1]] # "active"
           \/ members[k] # Null /\ members[k].status = "inactive"
           \/ k \in Offered(work[s].account)]_vars

\* The mark of a temporary password falls only as the person chooses one for
\* their account: the user no longer has the hash that was marked, but the
\* account's new one, and by a link it is of another password than the
\* account had. ("Troque a senha temporária antes de continuar." asks for as
\* much of every change, but changeAccountPassword takes the same password
\* again.) An import brings back the marks of the dump, and is not looked at
\* here.
MarkFallsByChoice ==
    [][Serialized /\ staging = Null =>
         \A k \in Keys :
           users[k] # Null /\ users'[k] # Null
             /\ users[k].must /\ ~users'[k].must
           => /\ users'[k].hash # users[k].hash
              /\ members[k] # Null
              /\ users'[k].hash = accounts'[members[k].account].hash
              /\ \A s \in Slots : OwnRows(s) /\ work[s].link # Null =>
                   ~SamePassword(users'[k].hash, work[s].link)]_vars

\* A link opens its account for one change of the password: once it no
\* longer does, it never does again, whoever else writes the account
\* meanwhile, and handlers that do not overlap change nothing with it.
LinksAreSpent ==
    [][LET opens(link) == accounts[link.account].hash = link.hash IN
       /\ \A link \in links : ~opens(link) => ~opens(link)'
       /\ \A s \in Slots : Serialized /\ OwnSave(s) /\ work[s].link # Null =>
            accounts[work[s].account].hash = work[s].link]_vars

\* The two sessions of a tab are of one person: nobody works in a company
\* beside the global panel of another, and whoever enters a company from the
\* panel comes back to their own, however many companies they entered, pages
\* they visited and people logged in before. (Whoever does not wait for an
\* answer may find it obeyed after another has logged in.)
SessionsAgree ==
    /\ origin # Null => origin.kind # "access"
    /\ session # Null /\ session.kind = "platform" => platform # Null
    /\ Patient =>
         /\ platform # Null /\ session # Null =>
              IsGlobal(session) /\ session.by = platform
         /\ Impersonating => /\ platform = session.by
                             /\ origin \in {Null, ForPanel(session.by)}

\* Departments that requests name and that are not there.
Orphans(rows) == rows.targets \ rows.departments

ImportsAs(s, c, d) ==
    /\ \A k \in Keys :
         IF k[1] # c THEN /\ users'[k] = users[k] /\ members'[k] = members[k]
                          /\ k \in marks' <=> k \in marks
         ELSE IF d.users[k[2]] # Null
           THEN /\ users'[k] # Null
                /\ [users'[k] EXCEPT !.hash = 1]
                     = [d.users[k[2]] EXCEPT !.hash = 1]
                /\ members'[k] # Null
                /\ users'[k].hash = accounts'[members'[k].account].hash
           ELSE work[s].replace => users'[k] = Null /\ members'[k] = Null
    /\ \A p \in d.marks : <<c, p>> \in marks'
    /\ \A o \in Companies \ {c} : held'[o] = held[o]
    /\ Orphans(held'[c]) \subseteq IF work[s].replace THEN {}
                                  ELSE Orphans(held[c])

\* An import gives its company the rows of the dump it was given, and no
\* other company any; each user keeps the password of their account, and no
\* request comes without its department. Once loaded, a backup during which
\* nobody wrote can be imported in place of the company's rows unless one of
\* its requests names a department that was deleted before. (On MySQL one
\* with a JSON column is never loaded.)
RestoresBackup ==
    [][\A s \in Slots :
         Handling(s, "import", "commit") =>
           LET h == work[s] IN
           /\ ImportCommit(s) => ImportsAs(s, h.company, h.dump)
           /\ h.dump.whole /\ h.replace /\ Orphans(h.dump.rest) = {}
                => Importable(h)]_vars
=============================================================================
