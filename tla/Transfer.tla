------------------------------- MODULE Transfer -------------------------------
(***************************************************************************)
(* Backup and import of one company (tenantTransferService). A backup      *)
(* reads the company's tables one after the other, those referred to       *)
(* first. An import loads a dump into a staging database that all imports  *)
(* share, and then replaces the company's rows, or adds to them, in one    *)
(* transaction; every user of the dump gets an account and a membership.   *)
(*                                                                         *)
(* users is a table others refer to, and to itself (manager_id); marks     *)
(* stands for those that refer to it. A request names the department it    *)
(* was routed to in a column that no foreign key guards. The dumps are     *)
(* this program's own: those of older versions, with other columns or      *)
(* without the leadership, are left out.                                   *)
(***************************************************************************)
EXTENDS Directory, Functions

CONSTANT Departments    \* bound: ids of departments

VARIABLES
    marks,          \* users with rows in the tables that refer to users
    held,           \* what else a company has that an import may stop at
    dumps,          \* the last backup of each company
    staging,        \* the staging database
    importing       \* importInProgress

\* targets: the target_department_id of requests; json: there is a row with a
\* value in a JSON column (the days of a schedule, the permissions of a
\* leader, the snapshot of a closing).
Holding == [departments : SUBSET Departments, targets : SUBSET Departments,
         json : BOOLEAN]
NoHolding == [departments |-> {}, targets |-> {}, json |-> FALSE]

\* whole: no row of the company was written while it was read. It is kept
\* for the properties only.
Dump == [users : [People -> User \cup {Null}], marks : SUBSET People,
         rest : Holding, whole : BOOLEAN]

TransferTypeOK ==
    /\ marks \subseteq Keys
    /\ held \in [Companies -> Holding]
    /\ dumps \in [Companies -> Dump \cup {Null}]
    /\ staging \in Dump \cup {Null}
    /\ importing \in BOOLEAN

TransferInit ==
    /\ marks = {}
    /\ held = [c \in Companies |-> NoHolding]
    /\ dumps = [c \in Companies |-> Null]
    /\ staging = Null
    /\ importing = FALSE

UsersOf(c) == [p \in People |-> users[<<c, p>>]]
MarksOf(c) == {p \in People : <<c, p>> \in marks}

-----------------------------------------------------------------------------
\* A row of a user is written, such as a marking.
Mark(s, k) ==
    /\ Arrives(s, "mark")
    /\ users[k] # Null /\ users[k].status = "active"
    /\ marks' = marks \cup {k}
    /\ UNCHANGED <<tables, passwords, links, work, scene, held, dumps, staging,
                   importing>>

\* Ids are not used again.
Fresh == {d \in Departments :
            \A c \in Companies : d \notin held[c].departments \cup held[c].targets}

Writes(s, c, rows) ==
    /\ Arrives(s, "rows")
    /\ companies[c] # Null
    /\ held' = [held EXCEPT ![c] = rows]
    /\ UNCHANGED <<tables, passwords, links, work, scene, marks, dumps, staging,
                   importing>>

\* createDepartment.
DepartmentAdded(s, c) ==
    \E d \in Fresh : Writes(s, c, [held[c] EXCEPT !.departments = @ \cup {d}])

\* createRequest, of an employee of the department.
RequestRouted(s, c) ==
    \E d \in held[c].departments :
      Writes(s, c, [held[c] EXCEPT !.targets = @ \cup {d}])

\* deleteDepartment, once it has no active user: its requests keep its id.
DepartmentDeleted(s, c) ==
    \E d \in held[c].departments :
      Writes(s, c, [held[c] EXCEPT !.departments = @ \ {d}])

JsonWritten(s, c) == Writes(s, c, [held[c] EXCEPT !.json = TRUE])

-----------------------------------------------------------------------------
Backup == [op : {"backup"}, at : {"rest"}, company : Companies,
           users : [People -> User \cup {Null}], rest : Holding]

\* createTenantBackup reads the departments and the users ...
BackupStart(s, c) ==
    /\ companies[c] # Null
    /\ Begins(s, [op |-> "backup", at |-> "rest", company |-> c,
                  users |-> UsersOf(c), rest |-> held[c]])
    /\ UNCHANGED <<tables, passwords, links, scene, marks, held, dumps, staging,
                   importing>>

\* ... and, some queries later, the rows that refer to them. Those with JSON
\* columns are in tables of both kinds.
BackupRest(s) ==
    LET h == work[s]
        now == held[h.company]
    IN /\ Handling(s, "backup", "rest")
       /\ \E json \in {h.rest.json, now.json} :
            dumps' = [dumps EXCEPT ![h.company] =
              [users |-> h.users, marks |-> MarksOf(h.company),
               rest |-> [departments |-> h.rest.departments,
                         targets |-> now.targets, json |-> json],
               whole |-> h.users = UsersOf(h.company) /\ h.rest = now]]
       /\ Ends(s)
       /\ UNCHANGED <<tables, passwords, links, calls, scene, marks, held,
                      staging, importing>>

-----------------------------------------------------------------------------
Import == [op : {"import"}, at : {"load", "commit"}, company : Companies,
           dump : Dump, replace : BOOLEAN]

\* Mutant of MayImport: imports are not kept apart.
MayImportAlways == TRUE

MayImport == ~importing

\* importTenantDump, of any dump into any company; one at a time.
ImportStart(s, c, d, replace) ==
    /\ companies[c] # Null
    /\ MayImport
    /\ Begins(s, [op |-> "import", at |-> "load", company |-> c, dump |-> d,
                  replace |-> replace])
    /\ importing' = TRUE
    /\ UNCHANGED <<tables, passwords, links, scene, marks, held, dumps, staging>>

\* A JSON column that was read as a value is in the dump as the list of its
\* parts, in which its INSERT has too many values, or none that is JSON.
Loads(d) == d.rest.json => ~Scenes[scene].parsed

ImportLoad(s) ==
    LET h == work[s] IN
    /\ Handling(s, "import", "load")
    /\ Loads(h.dump)
    /\ staging' = h.dump
    /\ Continues(s, [h EXCEPT !.at = "commit"])
    /\ UNCHANGED <<tables, passwords, links, calls, scene, marks, held, dumps,
                   importing>>

Imported == {p \in People : staging.users[p] # Null}

\* Every row refers to rows of the dump, and none is there already.
Importable(h) ==
    /\ staging # Null
    /\ staging.marks \subseteq Imported
    /\ staging.rest.targets \subseteq staging.rest.departments
    /\ h.replace \/ \A p \in Imported :
                      MayAdd(<<h.company, p>>, staging.users[p].email)

\* The e-mails of the dump that no account has.
Unknown == {staging.users[p].email : p \in Imported}
             \ {accounts[a].email : a \in {b \in Accounts : accounts[b] # Null}}

\* The accounts after the users were inserted.
WithAccounts(made) ==
    [a \in Accounts |->
       IF \E e \in Unknown : made[e] = a
         THEN LET e == CHOOSE e \in Unknown : made[e] = a
                  p == CHOOSE p \in Imported : staging.users[p].email = e
              IN [email |-> e, hash |-> staging.users[p].hash,
                  status |-> "active"]
         ELSE accounts[a]]

Restored(row) == [row EXCEPT
    !.hash = LET a == CHOOSE a \in Accounts : accounts'[a] # Null
                                   /\ accounts'[a].email = row.email
             IN accounts'[a].hash,
    !.manager = IF @ \in Imported THEN @ ELSE Null]

\* The rows of the dump, beside those that are there: departments get new
\* ids, and requests the new id of theirs.
Beside(old, new) ==
    [departments |-> old.departments \cup Range(new),
     targets |-> old.targets \cup {new[d] : d \in staging.rest.targets},
     json |-> old.json \/ staging.rest.json]

ImportCommit(s) ==
    LET h == work[s]
        inside(k) == k[1] = h.company
        kept(k) == inside(k) => ~h.replace /\ k[2] \notin Imported
    IN /\ Handling(s, "import", "commit")
       /\ Importable(h)
       /\ \E made \in [Unknown -> {a \in Accounts : accounts[a] = Null}] :
            /\ \A e, f \in Unknown : made[e] = made[f] => e = f
            /\ \A e \in Unknown : \A a \in 1..(made[e] - 1) :
                 accounts[a] # Null \/ \E f \in Unknown : made[f] = a
            /\ accounts' = WithAccounts(made)
       /\ users' = [k \in Keys |->
            IF kept(k) THEN users[k]
            ELSE IF k[2] \in Imported THEN Restored(staging.users[k[2]])
            ELSE Null]
       /\ members' = [k \in Keys |->
            IF kept(k) THEN members[k]
            ELSE IF k[2] \in Imported
              THEN [account |-> CHOOSE a \in Accounts :
                                  /\ accounts'[a] # Null
                                  /\ accounts'[a].email = users'[k].email,
                    status |-> "active"]
              ELSE Null]
       /\ marks' = {k \in marks : kept(k)}
                     \cup {<<h.company, p>> : p \in staging.marks}
       /\ \E new \in [staging.rest.departments -> Fresh] :
            /\ IsInjective(new)
            /\ held' = [held EXCEPT ![h.company] =
                          Beside(IF h.replace THEN NoHolding ELSE @, new)]
       /\ staging' = Null
       /\ importing' = FALSE
       /\ Ends(s)
       /\ UNCHANGED <<companies, passwords, links, calls, scene, dumps>>

\* A row cannot be inserted, or a query fails: nothing was changed.
ImportFails(s) ==
    /\ work[s] # Null /\ work[s].op = "import"
    /\ staging' = Null
    /\ importing' = FALSE
    /\ Fails(s)
    /\ UNCHANGED <<marks, held, dumps>>

TransferStep(s) ==
    \/ \E k \in Keys : Mark(s, k)
    \/ \E c \in Companies :
         \/ DepartmentAdded(s, c) \/ RequestRouted(s, c)
         \/ DepartmentDeleted(s, c) \/ JsonWritten(s, c)
         \/ BackupStart(s, c)
    \/ BackupRest(s)
    \/ \E c, from \in Companies, replace \in BOOLEAN :
         dumps[from] # Null /\ ImportStart(s, c, dumps[from], replace)
    \/ ImportLoad(s) \/ ImportCommit(s) \/ ImportFails(s)
=============================================================================
