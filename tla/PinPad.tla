------------------------------- MODULE PinPad -------------------------------
(***************************************************************************)
(* Markings by PIN: the attempts counted in memory for each terminal       *)
(* (pinAttemptMap), the search for the owner of a PIN, and the editions    *)
(* that give a user a PIN nobody else has.                                 *)
(***************************************************************************)
EXTENDS Evidence

CONSTANTS
    Terminals,      \* attempt keys: address and device
    MaxFailed,      \* PIN_MAX_FAILED_ATTEMPTS
    Window          \* PIN_LOCK_WINDOW_MS

VARIABLES
    attempts,       \* pinAttemptMap
    misses          \* for the properties only: when each terminal failed,
                    \* since its last success or restart; n tells those of
                    \* one instant apart

pinVars == <<attempts, misses>>

ASSUME PinAssumption ==
    MaxFailed \in Nat \ {0} /\ Window \in Nat \ {0}

Attempt == [failed : Nat, until : Nat \cup {Null}, last : Nat]
NoAttempt == [failed |-> 0, until |-> Null, last |-> 0]
Miss == [at : 0..MaxTime, n : Nat]

PinTypeOK ==
    /\ attempts \in [Terminals -> Attempt]
    /\ misses \in [Terminals -> SUBSET Miss]

PinInit ==
    /\ attempts = [t \in Terminals |-> NoAttempt]
    /\ misses = [t \in Terminals |-> {}]

PinRequest == [op : {"pin"}, at : {"search", "compared", "mark", "mail",
                                   "mailing"},
               terminal : Terminals, pin : Pins, found : Users \cup {Null},
               record : Ids \cup {Null}]
PinEdition == [op : {"setPin"}, at : {"save"}, user : Users,
               loaded : Pins \cup {Null}, pin : Pins \cup {Null}]

-----------------------------------------------------------------------------
\* getPinAttemptState: a lock that has ended is forgotten.
AttemptState(t) ==
    LET a == attempts[t] IN
    IF a.until # Null /\ a.until <= now /\ now - a.last > Window
    THEN NoAttempt ELSE a

Locked(t) == AttemptState(t).until # Null /\ AttemptState(t).until > now

\* Mutant of AfterFailure: the terminal is locked one failure too late.
AfterFailureLate(t) ==
    LET a == AttemptState(t)
        failed == IF now - a.last < Window THEN a.failed + 1 ELSE 1
    IN  [failed |-> failed,
         until  |-> IF failed > MaxFailed THEN now + Window ELSE Null,
         last   |-> now]

\* registerPinFailure: failures closer than the window add up.
AfterFailure(t) ==
    LET a == AttemptState(t)
        failed == IF now - a.last < Window THEN a.failed + 1 ELSE 1
    IN  [failed |-> failed,
         until  |-> IF failed >= MaxFailed THEN now + Window ELSE Null,
         last   |-> now]

Recent(t) == {m \in misses[t] : m.at + Window > now}
Missed(t) == [at |-> now, n |-> Cardinality({m \in misses[t] : m.at = now})]

\* A PIN is typed at a terminal that is not locked; a locked one is told to
\* wait, which changes nothing.
PinArrives(s, t, pin) ==
    /\ ~Locked(t)
    /\ Begins(s, "pin", [op |-> "pin", at |-> "search", terminal |-> t,
                         pin |-> pin, found |-> Null, record |-> Null])
    /\ attempts' = [attempts EXCEPT ![t] = AttemptState(t)]
    /\ UNCHANGED <<now, users, records, made, mails, faults, scene, misses>>

\* The active users with a PIN are read; the first one it opens is the owner.
PinSearch(s) ==
    /\ Handling(s, "pin", "search")
    /\ LET owners == {u \in Users : users[u].active
                                      /\ users[u].pin = work[s].pin}
       IN  \E u \in IF owners = {} THEN {Null} ELSE owners :
             Becomes(s, [work[s] EXCEPT !.at = "compared", !.found = u])
    /\ UNCHANGED <<now, users, records, made, mails, faults, scene, attempts,
                   misses>>

\* Nobody's: the failure is counted, even if the terminal is locked by now.
PinMiss(s) ==
    /\ Handling(s, "pin", "compared") /\ work[s].found = Null
    /\ LET t == work[s].terminal IN
       /\ attempts' = [attempts EXCEPT ![t] = AfterFailure(t)]
       /\ misses' = [misses EXCEPT ![t] = Recent(t) \cup {Missed(t)}]
    /\ Ends(s)
    /\ UNCHANGED <<now, users, records, made, mails, faults, scene>>

\* Somebody's: the terminal starts afresh.
PinMatch(s) ==
    /\ Handling(s, "pin", "compared") /\ work[s].found # Null
    /\ LET t == work[s].terminal IN
       /\ attempts' = [attempts EXCEPT ![t] = NoAttempt]
       /\ misses' = [misses EXCEPT ![t] = {}]
    /\ Goes(s, "mark")
    /\ UNCHANGED <<now, users, records, made, mails, faults, scene>>

PinMark(s) ==
    /\ Handling(s, "pin", "mark")
    /\ Inserted([user |-> work[s].found, method |-> "pin", photo |-> Null,
                 at |-> now])
    /\ Becomes(s, [work[s] EXCEPT !.at = "mail", !.record = made + 1])
    /\ UNCHANGED <<now, users, mails, faults, scene, attempts, misses>>

\* createValidatedRecord refuses the marking.
PinRefused(s) ==
    /\ Handling(s, "pin", "mark") /\ Ends(s)
    /\ UNCHANGED <<now, users, records, made, mails, faults, scene, attempts,
                   misses>>

PinMail(s) ==
    /\ \/ Handling(s, "pin", "mail") /\ Notifies(s)
       \/ Handling(s, "pin", "mailing") /\ Answers(s) /\ UNCHANGED mails
    /\ UNCHANGED <<now, users, records, made, faults, scene, attempts, misses>>

-----------------------------------------------------------------------------
\* Mutant of SamePin: the PIN of somebody inactive counts as free.
SamePinActive(pin, u) ==
    \E v \in Users \ {u} : users[v].active /\ users[v].pin = pin

\* findUserWithSamePin, which asks everyone, active or not.
SamePin(pin, u) == \E v \in Users \ {u} : users[v].pin = pin

\* createUser and updateUser: a PIN that is set must be nobody else's ...
PinEditStart(s, u, pin) ==
    /\ pin # Null => ~SamePin(pin, u)
    /\ Begins(s, "setPin", [op |-> "setPin", at |-> "save", user |-> u,
                            loaded |-> users[u].pin, pin |-> pin])
    /\ UNCHANGED <<now, users, records, made, mails, faults, scene, attempts,
                   misses>>

\* ... and is saved later. A new hash always differs from the one loaded.
PinEditSave(s) ==
    /\ Handling(s, "setPin", "save")
    /\ LET h == work[s] IN
       users' = [users EXCEPT ![h.user].pin =
                   IF h.pin # Null THEN h.pin ELSE Column(@, h.loaded, Null)]
    /\ Ends(s)
    /\ UNCHANGED <<now, records, made, mails, faults, scene, attempts, misses>>

\* A user is made inactive, or active again, and keeps the PIN.
SetStatus(s, u) ==
    /\ Arrives(s, "status")
    /\ users' = [users EXCEPT ![u].active = ~@]
    /\ UNCHANGED <<now, records, made, mails, work, faults, scene, attempts,
                   misses>>

\* A query of the search fails, or the refresh that follows the marking:
\* the answer is an error, and no e-mail is sent.
PinFails(s) ==
    /\ \/ Handling(s, "pin", "search") \/ Handling(s, "pin", "mail")
    /\ Fault /\ Ends(s)
    /\ UNCHANGED <<now, users, records, made, mails, scene, attempts, misses>>

PinProceeds(s) ==
    \/ PinSearch(s) \/ PinMiss(s) \/ PinMatch(s) \/ PinMark(s) \/ PinMail(s)
    \/ PinEditSave(s)

PinStep(s) ==
    \/ \E t \in Terminals, pin \in Pins : PinArrives(s, t, pin)
    \/ PinProceeds(s) \/ PinRefused(s) \/ PinFails(s)
    \/ \E u \in Staff :
         \/ SetStatus(s, u)
         \/ \E pin \in Pins \cup {Null} : PinEditStart(s, u, pin)
=============================================================================
