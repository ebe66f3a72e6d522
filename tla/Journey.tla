------------------------------ MODULE Journey ------------------------------
(***************************************************************************)
(* The four markings of a day and the order in which they are accepted.    *)
(***************************************************************************)

Types == {"entry", "lunch_start", "lunch_end", "exit"}

\* The types before a type in AUTOMATIC_SEQUENCE.
Earlier == [entry |-> {},
            lunch_start |-> {"entry"},
            lunch_end |-> {"entry", "lunch_start"},
            exit |-> {"entry", "lunch_start", "lunch_end"}]

IsExpected(type, have) == type \notin have /\ Earlier[type] \subseteq have

\* Mutant of Accepts: an exit does not end the day.
AcceptsAfterExit(want, have, type) ==
    /\ type \notin have
    /\ want \in {"auto", type}
    /\ \/ IsExpected(type, have)
       \/ want = "exit" /\ IsExpected("lunch_start", have)

\* normalizeManualType: a request for want, with the types in have already
\* marked, is accepted as type. It throws when no type is accepted.
Accepts(want, have, type) ==
    /\ "exit" \notin have
    /\ type \notin have
    /\ want \in {"auto", type}
    /\ \/ IsExpected(type, have)
       \/ want = "exit" /\ IsExpected("lunch_start", have)

\* getSuggestedKioskRecordType: what a terminal is told to mark next for a
\* user who has marked the types in have, if anything.
Suggested(have) ==
    IF "exit" \in have THEN {}
    ELSE {type \in Types : type \notin have /\ Earlier[type] \subseteq have}
=============================================================================
