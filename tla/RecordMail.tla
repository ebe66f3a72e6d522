----------------------------- MODULE RecordMail -----------------------------
(***************************************************************************)
(* The e-mail that confirms a marking (attemptTimeRecordEmail). The SMTP   *)
(* server takes it, or not; either way rows say so, and a row that cannot  *)
(* be written is given up. The marking is never touched.                   *)
(***************************************************************************)
EXTENDS Evidence

VARIABLES
    logs,           \* email_delivery_logs, <<record, status>>
    failures        \* email_delivery_failures, the record of each

mailVars == <<logs, failures>>

MailTypeOK ==
    /\ logs \subseteq Ids \X {"sent", "failed"}
    /\ failures \subseteq Ids

MailInit == logs = {} /\ failures = {}

MailGoes(i, from, to) ==
    /\ mails[i] = from
    /\ mails' = [mails EXCEPT ![i] = to]
    /\ UNCHANGED <<now, users, records, made, work, scene>>

\* With the e-mails disabled, or without an address or a server, nothing is
\* sent.
MailStarts(i) ==
    /\ \E to \in {"sending", "refused"} : MailGoes(i, "due", to)
    /\ UNCHANGED <<faults, logs, failures>>

MailIsSent(i) ==
    /\ \E to \in {"sent", "refused"} : MailGoes(i, "sending", to)
    /\ UNCHANGED <<faults, logs, failures>>

\* A row is written, or given up when its query fails.
Kept(row, table) ==
    \/ table' = table \cup {row} /\ UNCHANGED faults
    \/ Fault /\ UNCHANGED table

MailIsLogged(i) ==
    /\ MailGoes(i, "sent", "done")
    /\ Kept(<<i, "sent">>, logs)
    /\ UNCHANGED failures

\* Mutant of FailureIsLogged: the attempt ends with the row of the log.
FailureIsLoggedOnly(i) ==
    /\ MailGoes(i, "refused", "done")
    /\ Kept(<<i, "failed">>, logs)
    /\ UNCHANGED failures

\* persistFailure: a row of the log ...
FailureIsLogged(i) ==
    /\ MailGoes(i, "refused", "unnoted")
    /\ Kept(<<i, "failed">>, logs)
    /\ UNCHANGED failures

\* ... and one of the failures, whether or not the first was written.
FailureIsKept(i) ==
    /\ MailGoes(i, "unnoted", "done")
    /\ Kept(i, failures)
    /\ UNCHANGED logs

MailStep(i) ==
    \/ MailStarts(i) \/ MailIsSent(i) \/ MailIsLogged(i)
    \/ FailureIsLogged(i) \/ FailureIsKept(i)
=============================================================================
