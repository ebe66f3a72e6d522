------------------------------ MODULE TimeClock ------------------------------
(***************************************************************************)
(* The attendance ledger of one tenant: punches, reviews, monthly closings *)
(* and employee requests running together on the tables of                 *)
(* AttendanceStore.                                                        *)
(*                                                                         *)
(* Serialized is an assumption on the environment, not on the code: when   *)
(* it is TRUE the handlers that concern one user never overlap, and a      *)
(* closing overlaps nothing. Nothing in the code enforces it; the runs     *)
(* with Serialized = FALSE show what is lost without it. Faults says what  *)
(* may go wrong: a query is rejected, the process is restarted, or the     *)
(* deletion that takes a marking without photo back is rejected.           *)
(***************************************************************************)
EXTENDS Punch, RecordReview, MonthlyClosing, RequestDesk

CONSTANTS
    Serialized, Faults,
    Wants,          \* the types a punch may ask for
    NewTypes        \* the types a review may adjust a marking to

ASSUME ModeAssumption ==
    /\ Serialized \in BOOLEAN
    /\ Faults \subseteq {"query", "restart", "undo"}
    /\ Wants \subseteq Types \cup {"auto"}
    /\ NewTypes \subseteq Types

\* A slot with a handler is not an empty one.
ASSUME HandlerAssumption ==
    /\ Null \notin PunchLocal
    /\ Null \notin Reviewing \cup ReviewSync
    /\ Null \notin DeskLocal

vars == <<now, tables, punch, review, closing, desk>>
handlers == <<punch, review, closing, desk>>

TypeOK ==
    /\ StoreTypeOK
    /\ PunchTypeOK
    /\ ReviewTypeOK
    /\ ClosingTypeOK
    /\ DeskTypeOK

Init ==
    /\ StoreInit
    /\ PunchInit
    /\ ReviewInit
    /\ ClosingInit
    /\ DeskInit

\* No handler that concerns the user is in flight.
Quiet(u) ==
    /\ \A s \in PunchSlots : punch[s] # Null => punch[s].user # u
    /\ \A s \in ReviewSlots : review[s] # Null => review[s].user # u
    /\ \A s \in DeskSlots : desk[s] # Null => desk[s].user # u

NoClosing == \A s \in ClosingSlots : closing[s] = Null

MayStart(u) == Serialized => Quiet(u) /\ NoClosing
MayClose == Serialized => NoClosing /\ \A u \in Users : Quiet(u)

-----------------------------------------------------------------------------
Tick ==
    /\ now < MaxTime
    /\ now' = now + 1
    /\ UNCHANGED <<tables, handlers>>

PunchNext ==
    /\ \/ \E s \in PunchSlots, u \in Users, want \in Wants,
             channel \in Channels, rv \in BOOLEAN :
            MayStart(u) /\ PunchStart(s, u, want, channel, rv)
       \/ \E s \in PunchSlots :
            \/ PunchStep(s) \/ PunchEvidenceFails(s)
            \/ "undo" \in Faults /\ PunchDestroyFails(s)
            \/ "query" \in Faults /\ PunchFails(s)
    /\ UNCHANGED <<review, closing, desk>>

ReviewNext ==
    /\ \/ \E s \in ReviewSlots, i \in RecordIds, status \in RecordStatuses,
             type \in NewTypes, time \in Times :
            /\ records[i] # Null
            /\ MayStart(records[i].user)
            /\ ReviewLoad(s, i, status, type, time)
       \/ \E s \in ReviewSlots :
            ReviewStep(s) \/ ("query" \in Faults /\ ReviewFails(s))
    /\ UNCHANGED <<punch, closing, desk>>

ClosingNext ==
    /\ \/ \E s \in ClosingSlots, m \in Months :
            MayClose /\ (CloseStart(s, m) \/ ReopenFind(s, m))
       \/ \E s \in ClosingSlots :
            ClosingStep(s) \/ ("query" \in Faults /\ ClosingFails(s))
    /\ UNCHANGED <<punch, review, desk>>

DeskOpens(s) ==
    \/ \E u \in Users, d \in Days, kind \in Kinds,
          times \in Adjustments \cup {NoTimes} :
         MayStart(u) /\ FileStart(s, u, d, kind, times)
    \/ \E q \in RequestIds :
         /\ requests[q] # Null
         /\ MayStart(requests[q].user)
         /\ \/ RemoveLoad(s, q)
            \/ \E status \in {"approved", "rejected"},
                  times \in Adjustments \cup {NoTimes} :
                 DecideLoad(s, q, status, times)
    \/ \E u \in Users, days \in SUBSET Days :
         MayStart(u) /\ AssignStart(s, u, days)

DeskNext ==
    /\ \E s \in DeskSlots :
         DeskOpens(s) \/ DeskStep(s) \/ ("query" \in Faults /\ DeskFails(s))
    /\ UNCHANGED <<punch, review, closing>>

\* The process is restarted: the tables remain, the handlers are lost.
Crash ==
    /\ "restart" \in Faults
    /\ punch' = [s \in PunchSlots |-> Null]
    /\ review' = [s \in ReviewSlots |-> Null]
    /\ closing' = [s \in ClosingSlots |-> Null]
    /\ desk' = [s \in DeskSlots |-> Null]
    /\ UNCHANGED storeVars

Next == Tick \/ PunchNext \/ ReviewNext \/ ClosingNext \/ DeskNext \/ Crash

Spec == Init /\ [][Next]_vars

\* An event loop that keeps running resolves every pending await; that a
\* request arrives, or that time reaches a given slot, is not promised.
Fairness ==
    /\ \A s \in PunchSlots :
         WF_vars(PunchStep(s) /\ UNCHANGED <<review, closing, desk>>)
    /\ \A s \in ReviewSlots :
         WF_vars(ReviewStep(s) /\ UNCHANGED <<punch, closing, desk>>)
    /\ \A s \in ClosingSlots :
         WF_vars(ClosingStep(s) /\ UNCHANGED <<punch, review, desk>>)
    /\ \A s \in DeskSlots :
         WF_vars(DeskStep(s) /\ UNCHANGED <<punch, review, closing>>)

FairSpec == Spec /\ Fairness

-----------------------------------------------------------------------------
(***************************************************************************)
(* Properties.                                                             *)
(***************************************************************************)

\* A type is marked once a day: normalizeManualType refuses a second one
\* ("já foi registrada hoje").
NoTypeTwice ==
    \A u \in Users, d \in Days : \A i, j \in Live(RowsOf(u, d)) :
      records[i].type = records[j].type => i = j

\* The part of getFaces that looks at the markings of the day.
FaceSuggestion(u, d) == Suggested({records[i].type : i \in Live(RowsOf(u, d))})

\* Where punches are the only writers and do not overlap, the markings of a
\* user's day always form a journey that normalizeManualType allows: no type
\* twice, a minute or more apart, in order, and nothing missing before the
\* last one, except that an exit may follow the entry directly. What getFaces
\* suggests to a terminal for that day is what an automatic marking would be.
JourneyLegal ==
    /\ NoTypeTwice
    /\ \A u \in Users, d \in Days :
         LET today == Live(RowsOf(u, d))
             have == {records[i].type : i \in today}
         IN /\ \A i, j \in today :
                 records[i].type \in Earlier[records[j].type] =>
                   records[i].time < records[j].time
            /\ \A type \in have :
                 Earlier[type] \subseteq have \/ have = {"entry", "exit"}
            /\ FaceSuggestion(u, d) = {type \in Types : Accepts("auto", have, type)}

\* The summary row of a day says what the day's records and absences say.
Shows(u, d) ==
    IF summaries[u][d] = Null
      THEN DayFacts(u, d) = {} /\ DayAbsences(u, d) = {}
      ELSE summaries[u][d] = [recs |-> DayFacts(u, d),
                              absences |-> DayAbsences(u, d)]

\* Every change of a user's records or absences is followed by a refresh of
\* the day it touched: once no handler of the user is in flight, all of the
\* user's summaries are up to date (the contract of syncDailySummary).
SummaryFresh == \A u \in Users : Quiet(u) => \A d \in Days : Shows(u, d)

\* A closed month's snapshot is the month's content, to the last record.
SnapshotFaithful ==
    \A m \in Months :
      closings[m].status = "closed" =>
        /\ closings[m].recs = MonthFacts(m)
        /\ closings[m].absences = MonthAbsences(m)

\* However handlers interleave, a record never moves to another user or
\* another local day. This is why one period check, made on the time a
\* record had when it was loaded, covers the time it is given.
RecordKeepsItsDay ==
    [][\A i \in RecordIds :
         records[i] # Null /\ records'[i] # Null =>
           /\ records'[i].user = records[i].user
           /\ LocalDay[records'[i].time] = LocalDay[records[i].time]]_vars

\* Why it holds: ids are not reused, and whatever a review or a decision has
\* loaded and is about to write is on the day of the row it will write to,
\* as that row is now.
IdsUnused == \A i \in RecordIds : i >= nextRecord => records[i] = Null

OnDay(i, d) ==
    i < nextRecord /\ (records[i] # Null => LocalDay[records[i].time] = d)

ReviewOnDay ==
    \A s \in ReviewSlots :
      ReviewAt(s, "period") \/ ReviewAt(s, "save") =>
        /\ OnDay(review[s].rid, LocalDay[review[s].copy.time])
        /\ LocalDay[review[s].next.time] = LocalDay[review[s].copy.time]

DecisionOnDay ==
    \A s \in DeskSlots :
      (\E pc \in {"decide", "load", "apply", "save"} : DeskAt(s, pc)) =>
        /\ \A t \in Asked(desk[s].next.times) :
             LocalDay[desk[s].next.times[t]] = desk[s].next.day
        /\ \A i \in RecordIds :
             desk[s].loaded[i] # Null =>
               /\ OnDay(i, desk[s].next.day)
               /\ LocalDay[desk[s].loaded[i].time] = desk[s].next.day

WritesStayOnDay == IdsUnused /\ ReviewOnDay /\ DecisionOnDay

\* A punch is still storing the photo of a marking or taking the marking back.
PhotoPending(i) ==
    \E s \in PunchSlots : /\ punch[s] # Null
                          /\ punch[s].pc \in {"evidence", "destroy"}
                          /\ punch[s].rid = i

\* A remote marking that stays without its photo although no punch cares for
\* it any more.
Stranded(i) ==
    i \in remote /\ records[i] # Null /\ i \notin evidence /\ ~PhotoPending(i)

\* The deletion that was to take marking i back is rejected.
UndoFails(i) ==
    \E s \in PunchSlots : PunchDestroyFails(s) /\ punch[s].rid = i

\* A stored photo belongs to a record that exists, whatever fails. And a remote
\* marking whose photo could not be stored does not stay: it is stranded only
\* by a restart of the process, or by the very rejection of its deletion,
\* and by no other fault and no other handler.
RemoteHasPhoto ==
    /\ [](\A i \in evidence : records[i] # Null)
    /\ [][\A i \in remote' :
            Stranded(i)' => Stranded(i) \/ UndoFails(i) \/ Crash]_vars

\* A month that is closed for good eventually stops changing, however the
\* closing and the writers overlap: only the handlers in flight at the
\* closing can still write into it.
ClosedMonthSettles ==
    \A m \in Months :
      (<>[](closings[m].status = "closed"))
        => <>[][MonthFacts(m)' = MonthFacts(m)]_vars

\* Every record that is inserted appears, at some time, in the summary of its
\* day, unless it is deleted or rejected first, or stranded without its photo:
\* the refresh that follows the insert is not forgotten on any other path. (It
\* need not stay there: see SummaryFresh without Serialized.)
RecordIsSummarised ==
    \A i \in RecordIds :
      <>(nextRecord > i) =>
        <>(/\ nextRecord > i
           /\ \/ records[i] = Null
              \/ records[i].status = "rejected"
              \/ Stranded(i)
              \/ LET row == summaries[records[i].user]
                                     [LocalDay[records[i].time]]
                 IN row # Null /\ FactOf(i) \in row.recs)

\* With serialized handlers each of them is one operation of the abstract
\* ledger, at the step that writes, and the rest of its steps are invisible:
\* the checks made some queries earlier still hold when it writes. The
\* summaries, the evidence and the handlers in flight have no part in it.
Promise == INSTANCE Ledger WITH
    records <- records, nextRecord <- nextRecord,
    requests <- requests, nextRequest <- nextRequest,
    closings <- closings
ImplementsLedger == Promise!Spec
=============================================================================
