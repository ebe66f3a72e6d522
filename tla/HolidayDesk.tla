------------------------------ MODULE HolidayDesk ------------------------------
(***************************************************************************)
(* Holidays, and the daily summaries read with them (holidayController).   *)
(* A summary is reduced to whether its day was a holiday for whoever wrote *)
(* it, and to the day it was written on. The clock counts days here.       *)
(***************************************************************************)
EXTENDS Evidence

VARIABLES
    holidays,       \* the days that are one
    summaries       \* of each user and day, Null for none

dayVars == <<holidays, summaries>>

Days == 0..Scenes[scene].time
DaySummary == [holiday : BOOLEAN, written : Days]

DayTypeOK ==
    /\ holidays \subseteq Days
    /\ summaries \in [Users \X Days -> DaySummary \cup {Null}]

DayInit ==
    /\ holidays = {}
    /\ summaries = [x \in Users \X Days |-> Null]

DayRequest == [op : {"holiday"}, at : {"list", "sync"}, day : 0..MaxTime,
               left : SUBSET Users, read : [Users -> BOOLEAN \cup {Null}]]
SyncRequest == [op : {"sync"}, at : {"write"}, user : Users, day : 0..MaxTime,
                read : BOOLEAN]

Nobody == [u \in Users |-> Null]

\* syncDailySummary writes the row of a user, whoever asked for it.
Summarised(u, d, holiday) ==
    summaries' = [summaries EXCEPT ![<<u, d>>] =
                    [holiday |-> holiday, written |-> now]]

DayStays == UNCHANGED <<now, users, records, made, mails, scene>>

-----------------------------------------------------------------------------
\* createHoliday (a day is one once) and deleteHoliday.
HolidayChanges(s, d) ==
    /\ Begins(s, "day", [op |-> "holiday", at |-> "list", day |-> d,
                         left |-> {}, read |-> Nobody])
    /\ holidays' = IF d \in holidays THEN holidays \ {d} ELSE holidays \cup {d}
    /\ DayStays /\ UNCHANGED <<faults, summaries>>

\* Mutant of ToSync: the rows of today are left to the next marking.
ToSyncBefore(d) == IF d < now THEN {u \in Users : users[u].active} ELSE {}

\* syncHolidayDate: nobody for a day that is ahead, or every active user.
ToSync(d) == IF d <= now THEN {u \in Users : users[u].active} ELSE {}

HolidayLists(s) ==
    /\ Handling(s, "holiday", "list")
    /\ LET left == ToSync(work[s].day) IN
       IF left = {} THEN Ends(s)
       ELSE Becomes(s, [work[s] EXCEPT !.at = "sync", !.left = left])
    /\ DayStays /\ UNCHANGED <<faults, holidays, summaries>>

\* The rows are refreshed side by side: each reads its day ...
HolidayReads(s, u) ==
    /\ Handling(s, "holiday", "sync")
    /\ u \in work[s].left /\ work[s].read[u] = Null
    /\ Becomes(s, [work[s] EXCEPT !.read[u] = work[s].day \in holidays])
    /\ DayStays /\ UNCHANGED <<faults, holidays, summaries>>

Rests(s, u) ==
    LET left == work[s].left \ {u} IN
    IF left = {} THEN Ends(s)
    ELSE Becomes(s, [work[s] EXCEPT !.left = left])

\* ... and is written; Promise.allSettled waits for all, failed or not.
HolidayWrites(s, u) ==
    /\ Handling(s, "holiday", "sync")
    /\ u \in work[s].left /\ work[s].read[u] # Null
    /\ Summarised(u, work[s].day, work[s].read[u])
    /\ Rests(s, u)
    /\ DayStays /\ UNCHANGED <<faults, holidays>>

HolidaySkips(s, u) ==
    /\ Handling(s, "holiday", "sync") /\ u \in work[s].left
    /\ Fault /\ Rests(s, u)
    /\ DayStays /\ UNCHANGED <<holidays, summaries>>

\* Any other handler that refreshes a row: a marking, a review, a request, for
\* today or another day. An inactive user's are not refreshed.
SyncStart(s, u, d) ==
    /\ users[u].active
    /\ Begins(s, "day", [op |-> "sync", at |-> "write", user |-> u, day |-> d,
                         read |-> d \in holidays])
    /\ DayStays /\ UNCHANGED <<faults, holidays, summaries>>

SyncWrite(s) ==
    /\ Handling(s, "sync", "write") /\ Ends(s)
    /\ Summarised(work[s].user, work[s].day, work[s].read)
    /\ DayStays /\ UNCHANGED <<faults, holidays>>

DayProceeds(s) ==
    \/ HolidayLists(s) \/ SyncWrite(s)
    \/ \E u \in Staff : HolidayReads(s, u) \/ HolidayWrites(s, u)

DayStep(s) ==
    \/ DayProceeds(s)
    \/ \E d \in Days : HolidayChanges(s, d)
    \/ \E u \in Staff : \/ HolidaySkips(s, u)
                        \/ \E d \in Days : SyncStart(s, u, d)
=============================================================================
