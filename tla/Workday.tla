------------------------------ MODULE Workday ------------------------------
(***************************************************************************)
(* One employee's day, from before it begins until long after it: the      *)
(* markings and decisions that change it, the summary stored at each       *)
(* change (syncDailySummary), and the two computations the reports make of *)
(* it whenever they are asked, the row of the time bank                    *)
(* (buildAttendanceMetrics) and the row of the daily sheet                 *)
(* (buildDailyTimeline). The reports have their own copy of the            *)
(* calculator, which differs: it counts a journey in progress, plans a     *)
(* lunch nobody marked, and knows night schedules and custom workloads.    *)
(*                                                                         *)
(* Each handler is one step here; how handlers overlap is in TimeClock.    *)
(***************************************************************************)
EXTENDS Calculator

CONSTANTS
    Moments,      \* the instants at which something is marked or decided
    Plans,        \* the schedules and days of the calendar to consider
    Covers,       \* what the approved requests of the day may come to
    Adjusted      \* <<type, instant>>: the markings a request may set

\* The employee's schedule, the holidays stored with the date of the day and
\* with that of the next day, whether the server's clock is west of UTC, and
\* whether the day lies between hiring and a suspension.
Holiday == {"none", "paid", "unpaid"}
Plan == [schedule : Schedule, holiday : Holiday, next : Holiday,
         west : BOOLEAN, employed : BOOLEAN]

\* syncDailySummary asks for the holiday with the date of the day.
PaidHoliday(p) == p.holiday = "paid"

\* The reports read the date of a holiday as an instant, its midnight in UTC,
\* and take the local day of that instant: west of UTC the day before.
ReadHoliday(p) == IF p.west THEN p.next ELSE p.holiday

ASSUME WorkdayAssumption ==
    /\ Moments \subseteq Int
    /\ Plans \subseteq Plan
    /\ Covers \subseteq Cover
    /\ Adjusted \subseteq Types \X InDay

VARIABLES
    now,       \* the clock
    marks,     \* the valid markings of the day
    rejected,  \* the types of which a marking was rejected
    plan,
    cover,
    summary    \* the row of attendance_summaries, Null before the first

vars == <<now, marks, rejected, plan, cover, summary>>

SummaryRow == [worked : Nat, required : Nat, late : Nat, balance : Int,
               night : Nat, complete : BOOLEAN]

Future(at) == at < 0
Over(at) == at >= DayLength
IsToday(at) == ~Future(at) /\ ~Over(at)

\* What approved requests come to, as syncDailySummary and the reports read
\* them: a declaration with both its times covers a part of the day, any other
\* absence all of it.
Requested == [kind : {"declaration", "absence", "external_work"},
              start : Instant, end : Instant]

CoverOf(requests) ==
    LET partial == {r \in requests : /\ r.kind = "declaration"
                                     /\ r.start # Null /\ r.end # Null}
    IN  [absent   |-> MapThenSumSet(LAMBDA r : RangeOf(r.start, r.end),
                                    partial),
         start    |-> IF partial = {} THEN Null
                      ELSE Min({r.start : r \in partial}),
         full     |-> \E r \in requests \ partial : r.kind # "external_work",
         external |-> \E r \in requests : r.kind = "external_work"]

NoCover == [absent |-> 0, start |-> Null, full |-> FALSE, external |-> FALSE]

-----------------------------------------------------------------------------
(***************************************************************************)
(* syncDailySummary: the row it stores at an instant.                      *)
(***************************************************************************)
\* Outside of employment no marking counts.
Counted(m, p) == IF p.employed THEN m ELSE NoMarkings

SummaryExpected(p, c) ==
    IF RequiresWorkday(p.schedule, c, PaidHoliday(p), p.employed)
    THEN Workload(p.schedule) ELSE 0

\* Approved external work counts as a whole day, once the day has come.
SummaryWorked(m, p, c, at) ==
    IF c.external /\ ~Future(at)
    THEN Greatest(CalculatedWork(m, c), SummaryExpected(p, c))
    ELSE CalculatedWork(m, c)

\* What is due: nothing for a day to come, and no more than was worked for
\* a day that has not ended.
SummaryDue(m, p, c, at) ==
    IF Future(at) THEN 0
    ELSE IF IsToday(at) /\ ~Complete(m) /\ ~c.external
    THEN Least(SummaryWorked(m, p, c, at), SummaryExpected(p, c))
    ELSE SummaryExpected(p, c)

SummaryRequired(m, p, c, at) ==
    IF c.full THEN SummaryDue(m, p, c, at)
    ELSE RequiredAfterCredit(SummaryDue(m, p, c, at),
                             SummaryWorked(m, p, c, at), c.absent)

SyncDailySummary(all, p, c, at) ==
    LET m == Counted(all, p) IN
    [worked   |-> SummaryWorked(m, p, c, at),
     required |-> SummaryRequired(m, p, c, at),
     late     |-> Late(p.schedule, m["entry"]),
     balance  |-> SummaryWorked(m, p, c, at) - SummaryRequired(m, p, c, at),
     night    |-> IF Complete(m) THEN NightBetween(m["entry"], m["exit"])
                                 ELSE 0,
     complete |-> Complete(m) \/ (c.external /\ ~Future(at))]

-----------------------------------------------------------------------------
(***************************************************************************)
(* The reports' copy of the calculator.                                    *)
(***************************************************************************)
\* Mutant of InProgress: a journey without exit never ends.
InProgressForEver(m, at) == m["entry"] # Null

\* A journey is in progress for 16 hours.
InProgress(m, at) == m["entry"] # Null /\ at - m["entry"] < 16 * Hour

\* Where the report ends the day: at the exit or the declaration, else now
\* while in progress, else at the entry.
ReportOut(m, c, at) ==
    IF Out(m, c) # Null THEN Out(m, c)
    ELSE IF InProgress(m, at) THEN at ELSE m["entry"]

\* The lunch it deducts: the one marked; the one begun, up to now while in
\* progress and as planned afterwards; without a marking, the one planned,
\* on days of more than six hours.
ReportLunch(m, s, c, at) ==
    IF m["lunch_start"] # Null
    THEN IF m["lunch_end"] # Null THEN LunchTaken(m)
         ELSE IF InProgress(m, at) THEN NonNeg(at - m["lunch_start"])
         ELSE s.lunch
    ELSE IF ReportOut(m, c, at) - m["entry"] > 6 * Hour THEN s.lunch
    ELSE 0

ReportedWork(m, s, c, at) ==
    IF m["entry"] = Null THEN 0
    ELSE NonNeg(ReportOut(m, c, at) - m["entry"] - ReportLunch(m, s, c, at))

\* getScheduleSummary of the reports: a schedule may end the next day.
LeavesAt(s) == IF s.exit < s.entry THEN s.exit + DayLength ELSE s.exit

ReportWorkload(s) ==
    IF s.entry = Null \/ s.exit = Null THEN 0
    ELSE NonNeg(LeavesAt(s) - s.entry - s.lunch)

\* shouldRequireWorkday of the reports: a workload set for the weekday
\* replaces the schedule's, work days included.
ReportExpected(p, c) ==
    LET s == p.schedule IN
    IF ReadHoliday(p) = "paid" \/ c.full THEN 0
    ELSE IF s.custom # Null THEN s.custom
    ELSE IF s.works THEN ReportWorkload(s) ELSE 0

ReportLate(m, p, c) == IF c.external THEN 0 ELSE Late(p.schedule, m["entry"])

ReportFinalWork(m, p, c, at) ==
    IF c.external /\ ~Future(at)
    THEN Greatest(ReportedWork(m, p.schedule, c, at), ReportExpected(p, c))
    ELSE ReportedWork(m, p.schedule, c, at)

\* What the time bank debits: before the exit of today, what was worked and
\* the delay of the entry.
ReportDue(m, p, c, at) ==
    IF Future(at) THEN 0
    ELSE IF IsToday(at) /\ ~c.external /\ ~Complete(m)
    THEN Least(ReportedWork(m, p.schedule, c, at) + ReportLate(m, p, c),
               ReportExpected(p, c))
    ELSE ReportExpected(p, c)

EmptyRow == [worked |-> 0, expected |-> 0, required |-> 0, balance |-> 0]

BankRow(worked, expected, required) ==
    [worked |-> worked, expected |-> expected, required |-> required,
     balance |-> worked - required]

\* The day in buildAttendanceMetrics.
TimeBank(m, p, c, at) ==
    IF ~p.employed THEN EmptyRow
    ELSE BankRow(ReportFinalWork(m, p, c, at), ReportExpected(p, c),
                 RequiredAfterCredit(ReportDue(m, p, c, at),
                                     ReportFinalWork(m, p, c, at), c.absent))

\* ... its night work.
ReportNight(m, p) ==
    IF p.employed /\ Complete(m) THEN NightBetween(m["entry"], m["exit"])
                                 ELSE 0

-----------------------------------------------------------------------------
(***************************************************************************)
(* buildDailyTimeline, the same day on the daily sheet.                    *)
(***************************************************************************)
\* A day without a valid marking: nothing is due before it is over.
EmptySheetDue(p, c, at) ==
    IF c.external /\ ~Future(at) THEN ReportExpected(p, c)
    ELSE IF Over(at) THEN ReportExpected(p, c) ELSE 0

\* Mutant of SheetDue: what is due today leaves the delay out.
SheetDueWithoutDelay(m, p, c, at) ==
    IF c.external /\ ~Future(at) THEN ReportExpected(p, c)
    ELSE IF Future(at) THEN 0
    ELSE IF IsToday(at) /\ ~Complete(m)
    THEN Least(ReportedWork(m, p.schedule, c, at), ReportExpected(p, c))
    ELSE ReportExpected(p, c)

SheetDue(m, p, c, at) ==
    IF c.external /\ ~Future(at) THEN ReportExpected(p, c)
    ELSE IF Future(at) THEN 0
    ELSE IF IsToday(at) /\ ~Complete(m)
    THEN Least(ReportedWork(m, p.schedule, c, at) + ReportLate(m, p, c),
               ReportExpected(p, c))
    ELSE ReportExpected(p, c)

SheetWork(m, p, c, at) ==
    IF Marked(m) = {}
    THEN IF c.external /\ ~Future(at) THEN ReportExpected(p, c) ELSE 0
    ELSE ReportFinalWork(m, p, c, at)

DailySheet(m, p, c, at) ==
    LET due == IF Marked(m) = {} THEN EmptySheetDue(p, c, at)
                                 ELSE SheetDue(m, p, c, at)
    IN  IF ~p.employed THEN EmptyRow
        ELSE BankRow(SheetWork(m, p, c, at), ReportExpected(p, c),
                     RequiredAfterCredit(due, SheetWork(m, p, c, at),
                                         c.absent))

-----------------------------------------------------------------------------
Init ==
    /\ now \in Moments /\ \A t \in Moments : now <= t
    /\ marks = NoMarkings
    /\ rejected = {}
    /\ plan \in Plans
    /\ cover = NoCover
    /\ summary = Null

\* The clock reaches the next moment.
Tick ==
    /\ now' \in Moments /\ now < now'
    /\ \A t \in Moments : t <= now \/ now' <= t
    /\ UNCHANGED <<marks, rejected, plan, cover, summary>>

\* Every handler that changes the day ends with the refresh of its summary.
Refresh ==
    /\ summary' = SyncDailySummary(marks', plan, cover', now)
    /\ UNCHANGED <<now, plan>>

\* A marking is accepted on its day.
Mark(type) ==
    /\ IsToday(now)
    /\ \E want \in {"auto", type} : Accepts(want, Marked(marks), type)
    /\ marks' = [marks EXCEPT ![type] = now]
    /\ UNCHANGED <<rejected, cover>>
    /\ Refresh

\* Mutant of Reject: the summary is not refreshed.
RejectQuietly(type) ==
    /\ marks[type] # Null
    /\ marks' = [marks EXCEPT ![type] = Null]
    /\ rejected' = rejected \cup {type}
    /\ UNCHANGED <<now, plan, cover, summary>>

\* A manager rejects a marking.
Reject(type) ==
    /\ marks[type] # Null
    /\ marks' = [marks EXCEPT ![type] = Null]
    /\ rejected' = rejected \cup {type}
    /\ UNCHANGED cover
    /\ Refresh

\* A manager approves an adjustment of a marking, or one that is missing,
\* to an instant that has passed. A rejected marking that an adjustment or a
\* second review brings back is left out.
Adjust(type, time) ==
    /\ type \notin rejected /\ time <= now
    /\ marks' = [marks EXCEPT ![type] = time]
    /\ UNCHANGED <<rejected, cover>>
    /\ Refresh

\* A request about the day is approved, or a decision on one is changed or
\* the request removed, which may leave any other cover.
Decide(c) ==
    /\ c # cover
    /\ cover' = c
    /\ UNCHANGED <<marks, rejected>>
    /\ Refresh

Next ==
    \/ Tick
    \/ \E t \in Types : Mark(t) \/ Reject(t)
    \/ \E a \in Adjusted : Adjust(a[1], a[2])
    \/ \E c \in Covers : Decide(c)

Spec == Init /\ [][Next]_vars

-----------------------------------------------------------------------------
TypeOK ==
    /\ now \in Int
    /\ marks \in Markings
    /\ rejected \in SUBSET Types
    /\ plan \in Plan
    /\ cover \in Cover
    /\ summary \in SummaryRow \cup {Null}

Bank == TimeBank(marks, plan, cover, now)

\* The time bank and the daily sheet, computed by two functions, show the
\* same numbers for the same day at every moment.
SheetMatchesBank == DailySheet(marks, plan, cover, now) = Bank

\* A schedule on which the calculator and the reports' copy of it are meant
\* to agree: it ends on the day it begins and sets no workload of its own.
PlainSchedule ==
    /\ plan.schedule.custom = Null
    /\ plan.schedule.entry # Null /\ plan.schedule.exit # Null =>
         plan.schedule.entry <= plan.schedule.exit

\* A day with its exit, and the lunch marked whole, or not at all on a day
\* for which the reports plan none.
ClosedDay ==
    /\ Complete(marks)
    /\ \/ {"lunch_start", "lunch_end"} \subseteq Marked(marks)
       \/ /\ marks["lunch_start"] = Null
          /\ marks["exit"] - marks["entry"] <= 6 * Hour

\* The summary and the reports take the day for a paid holiday alike: always
\* on a server in UTC or east of it, and west of it unless one of the day and
\* the next is a paid holiday and the other is not.
PaidAlike == PaidHoliday(plan) <=> ReadHoliday(plan) = "paid"

\* The summary a handler stored, at whatever moment it ran, and what the
\* reports compute much later of the same markings agree on a closed day:
\* its night always, its work unless the day was spent outside, and work,
\* debit and balance when both take the day for a paid holiday or neither.
SummaryMatchesBank ==
    (summary # Null /\ plan.employed /\ PlainSchedule /\ ClosedDay) =>
       /\ summary.night = ReportNight(marks, plan)
       /\ PaidAlike \/ ~cover.external => summary.worked = Bank.worked
       /\ PaidAlike => /\ summary.required = Bank.required
                       /\ summary.balance = Bank.balance

\* Nobody owes hours in advance: while today has no exit, the time bank
\* debits at most the delay of the entry, and the stored summary nothing.
NothingDueAhead ==
    (IsToday(now) /\ ~Complete(marks) /\ ~cover.external) =>
       Bank.balance >= -ReportLate(marks, plan, cover)

\* A declaration makes up for time that was not worked and never becomes
\* overtime: a positive balance comes from the work alone.
NoOvertimeByCredit ==
    plan.employed =>
       Bank.balance <=
         NonNeg(Bank.worked - ReportDue(marks, plan, cover, now))

\* The night work of a complete day is the time between entry and exit that
\* lies in the night, counted unit by unit, when the entry is not before dawn
\* and the night wraps midnight.
InNight(t) == t >= NightStart \/ t < NightEnd

NightCounted ==
    (/\ NightEnd <= NightStart
     /\ plan.employed /\ Complete(marks) /\ marks["entry"] >= NightEnd) =>
       ReportNight(marks, plan) =
         Cardinality({t \in marks["entry"]..(marks["exit"] - 1) : InNight(t)})

\* A day is settled when it is over and 16 hours have passed since its entry.
Settled ==
    Over(now) /\ (marks["entry"] # Null => now - marks["entry"] >= 16 * Hour)

\* Once a day is settled, time alone does not change what the time bank says
\* of it.
SettledDayStands == [][Settled /\ Tick => Bank' = Bank]_vars
=============================================================================
