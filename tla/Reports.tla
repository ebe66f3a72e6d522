------------------------------- MODULE Reports -------------------------------
(***************************************************************************)
(* What the reports tell of one employee, asked at any moment: the totals  *)
(* of a period and the time bank since hiring, the attendance report with  *)
(* its view of today, the daily sheet, and the board of the day with those *)
(* who are late, missing or absent. Each is an endpoint of its own that    *)
(* reads the same rows with a code of its own.                             *)
(*                                                                         *)
(* Days are numbered from the day of Workday, day 0; the days around it    *)
(* have the same schedule and no marking, and only day 1 may be a holiday. *)
(***************************************************************************)
EXTENDS Workday

CONSTANTS
    Hires,      \* the days of hiring to consider, Null when not registered
    LastDays    \* the last days of the periods asked for

ASSUME ReportsAssumption ==
    /\ Hires \subseteq {d \in Int : d <= 0} \cup {Null}
    /\ LastDays \subseteq Int

-----------------------------------------------------------------------------
Today(at) == at \div DayLength

\* An instant as day d sees it, from its own midnight.
On(d, at) == at - d * DayLength

\* getPeriodBounds: up to today and thirty days long unless said otherwise.
Period(first, last, at) ==
    LET end == IF last = Null THEN Today(at) ELSE last
    IN  [first |-> IF first = Null THEN end - 29 ELSE first, last |-> end]

\* isDateBeforeHire, isDateOutsideEmployment: a suspension that leaves day 0
\* out leaves the days after it out.
Employed(d, hire) ==
    /\ hire = Null \/ hire <= d
    /\ d >= 0 => plan.employed

\* The holiday stored with the date of day d.
StoredOn(d) == IF d = 0 THEN plan.holiday
               ELSE IF d = 1 THEN plan.next ELSE "none"

\* What there is to load of a day: its valid markings, whether it has a
\* record of any status, what the calendar and the approved requests say.
DayOf(d, hire) ==
    IF d = 0
    THEN [marks |-> marks, recorded |-> Marked(marks) \cup rejected # {},
          plan |-> plan, cover |-> cover]
    ELSE [marks |-> NoMarkings, recorded |-> FALSE,
          plan |-> [plan EXCEPT !.holiday = StoredOn(d),
                                !.next = StoredOn(d + 1),
                                !.employed = Employed(d, hire)],
          cover |-> NoCover]

\* getReportingContext: the holidays and the requests with a date of the
\* period asked for, of which those of day d.
Context(period, d, hire) ==
    LET day == DayOf(d, hire)
        known(e) == e \in period.first..period.last
    IN  [day EXCEPT
           !.plan.holiday = IF known(d) THEN @ ELSE "none",
           !.plan.next = IF known(d + 1) THEN @ ELSE "none",
           !.cover = IF known(d) THEN @ ELSE NoCover]

\* Today, as a report of the period asked for reads it.
TodayIn(period, at) == Context(period, Today(at), Null)

-----------------------------------------------------------------------------
(***************************************************************************)
(* buildAttendanceMetrics: the row of a day and the totals of a period.    *)
(***************************************************************************)
One(b) == IF b THEN 1 ELSE 0

\* Approved external work counts once the day has come.
Outside(day, at) == day.cover.external /\ ~Future(at)

\* A day without any record on which something was due.
AbsentOn(day, required) ==
    /\ ~day.recorded
    /\ required > 0
    /\ ~day.cover.external
    /\ ReadHoliday(day.plan) # "unpaid"

DailyBalance(day, at) ==
    LET bank == TimeBank(day.marks, day.plan, day.cover, at)
        employed == day.plan.employed
        done == Complete(day.marks) \/ Outside(day, at)
    IN  [worked    |-> bank.worked,
         required  |-> bank.required,
         expected  |-> bank.expected,
         balance   |-> bank.balance,
         overtime  |-> NonNeg(bank.balance),
         deficit   |-> NonNeg(-bank.balance),
         late      |-> IF employed THEN ReportLate(day.marks, day.plan,
                                                   day.cover) ELSE 0,
         night     |-> ReportNight(day.marks, day.plan),
         onHoliday |-> IF ReadHoliday(day.plan) = "none" THEN 0
                      ELSE bank.worked,
         complete  |-> One(employed /\ done),
         partial   |-> One(employed /\ day.recorded /\ ~done),
         absent    |-> One(employed /\ AbsentOn(day, bank.required)),
         justified |-> One(employed /\ (day.cover.full
                                         \/ day.cover.absent > 0))]

RowOf(period, d, hire, at) == DailyBalance(Context(period, d, hire), On(d, at))

\* createEmptyAttendanceMetrics.
EmptyMetrics ==
    [f \in {"worked", "required", "expected", "balance", "overtime", "deficit",
            "late", "night", "onHoliday", "complete", "partial", "absent",
            "justified"} |-> 0]

Plus(total, row) == [f \in DOMAIN total |-> total[f] + row[f]]

\* The totals of the days of a period, added one after the other.
Totals(period, hire, at) ==
    LET total[n \in Nat] ==
          IF n = 0 THEN EmptyMetrics
          ELSE Plus(total[n - 1], RowOf(period, period.first + n - 1, hire, at))
    IN  total

Metrics(period, hire, at) ==
    Totals(period, hire, at)[NonNeg(period.last - period.first + 1)]

\* getCumulativeBankHours: since hiring, or the first record, or today, and
\* never from a day to come.
CumulativeStart(hire, at) ==
    Least(Today(at),
          IF hire # Null THEN hire
          ELSE IF DayOf(0, hire).recorded THEN 0 ELSE Today(at))

CumulativeBankHours(hire, at) ==
    Metrics(Period(CumulativeStart(hire, at), Today(at), at), hire, at)

-----------------------------------------------------------------------------
(***************************************************************************)
(* getAttendanceReport and getDailySheetReport.                            *)
(***************************************************************************)
Sheet(day, at) == DailySheet(day.marks, day.plan, day.cover, at)

\* dailyView, of today: buildDailyTimeline is not told of any holiday.
DailyView(period, at) ==
    Sheet([TodayIn(period, at) EXCEPT !.plan.holiday = "none",
                                      !.plan.next = "none"],
          On(Today(at), at))

\* The summary above the daily sheet of one day. It knows of no delay that
\* external work would excuse, and takes an exit alone for a complete day.
SheetSummary(day, at) ==
    LET m == Counted(day.marks, day.plan) IN
    [balance   |-> Sheet(day, at).balance,
     late      |-> Late(day.plan.schedule, m["entry"]),
     night     |-> IF Complete(m) THEN NightBetween(m["entry"], m["exit"])
                   ELSE 0,
     onHoliday |-> IF ReadHoliday(day.plan) = "none" THEN 0
                   ELSE ReportedWork(m, day.plan.schedule, day.cover, at),
     complete  |-> One(\/ m["exit"] # Null
                       \/ day.plan.employed /\ Outside(day, at)),
     justified |-> One(day.plan.employed /\ (day.cover.full
                                             \/ day.cover.absent > 0))]

-----------------------------------------------------------------------------
(***************************************************************************)
(* getHrSummary: the board of the day. It looks at the records that were   *)
(* not rejected and asks neither for the hiring nor for a suspension.      *)
(***************************************************************************)
\* Whom a late entry is measured against without a schedule.
EntryDue(s) == IF s.entry = Null THEN 9 * Hour ELSE s.entry

\* lateArrivals.
ArrivedLate(day) ==
    /\ day.marks["entry"] # Null
    /\ day.marks["entry"] > EntryDue(day.plan.schedule) + LateTolerance

Scheduled(day) ==
    /\ ReportWorkload(day.plan.schedule) > 0
    /\ ReportExpected(day.plan, day.cover) > 0

\* Mutant of MissingClockIn: external work does not excuse.
MissingClockInAnywhere(day, at) ==
    /\ Scheduled(day)
    /\ day.marks["entry"] = Null
    /\ at > EntryDue(day.plan.schedule) + LateTolerance

\* missingClockIns: who has not clocked in although the entry is due.
MissingClockIn(day, at) ==
    /\ Scheduled(day)
    /\ ~day.cover.external
    /\ day.marks["entry"] = Null
    /\ at > EntryDue(day.plan.schedule) + LateTolerance

\* todayWorkforce, by what the newest request about the day asks for: any
\* request but an adjustment shows its status, whatever was decided on it.
\* Its date is read as a holiday's is, so that west of UTC a request about
\* tomorrow shows today.
Workforce(day, newest) ==
    IF newest = "absence" THEN "statuses"
    ELSE IF Marked(day.marks) # {} THEN "present"
    ELSE IF Scheduled(day) THEN "absent" ELSE "unlisted"

-----------------------------------------------------------------------------
\* The days to come add nothing to what was worked or is owed: a period that
\* reaches beyond today, as a month does until it ends, has the totals of the
\* time bank since hiring, but for what is expected and what is justified.
\* West of UTC a holiday tomorrow is read as one of today by a period that
\* holds it and not by the time bank: such a day is left out.
Incurred(totals) ==
    [f \in DOMAIN totals \ {"expected", "justified"} |-> totals[f]]

NothingOwedAhead ==
    \A hire \in Hires, last \in LastDays :
      (/\ Today(now) <= last
       /\ plan.west => StoredOn(Today(now) + 1) = "none") =>
        Incurred(Metrics(Period(CumulativeStart(hire, now), last, now),
                         hire, now))
          = Incurred(CumulativeBankHours(hire, now))

\* In each of these row is the row of day 0 in the time bank as of now, of the
\* days from day 0 to today.
SoFar == Period(0, Greatest(0, Today(now)), now)


\* Off paid holidays, what the attendance report shows of today is what the
\* time bank counts of it, when the period asked for ends today.
TodayShownAlike(row) ==
    LET asked == Period(Null, Null, now)
        view == DailyView(asked, now)
    IN  IsToday(now) /\ ReadHoliday(TodayIn(asked, now).plan) # "paid" =>
          \A f \in DOMAIN view : view[f] = row[f]

\* The summary of the daily sheet says of an employee's day what the time
\* bank says, unless they were outside or the entry was taken back. The sheet
\* reads the holidays with the date of its one day, so that west of UTC it
\* sees none, and the time bank, once the day is over, that of the next day:
\* a day before a holiday is left out there.
SheetTellsAlike(row) ==
    LET sheet == SheetSummary(Context(Period(0, 0, now), 0, Null), now)
    IN  (/\ ~cover.external /\ marks["entry"] # Null
         /\ plan.west => plan.next = "none") =>
          \A f \in DOMAIN sheet : sheet[f] = row[f]

\* Whoever the board calls to clock in has something to do that day and
\* nothing to show for it, in the time bank and on the board itself.
CalledMayOwe(row) ==
    LET day == TodayIn(Period(Null, Null, now), now)
    IN  (IsToday(now) /\ plan.employed /\ MissingClockIn(day, now)) =>
          /\ row.expected > 0
          /\ row.worked = 0 /\ row.late = 0 /\ row.complete = 0
          /\ Workforce(day, "none") # "unlisted"

\* No absence comes as a surprise: a day without any record that is counted
\* as an absence is over, and at its last moment the board would have called,
\* if the schedule has its times and its entry is due by then.
AbsentWasCalled(row) ==
    LET s == plan.schedule
        evening == DayLength - 1
    IN  (/\ row.absent = 1
         /\ ReportWorkload(s) > 0
         /\ EntryDue(s) + LateTolerance < evening) =>
           /\ Over(now)
           /\ MissingClockIn(TodayIn(Period(Null, Null, evening), evening),
                             evening)

\* A late arrival on the board is a delay in the time bank, when the employee
\* has a schedule and did not work outside.
LateIsDelayed(row) ==
    (plan.employed /\ plan.schedule.entry # Null /\ ~cover.external) =>
      (ArrivedLate(DayOf(0, Null)) <=> row.late > 0)

\* A day of presence is a complete or an incomplete day of the totals.
PresenceIsJudged(row) ==
    (plan.employed /\ Marked(marks) # {}) =>
      row.complete + row.partial = 1

\* The reports, asked at one moment about one employee, tell one story.
ReportsAgree ==
    /\ NothingOwedAhead
    /\ LET row == RowOf(SoFar, 0, Null, now) IN
         /\ TodayShownAlike(row)
         /\ SheetTellsAlike(row)
         /\ CalledMayOwe(row)
         /\ AbsentWasCalled(row)
         /\ LateIsDelayed(row)
         /\ PresenceIsJudged(row)
=============================================================================
