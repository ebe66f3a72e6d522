----------------------------- MODULE Calculator -----------------------------
(***************************************************************************)
(* The arithmetic of one working day, as AttendanceCalculator computes it  *)
(* for the stored summaries, and the parts the reports have copies of.     *)
(*                                                                         *)
(* An instant is a number of time units after the midnight that begins the *)
(* day, negative before it; Hour is the number of units in an hour, 60 in  *)
(* the code, where a unit is a minute. Markings are taken on whole units,  *)
(* so the rounding of seconds is left out, and days have 24 hours.         *)
(***************************************************************************)
EXTENDS Integers, FiniteSets, FiniteSetsExt, Journey

CONSTANTS
    Hour,           \* units of time in an hour
    NightStart,     \* company profile: the night begins, from midnight
    NightEnd,       \* ... and ends, the next day
    LateTolerance,  \* company profile
    Null            \* no such instant

DayLength == 24 * Hour

ASSUME CalculatorAssumption ==
    /\ Hour \in Nat \ {0}
    /\ NightStart \in 0..(DayLength - 1)   \* HH:MM
    /\ NightEnd \in 0..(DayLength - 1)
    /\ LateTolerance \in Nat
    /\ Null \notin Int

NonNeg(x) == IF x < 0 THEN 0 ELSE x
Least(x, y) == IF x < y THEN x ELSE y
Greatest(x, y) == IF x < y THEN y ELSE x

\* The valid markings of a day, by type: a rejected one does not count.
InDay == 0..(DayLength - 1)
Instant == InDay \cup {Null}
Markings == [Types -> Instant]
Marked(m) == {t \in Types : m[t] # Null}
NoMarkings == [t \in Types |-> Null]

\* The schedule of an employee on the weekday of this day: its times, Null
\* without a schedule; the lunch it plans; the workload set for that weekday,
\* Null when it sets none; whether the weekday is one of its work days.
Schedule == [entry : Instant, exit : Instant, lunch : Nat,
             custom : Nat \cup {Null}, works : BOOLEAN]

\* What the approved requests of a day come to: the units and the first
\* instant of its partial declarations (Null without one), whether another
\* absence takes the whole day, and whether external work was approved.
Cover == [absent : Nat, start : Instant, full : BOOLEAN, external : BOOLEAN]

-----------------------------------------------------------------------------
\* getTimeRangeMinutes.
RangeOf(start, end) == NonNeg(end - start)

\* applyPartialAbsenceCredit: a declaration credits the part of the required
\* time that was not worked, and what is left is required.
Credited(required, worked, absent) ==
    Least(NonNeg(absent), NonNeg(required - worked))

\* Mutant of RequiredAfterCredit: the declared time is credited as it is.
RequiredUncapped(required, worked, absent) == NonNeg(required - absent)

RequiredAfterCredit(required, worked, absent) ==
    NonNeg(required - Credited(required, worked, absent))

\* getScheduleSummary: the daily workload, 0 without times or when the
\* schedule ends before it begins.
Workload(s) ==
    IF s.entry = Null \/ s.exit = Null THEN 0
    ELSE NonNeg(s.exit - s.entry - s.lunch)

\* getLateMinutes.
Late(s, entry) ==
    IF s.entry = Null \/ entry = Null THEN 0
    ELSE NonNeg(entry - s.entry - LateTolerance)

\* Mutant of NightBetween: the night ends on the day it begins.
NightBeforeMidnight(from, to) ==
    IF from = Null \/ to = Null THEN 0
    ELSE NonNeg(Least(to, NightEnd) - Greatest(from, NightStart))

\* getNightMinutesBetween, for a journey between two markings of the day: the
\* loop looks at the night that begins on that day and ends on the next.
NightBetween(from, to) ==
    IF from = Null \/ to = Null THEN 0
    ELSE NonNeg(Least(to, NightEnd + DayLength) - Greatest(from, NightStart))

-----------------------------------------------------------------------------
\* A declaration ends the day of an employee without exit, when it begins
\* after the last marking.
JustifiedExit(m, c) ==
    IF /\ m["exit"] = Null /\ c.start # Null
       /\ \A t \in Marked(m) : m[t] <= c.start
    THEN c.start ELSE Null

\* The exit that counts: the marking, else the declaration.
Out(m, c) == IF m["exit"] # Null THEN m["exit"] ELSE JustifiedExit(m, c)

LunchTaken(m) == NonNeg(m["lunch_end"] - m["lunch_start"])

\* getWorkedMinutesForDay: nothing is worked before the exit, and only a
\* lunch that was marked is deducted.
CalculatedWork(m, c) ==
    IF m["entry"] = Null \/ Out(m, c) = Null THEN 0
    ELSE NonNeg(Out(m, c) - m["entry"]
                - IF {"lunch_start", "lunch_end"} \subseteq Marked(m)
                    THEN LunchTaken(m) ELSE 0)

Complete(m) == {"entry", "exit"} \subseteq Marked(m)

\* shouldRequireWorkday.
RequiresWorkday(s, c, paidHoliday, employed) ==
    /\ employed
    /\ Workload(s) > 0 /\ s.works
    /\ ~paidHoliday
    /\ ~c.full
=============================================================================
